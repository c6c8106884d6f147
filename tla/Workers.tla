------------------------------ MODULE Workers ------------------------------
(***************************************************************************)
(* The judge workers, their heartbeat tasks and the sweeper                *)
(* (crates/server/src/worker.rs) over the submissions table, inside a      *)
(* process that can stop at any point and start again (main.rs).           *)
(*                                                                         *)
(* A worker claims a submission, judges it while a heartbeat task writes   *)
(* its progress, waits for the heartbeat to drain and records the outcome. *)
(* Every store call is one step, and between two of them anything else may *)
(* happen: another worker, the sweeper, an expired lease, a crash.         *)
(*                                                                         *)
(* All submissions are for one problem in one language; catalog is what    *)
(* the running process loaded for them at start-up.                        *)
(***************************************************************************)
EXTENDS Store, Sequences

INSTANCE JudgeCall  \* NextProgress and Outcomes: what judge() sends and returns

CONSTANTS
  Workers,
  Catalogs,    \* the problem and language a start-up may find
  FaultKinds,  \* which faults happen: "crash", "hang", "store" (a failing call)
  MaxFaults    \* bound on their number

ASSUME CatalogsType ==
  Catalogs \subseteq [version  : Versions \cup {NULL},
                      language : {"compiled", "interpreted", NULL}]
ASSUME MaxFaultsIsNat == MaxFaults \in Nat
ASSUME NullIsNoJob == NULL \notin [id : Ids, attempt : Nat]

VARIABLES
  pc,        \* where a worker is in worker_loop and handle_submission
  job,       \* the claimed Job, [id, attempt]
  at,        \* last Progress sent: Nothing, Compiling, or tests done
  chan,      \* the unbounded channel to the heartbeat task
  hb,        \* where the heartbeat task is
  outcome,   \* what judge() returned
  up,        \* the process is running
  catalog,
  faults

local == <<pc, job, at, chan, hb, outcome>>
vars  == <<table, local, up, catalog, faults>>

PCs == {"idle", "start", "judge", "hung", "drain", "record", "get", "publish"}
HBs == {"none", "recv", "get", "publish"}

TypeOK ==
  /\ TableTypeOK
  /\ pc      \in [Workers -> PCs]
  /\ job     \in [Workers -> [id : Ids, attempt : Nat] \cup {NULL}]
  /\ at      \in [Workers -> Nothing .. Tests]
  /\ chan    \in [Workers -> Seq(Compiling .. Tests)]
  /\ hb      \in [Workers -> HBs]
  /\ outcome \in [Workers -> {"AC", "WA", "CE", "sandbox", "no language", NULL}]
  /\ up      \in BOOLEAN
  /\ catalog \in Catalogs
  /\ faults  \in 0 .. MaxFaults

NoJobs ==
  /\ pc      = [w \in Workers |-> "idle"]
  /\ job     = [w \in Workers |-> NULL]
  /\ at      = [w \in Workers |-> Nothing]
  /\ chan    = [w \in Workers |-> <<>>]
  /\ hb      = [w \in Workers |-> "none"]
  /\ outcome = [w \in Workers |-> NULL]

Init ==
  /\ TableInit
  /\ NoJobs
  /\ up = TRUE
  /\ catalog \in Catalogs
  /\ faults = 0

Fault(kind) ==
  /\ kind \in FaultKinds /\ faults < MaxFaults
  /\ faults' = faults + 1

Goto(w, there) == pc' = [pc EXCEPT ![w] = there]

(* handle_submission returns: its locals are gone, worker_loop goes round.  *)
Return(w) ==
  /\ Goto(w, "idle")
  /\ job'     = [job EXCEPT ![w] = NULL]
  /\ at'      = [at EXCEPT ![w] = Nothing]
  /\ outcome' = [outcome EXCEPT ![w] = NULL]
  /\ UNCHANGED <<chan, hb>>

(* A fenced write that matches no row leaves the table alone.               *)
IfOwner(owns, write) == IF owns THEN write ELSE UNCHANGED table

-----------------------------------------------------------------------------
(* create_submission: unknown problems and languages are refused.           *)
CreateSubmission ==
  /\ up
  /\ catalog.version # NULL /\ catalog.language # NULL
  /\ \E s \in Ids, k \in Keys \cup {NULL} : Insert(s, k, catalog.version)
  /\ UNCHANGED <<local, up, catalog, faults>>

-----------------------------------------------------------------------------
(* worker_loop takes a submission.                                          *)
Claim(w) ==
  /\ up /\ pc[w] = "idle"
  /\ \E s \in Ids :
        /\ ClaimNext(s)
        /\ job' = [job EXCEPT ![w] = [id |-> s, attempt |-> attempt[s] + 1]]
  /\ Goto(w, "start")
  /\ UNCHANGED <<at, chan, hb, outcome, up, catalog, faults>>

(* handle_submission, problem gone: fail_permanently, or its error, and an  *)
(* early return.                                                            *)
ProblemGone(w) ==
  /\ pc[w] = "start" /\ catalog.version = NULL
  /\ LET s == job[w].id  a == job[w].attempt
     IN  \/ /\ IfOwner(MayWrite(s, a), FailAttempt(s, a, 0, "no problem"))
            /\ UNCHANGED faults
         \/ Fault("store") /\ UNCHANGED table
  /\ Return(w)
  /\ UNCHANGED <<up, catalog>>

(* ... otherwise the heartbeat task is spawned and judge() called.          *)
Start(w) ==
  /\ pc[w] = "start" /\ catalog.version # NULL
  /\ Goto(w, "judge")
  /\ hb' = [hb EXCEPT ![w] = "recv"]
  /\ UNCHANGED <<table, job, at, chan, outcome, up, catalog, faults>>

(* judge() sends its next message.                                          *)
JudgeNotify(w) ==
  /\ pc[w] = "judge" /\ catalog.language # NULL
  /\ at[w] < Tests
  /\ at'   = [at EXCEPT ![w] = NextProgress(catalog.language, @)]
  /\ chan' = [chan EXCEPT ![w] = Append(@, NextProgress(catalog.language, at[w]))]
  /\ UNCHANGED <<table, pc, job, hb, outcome, up, catalog, faults>>

(* judge() returns and tx is dropped; heartbeat.await comes next.           *)
JudgeReturn(w) ==
  /\ pc[w] = "judge"
  /\ \E o \in Outcomes(catalog.language, at[w]) : outcome' = [outcome EXCEPT ![w] = o]
  /\ Goto(w, "drain")
  /\ UNCHANGED <<table, job, at, chan, hb, up, catalog, faults>>

(* isolate --init, --cleanup and a box that is never freed have no timeout. *)
Hang(w) ==
  /\ pc[w] = "judge" /\ catalog.language # NULL
  /\ Fault("hang")
  /\ Goto(w, "hung")
  /\ UNCHANGED <<table, job, at, chan, hb, outcome, up, catalog>>

(* The heartbeat task: recv, progress, and after an applied write get and   *)
(* publish.  Failing store calls are dropped.                               *)
Heartbeat(w) ==
  /\ hb[w] = "recv" /\ chan[w] # <<>>
  /\ LET s == job[w].id  a == job[w].attempt  p == Head(chan[w])
     IN  \/ /\ IfOwner(HoldsLease(s, a),
                       IF p = Compiling THEN Progress(s, a, "COMPILING", 0)
                                        ELSE Progress(s, a, "RUNNING", p))
            /\ hb' = [hb EXCEPT ![w] = IF HoldsLease(s, a) THEN "get" ELSE "recv"]
            /\ UNCHANGED faults
         \/ Fault("store") /\ UNCHANGED <<table, hb>>
  /\ chan' = [chan EXCEPT ![w] = Tail(@)]
  /\ UNCHANGED <<pc, job, at, outcome, up, catalog>>

HeartbeatGet(w) ==
  /\ hb[w] = "get"
  /\ \/ hb' = [hb EXCEPT ![w] = "publish"] /\ UNCHANGED faults
     \/ hb' = [hb EXCEPT ![w] = "recv"] /\ Fault("store")
  /\ UNCHANGED <<table, pc, job, at, chan, outcome, up, catalog>>

HeartbeatPublish(w) ==
  /\ hb[w] = "publish"
  /\ hb' = [hb EXCEPT ![w] = "recv"]
  /\ UNCHANGED <<table, pc, job, at, chan, outcome, up, catalog, faults>>

(* The channel is closed and empty: the task ends and heartbeat.await       *)
(* returns.                                                                 *)
Drained(w) ==
  /\ pc[w] = "drain" /\ hb[w] = "recv" /\ chan[w] = <<>>
  /\ Goto(w, "record")
  /\ hb' = [hb EXCEPT ![w] = "none"]
  /\ UNCHANGED <<table, job, at, chan, outcome, up, catalog, faults>>

(* match outcome: finish, fail_permanently or fail, whether or not the      *)
(* write applies, or the store call fails and the error is only logged.     *)
LastProgress(w)  == at[w]                  \* mutant: before the first test it is negative
StoredTests(w)   == tests_done[job[w].id]  \* mutant: trusts the heartbeat's writes
TestsRun(w) == IF at[w] < 0 THEN 0 ELSE at[w]

Record(w) ==
  /\ pc[w] = "record"
  /\ LET s == job[w].id  a == job[w].attempt
     IN  \/ /\ IfOwner(MayWrite(s, a),
                  CASE outcome[w] = "no language" -> FailAttempt(s, a, 0, "no language")
                    [] outcome[w] = "sandbox"     -> FailAttempt(s, a, MaxAttempts, "sandbox")
                    [] OTHER -> Finish(s, a, outcome[w], TestsRun(w), catalog.version))
            /\ UNCHANGED faults
         \/ Fault("store") /\ UNCHANGED table
  /\ Goto(w, "get")
  /\ UNCHANGED <<job, at, chan, hb, outcome, up, catalog>>

(* The last get and publish; a failing get skips the publish.               *)
LastGet(w) ==
  /\ pc[w] = "get"
  /\ \/ /\ Goto(w, "publish")
        /\ UNCHANGED <<job, at, chan, hb, outcome, faults>>
     \/ Return(w) /\ Fault("store")
  /\ UNCHANGED <<table, up, catalog>>

LastPublish(w) ==
  /\ pc[w] = "publish"
  /\ Return(w)
  /\ UNCHANGED <<table, up, catalog, faults>>

-----------------------------------------------------------------------------
(* spawn_sweeper, one tick; a failing sweep is only logged.                 *)
SweeperTick ==
  /\ up
  /\ \/ Sweep /\ UNCHANGED faults
     \/ Fault("store") /\ UNCHANGED table
  /\ UNCHANGED <<local, up, catalog>>

(* Time passes.                                                             *)
Tick(s) ==
  /\ LeaseExpires(s)
  /\ UNCHANGED <<local, up, catalog, faults>>

(* The process stops, by ctrl-c or by a crash: everything in memory is lost.*)
ProcessGone ==
  /\ up'      = FALSE
  /\ pc'      = [w \in Workers |-> "idle"]
  /\ job'     = [w \in Workers |-> NULL]
  /\ at'      = [w \in Workers |-> Nothing]
  /\ chan'    = [w \in Workers |-> <<>>]
  /\ hb'      = [w \in Workers |-> "none"]
  /\ outcome' = [w \in Workers |-> NULL]

Crash ==
  /\ up /\ Fault("crash")
  /\ ProcessGone
  /\ UNCHANGED <<table, catalog>>

(* main: load languages and problems, requeue_inflight, spawn everything.   *)
Restart ==
  /\ ~up
  /\ up' = TRUE
  /\ catalog' \in Catalogs
  /\ RequeueInflight
  /\ UNCHANGED <<local, faults>>

-----------------------------------------------------------------------------
WorkerStep(w) ==
  \/ Claim(w) \/ ProblemGone(w) \/ Start(w)
  \/ JudgeNotify(w) \/ JudgeReturn(w)
  \/ Drained(w) \/ Record(w) \/ LastGet(w) \/ LastPublish(w)

HeartbeatStep(w) == Heartbeat(w) \/ HeartbeatGet(w) \/ HeartbeatPublish(w)

Next ==
  \/ CreateSubmission
  \/ \E w \in Workers : WorkerStep(w) \/ HeartbeatStep(w) \/ Hang(w)
  \/ SweeperTick
  \/ \E s \in Ids : Tick(s)
  \/ Crash
  \/ Restart

Spec == Init /\ [][Next]_vars

(* Tasks are polled, sandbox calls return unless they hang, the sweeper      *)
(* ticks, time passes and a stopped process is started again.  Nobody has to *)
(* submit, and nothing has to fail.                                          *)
Fairness ==
  /\ \A w \in Workers : WF_vars(WorkerStep(w)) /\ WF_vars(HeartbeatStep(w))
  /\ WF_vars(SweeperTick)
  /\ \A s \in Ids : WF_vars(Tick(s))
  /\ WF_vars(Restart)

FairSpec == Spec /\ Fairness

-----------------------------------------------------------------------------
(* Properties.                                                              *)

Owns(w, s) == job[w] # NULL /\ job[w].id = s /\ job[w].attempt = attempt[s]

(* How the local state of the workers hangs together.  Not a promise of the  *)
(* code by itself, but what the proofs about Workers rest on.                *)
Judging == {"judge", "hung", "drain", "record", "get", "publish"}

Bookkeeping ==
  \A w \in Workers :
     /\ pc[w] = "idle" <=> job[w] = NULL
     /\ hb[w] # "none" <=> pc[w] \in {"judge", "hung", "drain"}
     /\ hb[w] = "none" => chan[w] = <<>>
     /\ pc[w] \in Judging => catalog.version # NULL
     /\ pc[w] \in {"drain", "record"} => outcome[w] \in Outcomes(catalog.language, at[w])
     /\ ~up => pc[w] = "idle"

(* Fencing tokens: a worker's token was issued for its row, and no two       *)
(* workers ever hold the same one, so at most one can write a row.           *)
TokensAreUnique ==
  \A w \in Workers :
     job[w] # NULL =>
       /\ job[w].attempt \in 1 .. attempt[job[w].id]
       /\ \A x \in Workers \ {w} : job[x] # job[w]

(* A verdict agrees with the tests recorded beside it, also when progress    *)
(* writes of several attempts have touched the same row: AC only after all   *)
(* tests, CE before any, a failing verdict after at least one.               *)
VerdictMatchesTests ==
  \A s \in Ids :
     /\ verdict[s] = "AC" => tests_done[s] = Tests
     /\ verdict[s] = "CE" => tests_done[s] = 0
     /\ verdict[s] = "WA" => tests_done[s] > 0

(* A verdict belongs to a finished row; it is IE exactly when an             *)
(* infrastructure error is kept for triage (schema comment on error), and    *)
(* then the attempts are used up or the problem or the language is gone.     *)
ErrorExplainsIE ==
  \A s \in Ids :
     /\ status[s] = "DONE" <=> verdict[s] # NULL
     /\ status[s] = "DONE" => (verdict[s] = "IE" <=> error[s] # NULL)
     /\ verdict[s] = "IE" => \/ attempt[s] >= MaxAttempts
                             \/ error[s] \in {"no problem", "no language"}

(* The queue is first in, first out: no submission is tried before one that  *)
(* is older has been, whatever is re-queued in between.                      *)
FirstTriesInOrder ==
  \A s, t \in Ids : s < t /\ attempt[t] > 0 => attempt[s] > 0

(* DONE is final: no write of a stale worker, of the sweeper or of a         *)
(* restart changes a finished row.                                           *)
DoneIsFinal == [][DoneRowsStay]_vars

(* While a lease is live and the process runs, the row is written only by    *)
(* the worker that holds its token: neither the sweeper nor a worker that    *)
(* lost an earlier lease touches it.                                         *)
LiveLeaseIsExclusive ==
  [][\A s \in Ids :
        lease[s] = "live" /\ up =>
           \/ RowUnchanged(s)
           \/ \E w \in Workers : /\ Owns(w, s)
                                /\ <<pc[w], chan[w]>>' # <<pc[w], chan[w]>>]_vars

(* A verdict other than IE is the outcome some worker's judge() returned for *)
(* the row's current attempt, and problem_version becomes the version that   *)
(* worker judged with, which need not be the one at submission.              *)
VerdictIsJudged ==
  [][\A s \in Ids :
        status[s] # "DONE" /\ status'[s] = "DONE" /\ verdict'[s] # "IE" =>
           \E w \in Workers : /\ Owns(w, s)
                              /\ outcome[w] = verdict'[s]
                              /\ version'[s] = catalog.version]_vars

(* Within one attempt progress never goes backwards: the heartbeat writes    *)
(* what judge() sent in the order it was sent, and none of it arrives after  *)
(* the attempt has ended.                                                    *)
ProgressStep ==
  \A s \in Ids :
     attempt'[s] = attempt[s] =>
        /\ status[s] = "RUNNING" => status'[s] # "COMPILING"
        /\ status[s] = "QUEUED"  => status'[s] \notin InFlight
        /\ tests_done[s] <= tests_done'[s]

(* The same, of every step.                                                  *)
ProgressIsMonotone == [][ProgressStep]_vars

(* The abstract life of submission s, seen through its row.                  *)
Life(s) == INSTANCE Lifecycle WITH
  Permanent <- {"no problem", "no language"},
  Transient <- {"sandbox", "lease expired"},
  phase  <- IF status[s] = "ABSENT" THEN "new"
            ELSE IF status[s] = "DONE" THEN "decided" ELSE "pending",
  tries  <- attempt[s],
  result <- verdict[s],
  reason <- IF status[s] = "DONE" THEN error[s] ELSE NULL

(* Workers, heartbeats, sweeper and restarts implement the Lifecycle of      *)
(* every submission: each step is a step of it or changes nothing in it.     *)
ImplementsLifecycle ==
  /\ \A s \in Ids : Life(s)!Init
  /\ [][\A s \in Ids : Life(s)!Next \/ UNCHANGED Life(s)!vars]_vars

(* Every accepted submission is eventually DONE, through crashes, hung       *)
(* workers, lost leases and failing store calls within the fault bound.      *)
EventuallyDone == \A s \in Ids : Life(s)!EventuallyDecided

-----------------------------------------------------------------------------
(* A claim of the documentation that the code does not meet.                 *)

(* codexec.toml:10, config.rs:28: "After this many failed attempts a         *)
(* submission gets the verdict IE."  store.rs:8: the sweeper "gives up with  *)
(* IE after `max_attempts`".                                                 *)
AttemptsBounded == \A s \in Ids : attempt[s] <= MaxAttempts
=============================================================================
