------------------------------- MODULE Lanes -------------------------------
(***************************************************************************)
(* How idle workers find work: the run lane (RunStore of                   *)
(* crates/server/src/runs.rs), worker_loop's choice between the two lanes  *)
(* and the wake-ups through tokio's Notify (worker.rs, http.rs).           *)
(*                                                                         *)
(* Judging itself is one step.  The submission lane is only a count here   *)
(* (Store has the rows): backlog is the number of QUEUED rows.             *)
(***************************************************************************)
EXTENDS Integers, Sequences

CONSTANTS
  Workers,
  Runs,         \* run ids; an id is fresh again once its record is pruned
  RunCapacity,  \* run_queue_capacity
  RunBurst,     \* RUN_BURST
  MaxBacklog,   \* bound on queued submissions
  NULL

ASSUME RunCapacityIsNat == RunCapacity \in Nat
ASSUME RunBurstIsNat    == RunBurst \in Nat \ {0}
ASSUME MaxBacklogIsNat  == MaxBacklog \in Nat
ASSUME NoRunIsNull      == NULL \notin Runs

VARIABLES
  queue,        \* Inner::queue
  record,       \* Inner::records: a run's status, "NONE" without a record
  old,          \* the runs created longer ago than the TTL
  backlog,
  permit,       \* Notify holds a permit
  at,           \* where a worker is in worker_loop
  streak,       \* run_streak
  prefer,       \* prefer_submission
  running       \* the run a worker executes

vars == <<queue, record, old, backlog, permit, at, streak, prefer, running>>

RunStatus == {"NONE", "QUEUED", "RUNNING", "DONE"}
Places == {"top", "claim", "run", "submission", "paused", "idle", "waiting"}

TypeOK ==
  /\ queue   \in Seq(Runs)
  /\ record  \in [Runs -> RunStatus]
  /\ old     \in SUBSET Runs
  /\ backlog \in 0 .. MaxBacklog
  /\ permit  \in BOOLEAN
  /\ at      \in [Workers -> Places]
  /\ streak  \in [Workers -> 0 .. RunBurst]
  /\ prefer  \in [Workers -> BOOLEAN]
  /\ running \in [Workers -> Runs \cup {NULL}]

Init ==
  /\ queue   = <<>>
  /\ record  = [r \in Runs |-> "NONE"]
  /\ old     = {}
  /\ backlog = 0
  /\ permit  = FALSE
  /\ at      = [w \in Workers |-> "top"]
  /\ streak  = [w \in Workers |-> 0]
  /\ prefer  = [w \in Workers |-> FALSE]
  /\ running = [w \in Workers |-> NULL]

-----------------------------------------------------------------------------
(* tokio::sync::Notify.  notify_one wakes one waiter or leaves a permit,    *)
(* notify_waiters wakes those who already wait and leaves nothing.          *)
NotifyOne(places) ==
  LET waiters == {w \in Workers : places[w] = "waiting"}
  IN  \/ /\ waiters = {}
         /\ permit' = TRUE /\ at' = places
      \/ /\ \E w \in waiters : at' = [places EXCEPT ![w] = "top"]
         /\ UNCHANGED permit

(* RunStore::submit: a full lane refuses the run.                           *)
Submit(r) ==
  /\ record[r] = "NONE"
  /\ Len(queue) < RunCapacity
  /\ record' = [record EXCEPT ![r] = "QUEUED"]
  /\ queue'  = Append(queue, r)

(* create_run: submit, then the wake-up.                                    *)
CreateRun(r) ==
  /\ Submit(r)
  /\ NotifyOne(at)
  /\ UNCHANGED <<old, backlog, streak, prefer, running>>

(* create_submission: insert, then the wake-up, which does not happen when  *)
(* the connection closes and the handler is dropped in between.             *)
CreateSubmission ==
  /\ backlog < MaxBacklog
  /\ backlog' = backlog + 1
  /\ NotifyOne(at) \/ UNCHANGED <<permit, at>>
  /\ UNCHANGED <<queue, record, old, streak, prefer, running>>

-----------------------------------------------------------------------------
(* One round of worker_loop.                                                *)
MayPopOneMore(w) == streak[w] <= RunBurst  \* mutant
MayPop(w) == streak[w] < RunBurst

(* RunStore::pop gave a run: execute it.                                    *)
PopRun(w) ==
  /\ at[w] = "top" /\ MayPop(w) /\ queue # <<>>
  /\ queue'   = Tail(queue)
  /\ record'  = [record EXCEPT ![Head(queue)] = "RUNNING"]
  /\ running' = [running EXCEPT ![w] = Head(queue)]
  /\ streak'  = [streak EXCEPT ![w] = @ + 1]
  /\ at'      = [at EXCEPT ![w] = "run"]
  /\ UNCHANGED <<old, backlog, permit, prefer>>

(* No run, or runs have had their burst: go for a submission.               *)
GoClaim(w) ==
  /\ at[w] = "top" /\ (MayPop(w) => queue = <<>>)
  /\ prefer' = [prefer EXCEPT ![w] = ~MayPop(w)]
  /\ at'     = [at EXCEPT ![w] = "claim"]
  /\ UNCHANGED <<queue, record, old, backlog, permit, streak, running>>

ClaimInStreak(w) ==  \* mutant: run_streak is not reset
  /\ at[w] = "claim" /\ backlog > 0
  /\ backlog' = backlog - 1
  /\ at'      = [at EXCEPT ![w] = "submission"]
  /\ UNCHANGED <<queue, record, old, permit, streak, prefer, running>>

ClaimSome(w) ==
  /\ at[w] = "claim" /\ backlog > 0
  /\ backlog' = backlog - 1
  /\ streak'  = [streak EXCEPT ![w] = 0]
  /\ at'      = [at EXCEPT ![w] = "submission"]
  /\ UNCHANGED <<queue, record, old, permit, prefer, running>>

AfterClaim(w) == at' = [at EXCEPT ![w] = IF prefer[w] THEN "top" ELSE "idle"]

ClaimNone(w) ==
  /\ at[w] = "claim" /\ backlog = 0
  /\ streak' = [streak EXCEPT ![w] = 0]
  /\ AfterClaim(w)
  /\ UNCHANGED <<queue, record, old, backlog, permit, prefer, running>>

ClaimError(w) ==
  /\ at[w] = "claim"
  /\ AfterClaim(w)
  /\ UNCHANGED <<queue, record, old, backlog, permit, streak, prefer, running>>

(* handle_run ends: RunStore::complete.                                     *)
CompleteRun(w) ==
  /\ at[w] = "run"
  /\ record'  = [record EXCEPT ![running[w]] = IF @ = "NONE" THEN @ ELSE "DONE"]
  /\ running' = [running EXCEPT ![w] = NULL]
  /\ at'      = [at EXCEPT ![w] = "top"]
  /\ UNCHANGED <<queue, old, backlog, permit, streak, prefer>>

(* handle_submission ends with a verdict, IE or a lost lease (a row that    *)
(* was swept back to the queue meanwhile leaves it by that verdict) ...      *)
SubmissionEnds(w) ==
  /\ at[w] = "submission"
  /\ backlog' \in {backlog, backlog - 1} \cap Nat
  /\ at' = [at EXCEPT ![w] = "top"]
  /\ UNCHANGED <<queue, record, old, permit, streak, prefer, running>>

(* ... or the attempt fails: back to the queue, if the row is not already   *)
(* there, a pause, and a wake-up.                                           *)
SubmissionFails(w) ==
  /\ at[w] = "submission"
  /\ backlog' \in {backlog, backlog + 1} \cap 0 .. MaxBacklog
  /\ at'      = [at EXCEPT ![w] = "paused"]
  /\ UNCHANGED <<queue, record, old, permit, streak, prefer, running>>

PauseEnds(w) ==
  /\ at[w] = "paused"
  /\ NotifyOne([at EXCEPT ![w] = "top"])
  /\ UNCHANGED <<queue, record, old, backlog, streak, prefer, running>>

(* notified() takes a permit at once or starts to wait ...                  *)
Idle(w) ==
  /\ at[w] = "idle"
  /\ at'     = [at EXCEPT ![w] = IF permit THEN "top" ELSE "waiting"]
  /\ permit' = FALSE
  /\ UNCHANGED <<queue, record, old, backlog, streak, prefer, running>>

NoTimeout(w) == FALSE  \* mutant: waits for a wake-up only

(* ... for at most 500 ms.                                                  *)
Timeout(w) ==
  /\ at[w] = "waiting"
  /\ at' = [at EXCEPT ![w] = "top"]
  /\ UNCHANGED <<queue, record, old, backlog, permit, streak, prefer, running>>

-----------------------------------------------------------------------------
(* A sweeper tick: maybe an expired lease goes back to the queue, or gets   *)
(* IE, and all waiters are woken; in any case finished runs past the TTL    *)
(* are dropped.                                                             *)
PrunableAtTTL(r) == r \in old  \* mutant: finished or not
Prunable(r) == record[r] = "DONE" /\ r \in old

SweeperTick ==
  /\ \/ /\ \E w \in Workers : at[w] = "submission"
        /\ backlog' \in {backlog, backlog + 1} \cap 0 .. MaxBacklog
        /\ at' = [w \in Workers |-> IF at[w] = "waiting" THEN "top" ELSE at[w]]
     \/ UNCHANGED <<backlog, at>>
  /\ record' = [r \in Runs |-> IF Prunable(r) THEN "NONE" ELSE record[r]]
  /\ old'    = {r \in old : ~Prunable(r)}
  /\ UNCHANGED <<queue, permit, streak, prefer, running>>

(* The TTL is measured from the creation of the run.                        *)
GrowOld(r) ==
  /\ record[r] # "NONE" /\ r \notin old
  /\ old' = old \cup {r}
  /\ UNCHANGED <<queue, record, backlog, permit, at, streak, prefer, running>>

-----------------------------------------------------------------------------
LoopStep(w) ==
  \/ PopRun(w) \/ CompleteRun(w)
  \/ GoClaim(w) \/ ClaimSome(w) \/ ClaimNone(w) \/ ClaimError(w)
  \/ SubmissionEnds(w) \/ SubmissionFails(w) \/ PauseEnds(w)
  \/ Idle(w) \/ Timeout(w)

Next ==
  \/ \E r \in Runs : CreateRun(r) \/ GrowOld(r)
  \/ CreateSubmission
  \/ \E w \in Workers : LoopStep(w)
  \/ SweeperTick

Spec == Init /\ [][Next]_vars

(* Workers are polled and calls return.  Nobody has to send a request, and  *)
(* claim_next may fail for ever ...                                         *)
FairSpec == Spec /\ \A w \in Workers : WF_vars(LoopStep(w))

(* ... unless the store recovers: not every claim of a worker fails.        *)
StoreRecovers == \A w \in Workers : SF_vars(ClaimSome(w) \/ ClaimNone(w))

RecoveringSpec == FairSpec /\ StoreRecovers

-----------------------------------------------------------------------------
(* The queue, the records and the workers agree: a run is QUEUED exactly     *)
(* while it is in the queue, once, and RUNNING exactly while one worker      *)
(* executes it.  So the unfinished runs in memory are at most the capacity   *)
(* of the lane plus one per worker, and prune never takes a record that a    *)
(* worker has yet to complete.                                               *)
RecordsMatchWork ==
  /\ Len(queue) <= RunCapacity
  /\ \A i, j \in DOMAIN queue : queue[i] = queue[j] => i = j
  /\ \A r \in Runs :
        /\ record[r] = "QUEUED"  <=> \E i \in DOMAIN queue : queue[i] = r
        /\ record[r] = "RUNNING" <=> \E w \in Workers : running[w] = r
  /\ \A w, x \in Workers : running[w] # NULL /\ running[w] = running[x] => w = x

(* worker.rs:17, "neither lane can starve the other": under any stream of    *)
(* submissions every accepted run is executed ...                            *)
RunsAreServed == \A r \in Runs : record[r] = "QUEUED" ~> record[r] = "DONE"

(* ... and under any stream of runs a waiting submission gets a worker       *)
(* again and again until none waits, also when wake-ups are lost.            *)
SubmissionsAreServed ==
  []<>(backlog = 0 \/ \E w \in Workers : at[w] = "submission")
=============================================================================
