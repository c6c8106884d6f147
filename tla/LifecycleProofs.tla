-------------------------- MODULE LifecycleProofs --------------------------
(***************************************************************************)
(* Workers, heartbeats, sweeper and restarts implement the Lifecycle of    *)
(* every submission: the safety part of the refinement, for any number of  *)
(* submissions, workers, tests, attempts and faults.  And the queue is     *)
(* first in, first out.                                                    *)
(***************************************************************************)
EXTENDS WorkersProofs

(* A row in flight has been claimed, and only a row can be.                 *)
Tried ==
  \A s \in Ids : /\ status[s] \in InFlight => attempt[s] > 0
                 /\ status[s] = "ABSENT" => attempt[s] = 0

LInv == IInv /\ TokensAreUnique /\ ErrorExplainsIE /\ Tried

(* A row whose token a worker holds has been claimed.                       *)
LEMMA TokenIsPositive ==
  ASSUME IInv, TokensAreUnique, NEW w \in Workers, job[w] # NULL
  PROVE  job[w].attempt > 0
<1>1. job[w] \in [id : Ids, attempt : Nat]
  BY DEF IInv, TypeOK
<1>2. attempt[job[w].id] \in Nat
  BY <1>1 DEF IInv, TypeOK, TableTypeOK
<1>3. job[w].attempt \in 1 .. attempt[job[w].id]
  BY DEF TokensAreUnique
<1> QED
  BY ONLY <1>2, <1>3

(* Rows get in flight by a claim, and stay there by the writes of a token.  *)
LEMMA TriedStep == LInv /\ [Next]_vars => Tried'
<1> SUFFICES ASSUME LInv, [Next]_vars PROVE Tried'
  OBVIOUS
<1>i. IInv /\ TokensAreUnique /\ TableTypeOK /\ Tried
  BY DEF LInv, IInv, TypeOK
<1>0. TableCases
  BY <1>i, StepCases
<1> USE DEF Tried
<1>1. ASSUME NEW s \in Ids, NEW k, Insert(s, k, catalog.version) PROVE Tried'
  BY <1>1, <1>i DEF Insert, InFlight, TableTypeOK
<1>2. ASSUME NEW s \in Ids, ClaimNext(s) PROVE Tried'
  BY <1>2, <1>i DEF ClaimNext, TableTypeOK
<1>3. ASSUME NEW s \in Ids, LeaseExpires(s) PROVE Tried'
  BY <1>3, <1>i DEF LeaseExpires
<1>4. ASSUME NEW w \in Workers, pc[w] # "idle", WorkerWrites(w, job[w].id, job[w].attempt)
      PROVE  Tried'
  <2> DEFINE s == job[w].id
             a == job[w].attempt
  <2>1. s \in Ids /\ a > 0
    BY <1>4, <1>i, BusyHasJob, TokenIsPositive DEF IInv, Bookkeeping
  <2>2. ASSUME NEW st \in InFlight, NEW d, Progress(s, a, st, d) PROVE Tried'
    <3>1. attempt' = attempt /\ attempt[s] = a /\ status' = [status EXCEPT ![s] = st]
      BY <2>2 DEF Progress, HoldsLease
    <3>2. st # "ABSENT"
      BY DEF InFlight
    <3> HIDE DEF s, a
    <3> QED
      BY <1>i, <2>1, <3>1, <3>2 DEF TableTypeOK
  <2>3. ASSUME NEW max, NEW e, FailAttempt(s, a, max, e) PROVE Tried'
    BY <1>i, <2>1, <2>3 DEF FailAttempt, InFlight, TableTypeOK
  <2>4. ASSUME NEW vd, NEW d, NEW v, Finish(s, a, vd, d, v) PROVE Tried'
    BY <1>i, <2>1, <2>4 DEF Finish, InFlight, TableTypeOK
  <2> QED
    BY <1>4, <2>2, <2>3, <2>4 DEF WorkerWrites
<1>5. CASE Sweep
  BY <1>5, <1>i DEF Sweep, InFlight, TableTypeOK
<1>6. CASE RequeueInflight
  BY <1>6, <1>i DEF RequeueInflight, InFlight
<1>7. CASE UNCHANGED table
  BY <1>7, <1>i DEF table
<1> QED
  BY <1>0, <1>1, <1>2, <1>3, <1>4, <1>5, <1>6, <1>7 DEF TableCases

(* The strengthened invariant.                                              *)
THEOREM TriedInvariance == Spec => []LInv
<1>1. Init => Tried
  BY DEF Init, TableInit, Tried, InFlight
<1>2. LInv <=> IInv /\ TokensAreUnique /\ ErrorExplainsIE /\ Tried
  BY DEF LInv
<1> QED
  BY <1>1, <1>2, TriedStep, Invariance, TokensUnique, ErrorsExplained, PTL DEF Spec

-----------------------------------------------------------------------------
(* A step that leaves the row alone leaves its life alone.                  *)
LEMMA RowStutters == ASSUME NEW s \in Ids, RowUnchanged(s) PROVE UNCHANGED Life(s)!vars
<1> QED
  BY DEF RowUnchanged, Life!vars

(* Progress is not part of the abstract life of a submission.               *)
LEMMA ProgressStutters ==
  ASSUME TableTypeOK, NEW s \in Ids, NEW a, NEW st \in InFlight, NEW d, Progress(s, a, st, d)
  PROVE  UNCHANGED Life(s)!vars
<1>1. /\ status'[s] \in InFlight /\ status[s] \in InFlight
      /\ verdict'[s] = verdict[s] /\ attempt'[s] = attempt[s] /\ error'[s] = error[s]
  BY DEF Progress, HoldsLease, TableTypeOK
<1> QED
  BY <1>1 DEF Life!vars, InFlight

(* A finish decides.                                                        *)
LEMMA FinishDecides ==
  ASSUME TableTypeOK, Tried, NEW s \in Ids, NEW a, a > 0, NEW vd \in Judged, NEW d, NEW v,
         Finish(s, a, vd, d, v)
  PROVE  Life(s)!Decide
<1>1. /\ status[s] \notin {"ABSENT", "DONE"} /\ attempt[s] > 0
      /\ status'[s] = "DONE" /\ verdict'[s] = vd
      /\ attempt'[s] = attempt[s] /\ error'[s] = NULL
  BY DEF Finish, MayWrite, TableTypeOK, Tried
<1> QED
  BY <1>1 DEF Life!Decide, Judged

(* A failed attempt gives up or changes nothing but the error.              *)
LEMMA FailureIsLife ==
  ASSUME TableTypeOK, Tried, NEW s \in Ids, NEW a \in Nat, a > 0, NEW max, NEW e,
         FailAttempt(s, a, max, e),
         \/ max = 0 /\ e \in Gone
         \/ max = MaxAttempts /\ e = "sandbox"
  PROVE  Life(s)!GiveUp \/ UNCHANGED Life(s)!vars
<1>1. /\ status[s] \notin {"ABSENT", "DONE"} /\ attempt[s] > 0 /\ attempt[s] = a
      /\ attempt'[s] = attempt[s] /\ error'[s] = e
  BY DEF FailAttempt, MayWrite, TableTypeOK, Tried
<1>2. CASE GivesUp(a, max)
  <2>1. status'[s] = "DONE" /\ verdict'[s] = "IE"
    BY <1>2 DEF FailAttempt, TableTypeOK
  <2>2. e \in Gone \/ (attempt[s] >= MaxAttempts /\ e = "sandbox")
    BY <1>1, <1>2 DEF GivesUp
  <2> QED
    BY <1>1, <2>1, <2>2 DEF Life!GiveUp, Gone
<1>3. CASE ~GivesUp(a, max)
  <2>1. status'[s] = "QUEUED" /\ verdict'[s] = verdict[s]
    BY <1>3 DEF FailAttempt, TableTypeOK
  <2> QED
    BY <1>1, <2>1 DEF Life!vars
<1> QED
  BY <1>2, <1>3

(* What the writes of a worker mean for the row of its token.               *)
LEMMA WriteIsLife ==
  ASSUME LInv, NEW w \in Workers, NEW s \in Ids, NEW a \in Nat, a > 0, WorkerWrites(w, s, a)
  PROVE  Life(s)!Next \/ UNCHANGED Life(s)!vars
<1>i. TableTypeOK /\ Tried
  BY DEF LInv, IInv, TypeOK
<1>1. ASSUME NEW st \in InFlight, NEW d, Progress(s, a, st, d) PROVE UNCHANGED Life(s)!vars
  BY <1>i, <1>1, ProgressStutters
<1>2. ASSUME NEW e \in Gone, FailAttempt(s, a, 0, e)
      PROVE  Life(s)!GiveUp \/ UNCHANGED Life(s)!vars
  BY <1>i, <1>2, FailureIsLife
<1>3. ASSUME FailAttempt(s, a, MaxAttempts, "sandbox")
      PROVE  Life(s)!GiveUp \/ UNCHANGED Life(s)!vars
  BY <1>i, <1>3, FailureIsLife
<1>4. ASSUME outcome[w] \in Judged, Finish(s, a, outcome[w], TestsRun(w), catalog.version)
      PROVE  Life(s)!Decide
  BY <1>i, <1>4, FinishDecides
<1> QED
  BY <1>1, <1>2, <1>3, <1>4 DEF WorkerWrites, Life!Next

(* An expired lease gives up or changes nothing in the life of the row.     *)
LEMMA SweepIsLife ==
  ASSUME TableTypeOK, Tried, Sweep, NEW s \in Ids
  PROVE  Life(s)!GiveUp \/ UNCHANGED Life(s)!vars
<1>1. CASE ~Expired(s)
  <2>1. RowUnchanged(s)
    BY <1>1 DEF Sweep, RowUnchanged
  <2> QED
    BY <2>1, RowStutters
<1>2. CASE Expired(s) /\ GivesUp(attempt[s], MaxAttempts)
  <2>1. /\ status[s] \notin {"ABSENT", "DONE"} /\ attempt[s] > 0
        /\ attempt[s] >= MaxAttempts /\ attempt'[s] = attempt[s]
        /\ status'[s] = "DONE" /\ verdict'[s] = "IE"
    BY <1>2 DEF Sweep, Expired, GivesUp, InFlight, Tried
  <2>2. error'[s] \in Errors
    BY <1>2 DEF Sweep, TableTypeOK, Errors
  <2> QED
    BY <2>1, <2>2 DEF Life!GiveUp, Errors
<1>3. CASE Expired(s) /\ ~GivesUp(attempt[s], MaxAttempts)
  <2>1. /\ status[s] \notin {"ABSENT", "DONE"} /\ status'[s] = "QUEUED"
        /\ attempt'[s] = attempt[s] /\ verdict'[s] = verdict[s]
    BY <1>3 DEF Sweep, Expired, InFlight
  <2> QED
    BY <2>1 DEF Life!vars
<1> QED
  BY <1>1, <1>2, <1>3

(* Every step is a step in the life of each submission, or none.            *)
LEMMA LifeStep ==
  ASSUME LInv, [Next]_vars, NEW s \in Ids
  PROVE  Life(s)!Next \/ UNCHANGED Life(s)!vars
<1>i. IInv /\ TableTypeOK /\ Tried
  BY DEF LInv, IInv, TypeOK
<1>0. TableCases
  BY <1>i, StepCases
<1>1. ASSUME NEW t \in Ids, NEW k, Insert(t, k, catalog.version)
      PROVE  Life(s)!Accept \/ RowUnchanged(s)
  <2>1. status[t] = "ABSENT"
    BY <1>1, <1>i, InsertIsFresh
  <2>2. CASE s = t
    <3>1. /\ status[s] = "ABSENT" /\ status'[s] = "QUEUED" /\ verdict'[s] = verdict[s]
          /\ attempt'[s] = attempt[s] /\ error'[s] = error[s]
      BY <1>1, <1>i, <2>1, <2>2 DEF Insert, TableTypeOK
    <3> QED
      BY <3>1 DEF Life!Accept
  <2>3. CASE s # t
    BY <1>1, <1>i, <2>3 DEF Insert, RowUnchanged, TableTypeOK
  <2> QED
    BY <2>2, <2>3
<1>2. ASSUME NEW t \in Ids, ClaimNext(t) PROVE Life(s)!Try \/ RowUnchanged(s)
  <2>1. CASE s = t
    <3>1. /\ status[s] = "QUEUED" /\ status'[s] = "COMPILING" /\ verdict'[s] = verdict[s]
          /\ attempt'[s] = attempt[s] + 1 /\ error'[s] = error[s]
      BY <1>2, <1>i, <2>1 DEF ClaimNext, IsOldestQueued, TableTypeOK
    <3> QED
      BY <3>1 DEF Life!Try
  <2>2. CASE s # t
    BY <1>2, <1>i, <2>2 DEF ClaimNext, RowUnchanged, TableTypeOK
  <2> QED
    BY <2>1, <2>2
<1>3. ASSUME NEW t \in Ids, LeaseExpires(t) PROVE RowUnchanged(s)
  BY <1>3 DEF LeaseExpires, RowUnchanged
<1>4. ASSUME NEW w \in Workers, pc[w] # "idle",
             WorkerWrites(w, job[w].id, job[w].attempt)
      PROVE  Life(s)!Next \/ UNCHANGED Life(s)!vars
  <2>1. CASE s = job[w].id
    <3> DEFINE a == job[w].attempt
    <3>1. a \in Nat /\ a > 0 /\ WorkerWrites(w, s, a)
      BY <1>4, <1>i, <2>1, BusyHasJob, TokenIsPositive DEF LInv, IInv, Bookkeeping
    <3> HIDE DEF a
    <3> QED
      BY <3>1, WriteIsLife
  <2>2. CASE s # job[w].id
    BY <1>4, <1>i, <2>2, WritesOwnRow, RowStutters
  <2> QED
    BY <2>1, <2>2
<1>5. CASE Sweep
  BY <1>5, <1>i, SweepIsLife DEF Life!Next
<1>6. CASE RequeueInflight
  <2>1. /\ verdict'[s] = verdict[s] /\ attempt'[s] = attempt[s] /\ error'[s] = error[s]
        /\ \/ status'[s] = status[s]
           \/ status'[s] = "QUEUED" /\ status[s] \notin {"ABSENT", "DONE"}
    BY <1>6 DEF RequeueInflight, InFlight
  <2> QED
    BY <2>1 DEF Life!vars
<1>7. CASE UNCHANGED table
  BY <1>7 DEF table, Life!vars
<1> QED
  BY <1>0, <1>1, <1>2, <1>3, <1>4, <1>5, <1>6, <1>7, RowStutters DEF TableCases, Life!Next

(* Workers, heartbeats, sweeper, crashes and restarts implement the abstract *)
(* life of every submission.                                                *)
THEOREM Refinement == Spec => ImplementsLifecycle
<1>1. Init => \A s \in Ids : Life(s)!Init
  BY DEF Init, TableInit, Life!Init
<1>2. LInv /\ [Next]_vars => \A s \in Ids : Life(s)!Next \/ UNCHANGED Life(s)!vars
  BY LifeStep
<1> QED
  BY <1>1, <1>2, TriedInvariance, PTL DEF Spec, ImplementsLifecycle

-----------------------------------------------------------------------------
(* Rows are created in the order of their ids, and decided only once tried. *)
Ordered ==
  /\ FirstTriesInOrder
  /\ \A s \in Ids : status[s] = "DONE" => attempt[s] > 0
  /\ \A s, t \in Ids : s < t /\ status[t] # "ABSENT" => status[s] # "ABSENT"

(* A step that leaves tokens alone, makes no row and decides only rows that *)
(* were tried keeps the order.                                              *)
LEMMA OrderKept ==
  ASSUME Ordered, attempt' = attempt,
         \A s \in Ids : /\ status'[s] = "ABSENT" <=> status[s] = "ABSENT"
                        /\ status'[s] = "DONE" => attempt[s] > 0
  PROVE  Ordered'
<1> QED
  BY DEF Ordered, FirstTriesInOrder

(* An older row of the one that is claimed exists and is not queued, so it  *)
(* is in flight or DONE and has been tried.                                 *)
LEMMA ClaimKeepsOrder ==
  ASSUME TableTypeOK, Tried, Ordered, NEW t \in Ids, ClaimNext(t)
  PROVE  Ordered'
<1>1. /\ attempt' = [attempt EXCEPT ![t] = @ + 1]
      /\ status' = [status EXCEPT ![t] = "COMPILING"]
      /\ status[t] = "QUEUED"
      /\ \A s \in Ids : status[s] = "QUEUED" => t <= s
  BY DEF ClaimNext, IsOldestQueued
<1>2. t \in Nat /\ \A s \in Ids : s \in Nat /\ attempt[s] \in Nat
  BY IdsAreNat DEF TableTypeOK
<1>3. \A s \in Ids : attempt'[s] = IF s = t THEN attempt[t] + 1 ELSE attempt[s]
  BY <1>1 DEF TableTypeOK
<1>4. \A s \in Ids : status'[s] = IF s = t THEN "COMPILING" ELSE status[s]
  BY <1>1 DEF TableTypeOK
<1>5. ASSUME NEW s \in Ids, s < t PROVE attempt[s] > 0
  <2>1. status[s] # "ABSENT"
    BY <1>1, <1>5 DEF Ordered
  <2>2. status[s] # "QUEUED"
    BY <1>1, <1>2, <1>5
  <2>3. status[s] \in InFlight \/ status[s] = "DONE"
    BY <2>1, <2>2 DEF TableTypeOK, Status
  <2> QED
    BY <2>3 DEF Tried, Ordered
<1>6. FirstTriesInOrder'
  <2> SUFFICES ASSUME NEW s \in Ids, NEW u \in Ids, s < u, attempt'[u] > 0
               PROVE  attempt'[s] > 0
    BY DEF FirstTriesInOrder
  <2>1. CASE u = t
    BY <1>2, <1>3, <1>5, <2>1
  <2>2. CASE u # t
    BY <1>2, <1>3, <2>2 DEF Ordered, FirstTriesInOrder
  <2> QED
    BY <2>1, <2>2
<1>7. \A s \in Ids : status'[s] = "DONE" => attempt'[s] > 0
  BY <1>2, <1>3, <1>4 DEF Ordered
<1>8. \A s, u \in Ids : s < u /\ status'[u] # "ABSENT" => status'[s] # "ABSENT"
  BY <1>1, <1>4 DEF Ordered
<1> QED
  BY <1>6, <1>7, <1>8 DEF Ordered

(* Every step of the workers keeps the order. *)
LEMMA OrderStep == LInv /\ Ordered /\ [Next]_vars => Ordered'
<1> SUFFICES ASSUME LInv, Ordered, [Next]_vars PROVE Ordered'
  OBVIOUS
<1>i. IInv /\ TokensAreUnique /\ TableTypeOK /\ Tried
  BY DEF LInv, IInv, TypeOK
<1>d. \A s \in Ids : status[s] = "DONE" => attempt[s] > 0
  BY DEF Ordered
<1>0. TableCases
  BY <1>i, StepCases
<1>1. ASSUME NEW s \in Ids, NEW k, Insert(s, k, catalog.version) PROVE Ordered'
  <2>1. /\ status' = [status EXCEPT ![s] = "QUEUED"] /\ attempt' = attempt
        /\ \A t \in Ids : status[t] # "ABSENT" <=> t < s
    BY <1>1 DEF Insert, IsNextId
  <2>2. \A t \in Ids : status'[t] = IF t = s THEN "QUEUED" ELSE status[t]
    BY <1>i, <2>1 DEF TableTypeOK
  <2>3. \A t, u \in Ids : t < u /\ status'[u] # "ABSENT" => status'[t] # "ABSENT"
    BY <2>1, <2>2 DEF Ordered
  <2>4. \A t \in Ids : status'[t] = "DONE" => attempt'[t] > 0
    BY <1>d, <2>1, <2>2
  <2>5. FirstTriesInOrder'
    BY <2>1 DEF Ordered, FirstTriesInOrder
  <2> QED
    BY <2>3, <2>4, <2>5 DEF Ordered
<1>2. ASSUME NEW s \in Ids, ClaimNext(s) PROVE Ordered'
  BY <1>2, <1>i, ClaimKeepsOrder
<1>3. ASSUME NEW s \in Ids, LeaseExpires(s) PROVE Ordered'
  BY <1>3, <1>d, OrderKept DEF LeaseExpires
<1>4. ASSUME NEW w \in Workers, pc[w] # "idle", WorkerWrites(w, job[w].id, job[w].attempt)
      PROVE  Ordered'
  <2> DEFINE s == job[w].id
             a == job[w].attempt
  <2>1. s \in Ids /\ a > 0
    BY <1>4, <1>i, BusyHasJob, TokenIsPositive DEF IInv, Bookkeeping
  <2>2. /\ attempt' = attempt /\ attempt[s] = a
        /\ \E st \in Status : status' = [status EXCEPT ![s] = st]
    BY <1>4 DEF WorkerWrites, Progress, FailAttempt, Finish, HoldsLease, MayWrite, Status, InFlight
  <2>3. status[s] # "ABSENT"
    BY <1>i, <2>1, <2>2 DEF Tried
  <2> HIDE DEF s, a
  <2>4. \A t \in Ids : /\ status'[t] = "ABSENT" <=> status[t] = "ABSENT"
                       /\ status'[t] = "DONE" => attempt[t] > 0
    BY <1>i, <1>d, <2>1, <2>2, <2>3 DEF TableTypeOK, Status, InFlight
  <2> QED
    BY <2>2, <2>4, OrderKept
<1>5. CASE Sweep
  <2>1. \A s \in Ids : /\ status'[s] = "ABSENT" <=> status[s] = "ABSENT"
                       /\ status'[s] = "DONE" => attempt[s] > 0
    BY <1>5, <1>i, <1>d DEF Sweep, Expired, InFlight, Tried
  <2> QED
    BY <1>5, <2>1, OrderKept DEF Sweep
<1>6. CASE RequeueInflight
  <2>1. \A s \in Ids : /\ status'[s] = "ABSENT" <=> status[s] = "ABSENT"
                       /\ status'[s] = "DONE" => attempt[s] > 0
    BY <1>6, <1>d DEF RequeueInflight, InFlight
  <2> QED
    BY <1>6, <2>1, OrderKept DEF RequeueInflight
<1>7. CASE UNCHANGED table
  BY <1>7, <1>d, OrderKept DEF table
<1> QED
  BY <1>0, <1>1, <1>2, <1>3, <1>4, <1>5, <1>6, <1>7 DEF TableCases

(* No submission is tried before an older one, whatever is re-queued.       *)
THEOREM FirstInFirstOut == Spec => []FirstTriesInOrder
<1>1. Init => Ordered
  BY DEF Init, TableInit, Ordered, FirstTriesInOrder
<1>2. Ordered => FirstTriesInOrder
  BY DEF Ordered
<1> QED
  BY <1>1, <1>2, OrderStep, TriedInvariance, PTL DEF Spec
=============================================================================
