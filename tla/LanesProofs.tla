---------------------------- MODULE LanesProofs ----------------------------
(***************************************************************************)
(* The run lane, for any number of workers and runs and any capacity.      *)
(***************************************************************************)
EXTENDS Lanes, SequenceTheorems, TLAPS

(* A worker executes a run exactly while it is in handle_run.               *)
RunsInHand == \A w \in Workers : at[w] = "run" <=> running[w] # NULL

RInv == TypeOK /\ RecordsMatchWork /\ RunsInHand

(* Where notify_one may leave the workers: only waiting ones are moved.     *)
LEMMA NotifyPlaces ==
  ASSUME NEW places \in [Workers -> Places], permit \in BOOLEAN, NotifyOne(places)
  PROVE  /\ at' \in [Workers -> Places] /\ permit' \in BOOLEAN
         /\ \A w \in Workers : at'[w] = "run" <=> places[w] = "run"
<1> QED
  BY DEF NotifyOne, Places

(* Every step keeps the types, and the run in hand with its worker.         *)
LEMMA LaneTypeStep ==
  ASSUME RInv, [Next]_vars
  PROVE  TypeOK' /\ RunsInHand'
<1>a. TypeOK /\ RunsInHand /\ RecordsMatchWork
  BY DEF RInv
<1> USE RunBurstIsNat, MaxBacklogIsNat, NoRunIsNull
<1>1. ASSUME NEW r \in Runs, CreateRun(r) PROVE TypeOK' /\ RunsInHand'
  <2>1. queue' \in Seq(Runs)
    BY <1>1, <1>a, AppendProperties DEF CreateRun, Submit, TypeOK
  <2> QED
    BY <1>1, <1>a, <2>1, NotifyPlaces DEF CreateRun, Submit, TypeOK, RunsInHand, RunStatus
<1>2. CASE CreateSubmission
  BY <1>2, <1>a, NotifyPlaces DEF CreateSubmission, TypeOK, RunsInHand
<1>3. ASSUME NEW w \in Workers, PopRun(w) PROVE TypeOK' /\ RunsInHand'
  <2>1. Head(queue) \in Runs /\ queue' \in Seq(Runs)
    BY <1>3, <1>a, HeadTailProperties DEF PopRun, TypeOK
  <2>2. streak' \in [Workers -> 0 .. RunBurst]
    BY <1>3, <1>a DEF PopRun, MayPop, TypeOK
  <2> QED
    BY <1>3, <1>a, <2>1, <2>2 DEF PopRun, TypeOK, RunsInHand, RunStatus, Places
<1>4. ASSUME NEW w \in Workers, CompleteRun(w) PROVE TypeOK' /\ RunsInHand'
  BY <1>4, <1>a DEF CompleteRun, TypeOK, RunsInHand, RunStatus, Places
<1>5. ASSUME NEW w \in Workers, GoClaim(w) PROVE TypeOK' /\ RunsInHand'
  BY <1>5, <1>a DEF GoClaim, MayPop, TypeOK, RunsInHand, Places
<1>6. ASSUME NEW w \in Workers, ClaimSome(w) PROVE TypeOK' /\ RunsInHand'
  BY <1>6, <1>a DEF ClaimSome, TypeOK, RunsInHand, Places
<1>7. ASSUME NEW w \in Workers, ClaimNone(w) \/ ClaimError(w) PROVE TypeOK' /\ RunsInHand'
  <2>1. /\ streak' \in [Workers -> 0 .. RunBurst]
        /\ UNCHANGED <<queue, record, old, backlog, permit, prefer, running>>
    BY <1>7, <1>a DEF ClaimNone, ClaimError, TypeOK
  <2>2. /\ at' \in [Workers -> Places]
        /\ \A x \in Workers : at'[x] = "run" <=> at[x] = "run"
    BY <1>7, <1>a DEF ClaimNone, ClaimError, AfterClaim, TypeOK, Places
  <2> QED
    BY <1>a, <2>1, <2>2 DEF TypeOK, RunsInHand
<1>8. ASSUME NEW w \in Workers, SubmissionEnds(w) \/ SubmissionFails(w)
      PROVE  TypeOK' /\ RunsInHand'
  <2>1. backlog' \in 0 .. MaxBacklog
    BY <1>8, <1>a DEF SubmissionEnds, SubmissionFails, TypeOK
  <2> QED
    BY <1>8, <1>a, <2>1 DEF SubmissionEnds, SubmissionFails, TypeOK, RunsInHand, Places
<1>9. ASSUME NEW w \in Workers, PauseEnds(w) PROVE TypeOK' /\ RunsInHand'
  <2>1. [at EXCEPT ![w] = "top"] \in [Workers -> Places]
    BY <1>a DEF TypeOK, Places
  <2>2. \A x \in Workers : [at EXCEPT ![w] = "top"][x] = "run" <=> at[x] = "run"
    BY <1>9, <1>a DEF PauseEnds, TypeOK
  <2> QED
    BY <1>9, <1>a, <2>1, <2>2, NotifyPlaces DEF PauseEnds, TypeOK, RunsInHand
<1>10. ASSUME NEW w \in Workers, Idle(w) \/ Timeout(w) PROVE TypeOK' /\ RunsInHand'
  BY <1>10, <1>a DEF Idle, Timeout, TypeOK, RunsInHand, Places
<1>11. CASE SweeperTick
  <2>1. backlog' \in 0 .. MaxBacklog
    BY <1>11, <1>a DEF SweeperTick, TypeOK
  <2>2. record' \in [Runs -> RunStatus] /\ old' \in SUBSET Runs
    BY <1>11, <1>a DEF SweeperTick, TypeOK, RunStatus
  <2>3. at' \in [Workers -> Places] /\ \A w \in Workers : at'[w] = "run" <=> at[w] = "run"
    BY <1>11, <1>a DEF SweeperTick, TypeOK, Places
  <2> QED
    BY <1>11, <1>a, <2>1, <2>2, <2>3 DEF SweeperTick, TypeOK, RunsInHand
<1>12. ASSUME NEW r \in Runs, GrowOld(r) PROVE TypeOK' /\ RunsInHand'
  BY <1>12, <1>a DEF GrowOld, TypeOK, RunsInHand
<1>13. CASE UNCHANGED vars
  BY <1>13, <1>a DEF vars, TypeOK, RunsInHand
<1> QED
  BY <1>1, <1>2, <1>3, <1>4, <1>5, <1>6, <1>7, <1>8, <1>9, <1>10, <1>11, <1>12, <1>13
     DEF Next, LoopStep

(* RunStore::submit puts a run at the end that was nowhere before.          *)
LEMMA SubmitKeeps ==
  ASSUME RInv, NEW r \in Runs, Submit(r), running' = running
  PROVE  RecordsMatchWork'
<1>a. TypeOK /\ RecordsMatchWork
  BY DEF RInv
<1> DEFINE n == Len(queue)
<1>1. n \in Nat /\ DOMAIN queue = 1 .. n
  BY <1>a, LenProperties DEF TypeOK
<1>2. /\ queue' \in Seq(Runs) /\ Len(queue') = n + 1 /\ DOMAIN queue' = 1 .. n + 1
      /\ \A i \in 1 .. n : queue'[i] = queue[i]
      /\ queue'[n + 1] = r
  BY <1>a, AppendProperties, LenProperties DEF Submit, TypeOK
<1>3. \A x \in Runs : record'[x] = IF x = r THEN "QUEUED" ELSE record[x]
  BY <1>a DEF Submit, TypeOK
<1>4. \A i \in 1 .. n : queue[i] # r
  BY <1>a, <1>1 DEF Submit, RecordsMatchWork
<1>5. \A w \in Workers : running[w] # r
  BY <1>a DEF Submit, RecordsMatchWork
<1>6. \A i \in 1 .. n + 1 : i \in 1 .. n \/ i = n + 1
  BY <1>1
<1>7. \A i \in 1 .. n : i \in 1 .. n + 1
  BY <1>1
<1>8. n + 1 \in 1 .. n + 1
  BY <1>1
<1>9. Len(queue') <= RunCapacity
  BY <1>1, <1>2, RunCapacityIsNat DEF Submit
<1>10. \A i, j \in DOMAIN queue' : queue'[i] = queue'[j] => i = j
  BY <1>a, <1>1, <1>2, <1>4, <1>6 DEF RecordsMatchWork
<1>11. ASSUME NEW x \in Runs
       PROVE  record'[x] = "QUEUED" <=> \E i \in DOMAIN queue' : queue'[i] = x
  <2>1. CASE x = r
    BY <2>1, <1>2, <1>3, <1>8
  <2>2. CASE x # r
    <3>1. (\E i \in DOMAIN queue' : queue'[i] = x) <=> \E i \in 1 .. n : queue[i] = x
      BY <2>2, <1>2, <1>6, <1>7
    <3> QED
      BY <2>2, <3>1, <1>a, <1>1, <1>3 DEF RecordsMatchWork
  <2> QED
    BY <2>1, <2>2
<1>12. ASSUME NEW x \in Runs
       PROVE  record'[x] = "RUNNING" <=> \E w \in Workers : running'[w] = x
  BY <1>a, <1>3, <1>5 DEF RecordsMatchWork
<1> QED
  BY <1>9, <1>10, <1>11, <1>12, <1>a DEF RecordsMatchWork

(* RunStore::pop takes the first run out and one worker has it.             *)
LEMMA PopKeeps ==
  ASSUME RInv, NEW w \in Workers, PopRun(w)
  PROVE  RecordsMatchWork'
<1>a. TypeOK /\ RecordsMatchWork /\ RunsInHand /\ queue # <<>>
  BY DEF RInv, PopRun
<1> DEFINE n == Len(queue)
           h == queue[1]
<1>1. /\ n \in Nat \ {0} /\ DOMAIN queue = 1 .. n /\ h \in Runs /\ Head(queue) = h
  BY <1>a, LenProperties, EmptySeq, HeadTailProperties, ElementOfSeq DEF TypeOK
<1>2. /\ queue' \in Seq(Runs) /\ Len(queue') = n - 1 /\ DOMAIN queue' = 1 .. n - 1
      /\ \A i \in 1 .. n - 1 : queue'[i] = queue[i + 1]
  BY <1>a, HeadTailProperties, LenProperties DEF PopRun, TypeOK
<1>3. \A x \in Runs : record'[x] = IF x = h THEN "RUNNING" ELSE record[x]
  BY <1>1, <1>a DEF PopRun, TypeOK
<1>4. \A x \in Workers : running'[x] = IF x = w THEN h ELSE running[x]
  BY <1>1, <1>a DEF PopRun, TypeOK
<1>5. /\ record[h] = "QUEUED" /\ running[w] = NULL
      /\ \A x \in Workers : running[x] # h
  <2>1. record[h] = "QUEUED"
    BY <1>1, <1>a DEF RecordsMatchWork
  <2> QED
    BY <2>1, <1>1, <1>a DEF RecordsMatchWork, RunsInHand, PopRun
<1>6. \A i \in 1 .. n - 1 : i + 1 \in 1 .. n /\ i + 1 # 1
  BY <1>1
<1>7. \A i \in 1 .. n : i = 1 \/ (i - 1 \in 1 .. n - 1 /\ (i - 1) + 1 = i)
  BY <1>1
<1>8. Len(queue') <= RunCapacity
  BY <1>1, <1>2, <1>a, RunCapacityIsNat DEF RecordsMatchWork
<1>9. \A i, j \in DOMAIN queue' : queue'[i] = queue'[j] => i = j
  <2> SUFFICES ASSUME NEW i \in 1 .. n - 1, NEW j \in 1 .. n - 1, queue'[i] = queue'[j]
               PROVE  i = j
    BY <1>2
  <2>1. queue[i + 1] = queue[j + 1] /\ i + 1 \in 1 .. n /\ j + 1 \in 1 .. n
    BY <1>2, <1>6
  <2>2. i + 1 = j + 1
    BY <2>1, <1>1, <1>a DEF RecordsMatchWork
  <2> QED
    BY <2>2
<1>10. ASSUME NEW x \in Runs
       PROVE  record'[x] = "QUEUED" <=> \E i \in DOMAIN queue' : queue'[i] = x
  <2>1. CASE x = h
    <3>1. \A i \in 1 .. n - 1 : queue[i + 1] # h
      BY <1>1, <1>6, <1>a DEF RecordsMatchWork
    <3> QED
      BY <2>1, <3>1, <1>2, <1>3
  <2>2. CASE x # h
    <3>1. (\E i \in 1 .. n : queue[i] = x) => \E i \in 1 .. n - 1 : queue'[i] = x
      <4> SUFFICES ASSUME NEW i \in 1 .. n, queue[i] = x
                   PROVE  \E k \in 1 .. n - 1 : queue'[k] = x
        OBVIOUS
      <4>1. i # 1
        BY <2>2
      <4>2. i - 1 \in 1 .. n - 1 /\ (i - 1) + 1 = i
        BY <4>1, <1>7
      <4>3. queue'[i - 1] = queue[(i - 1) + 1]
        BY <4>2, <1>2
      <4> QED
        BY <4>2, <4>3
    <3>2. (\E i \in 1 .. n - 1 : queue'[i] = x) => \E i \in 1 .. n : queue[i] = x
      BY <1>2, <1>6
    <3> QED
      BY <2>2, <3>1, <3>2, <1>1, <1>2, <1>3, <1>a DEF RecordsMatchWork
  <2> QED
    BY <2>1, <2>2
<1>11. ASSUME NEW x \in Runs
       PROVE  record'[x] = "RUNNING" <=> \E v \in Workers : running'[v] = x
  <2>1. CASE x = h
    BY <2>1, <1>3, <1>4
  <2>2. CASE x # h
    BY <2>2, <1>3, <1>4, <1>5, <1>a, NoRunIsNull DEF RecordsMatchWork
  <2> QED
    BY <2>1, <2>2
<1>12. \A v, x \in Workers : running'[v] # NULL /\ running'[v] = running'[x] => v = x
  BY <1>4, <1>5, <1>a DEF RecordsMatchWork
<1> QED
  BY <1>8, <1>9, <1>10, <1>11, <1>12 DEF RecordsMatchWork

(* RunStore::complete ends the one run the worker has.                      *)
LEMMA CompleteKeeps ==
  ASSUME RInv, NEW w \in Workers, CompleteRun(w)
  PROVE  RecordsMatchWork'
<1>a. TypeOK /\ RecordsMatchWork /\ RunsInHand
  BY DEF RInv
<1> DEFINE r == running[w]
<1>1. r \in Runs /\ r # NULL /\ record[r] = "RUNNING"
  BY <1>a, NoRunIsNull DEF CompleteRun, RunsInHand, TypeOK, RecordsMatchWork
<1>2. \A x \in Runs : record'[x] = IF x = r THEN "DONE" ELSE record[x]
  BY <1>1, <1>a DEF CompleteRun, TypeOK
<1>3. \A x \in Workers : running'[x] = IF x = w THEN NULL ELSE running[x]
  BY <1>a DEF CompleteRun, TypeOK
<1>4. queue' = queue
  BY DEF CompleteRun
<1>5. ASSUME NEW x \in Runs
      PROVE  /\ record'[x] = "QUEUED"  <=> \E i \in DOMAIN queue : queue[i] = x
             /\ record'[x] = "RUNNING" <=> \E v \in Workers : running'[v] = x
  <2>1. CASE x = r
    BY <2>1, <1>1, <1>2, <1>3, <1>a, NoRunIsNull DEF RecordsMatchWork
  <2>2. CASE x # r
    BY <2>2, <1>1, <1>2, <1>3, <1>a, NoRunIsNull DEF RecordsMatchWork
  <2> QED
    BY <2>1, <2>2
<1>6. \A v, x \in Workers : running'[v] # NULL /\ running'[v] = running'[x] => v = x
  BY <1>3, <1>a DEF RecordsMatchWork
<1> QED
  BY <1>4, <1>5, <1>6, <1>a DEF RecordsMatchWork

(* prune takes finished records only.                                       *)
LEMMA PruneKeeps ==
  ASSUME RInv, SweeperTick
  PROVE  RecordsMatchWork'
<1>a. TypeOK /\ RecordsMatchWork
  BY DEF RInv
<1>1. \A x \in Runs : /\ record'[x] = "QUEUED"  <=> record[x] = "QUEUED"
                      /\ record'[x] = "RUNNING" <=> record[x] = "RUNNING"
  BY <1>a DEF SweeperTick, Prunable, TypeOK
<1>2. queue' = queue /\ running' = running
  BY DEF SweeperTick
<1> QED
  BY <1>1, <1>2, <1>a DEF RecordsMatchWork

(* The invariant of the run lane is inductive.                              *)
LEMMA LaneStep == RInv /\ [Next]_vars => RInv'
<1> SUFFICES ASSUME RInv, [Next]_vars PROVE RInv'
  OBVIOUS
<1>0. TypeOK' /\ RunsInHand'
  BY LaneTypeStep
<1>1. ASSUME NEW r \in Runs, CreateRun(r) PROVE RecordsMatchWork'
  BY <1>1, SubmitKeeps DEF CreateRun
<1>2. ASSUME NEW w \in Workers, PopRun(w) PROVE RecordsMatchWork'
  BY <1>2, PopKeeps
<1>3. ASSUME NEW w \in Workers, CompleteRun(w) PROVE RecordsMatchWork'
  BY <1>3, CompleteKeeps
<1>4. ASSUME SweeperTick PROVE RecordsMatchWork'
  BY <1>4, PruneKeeps
<1>5. ASSUME UNCHANGED <<queue, record, running>> PROVE RecordsMatchWork'
  BY <1>5 DEF RInv, RecordsMatchWork
<1>6. RecordsMatchWork'
  BY <1>1, <1>2, <1>3, <1>4, <1>5
     DEF Next, LoopStep, CreateSubmission, GoClaim, ClaimSome, ClaimNone, ClaimError,
         SubmissionEnds, SubmissionFails, PauseEnds, Idle, Timeout, GrowOld, vars
<1> QED
  BY <1>0, <1>6 DEF RInv

(* The lane starts empty and the workers without a run.                     *)
LEMMA LaneInitially == Init => RInv
<1> SUFFICES ASSUME Init PROVE RInv
  OBVIOUS
<1>1. queue = <<>> /\ queue \in Seq(Runs) /\ Len(queue) = 0 /\ DOMAIN queue = {}
  BY EmptySeq DEF Init
<1>2. TypeOK
  <2>1. 0 \in 0 .. RunBurst /\ 0 \in 0 .. MaxBacklog
    BY RunBurstIsNat, MaxBacklogIsNat
  <2> QED
    BY <1>1, <2>1 DEF Init, TypeOK, RunStatus, Places
<1>3. RecordsMatchWork
  BY <1>1, RunCapacityIsNat, NoRunIsNull DEF Init, RecordsMatchWork
<1>4. RunsInHand
  BY DEF Init, RunsInHand
<1> QED
  BY <1>2, <1>3, <1>4 DEF RInv

(* The inductive invariant of the lanes.                                    *)
LEMMA LaneInvariant == Spec => []RInv
<1> QED
  BY LaneInitially, LaneStep, PTL DEF Spec

-----------------------------------------------------------------------------
(* The lanes' variables keep their types; run_streak stays within RUN_BURST. *)
THEOREM LaneTypes == Spec => []TypeOK
<1>1. RInv => TypeOK
  BY DEF RInv
<1> QED
  BY <1>1, LaneInvariant, PTL

(* The queue of runs, their records and the workers agree at any moment.    *)
THEOREM RecordsAgree == Spec => []RecordsMatchWork
<1>1. RInv => RecordsMatchWork
  BY DEF RInv
<1> QED
  BY <1>1, LaneInvariant, PTL
=============================================================================
