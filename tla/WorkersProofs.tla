--------------------------- MODULE WorkersProofs ---------------------------
(***************************************************************************)
(* Theorems about the submissions table, and about workers, heartbeats,    *)
(* sweeper and restarts, for any number of submissions, workers, tests,    *)
(* attempts and faults.                                                    *)
(*                                                                         *)
(* The first part is about the table under any client: the operations in   *)
(* any order, with any fencing token.  StepIsTableStep shows that every    *)
(* step of Workers is such a step, so that its theorems carry over.  The   *)
(* inductive invariant of Workers is IInv.                                 *)
(***************************************************************************)
EXTENDS Workers, SequenceTheorems, TLAPS

(* Every step keeps every column within its type.                           *)
LEMMA TableTypeStep == TableTypeOK /\ [TableNext]_table => TableTypeOK'
<1> SUFFICES ASSUME TableTypeOK, [TableNext]_table PROVE TableTypeOK'
  OBVIOUS
<1>1. ASSUME NEW s \in Ids, NEW k \in Keys \cup {NULL}, NEW v \in Versions, Insert(s, k, v)
      PROVE  TableTypeOK'
  BY <1>1 DEF Insert, TableTypeOK, Status
<1>2. ASSUME NEW s \in Ids, ClaimNext(s) PROVE TableTypeOK'
  <2>1. 0 \in 0 .. Tests /\ \A n \in Nat : n + 1 \in Nat
    BY TestsIsNat
  <2> QED
    BY <1>2, <2>1 DEF ClaimNext, TableTypeOK, Status, InFlight
<1>3. ASSUME NEW s \in Ids, LeaseExpires(s) PROVE TableTypeOK'
  BY <1>3 DEF LeaseExpires, TableTypeOK
<1>4. ASSUME NEW s \in Ids, NEW a \in Nat, NEW st \in InFlight, NEW d \in 0 .. Tests,
             Progress(s, a, st, d)
      PROVE  TableTypeOK'
  BY <1>4 DEF Progress, TableTypeOK, Status, InFlight
<1>5. ASSUME NEW s \in Ids, NEW a \in Nat, NEW vd \in Verdicts, NEW d \in 0 .. Tests,
             NEW v \in Versions, Finish(s, a, vd, d, v)
      PROVE  TableTypeOK'
  BY <1>5 DEF Finish, TableTypeOK, Status
<1>6. ASSUME NEW s \in Ids, NEW a \in Nat, NEW max \in {0, MaxAttempts}, NEW e \in Errors,
             FailAttempt(s, a, max, e)
      PROVE  TableTypeOK'
  BY <1>6 DEF FailAttempt, TableTypeOK, Status, Verdicts
<1>7. CASE Sweep
  BY <1>7 DEF Sweep, TableTypeOK, Status, Verdicts, Errors
<1>8. CASE RequeueInflight
  BY <1>8 DEF RequeueInflight, TableTypeOK, Status
<1>9. CASE UNCHANGED table
  BY <1>9 DEF table, TableTypeOK
<1> QED
  BY <1>1, <1>2, <1>3, <1>4, <1>5, <1>6, <1>7, <1>8, <1>9 DEF TableNext

(* The initial table, which has no rows.                                    *)
LEMMA TableInitially == TableInit => TableTypeOK /\ LeaseCoversInFlight /\ KeysAreUnique
<1>1. 0 \in 0 .. Tests
  BY TestsIsNat
<1> QED
  BY <1>1 DEF TableInit, TableTypeOK, LeaseCoversInFlight, KeysAreUnique, InFlight

(* The columns hold values of their types, whatever the clients do.         *)
THEOREM TableTypeCorrect == TableSpec => []TableTypeOK
<1> QED
  BY TableInitially, TableTypeStep, PTL DEF TableSpec

(* Each operation sets or clears the lease together with the status.        *)
LEMMA LeaseStep ==
  TableTypeOK /\ LeaseCoversInFlight /\ [TableNext]_table => LeaseCoversInFlight'
<1> SUFFICES ASSUME TableTypeOK, LeaseCoversInFlight, [TableNext]_table,
                    NEW s \in Ids
             PROVE  (status[s] \in InFlight <=> lease[s] # NULL)'
  BY DEF LeaseCoversInFlight
<1>n. NULL # "live" /\ NULL # "expired"
  BY NullIsFresh
<1>0. /\ status[s] \in InFlight <=> lease[s] # NULL
      /\ DOMAIN status = Ids /\ DOMAIN lease = Ids
  BY DEF LeaseCoversInFlight, TableTypeOK
<1>1. ASSUME NEW t \in Ids, NEW k \in Keys \cup {NULL}, NEW v \in Versions, Insert(t, k, v)
      PROVE  (status[s] \in InFlight <=> lease[s] # NULL)'
  BY <1>0, <1>1, IdsAreNat DEF Insert, IsNextId, InFlight
<1>2. ASSUME NEW t \in Ids, ClaimNext(t)
      PROVE  (status[s] \in InFlight <=> lease[s] # NULL)'
  BY <1>0, <1>2, <1>n DEF ClaimNext, InFlight
<1>3. ASSUME NEW t \in Ids, LeaseExpires(t)
      PROVE  (status[s] \in InFlight <=> lease[s] # NULL)'
  BY <1>0, <1>3, <1>n DEF LeaseExpires
<1>4. ASSUME NEW t \in Ids, NEW a \in Nat, NEW st \in InFlight, NEW d \in 0 .. Tests,
             Progress(t, a, st, d)
      PROVE  (status[s] \in InFlight <=> lease[s] # NULL)'
  BY <1>0, <1>4, <1>n DEF Progress
<1>5. ASSUME NEW t \in Ids, NEW a \in Nat, NEW vd \in Verdicts, NEW d \in 0 .. Tests,
             NEW v \in Versions, Finish(t, a, vd, d, v)
      PROVE  (status[s] \in InFlight <=> lease[s] # NULL)'
  BY <1>0, <1>5 DEF Finish, InFlight
<1>6. ASSUME NEW t \in Ids, NEW a \in Nat, NEW max \in {0, MaxAttempts}, NEW e \in Errors,
             FailAttempt(t, a, max, e)
      PROVE  (status[s] \in InFlight <=> lease[s] # NULL)'
  BY <1>0, <1>6 DEF FailAttempt, InFlight
<1>7. CASE Sweep
  BY <1>0, <1>7 DEF Sweep, Expired, InFlight
<1>8. CASE RequeueInflight
  BY <1>0, <1>8 DEF RequeueInflight, InFlight
<1>9. CASE UNCHANGED table
  BY <1>0, <1>9 DEF table
<1> QED
  BY <1>1, <1>2, <1>3, <1>4, <1>5, <1>6, <1>7, <1>8, <1>9 DEF TableNext

(* A row in flight always has a lease for sweep to find, and no other row   *)
(* has one.                                                                 *)
THEOREM LeaseAlwaysCovers == TableSpec => []LeaseCoversInFlight
<1> QED
  BY TableInitially, TableTypeStep, LeaseStep, PTL DEF TableSpec

(* Only insert writes idempotency_key, after looking the key up.            *)
LEMMA KeysStep == TableTypeOK /\ KeysAreUnique /\ [TableNext]_table => KeysAreUnique'
<1> SUFFICES ASSUME TableTypeOK, KeysAreUnique, [TableNext]_table PROVE KeysAreUnique'
  OBVIOUS
<1>1. ASSUME NEW s \in Ids, NEW k \in Keys \cup {NULL}, NEW v \in Versions, Insert(s, k, v)
      PROVE  KeysAreUnique'
  BY <1>1 DEF Insert, TableTypeOK, KeysAreUnique
<1>2. CASE key' = key
  BY <1>2 DEF KeysAreUnique
<1> QED
  BY <1>1, <1>2 DEF TableNext, table, ClaimNext, LeaseExpires, Progress, Finish,
                    FailAttempt, Sweep, RequeueInflight

(* At most one row per idempotency key.                                     *)
THEOREM KeysStayUnique == TableSpec => []KeysAreUnique
<1> QED
  BY TableInitially, TableTypeStep, KeysStep, PTL DEF TableSpec

(* insert never overwrites a row.                                           *)
LEMMA InsertIsFresh ==
  ASSUME NEW s \in Ids, NEW k, NEW v, Insert(s, k, v) PROVE status[s] = "ABSENT"
<1> QED
  BY IdsAreNat DEF Insert, IsNextId

(* The fencing and the status filters of the WHERE clauses keep every       *)
(* operation away from DONE rows.                                           *)
LEMMA DoneStep == TableTypeOK /\ [TableNext]_table => DoneRowsStay
<1> SUFFICES ASSUME TableTypeOK, [TableNext]_table, NEW s \in Ids, status[s] = "DONE"
             PROVE  RowUnchanged(s)
  BY DEF DoneRowsStay
<1>1. ASSUME NEW t \in Ids, NEW k \in Keys \cup {NULL}, NEW v \in Versions, Insert(t, k, v)
      PROVE  RowUnchanged(s)
  <2>1. s # t
    BY <1>1, InsertIsFresh
  <2> QED
    BY <1>1, <2>1 DEF Insert, RowUnchanged, TableTypeOK
<1>2. ASSUME NEW t \in Ids, ClaimNext(t) PROVE RowUnchanged(s)
  BY <1>2 DEF ClaimNext, IsOldestQueued, RowUnchanged, TableTypeOK
<1>3. ASSUME NEW t \in Ids, LeaseExpires(t) PROVE RowUnchanged(s)
  BY <1>3 DEF LeaseExpires, RowUnchanged
<1>4. ASSUME NEW t \in Ids, NEW a \in Nat, NEW st \in InFlight, NEW d \in 0 .. Tests,
             Progress(t, a, st, d)
      PROVE  RowUnchanged(s)
  BY <1>4 DEF Progress, HoldsLease, InFlight, RowUnchanged, TableTypeOK
<1>5. ASSUME NEW t \in Ids, NEW a \in Nat, NEW vd \in Verdicts, NEW d \in 0 .. Tests,
             NEW v \in Versions, Finish(t, a, vd, d, v)
      PROVE  RowUnchanged(s)
  BY <1>5 DEF Finish, MayWrite, RowUnchanged, TableTypeOK
<1>6. ASSUME NEW t \in Ids, NEW a \in Nat, NEW max \in {0, MaxAttempts}, NEW e \in Errors,
             FailAttempt(t, a, max, e)
      PROVE  RowUnchanged(s)
  BY <1>6 DEF FailAttempt, MayWrite, RowUnchanged, TableTypeOK
<1>7. CASE Sweep
  BY <1>7 DEF Sweep, Expired, InFlight, RowUnchanged
<1>8. CASE RequeueInflight
  BY <1>8 DEF RequeueInflight, InFlight, RowUnchanged
<1>9. CASE UNCHANGED table
  BY <1>9 DEF table, RowUnchanged
<1> QED
  BY <1>1, <1>2, <1>3, <1>4, <1>5, <1>6, <1>7, <1>8, <1>9 DEF TableNext

(* No client, however stale its token, changes a DONE row.                  *)
THEOREM DoneRowsAlwaysStay == TableSpec => [][DoneRowsStay]_table
<1> QED
  BY TableTypeCorrect, DoneStep, PTL DEF TableSpec

(* Only claim_next writes attempt, and only to add one.                     *)
LEMMA TokensStep == TableTypeOK /\ [TableNext]_table => TokensAreCounted
<1> SUFFICES ASSUME TableTypeOK, [TableNext]_table PROVE TokensAreCounted
  OBVIOUS
<1>1. ASSUME NEW s \in Ids, ClaimNext(s) PROVE TokensAreCounted
  BY <1>1 DEF ClaimNext, TableTypeOK, TokensAreCounted
<1>2. CASE attempt' = attempt
  BY <1>2 DEF TokensAreCounted
<1> QED
  BY <1>1, <1>2 DEF TableNext, table, Insert, LeaseExpires, Progress, Finish,
                    FailAttempt, Sweep, RequeueInflight

(* Fencing tokens never go back and none is skipped.                        *)
THEOREM TokensAlwaysCounted == TableSpec => [][TokensAreCounted]_table
<1> QED
  BY TableTypeCorrect, TokensStep, PTL DEF TableSpec

-----------------------------------------------------------------------------
IInv == TypeOK /\ Bookkeeping

(* A worker that is not idle has a job, and its job is a row and a token.   *)
LEMMA BusyHasJob ==
  ASSUME IInv, NEW w \in Workers, pc[w] # "idle"
  PROVE  job[w].id \in Ids /\ job[w].attempt \in Nat
<1>1. job[w] \in [id : Ids, attempt : Nat]
  BY DEF IInv, TypeOK, Bookkeeping
<1> QED
  BY <1>1

(* What judge() can return is one of the outcomes handle_submission matches. *)
LEMMA OutcomesType ==
  ASSUME NEW l, NEW p
  PROVE  Outcomes(l, p) \subseteq {"AC", "WA", "CE", "sandbox", "no language"}
<1> QED
  BY DEF Outcomes

(* A problem version is at hand whenever one is written.                    *)
LEMMA VersionType ==
  ASSUME IInv, catalog.version # NULL PROVE catalog.version \in Versions
<1> QED
  BY CatalogsType DEF IInv, TypeOK

(* The writes of a worker and of its heartbeat, with their fencing token.   *)
Judged == {"AC", "WA", "CE"}
Gone   == {"no problem", "no language"}

WorkerWrites(w, s, a) ==
  \/ \E st \in InFlight, d \in 0 .. Tests : Progress(s, a, st, d)
  \/ \E e \in Gone : FailAttempt(s, a, 0, e)
  \/ FailAttempt(s, a, MaxAttempts, "sandbox")
  \/ /\ pc[w] = "record" /\ outcome[w] \in Judged
     /\ Finish(s, a, outcome[w], TestsRun(w), catalog.version)

(* How a step can change the table.                                         *)
TableCases ==
  \/ /\ catalog.version \in Versions
     /\ \E s \in Ids, k \in Keys \cup {NULL} : Insert(s, k, catalog.version)
  \/ \E s \in Ids : ClaimNext(s) \/ LeaseExpires(s)
  \/ \E w \in Workers : /\ pc[w] # "idle"
                        /\ <<pc[w], chan[w]>>' # <<pc[w], chan[w]>>
                        /\ WorkerWrites(w, job[w].id, job[w].attempt)
  \/ Sweep
  \/ ~up /\ RequeueInflight
  \/ UNCHANGED table

(* No step changes the table in another way.                                *)
LEMMA StepCases == IInv /\ [Next]_vars => TableCases
<1> SUFFICES ASSUME IInv, [Next]_vars PROVE TableCases
  OBVIOUS
<1>1. CASE CreateSubmission
  BY <1>1, VersionType DEF CreateSubmission, TableCases
<1>2. ASSUME NEW w \in Workers, Claim(w) PROVE TableCases
  BY <1>2 DEF Claim, TableCases
<1>3. ASSUME NEW w \in Workers, ProblemGone(w) PROVE TableCases
  <2>1. pc'[w] # pc[w]
    BY <1>3 DEF ProblemGone, Return, Goto, IInv, TypeOK
  <2> QED
    BY <1>3, <2>1 DEF ProblemGone, IfOwner, TableCases, WorkerWrites, Gone
<1>4. ASSUME NEW w \in Workers, Heartbeat(w) PROVE TableCases
  <2>1. chan[w] \in Seq(Compiling .. Tests) /\ chan[w] # <<>>
    BY <1>4 DEF Heartbeat, IInv, TypeOK
  <2>2. Len(Tail(chan[w])) = Len(chan[w]) - 1 /\ Len(chan[w]) \in Nat
    BY <2>1, HeadTailProperties, LenProperties
  <2>3. Len(Tail(chan[w])) # Len(chan[w])
    BY ONLY <2>2
  <2>4. chan'[w] # chan[w]
    BY <1>4, <2>3, Zenon DEF Heartbeat, IInv, TypeOK
  <2>5. Head(chan[w]) \in Compiling .. Tests
    BY <2>1, HeadTailProperties
  <2>6. Head(chan[w]) # Compiling => Head(chan[w]) \in 0 .. Tests
    BY <2>5, TestsIsNat DEF Compiling
  <2>7. 0 \in 0 .. Tests
    BY TestsIsNat
  <2>8. pc[w] # "idle"
    BY <1>4 DEF Heartbeat, IInv, Bookkeeping
  <2> QED
    BY <1>4, <2>4, <2>6, <2>7, <2>8 DEF Heartbeat, IfOwner, TableCases, WorkerWrites, InFlight
<1>5. ASSUME NEW w \in Workers, Record(w) PROVE TableCases
  <2>1. pc'[w] # pc[w] /\ pc[w] = "record"
    BY <1>5 DEF Record, Goto, IInv, TypeOK
  <2>2. outcome[w] \in {"AC", "WA", "CE", "sandbox", "no language"}
    BY <1>5, OutcomesType DEF Record, IInv, Bookkeeping
  <2>3. \/ UNCHANGED table
        \/ WorkerWrites(w, job[w].id, job[w].attempt)
    BY <1>5, <2>1, <2>2 DEF Record, IfOwner, WorkerWrites, Gone, Judged
  <2> QED
    BY <2>1, <2>3 DEF TableCases
<1>6. CASE SweeperTick
  BY <1>6 DEF SweeperTick, TableCases
<1>7. ASSUME NEW s \in Ids, Tick(s) PROVE TableCases
  BY <1>7 DEF Tick, TableCases
<1>8. CASE Restart
  BY <1>8 DEF Restart, TableCases
<1>9. CASE UNCHANGED table
  BY <1>9 DEF TableCases
<1> QED
  BY <1>1, <1>2, <1>3, <1>4, <1>5, <1>6, <1>7, <1>8, <1>9
     DEF Next, WorkerStep, HeartbeatStep, Start, JudgeNotify, JudgeReturn, Drained,
         LastGet, LastPublish, HeartbeatGet, HeartbeatPublish, Hang, Crash, ProcessGone, vars

(* tests_done never exceeds the number of tests.                            *)
LEMMA TestsRunType == ASSUME IInv, NEW w \in Workers PROVE TestsRun(w) \in 0 .. Tests
<1>1. at[w] \in Nothing .. Tests
  BY DEF IInv, TypeOK
<1> QED
  BY <1>1, TestsIsNat DEF TestsRun, Nothing

(* Whatever a worker's store call does to the table, some client call does. *)
LEMMA StepIsTableStep == IInv /\ [Next]_vars => [TableNext]_table
<1> SUFFICES ASSUME IInv, [Next]_vars PROVE [TableNext]_table
  OBVIOUS
<1>0. TableCases
  BY StepCases
<1>1. ASSUME NEW w \in Workers, pc[w] # "idle", WorkerWrites(w, job[w].id, job[w].attempt)
      PROVE  TableNext
  <2>1. job[w].id \in Ids /\ job[w].attempt \in Nat
    BY <1>1, BusyHasJob
  <2>2. pc[w] = "record" => catalog.version \in Versions
    BY VersionType DEF IInv, Bookkeeping, Judging
  <2>3. TestsRun(w) \in 0 .. Tests
    BY TestsRunType
  <2> QED
    BY <1>1, <2>1, <2>2, <2>3 DEF WorkerWrites, TableNext, Judged, Gone, Verdicts, Errors
<1> QED
  BY <1>0, <1>1 DEF TableCases, TableNext

(* claim_next returns a well-formed job.                                    *)
LEMMA NextToken ==
  ASSUME TableTypeOK, NEW s \in Ids
  PROVE  [id |-> s, attempt |-> attempt[s] + 1] \in [id : Ids, attempt : Nat]
<1>1. attempt[s] \in Nat
  BY DEF TableTypeOK
<1>2. attempt[s] + 1 \in Nat
  BY ONLY <1>1
<1> QED
  BY <1>2

(* Progress stays between the start and the last test.                      *)
LEMMA NextProgressType ==
  ASSUME NEW l, NEW p \in Nothing .. Tests, p < Tests
  PROVE  NextProgress(l, p) \in Compiling .. Tests
<1> QED
  BY TestsIsNat DEF NextProgress, Nothing, Compiling

(* The values of at.                                                        *)
LEMMA ProgressRange == /\ Compiling .. Tests \subseteq Nothing .. Tests
                       /\ Nothing \in Nothing .. Tests
<1> QED
  BY TestsIsNat DEF Nothing, Compiling

(* The fault budget is never exceeded.                                      *)
LEMMA FaultType ==
  ASSUME faults \in 0 .. MaxFaults, NEW kind, Fault(kind)
  PROVE  faults' \in 0 .. MaxFaults
<1> QED
  BY MaxFaultsIsNat DEF Fault

(* Every step keeps every variable within its type.                         *)
LEMMA TypeStep == IInv /\ [Next]_vars => TypeOK'
<1> SUFFICES ASSUME IInv, [Next]_vars PROVE TypeOK'
  OBVIOUS
<1>0. TableTypeOK'
  BY StepIsTableStep, TableTypeStep DEF IInv, TypeOK
<1> USE <1>0 DEF IInv, TypeOK, PCs, HBs
<1>1. CASE CreateSubmission
  BY <1>1 DEF CreateSubmission, local
<1>2. ASSUME NEW w \in Workers, Claim(w) PROVE TypeOK'
  <2>1. PICK s \in Ids :
          /\ ClaimNext(s)
          /\ job' = [job EXCEPT ![w] = [id |-> s, attempt |-> attempt[s] + 1]]
    BY <1>2 DEF Claim
  <2>2. [id |-> s, attempt |-> attempt[s] + 1] \in [id : Ids, attempt : Nat]
    BY NextToken
  <2> QED
    BY <1>2, <2>1, <2>2 DEF Claim, Goto
<1>3. ASSUME NEW w \in Workers, ProblemGone(w) PROVE TypeOK'
  BY <1>3, FaultType, ProgressRange DEF ProblemGone, Return, Goto
<1>4. ASSUME NEW w \in Workers, Start(w) PROVE TypeOK'
  BY <1>4 DEF Start, Goto
<1>5. ASSUME NEW w \in Workers, JudgeNotify(w) PROVE TypeOK'
  <2>1. NextProgress(catalog.language, at[w]) \in Compiling .. Tests
    BY <1>5, NextProgressType DEF JudgeNotify
  <2>2. Append(chan[w], NextProgress(catalog.language, at[w])) \in Seq(Compiling .. Tests)
    BY <2>1, AppendProperties
  <2> QED
    BY <1>5, <2>1, <2>2, ProgressRange DEF JudgeNotify
<1>6. ASSUME NEW w \in Workers, JudgeReturn(w) PROVE TypeOK'
  <2>1. PICK o \in Outcomes(catalog.language, at[w]) : outcome' = [outcome EXCEPT ![w] = o]
    BY <1>6 DEF JudgeReturn
  <2>2. o \in {"AC", "WA", "CE", "sandbox", "no language", NULL}
    BY OutcomesType
  <2> QED
    BY <1>6, <2>1, <2>2 DEF JudgeReturn, Goto
<1>7. ASSUME NEW w \in Workers, Hang(w) PROVE TypeOK'
  BY <1>7, FaultType DEF Hang, Goto
<1>8. ASSUME NEW w \in Workers, Heartbeat(w) PROVE TypeOK'
  <2>1. Tail(chan[w]) \in Seq(Compiling .. Tests)
    BY <1>8, HeadTailProperties DEF Heartbeat
  <2> QED
    BY <1>8, <2>1, FaultType DEF Heartbeat
<1>9. ASSUME NEW w \in Workers, HeartbeatGet(w) PROVE TypeOK'
  BY <1>9, FaultType DEF HeartbeatGet
<1>10. ASSUME NEW w \in Workers, HeartbeatPublish(w) PROVE TypeOK'
  BY <1>10 DEF HeartbeatPublish
<1>11. ASSUME NEW w \in Workers, Drained(w) PROVE TypeOK'
  BY <1>11 DEF Drained, Goto
<1>12. ASSUME NEW w \in Workers, Record(w) PROVE TypeOK'
  BY <1>12, FaultType DEF Record, Goto
<1>13. ASSUME NEW w \in Workers, LastGet(w) PROVE TypeOK'
  BY <1>13, FaultType, ProgressRange, ZenonT(60) DEF LastGet, Goto, Return
<1>14. ASSUME NEW w \in Workers, LastPublish(w) PROVE TypeOK'
  BY <1>14, ProgressRange DEF LastPublish, Goto, Return
<1>15. CASE SweeperTick
  BY <1>15, FaultType DEF SweeperTick, local
<1>16. ASSUME NEW s \in Ids, Tick(s) PROVE TypeOK'
  BY <1>16 DEF Tick, local
<1>17. CASE Crash
  BY <1>17, FaultType, ProgressRange, EmptySeq DEF Crash, ProcessGone
<1>18. CASE Restart
  BY <1>18 DEF Restart, local
<1>19. CASE UNCHANGED vars
  BY <1>19 DEF vars, local
<1> QED
  BY <1>1, <1>2, <1>3, <1>4, <1>5, <1>6, <1>7, <1>8, <1>9, <1>10, <1>11, <1>12, <1>13,
     <1>14, <1>15, <1>16, <1>17, <1>18, <1>19
     DEF Next, WorkerStep, HeartbeatStep

(* Every step keeps the locals of the workers together.                     *)
LEMMA BookkeepingStep == IInv /\ [Next]_vars => Bookkeeping'
<1> SUFFICES ASSUME IInv, [Next]_vars PROVE Bookkeeping'
  OBVIOUS
<1> USE DEF IInv, TypeOK, Bookkeeping, Judging
<1>1. CASE CreateSubmission
  BY <1>1 DEF CreateSubmission, local
<1>2. ASSUME NEW w \in Workers, Claim(w) PROVE Bookkeeping'
  BY <1>2, NextToken, NullIsNoJob, ZenonT(60) DEF Claim, Goto
<1>3. ASSUME NEW w \in Workers, ProblemGone(w) PROVE Bookkeeping'
  BY <1>3 DEF ProblemGone, Return, Goto
<1>4. ASSUME NEW w \in Workers, Start(w) PROVE Bookkeeping'
  BY <1>4 DEF Start, Goto
<1>5. ASSUME NEW w \in Workers, JudgeNotify(w) PROVE Bookkeeping'
  BY <1>5 DEF JudgeNotify
<1>6. ASSUME NEW w \in Workers, JudgeReturn(w) PROVE Bookkeeping'
  BY <1>6 DEF JudgeReturn, Goto
<1>7. ASSUME NEW w \in Workers, Hang(w) PROVE Bookkeeping'
  BY <1>7 DEF Hang, Goto
<1>8. ASSUME NEW w \in Workers, Heartbeat(w) PROVE Bookkeeping'
  BY <1>8 DEF Heartbeat
<1>9. ASSUME NEW w \in Workers, HeartbeatGet(w) PROVE Bookkeeping'
  BY <1>9 DEF HeartbeatGet
<1>10. ASSUME NEW w \in Workers, HeartbeatPublish(w) PROVE Bookkeeping'
  BY <1>10 DEF HeartbeatPublish
<1>11. ASSUME NEW w \in Workers, Drained(w) PROVE Bookkeeping'
  BY <1>11 DEF Drained, Goto
<1>12. ASSUME NEW w \in Workers, Record(w) PROVE Bookkeeping'
  BY <1>12 DEF Record, Goto
<1>13. ASSUME NEW w \in Workers, LastGet(w) PROVE Bookkeeping'
  BY <1>13, ZenonT(60) DEF LastGet, Goto, Return
<1>14. ASSUME NEW w \in Workers, LastPublish(w) PROVE Bookkeeping'
  BY <1>14 DEF LastPublish, Return, Goto
<1>15. CASE SweeperTick
  BY <1>15, FaultType DEF SweeperTick, local
<1>16. CASE Crash
  BY <1>16 DEF Crash, ProcessGone
<1>17. CASE Restart
  BY <1>17 DEF Restart, local
<1>18. ASSUME NEW s \in Ids, Tick(s) PROVE Bookkeeping'
  BY <1>18 DEF Tick, local
<1>19. CASE UNCHANGED vars
  BY <1>19 DEF vars, local
<1> QED
  BY <1>1, <1>2, <1>3, <1>4, <1>5, <1>6, <1>7, <1>8, <1>9, <1>10, <1>11, <1>12, <1>13, <1>14, <1>15, <1>16, <1>17, <1>18, <1>19
     DEF Next, WorkerStep, HeartbeatStep

-----------------------------------------------------------------------------
(* A process starts with idle workers.                                      *)
LEMMA InitIInv == Init => IInv
<1>1. TableInit => TableTypeOK
  BY TableInitially
<1> QED
  BY <1>1, ProgressRange, MaxFaultsIsNat, EmptySeq
     DEF Init, NoJobs, IInv, TypeOK, Bookkeeping, PCs, HBs, Judging

(* The inductive invariant holds, and with it the types: a worker with a    *)
(* job has a row and a token, it judges only against a problem that is      *)
(* loaded, its heartbeat lives exactly while judge() may still be heard.    *)
THEOREM Invariance == Spec => []IInv
<1>1. IInv /\ [Next]_vars => IInv'
  BY TypeStep, BookkeepingStep DEF IInv
<1> QED
  BY InitIInv, <1>1, PTL DEF Spec

(* Type correctness of the workers and of the table they write.             *)
THEOREM TypeCorrect == Spec => []TypeOK
<1>1. IInv => TypeOK
  BY DEF IInv
<1> QED
  BY Invariance, <1>1, PTL

(* Workers, heartbeats, sweeper, crashes and restarts use the table only    *)
(* through its operations, with tokens of the type claim_next issues.       *)
THEOREM ImplementsTable == Spec => TableSpec
<1>1. Init => TableInit
  BY DEF Init
<1> QED
  BY <1>1, Invariance, StepIsTableStep, PTL DEF Spec, TableSpec

(* No row is ever stuck in flight without a lease for the sweeper to find.  *)
THEOREM LeaseCovers == Spec => []LeaseCoversInFlight
<1> QED
  BY ImplementsTable, LeaseAlwaysCovers, PTL

(* A finished row never changes again, whatever stale workers still write.  *)
THEOREM DoneFinal == Spec => DoneIsFinal
<1>1. IInv /\ [Next]_vars => DoneRowsStay
  BY StepIsTableStep, DoneStep DEF IInv, TypeOK
<1> QED
  BY Invariance, <1>1, PTL DEF Spec, DoneIsFinal

-----------------------------------------------------------------------------
(* A claim issues a token nobody holds; other steps give workers no tokens. *)
LEMMA TokensUniqueStep ==
  IInv /\ TokensAreUnique /\ [Next]_vars => TokensAreUnique'
<1> SUFFICES ASSUME IInv, TokensAreUnique, [Next]_vars PROVE TokensAreUnique'
  OBVIOUS
<1>0. \A s \in Ids : attempt[s] \in Nat /\ attempt'[s] \in {attempt[s], attempt[s] + 1}
  BY StepIsTableStep, TokensStep DEF IInv, TypeOK, TableTypeOK, TokensAreCounted
<1>t. \A w \in Workers : job[w] # NULL => job[w].id \in Ids /\ job[w].attempt \in Nat
  BY BusyHasJob DEF IInv, Bookkeeping
<1>1. ASSUME NEW w \in Workers, Claim(w) PROVE TokensAreUnique'
  <2>1. PICK s \in Ids :
          /\ ClaimNext(s)
          /\ job' = [job EXCEPT ![w] = [id |-> s, attempt |-> attempt[s] + 1]]
    BY <1>1 DEF Claim
  <2>2. /\ job'[w] = [id |-> s, attempt |-> attempt[s] + 1]
        /\ \A x \in Workers \ {w} : job'[x] = job[x]
    BY <2>1 DEF IInv, TypeOK
  <2>3. attempt'[s] = attempt[s] + 1
    BY <2>1 DEF ClaimNext, IInv, TypeOK, TableTypeOK
  <2>4. \A x \in Workers \ {w} : job[x] # NULL =>
          /\ job[x].attempt \in 1 .. attempt[job[x].id]
          /\ \A y \in Workers \ {x} : job[y] # job[x]
    BY DEF TokensAreUnique
  <2>5. ASSUME NEW x \in Workers \ {w}, job[x] # NULL
        PROVE  job[x] # job'[w] /\ job[x].attempt \in 1 .. attempt'[job[x].id]
    BY <1>0, <1>t, <2>2, <2>4, <2>5
  <2>6. job'[w].attempt \in 1 .. attempt'[job'[w].id]
    BY <1>0, <2>2, <2>3
  <2> QED
    BY <2>2, <2>4, <2>5, <2>6 DEF TokensAreUnique
<1>2. ASSUME \A w \in Workers : job'[w] \in {job[w], NULL} PROVE TokensAreUnique'
  BY <1>0, <1>2, <1>t DEF TokensAreUnique
<1>3. \/ \E w \in Workers : Claim(w)
      \/ \A w \in Workers : job'[w] \in {job[w], NULL}
  BY DEF Next, WorkerStep, HeartbeatStep, CreateSubmission, ProblemGone, Start, JudgeNotify,
         JudgeReturn, Drained, Record, LastGet, LastPublish, Return, Heartbeat, HeartbeatGet,
         HeartbeatPublish, Hang, SweeperTick, Tick, Crash, ProcessGone, Restart, vars, local, IInv, TypeOK
<1> QED
  BY <1>1, <1>2, <1>3

(* At most one worker can pass the fencing check of a row.                  *)
THEOREM TokensUnique == Spec => []TokensAreUnique
<1>1. Init => TokensAreUnique
  BY DEF Init, NoJobs, TokensAreUnique
<1> QED
  BY <1>1, Invariance, TokensUniqueStep, PTL DEF Spec

-----------------------------------------------------------------------------
(* Only finish and the two ways of giving up write a verdict.               *)
LEMMA ErrorStep == IInv /\ ErrorExplainsIE /\ [Next]_vars => ErrorExplainsIE'
<1> SUFFICES ASSUME IInv, ErrorExplainsIE, [Next]_vars PROVE ErrorExplainsIE'
  OBVIOUS
<1>0. TableCases
  BY StepCases
<1> USE DEF ErrorExplainsIE
<1>t. TableTypeOK
  BY DEF IInv, TypeOK
<1>n. NULL \notin {"AC", "WA", "CE", "IE", "sandbox", "no problem", "no language", "lease expired"}
  BY NullIsFresh
<1>1. ASSUME NEW s \in Ids, NEW k, Insert(s, k, catalog.version) PROVE ErrorExplainsIE'
  <2>1. status[s] = "ABSENT"
    BY <1>1, InsertIsFresh
  <2> QED
    BY <1>1, <1>t, <2>1 DEF Insert, TableTypeOK
<1>2. ASSUME NEW s \in Ids, ClaimNext(s) PROVE ErrorExplainsIE'
  BY <1>2, <1>t, <1>n DEF ClaimNext, IsOldestQueued, TableTypeOK
<1>3. ASSUME NEW s \in Ids, LeaseExpires(s) PROVE ErrorExplainsIE'
  BY <1>3 DEF LeaseExpires
<1>4. ASSUME NEW w \in Workers, pc[w] # "idle", WorkerWrites(w, job[w].id, job[w].attempt)
      PROVE  ErrorExplainsIE'
  <2> DEFINE s == job[w].id
             a == job[w].attempt
  <2>1. s \in Ids
    BY <1>4, BusyHasJob
  <2>2. ASSUME NEW st \in InFlight, NEW d, Progress(s, a, st, d) PROVE ErrorExplainsIE'
    BY <1>t, <2>1, <2>2 DEF Progress, HoldsLease, InFlight, TableTypeOK
  <2>3. ASSUME NEW e \in Gone, FailAttempt(s, a, 0, e) PROVE ErrorExplainsIE'
    <3>1. a \in Nat
      BY <1>4, BusyHasJob
    <3>2. GivesUp(a, 0)
      BY ONLY <3>1 DEF GivesUp
    <3> QED
      BY <1>t, <1>n, <2>1, <2>3, <3>2 DEF FailAttempt, MayWrite, TableTypeOK, Gone
  <2>4. ASSUME FailAttempt(s, a, MaxAttempts, "sandbox") PROVE ErrorExplainsIE'
    BY <1>t, <1>n, <2>1, <2>4 DEF FailAttempt, MayWrite, GivesUp, TableTypeOK
  <2>5. ASSUME outcome[w] \in Judged,
               Finish(s, a, outcome[w], TestsRun(w), catalog.version)
        PROVE  ErrorExplainsIE'
    BY <1>t, <1>n, <2>1, <2>5 DEF Finish, MayWrite, Judged, TableTypeOK
  <2> QED
    BY <1>4, <2>2, <2>3, <2>4, <2>5 DEF WorkerWrites
<1>5. CASE Sweep
  BY <1>5, <1>t, <1>n DEF Sweep, Expired, GivesUp, InFlight, TableTypeOK
<1>6. CASE RequeueInflight
  BY <1>6 DEF RequeueInflight, InFlight
<1>7. CASE UNCHANGED table
  BY <1>7 DEF table
<1> QED
  BY <1>0, <1>1, <1>2, <1>3, <1>4, <1>5, <1>6, <1>7 DEF TableCases

(* IE means an infrastructure error that is on record, after the allowed    *)
(* attempts or with the problem or language gone.                           *)
THEOREM ErrorsExplained == Spec => []ErrorExplainsIE
<1>1. NULL # "IE"
  BY NullIsFresh
<1>2. Init => ErrorExplainsIE
  BY <1>1 DEF Init, TableInit, ErrorExplainsIE
<1> QED
  BY <1>2, Invariance, ErrorStep, PTL DEF Spec

(* What an outcome says about the progress at which judge() returned.       *)
LEMMA OutcomeTests ==
  ASSUME NEW l, NEW p \in Nothing .. Tests, NEW o \in Outcomes(l, p)
  PROVE  LET n == IF p < 0 THEN 0 ELSE p
         IN  /\ o = "AC" => n = Tests
             /\ o = "CE" => n = 0
             /\ o = "WA" => n > 0
<1>1. o = "AC" => p = Tests
  BY DEF Outcomes
<1>2. o = "CE" => p = Compiling
  BY DEF Outcomes
<1>3. o = "WA" => p \in 1 .. Tests
  BY DEF Outcomes
<1> QED
  BY <1>1, <1>2, <1>3, TestsIsNat DEF Compiling

(* Progress never touches a row that has a verdict, and finish writes the   *)
(* number of tests together with the verdict they led to.                   *)
LEMMA VerdictStep ==
  IInv /\ ErrorExplainsIE /\ VerdictMatchesTests /\ [Next]_vars => VerdictMatchesTests'
<1> SUFFICES ASSUME IInv, ErrorExplainsIE, VerdictMatchesTests, [Next]_vars
             PROVE  VerdictMatchesTests'
  OBVIOUS
<1>0. TableCases
  BY StepCases
<1>t. TableTypeOK
  BY DEF IInv, TypeOK
<1>d. \A s \in Ids : status[s] # "DONE" => verdict[s] = NULL
  BY DEF ErrorExplainsIE
<1>n. NULL \notin {"AC", "WA", "CE", "IE"}
  BY NullIsFresh
<1> USE DEF VerdictMatchesTests
<1>1. CASE verdict' = verdict /\ tests_done' = tests_done
  BY <1>1
<1>2. ASSUME NEW s \in Ids, ClaimNext(s) PROVE VerdictMatchesTests'
  BY <1>2, <1>t, <1>d, <1>n DEF ClaimNext, IsOldestQueued, TableTypeOK
<1>3. ASSUME NEW w \in Workers, pc[w] # "idle", WorkerWrites(w, job[w].id, job[w].attempt)
      PROVE  VerdictMatchesTests'
  <2> DEFINE s == job[w].id
             a == job[w].attempt
  <2>1. s \in Ids
    BY <1>3, BusyHasJob
  <2>2. ASSUME NEW st \in InFlight, NEW d, Progress(s, a, st, d) PROVE VerdictMatchesTests'
    BY <1>t, <1>d, <1>n, <2>1, <2>2 DEF Progress, HoldsLease, InFlight, TableTypeOK
  <2>3. ASSUME NEW max, NEW e, FailAttempt(s, a, max, e) PROVE VerdictMatchesTests'
    BY <1>t, <2>1, <2>3 DEF FailAttempt, TableTypeOK
  <2>4. ASSUME pc[w] = "record", outcome[w] \in Judged,
               Finish(s, a, outcome[w], TestsRun(w), catalog.version)
        PROVE  VerdictMatchesTests'
    <3>1. at[w] \in Nothing .. Tests /\ outcome[w] \in Outcomes(catalog.language, at[w])
      BY <2>4 DEF IInv, TypeOK, Bookkeeping
    <3>2. /\ outcome[w] = "AC" => TestsRun(w) = Tests
          /\ outcome[w] = "CE" => TestsRun(w) = 0
          /\ outcome[w] = "WA" => TestsRun(w) > 0
      BY OutcomeTests, <3>1 DEF TestsRun
    <3> QED
      BY <1>t, <2>1, <2>4, <3>2 DEF Finish, TableTypeOK
  <2> QED
    BY <1>3, <2>2, <2>3, <2>4 DEF WorkerWrites
<1>4. CASE Sweep
  BY <1>4, <1>t DEF Sweep, TableTypeOK
<1> QED
  BY <1>0, <1>1, <1>2, <1>3, <1>4 DEF TableCases, Insert, LeaseExpires, RequeueInflight, table

(* A stored verdict agrees with the number of tests stored beside it.       *)
THEOREM VerdictsMatch == Spec => []VerdictMatchesTests
<1>1. NULL \notin {"AC", "WA", "CE"}
  BY NullIsFresh
<1>2. Init => VerdictMatchesTests
  BY <1>1 DEF Init, TableInit, VerdictMatchesTests
<1> QED
  BY <1>2, Invariance, ErrorsExplained, VerdictStep, PTL DEF Spec

-----------------------------------------------------------------------------
(* A worker's write changes the row of its token and no other.              *)
LEMMA WritesOwnRow ==
  ASSUME IInv, NEW w \in Workers, pc[w] # "idle",
         WorkerWrites(w, job[w].id, job[w].attempt)
  PROVE  /\ Owns(w, job[w].id)
         /\ status[job[w].id] # "DONE"
         /\ \A s \in Ids : s # job[w].id => RowUnchanged(s)
<1> DEFINE r == job[w].id
           a == job[w].attempt
<1>0. r \in Ids /\ job[w] # NULL /\ TableTypeOK
  BY BusyHasJob DEF IInv, TypeOK, Bookkeeping
<1> HIDE DEF r, a
<1>w. WorkerWrites(w, r, a)
  BY DEF r, a
<1>1. attempt[r] = a /\ status[r] # "DONE"
  BY <1>w DEF WorkerWrites, Progress, HoldsLease, InFlight, FailAttempt, MayWrite, Finish
<1>2. \A s \in Ids : s # r => RowUnchanged(s)
  <2>1. ASSUME NEW st, NEW d, Progress(r, a, st, d) PROVE \A s \in Ids : s # r => RowUnchanged(s)
    BY <1>0, <2>1 DEF Progress, RowUnchanged, TableTypeOK
  <2>2. ASSUME NEW max, NEW e, FailAttempt(r, a, max, e)
        PROVE  \A s \in Ids : s # r => RowUnchanged(s)
    BY <1>0, <2>2 DEF FailAttempt, RowUnchanged, TableTypeOK
  <2>3. ASSUME NEW vd, NEW d, NEW v, Finish(r, a, vd, d, v)
        PROVE  \A s \in Ids : s # r => RowUnchanged(s)
    BY <1>0, <2>3 DEF Finish, RowUnchanged, TableTypeOK
  <2> QED
    BY <1>w, <2>1, <2>2, <2>3 DEF WorkerWrites
<1> QED
  BY <1>0, <1>1, <1>2 DEF r, a, Owns

(* What a step may do to a row whose lease is live.                         *)
LEMMA LiveLeaseStep ==
  ASSUME IInv, LeaseCoversInFlight, [Next]_vars, NEW s \in Ids, lease[s] = "live", up
  PROVE  \/ RowUnchanged(s)
         \/ \E w \in Workers : Owns(w, s) /\ <<pc[w], chan[w]>>' # <<pc[w], chan[w]>>
<1>0. TableCases
  BY StepCases
<1>t. TableTypeOK
  BY DEF IInv, TypeOK
<1>f. status[s] \in InFlight
  BY NullIsFresh DEF LeaseCoversInFlight
<1>1. ASSUME NEW t \in Ids, NEW k, Insert(t, k, catalog.version) PROVE RowUnchanged(s)
  <2>1. t # s
    BY <1>1, <1>f, InsertIsFresh DEF InFlight
  <2> QED
    BY <1>1, <1>t, <2>1 DEF Insert, RowUnchanged, TableTypeOK
<1>2. ASSUME NEW t \in Ids, ClaimNext(t) PROVE RowUnchanged(s)
  BY <1>2, <1>f, <1>t DEF ClaimNext, IsOldestQueued, InFlight, RowUnchanged, TableTypeOK
<1>3. ASSUME NEW t \in Ids, LeaseExpires(t) PROVE RowUnchanged(s)
  BY <1>3 DEF LeaseExpires, RowUnchanged
<1>4. ASSUME NEW w \in Workers, pc[w] # "idle",
             WorkerWrites(w, job[w].id, job[w].attempt)
      PROVE  RowUnchanged(s) \/ Owns(w, s)
  BY <1>4, WritesOwnRow
<1>5. CASE Sweep
  BY <1>5, <1>t DEF Sweep, Expired, RowUnchanged, TableTypeOK
<1>6. CASE UNCHANGED table
  BY <1>6 DEF table, RowUnchanged
<1> QED
  BY <1>0, <1>1, <1>2, <1>3, <1>4, <1>5, <1>6 DEF TableCases

(* While a lease is live, only the worker that holds its token writes the   *)
(* row.                                                                     *)
THEOREM LiveLeaseExclusive == Spec => LiveLeaseIsExclusive
<1>1. IInv /\ LeaseCoversInFlight /\ [Next]_vars =>
        \A s \in Ids :
          lease[s] = "live" /\ up =>
            \/ RowUnchanged(s)
            \/ \E w \in Workers : /\ Owns(w, s)
                                 /\ <<pc[w], chan[w]>>' # <<pc[w], chan[w]>>
  BY LiveLeaseStep
<1> QED
  BY <1>1, Invariance, LeaseCovers, PTL DEF Spec, LiveLeaseIsExclusive

(* Where a verdict other than IE comes from.                                *)
LEMMA JudgedStep ==
  ASSUME IInv, [Next]_vars, NEW s \in Ids,
         status[s] # "DONE", status'[s] = "DONE", verdict'[s] # "IE"
  PROVE  \E w \in Workers : /\ Owns(w, s)
                            /\ outcome[w] = verdict'[s]
                            /\ version'[s] = catalog.version
<1>0. TableCases
  BY StepCases
<1>t. TableTypeOK
  BY DEF IInv, TypeOK
<1>1. ASSUME NEW t \in Ids, NEW k, Insert(t, k, catalog.version) PROVE FALSE
  BY <1>1, <1>t DEF Insert, TableTypeOK
<1>2. ASSUME NEW t \in Ids, ClaimNext(t) PROVE FALSE
  BY <1>2, <1>t DEF ClaimNext, TableTypeOK
<1>3. ASSUME NEW t \in Ids, LeaseExpires(t) PROVE FALSE
  BY <1>3 DEF LeaseExpires
<1>4. ASSUME NEW w \in Workers, pc[w] # "idle",
             WorkerWrites(w, job[w].id, job[w].attempt)
      PROVE  /\ Owns(w, s)
             /\ outcome[w] = verdict'[s]
             /\ version'[s] = catalog.version
  <2>1. Owns(w, s) /\ s = job[w].id
    BY <1>4, WritesOwnRow DEF RowUnchanged
  <2>2. ASSUME NEW a, NEW st \in InFlight, NEW d, Progress(s, a, st, d) PROVE FALSE
    BY <1>t, <2>2 DEF Progress, InFlight, TableTypeOK
  <2>3. ASSUME NEW a, NEW max, NEW e, FailAttempt(s, a, max, e) PROVE FALSE
    BY <1>t, <2>3 DEF FailAttempt, TableTypeOK
  <2>4. ASSUME NEW a, NEW d, Finish(s, a, outcome[w], d, catalog.version)
        PROVE  outcome[w] = verdict'[s] /\ version'[s] = catalog.version
    BY <1>t, <2>4 DEF Finish, TableTypeOK
  <2> QED
    BY <1>4, <2>1, <2>2, <2>3, <2>4 DEF WorkerWrites
<1>5. CASE Sweep
  BY <1>5, <1>t DEF Sweep, TableTypeOK
<1>6. CASE RequeueInflight
  BY <1>6, <1>t DEF RequeueInflight, TableTypeOK
<1>7. CASE UNCHANGED table
  BY <1>7 DEF table
<1> QED
  BY <1>0, <1>1, <1>2, <1>3, <1>4, <1>5, <1>6, <1>7 DEF TableCases

(* Every verdict other than IE was computed by the worker that held the     *)
(* row's token, against the problem version stored with it.                 *)
THEOREM VerdictsJudged == Spec => VerdictIsJudged
<1>1. IInv /\ [Next]_vars =>
        \A s \in Ids :
          status[s] # "DONE" /\ status'[s] = "DONE" /\ verdict'[s] # "IE" =>
            \E w \in Workers : /\ Owns(w, s)
                               /\ outcome[w] = verdict'[s]
                               /\ version'[s] = catalog.version
  BY JudgedStep
<1> QED
  BY <1>1, Invariance, PTL DEF Spec, VerdictIsJudged

-----------------------------------------------------------------------------
(* Progress.  What waits in the channel of a worker was sent in this order   *)
(* and is not ahead of judge(); the row it owns is never ahead of judge(),   *)
(* nor, once RUNNING, of a message that still waits.                         *)
Sent(w) ==
  \A i \in 1 .. Len(chan[w]) :
     chan[w][i] <= at[w] /\ \A j \in 1 .. i - 1 : chan[w][j] < chan[w][i]

Behind(w, s) ==
  /\ tests_done[s] <= TestsRun(w)
  /\ status[s] = "COMPILING" => tests_done[s] = 0
  /\ status[s] = "RUNNING" =>
       /\ tests_done[s] <= at[w]
       /\ \A i \in 1 .. Len(chan[w]) : tests_done[s] < chan[w][i]

ProgressInv ==
  \A w \in Workers : Sent(w) /\ \A s \in Ids : Owns(w, s) => Behind(w, s)

(* What judge() sends next is ahead of all it sent.                          *)
LEMMA ProgressGrows ==
  ASSUME NEW l, NEW p \in Nothing .. Tests, p < Tests
  PROVE  NextProgress(l, p) > p
<1> QED
  BY TestsIsNat DEF NextProgress, Nothing, Compiling

(* The channel stays in order: messages are appended as judge() goes on and  *)
(* taken from the front, and it is empty when a worker forgets its job.      *)
LEMMA SentStep ==
  IInv /\ (\A w \in Workers : Sent(w)) /\ [Next]_vars => \A w \in Workers : Sent(w)'
<1> SUFFICES ASSUME IInv, \A w \in Workers : Sent(w), [Next]_vars, NEW w \in Workers
             PROVE  Sent(w)'
  OBVIOUS
<1>t. /\ chan[w] \in Seq(Compiling .. Tests)
      /\ at[w] \in Nothing .. Tests
      /\ at \in [Workers -> Nothing .. Tests]
      /\ chan \in [Workers -> Seq(Compiling .. Tests)]
  BY DEF IInv, TypeOK
<1>l. Len(chan[w]) \in Nat
  BY <1>t, LenProperties
<1>e. \A i \in 1 .. Len(chan[w]) : chan[w][i] \in Compiling .. Tests
  BY <1>t, ElementOfSeq
<1>s. Sent(w)
  OBVIOUS
<1>1. CASE chan'[w] = chan[w] /\ at'[w] = at[w]
  BY <1>s, <1>1 DEF Sent
<1>2. CASE chan'[w] = <<>>
  <2>1. Len(chan'[w]) = 0
    BY <1>2, EmptySeq
  <2> QED
    BY <2>1 DEF Sent
<1>3. CASE JudgeNotify(w)
  <2> DEFINE p == NextProgress(catalog.language, at[w])
             n == Len(chan[w])
  <2>1. p \in Compiling .. Tests /\ p > at[w]
    BY <1>3, <1>t, NextProgressType, ProgressGrows DEF JudgeNotify
  <2>2. at'[w] = p /\ chan'[w] = Append(chan[w], p)
    BY <1>3, <1>t DEF JudgeNotify
  <2> HIDE DEF p
  <2>3. /\ Len(chan'[w]) = n + 1
        /\ chan'[w][n + 1] = p
        /\ \A i \in 1 .. n : chan'[w][i] = chan[w][i]
    BY <1>t, <2>1, <2>2, AppendProperties
  <2>4. \A i \in 1 .. n : chan[w][i] <= at[w] /\ \A j \in 1 .. i - 1 : chan[w][j] < chan[w][i]
    BY <1>s DEF Sent
  <2> HIDE DEF n
  <2>n. n \in Nat
    BY <1>l DEF n
  <2>c. p \in Int /\ at[w] \in Int /\ \A i \in 1 .. n : chan[w][i] \in Int
    BY <1>t, <1>e, <2>1, TestsIsNat DEF n, Compiling, Nothing
  <2>5. ASSUME NEW i \in 1 .. n + 1
        PROVE  chan'[w][i] <= p /\ \A j \in 1 .. i - 1 : chan'[w][j] < chan'[w][i]
    <3>1. CASE i = n + 1
      BY <2>1, <2>3, <2>4, <2>n, <2>c, <3>1
    <3>2. CASE i \in 1 .. n
      BY <2>1, <2>3, <2>4, <2>n, <2>c, <3>2
    <3> QED
      BY <2>n, <3>1, <3>2
  <2> QED
    BY <2>2, <2>3, <2>5 DEF Sent
<1>4. CASE Heartbeat(w)
  <2>1. chan[w] # <<>> /\ chan'[w] = Tail(chan[w]) /\ at'[w] = at[w]
    BY <1>4, <1>t DEF Heartbeat
  <2>2. /\ Len(chan'[w]) = Len(chan[w]) - 1
        /\ \A i \in 1 .. Len(chan'[w]) : chan'[w][i] = chan[w][i + 1]
    BY <1>t, <2>1, HeadTailProperties
  <2> QED
    BY <1>s, <1>l, <2>1, <2>2 DEF Sent
<1>5. \/ chan'[w] = chan[w] /\ at'[w] = at[w]
      \/ chan'[w] = <<>>
      \/ JudgeNotify(w) \/ Heartbeat(w)
  <2>1. ASSUME NEW x \in Workers, Return(x), hb[x] = "none"
        PROVE  (chan'[w] = chan[w] /\ at'[w] = at[w]) \/ chan'[w] = <<>>
    BY <2>1, <1>t DEF Return, IInv, Bookkeeping
  <2>2. ASSUME NEW x \in Workers, Claim(x) \/ Start(x) \/ JudgeReturn(x) \/ Drained(x)
                 \/ Record(x) \/ HeartbeatGet(x) \/ HeartbeatPublish(x) \/ Hang(x)
        PROVE  chan'[w] = chan[w] /\ at'[w] = at[w]
    BY <2>2 DEF Claim, Start, JudgeReturn, Drained, Record, HeartbeatGet, HeartbeatPublish, Hang
  <2>3. ASSUME NEW x \in Workers, JudgeNotify(x) \/ Heartbeat(x), x # w
        PROVE  chan'[w] = chan[w] /\ at'[w] = at[w]
    BY <2>3, <1>t DEF JudgeNotify, Heartbeat
  <2>4. ASSUME NEW x \in Workers, ProblemGone(x) PROVE Return(x) /\ hb[x] = "none"
    BY <2>4 DEF ProblemGone, IInv, Bookkeeping, TypeOK
  <2>5. ASSUME NEW x \in Workers, LastGet(x)
        PROVE  (chan'[w] = chan[w] /\ at'[w] = at[w]) \/ chan'[w] = <<>>
    <3>1. hb[x] = "none"
      BY <2>5 DEF LastGet, IInv, Bookkeeping, TypeOK
    <3>2. CASE Return(x)
      BY <2>1, <3>1, <3>2
    <3>3. CASE UNCHANGED <<at, chan>>
      BY <3>3
    <3> QED
      BY <2>5, <3>2, <3>3 DEF LastGet
  <2>6. ASSUME NEW x \in Workers, LastPublish(x) PROVE Return(x) /\ hb[x] = "none"
    BY <2>6 DEF LastPublish, IInv, Bookkeeping, TypeOK
  <2>7. ASSUME CreateSubmission \/ SweeperTick \/ Restart \/ (\E s \in Ids : Tick(s))
                 \/ UNCHANGED vars
        PROVE  chan'[w] = chan[w] /\ at'[w] = at[w]
    BY <2>7 DEF CreateSubmission, SweeperTick, Restart, Tick, vars, local
  <2>8. CASE Crash
    BY <2>8 DEF Crash, ProcessGone
  <2> QED
    BY <2>1, <2>2, <2>3, <2>4, <2>5, <2>6, <2>7, <2>8 DEF Next, WorkerStep, HeartbeatStep
<1> QED
  BY <1>1, <1>2, <1>3, <1>4, <1>5

(* What a step does to the progress of a row within one attempt: nothing,    *)
(* except that the row may leave the workers' hands; or it ends with the     *)
(* tests its owner ran; or its owner's heartbeat writes the next message.    *)
Written(w, s) ==
  LET p == Head(chan[w])
  IN  /\ Owns(w, s) /\ Heartbeat(w) /\ status[s] \in InFlight
      /\ status'[s] = IF p = Compiling THEN "COMPILING" ELSE "RUNNING"
      /\ tests_done'[s] = IF p = Compiling THEN 0 ELSE p

RowCases(s) ==
  \/ /\ tests_done'[s] = tests_done[s]
     /\ status'[s] = status[s] \/ status'[s] \notin InFlight
  \/ \E w \in Workers : /\ Owns(w, s)
                        /\ tests_done'[s] = TestsRun(w)
                        /\ status'[s] = "DONE"
  \/ \E w \in Workers : Written(w, s)

LEMMA RowStep ==
  ASSUME IInv, [Next]_vars, NEW s \in Ids, attempt'[s] = attempt[s]
  PROVE  RowCases(s)
<1>t. TableTypeOK
  BY DEF IInv, TypeOK
<1>j. \A w \in Workers : pc[w] # "idle" => job[w] # NULL /\ job[w].id \in Ids
  BY BusyHasJob DEF IInv, Bookkeeping
<1>1. CASE CreateSubmission
  BY <1>1, <1>t DEF CreateSubmission, Insert, RowCases, InFlight, TableTypeOK
<1>2. ASSUME NEW w \in Workers, Claim(w) PROVE RowCases(s)
  <2>1. PICK t \in Ids : ClaimNext(t)
    BY <1>2 DEF Claim
  <2>2. t # s
    BY <2>1, <1>t DEF ClaimNext, TableTypeOK
  <2> QED
    BY <2>1, <2>2, <1>t DEF ClaimNext, RowCases, TableTypeOK
<1>3. ASSUME NEW t \in Ids, NEW a, NEW max, NEW e, FailAttempt(t, a, max, e)
      PROVE  RowCases(s)
  BY <1>3, <1>t DEF FailAttempt, RowCases, InFlight, TableTypeOK
<1>4. ASSUME NEW w \in Workers, Heartbeat(w) PROVE RowCases(s)
  <2>1. pc[w] # "idle"
    BY <1>4 DEF Heartbeat, IInv, Bookkeeping
  <2>2. CASE UNCHANGED table
    BY <2>2 DEF table, RowCases
  <2>3. CASE /\ HoldsLease(job[w].id, job[w].attempt)
             /\ IF Head(chan[w]) = Compiling
                THEN Progress(job[w].id, job[w].attempt, "COMPILING", 0)
                ELSE Progress(job[w].id, job[w].attempt, "RUNNING", Head(chan[w]))
    <3>1. CASE s = job[w].id
      <4>1. Owns(w, s) /\ status[s] \in InFlight
        BY <2>1, <2>3, <3>1, <1>j DEF HoldsLease, Owns
      <4>2. Written(w, s)
        BY <1>4, <2>3, <3>1, <4>1, <1>t DEF Progress, Written, TableTypeOK
      <4> QED
        BY <4>2 DEF RowCases
    <3>2. CASE s # job[w].id
      BY <2>3, <3>2, <1>t DEF Progress, RowCases, TableTypeOK
    <3> QED
      BY <3>1, <3>2
  <2> QED
    BY <1>4, <2>2, <2>3 DEF Heartbeat, IfOwner
<1>5. ASSUME NEW w \in Workers, NEW vd, NEW v, pc[w] # "idle",
             Finish(job[w].id, job[w].attempt, vd, TestsRun(w), v)
      PROVE  RowCases(s)
  <2>1. CASE s = job[w].id
    BY <1>5, <2>1, <1>t, <1>j DEF Finish, MayWrite, Owns, RowCases, TableTypeOK
  <2>2. CASE s # job[w].id
    BY <1>5, <2>2, <1>t DEF Finish, RowCases, TableTypeOK
  <2> QED
    BY <2>1, <2>2
<1>6. CASE SweeperTick
  BY <1>6, <1>t DEF SweeperTick, Sweep, RowCases, InFlight, TableTypeOK, table
<1>7. CASE Restart
  BY <1>7, <1>t DEF Restart, RequeueInflight, RowCases, InFlight, TableTypeOK
<1>8. ASSUME NEW t \in Ids, Tick(t) PROVE RowCases(s)
  BY <1>8 DEF Tick, LeaseExpires, RowCases
<1>9. CASE UNCHANGED table
  BY <1>9 DEF table, RowCases
<1>10. ASSUME NEW w \in Workers, ProblemGone(w) PROVE RowCases(s)
  BY <1>3, <1>9, <1>10, <1>j DEF ProblemGone, IfOwner
<1>11. ASSUME NEW w \in Workers, Record(w) PROVE RowCases(s)
  BY <1>3, <1>5, <1>9, <1>11, <1>j DEF Record, IfOwner
<1> QED
  BY <1>1, <1>2, <1>4, <1>6, <1>7, <1>8, <1>9, <1>10, <1>11
     DEF Next, WorkerStep, HeartbeatStep, Start, JudgeNotify, JudgeReturn, Drained,
         LastGet, LastPublish, HeartbeatGet, HeartbeatPublish, Hang, Crash, ProcessGone, vars

(* Two workers never own the same row.                                       *)
LEMMA OneOwner ==
  ASSUME IInv, TokensAreUnique, NEW w \in Workers, NEW x \in Workers, NEW s \in Ids,
         Owns(w, s), Owns(x, s)
  PROVE  w = x
<1>1. job[w] \in [id : Ids, attempt : Nat] /\ job[x] \in [id : Ids, attempt : Nat]
  BY DEF IInv, TypeOK, Owns
<1>2. job[w] = job[x]
  BY <1>1 DEF Owns
<1> QED
  BY <1>2 DEF TokensAreUnique, Owns

(* What the heartbeat takes from a channel in order: no message behind it is *)
(* as small, and judge() is not behind it.                                   *)
LEMMA HeadIsFirst ==
  ASSUME IInv, NEW w \in Workers, Sent(w), chan[w] # <<>>
  PROVE  /\ Head(chan[w]) \in Compiling .. Tests
         /\ Head(chan[w]) <= at[w]
         /\ Len(Tail(chan[w])) \in Nat
         /\ \A i \in 1 .. Len(Tail(chan[w])) : Head(chan[w]) < Tail(chan[w])[i]
         /\ 1 \in 1 .. Len(chan[w]) /\ Head(chan[w]) = chan[w][1]
<1>t. chan[w] \in Seq(Compiling .. Tests)
  BY DEF IInv, TypeOK
<1>1. Len(chan[w]) \in Nat /\ Len(chan[w]) # 0
  BY <1>t, LenProperties, EmptySeq
<1>2. /\ Len(Tail(chan[w])) = Len(chan[w]) - 1
      /\ \A i \in 1 .. Len(Tail(chan[w])) : Tail(chan[w])[i] = chan[w][i + 1]
      /\ Head(chan[w]) = chan[w][1]
  BY <1>t, HeadTailProperties
<1>3. Head(chan[w]) \in Compiling .. Tests
  BY <1>t, HeadTailProperties
<1> QED
  BY <1>1, <1>2, <1>3 DEF Sent

(* How the locals of a worker that keeps its job may change in a step.       *)
LEMMA KeepsJob ==
  ASSUME IInv, [Next]_vars, NEW w \in Workers, job'[w] = job[w], job[w] # NULL
  PROVE  \/ at'[w] = at[w] /\ chan'[w] = chan[w]
         \/ JudgeNotify(w)
         \/ Heartbeat(w)
<1>t. /\ at \in [Workers -> Nothing .. Tests]
      /\ chan \in [Workers -> Seq(Compiling .. Tests)]
      /\ job \in [Workers -> [id : Ids, attempt : Nat] \cup {NULL}]
  BY DEF IInv, TypeOK
<1> DEFINE Same == at'[w] = at[w] /\ chan'[w] = chan[w]
<1>1. ASSUME NEW x \in Workers, Return(x) PROVE Same
  BY <1>1, <1>t DEF Return
<1>2. ASSUME NEW x \in Workers, JudgeNotify(x) \/ Heartbeat(x), x # w PROVE Same
  BY <1>2, <1>t DEF JudgeNotify, Heartbeat
<1>3. CASE Crash
  BY <1>3 DEF Crash, ProcessGone
<1> HIDE DEF Same
<1>4. ASSUME at' = at, chan' = chan PROVE Same
  BY <1>4 DEF Same
<1> QED
  BY <1>1, <1>2, <1>3, <1>4
     DEF Same, Next, WorkerStep, HeartbeatStep, CreateSubmission, Claim, ProblemGone, Start,
         JudgeReturn, Hang, HeartbeatGet, HeartbeatPublish, Drained, Record, LastGet, LastPublish,
         SweeperTick, Tick, Restart, vars, local

(* A row never gets ahead of the worker that owns it.                        *)
LEMMA BehindStep ==
  ASSUME IInv, TokensAreUnique, ProgressInv, [Next]_vars,
         NEW w \in Workers, NEW s \in Ids, Owns(w, s)'
  PROVE  Behind(w, s)'
<1>t. /\ TableTypeOK
      /\ at[w] \in Nothing .. Tests /\ at \in [Workers -> Nothing .. Tests]
      /\ chan[w] \in Seq(Compiling .. Tests)
      /\ chan \in [Workers -> Seq(Compiling .. Tests)]
      /\ job \in [Workers -> [id : Ids, attempt : Nat] \cup {NULL}]
  BY DEF IInv, TypeOK
<1>i. /\ at[w] \in Int /\ Len(chan[w]) \in Nat
      /\ \A i \in 1 .. Len(chan[w]) : chan[w][i] \in Int
      /\ tests_done[s] \in Nat
  BY <1>t, ElementOfSeq, LenProperties, TestsIsNat DEF Nothing, Compiling, TableTypeOK
<1>1. CASE Claim(w)
  <2>1. PICK t \in Ids :
          /\ ClaimNext(t)
          /\ job' = [job EXCEPT ![w] = [id |-> t, attempt |-> attempt[t] + 1]]
    BY <1>1 DEF Claim
  <2>2. s = t
    BY <2>1, <1>t DEF Owns
  <2>3. chan'[w] = <<>> /\ at'[w] = at[w]
    BY <1>1 DEF Claim, IInv, Bookkeeping
  <2>4. status'[s] = "COMPILING" /\ tests_done'[s] = 0
    BY <2>1, <2>2, <1>t DEF ClaimNext, TableTypeOK
  <2>5. TestsRun(w)' >= 0
    BY <2>3, <1>i DEF TestsRun
  <2> QED
    BY <2>4, <2>5 DEF Behind
<1>2. ASSUME ~Claim(w) PROVE Behind(w, s)'
  <2>1. job'[w] = job[w] /\ job[w] # NULL
    BY <1>2, <1>t, ZenonT(60) DEF Owns, Next, WorkerStep, HeartbeatStep, CreateSubmission, Claim, ProblemGone, Start,
         JudgeNotify, JudgeReturn, Hang, Heartbeat, HeartbeatGet, HeartbeatPublish, Drained, Record,
         LastGet, LastPublish, Return, SweeperTick, Tick, Crash, ProcessGone, Restart, vars, local
  <2>2. attempt'[s] = attempt[s] /\ Owns(w, s)
    <3>1. attempt[s] \in Nat /\ attempt'[s] \in {attempt[s], attempt[s] + 1}
      BY StepIsTableStep, TokensStep, <1>t DEF TableTypeOK, TokensAreCounted
    <3>2. job[w].attempt \in 1 .. attempt[s] /\ job[w].attempt = attempt'[s] /\ job[w].id = s
      BY <2>1 DEF TokensAreUnique, Owns
    <3>3. attempt'[s] = attempt[s]
      BY ONLY <3>1, <3>2
    <3> QED
      BY <2>1, <3>2, <3>3 DEF Owns
  <2>3. Behind(w, s) /\ Sent(w)
    BY <2>2 DEF ProgressInv
  <2>4. \/ at'[w] = at[w] /\ chan'[w] = chan[w]
        \/ JudgeNotify(w)
        \/ Heartbeat(w)
    BY <2>1, KeepsJob
  <2>5. CASE JudgeNotify(w)
    <3> DEFINE p == NextProgress(catalog.language, at[w])
               n == Len(chan[w])
    <3>1. p \in Compiling .. Tests /\ p > at[w]
      BY <2>5, <1>t, NextProgressType, ProgressGrows DEF JudgeNotify
    <3>2. at'[w] = p /\ chan'[w] = Append(chan[w], p)
      BY <2>5, <1>t DEF JudgeNotify
    <3>3. status' = status /\ tests_done' = tests_done
      BY <2>5 DEF JudgeNotify, table
    <3> HIDE DEF p
    <3>4. /\ Len(chan'[w]) = n + 1
          /\ chan'[w][n + 1] = p
          /\ \A i \in 1 .. n : chan'[w][i] = chan[w][i]
      BY <1>t, <3>1, <3>2, AppendProperties
    <3>5. p \in Int
      BY <3>1
    <3>6. tests_done'[s] <= TestsRun(w)'
      BY <2>3, <1>i, <3>1, <3>2, <3>3, <3>5 DEF Behind, TestsRun
    <3>7. status[s] = "COMPILING" => tests_done[s] = 0
      BY <2>3 DEF Behind
    <3>8. ASSUME status[s] = "RUNNING"
          PROVE  tests_done[s] <= p /\ \A i \in 1 .. n + 1 : tests_done[s] < chan'[w][i]
      <4>1. tests_done[s] <= at[w] /\ \A i \in 1 .. n : tests_done[s] < chan[w][i]
        BY <2>3, <3>8 DEF Behind
      <4> HIDE DEF n
      <4>2. n \in Nat
        BY <1>i DEF n
      <4>3. tests_done[s] < p
        BY <4>1, <3>1, <3>5, <1>i
      <4>4. ASSUME NEW i \in 1 .. n + 1 PROVE tests_done[s] < chan'[w][i]
        <5>1. CASE i = n + 1
          BY <5>1, <4>3, <3>4
        <5>2. CASE i \in 1 .. n
          BY <5>2, <4>1, <3>4
        <5> QED
          BY <4>2, <5>1, <5>2
      <4> QED
        BY <4>3, <4>4, <3>5, <1>i
    <3> QED
      BY <3>2, <3>3, <3>4, <3>6, <3>7, <3>8 DEF Behind
  <2>6. CASE at'[w] = at[w] /\ chan'[w] = chan[w]
    <3>1. TestsRun(w)' = TestsRun(w)
      BY <2>6 DEF TestsRun
    <3>2. RowCases(s)
      BY <2>2, RowStep
    <3>3. CASE /\ tests_done'[s] = tests_done[s]
               /\ status'[s] = status[s] \/ status'[s] \notin InFlight
      BY <2>3, <2>6, <3>1, <3>3 DEF Behind, InFlight
    <3>4. ASSUME NEW x \in Workers, Owns(x, s), tests_done'[s] = TestsRun(x), status'[s] = "DONE"
          PROVE  Behind(w, s)'
      <4>1. x = w
        BY <2>2, <3>4, OneOwner
      <4>2. TestsRun(w) \in Int
        BY <1>i DEF TestsRun
      <4> QED
        BY <3>1, <3>4, <4>1, <4>2 DEF Behind
    <3>5. ASSUME NEW x \in Workers, Written(x, s) PROVE Behind(w, s)'
      <4>1. x = w /\ Heartbeat(w)
        BY <2>2, <3>5, OneOwner DEF Written
      <4>2. chan[w] # <<>> /\ chan'[w] = Tail(chan[w])
        BY <4>1, <1>t DEF Heartbeat
      <4>3. Len(Tail(chan[w])) = Len(chan[w]) - 1
        BY <4>2, <1>t, HeadTailProperties
      <4>4. Len(chan[w]) # Len(chan[w]) - 1
        BY <1>i
      <4> QED
        BY <2>6, <4>2, <4>3, <4>4, Zenon
    <3> QED
      BY <3>2, <3>3, <3>4, <3>5 DEF RowCases
  <2>7. CASE Heartbeat(w)
    <3>1. at'[w] = at[w] /\ chan'[w] = Tail(chan[w]) /\ chan[w] # <<>>
      BY <2>7, <1>t DEF Heartbeat
    <3>2. TestsRun(w)' = TestsRun(w)
      BY <3>1 DEF TestsRun
    <3> DEFINE p == Head(chan[w])
               rest == Tail(chan[w])
    <3>3. /\ p \in Compiling .. Tests /\ p <= at[w]
          /\ Len(rest) \in Nat /\ \A i \in 1 .. Len(rest) : p < rest[i]
          /\ 1 \in 1 .. Len(chan[w]) /\ p = chan[w][1]
      BY <2>3, <3>1, HeadIsFirst
    <3> HIDE DEF p, rest
    <3>4. RowCases(s)
      BY <2>2, RowStep
    <3>5. CASE /\ tests_done'[s] = tests_done[s]
               /\ status'[s] = status[s] \/ status'[s] \notin InFlight
      <4>1. status[s] = "RUNNING" => \A i \in 1 .. Len(rest) : tests_done[s] < rest[i]
        <5>1. ASSUME status[s] = "RUNNING", NEW i \in 1 .. Len(rest) PROVE tests_done[s] < rest[i]
          <6>1. tests_done[s] < p /\ p < rest[i]
            BY <5>1, <2>3, <3>3 DEF Behind
          <6>2. rest \in Seq(Compiling .. Tests)
            BY <1>t, <3>1, HeadTailProperties DEF rest
          <6>3. rest[i] \in Compiling .. Tests
            BY <6>2, ElementOfSeq
          <6> QED
            BY <6>1, <6>3, <3>3, <1>i, TestsIsNat DEF Compiling
        <5> QED
          BY <5>1
      <4> QED
        BY <2>3, <3>1, <3>2, <3>5, <4>1 DEF Behind, InFlight, rest
    <3>6. ASSUME NEW x \in Workers, Owns(x, s), tests_done'[s] = TestsRun(x), status'[s] = "DONE"
          PROVE  Behind(w, s)'
      <4>1. x = w
        BY <2>2, <3>6, OneOwner
      <4>2. TestsRun(w) \in Int
        BY <1>i DEF TestsRun
      <4> QED
        BY <3>2, <3>6, <4>1, <4>2 DEF Behind
    <3>7. ASSUME NEW x \in Workers, Written(x, s) PROVE Behind(w, s)'
      <4>1. x = w
        BY <2>2, <3>7, OneOwner DEF Written
      <4>2. /\ status'[s] = IF p = Compiling THEN "COMPILING" ELSE "RUNNING"
            /\ tests_done'[s] = IF p = Compiling THEN 0 ELSE p
        BY <3>7, <4>1 DEF Written, p
      <4>3. p \in Int /\ (p # Compiling => p \in 0 .. Tests)
        BY <3>3, TestsIsNat DEF Compiling
      <4>4. tests_done'[s] <= TestsRun(w)
        BY <3>3, <4>2, <4>3, <1>i DEF TestsRun
      <4>5. CASE p = Compiling
        BY <3>2, <4>2, <4>4, <4>5 DEF Behind
      <4>6. CASE p # Compiling
        BY <3>1, <3>2, <3>3, <4>2, <4>4, <4>6 DEF Behind, rest
      <4> QED
        BY <4>5, <4>6
    <3> QED
      BY <3>4, <3>5, <3>6, <3>7 DEF RowCases
  <2> QED
    BY <2>4, <2>5, <2>6, <2>7
<1> QED
  BY <1>1, <1>2

(* Every step keeps the rows behind their owners and the channels in order.  *)
LEMMA ProgressInvStep ==
  IInv /\ TokensAreUnique /\ ProgressInv /\ [Next]_vars => ProgressInv'
<1> SUFFICES ASSUME IInv, TokensAreUnique, ProgressInv, [Next]_vars PROVE ProgressInv'
  OBVIOUS
<1>1. \A w \in Workers : Sent(w)'
  BY SentStep DEF ProgressInv
<1>2. \A w \in Workers, s \in Ids : Owns(w, s)' => Behind(w, s)'
  BY BehindStep
<1> QED
  BY <1>1, <1>2 DEF ProgressInv

(* A step writes progress only forwards.                                     *)
LEMMA ProgressForward ==
  IInv /\ TokensAreUnique /\ ProgressInv /\ [Next]_vars => ProgressStep
<1> SUFFICES ASSUME IInv, TokensAreUnique, ProgressInv, [Next]_vars,
                    NEW s \in Ids, attempt'[s] = attempt[s]
             PROVE  /\ status[s] = "RUNNING" => status'[s] # "COMPILING"
                    /\ status[s] = "QUEUED"  => status'[s] \notin InFlight
                    /\ tests_done[s] <= tests_done'[s]
  BY DEF ProgressStep
<1>t. tests_done[s] \in 0 .. Tests /\ status[s] \in Status \cup {"ABSENT"}
  BY DEF IInv, TypeOK, TableTypeOK
<1>1. RowCases(s)
  BY RowStep
<1>2. CASE /\ tests_done'[s] = tests_done[s]
           /\ status'[s] = status[s] \/ status'[s] \notin InFlight
  BY <1>2, <1>t, TestsIsNat DEF InFlight
<1>3. ASSUME NEW w \in Workers, Owns(w, s), tests_done'[s] = TestsRun(w), status'[s] = "DONE"
      PROVE  tests_done[s] <= tests_done'[s] /\ status'[s] \notin InFlight
  BY <1>3 DEF ProgressInv, Behind, InFlight
<1>4. ASSUME NEW w \in Workers, Written(w, s)
      PROVE  /\ status[s] = "RUNNING" => status'[s] # "COMPILING"
             /\ status[s] # "QUEUED"
             /\ tests_done[s] <= tests_done'[s]
  <2>1. Sent(w) /\ Behind(w, s) /\ chan[w] # <<>>
    BY <1>4 DEF ProgressInv, Written, Heartbeat
  <2> DEFINE p == Head(chan[w])
  <2>2. p \in Compiling .. Tests /\ 1 \in 1 .. Len(chan[w]) /\ p = chan[w][1]
    BY <2>1, HeadIsFirst
  <2>3. /\ status[s] \in InFlight
        /\ status'[s] = IF p = Compiling THEN "COMPILING" ELSE "RUNNING"
        /\ tests_done'[s] = IF p = Compiling THEN 0 ELSE p
    BY <1>4 DEF Written
  <2> HIDE DEF p
  <2>4. CASE status[s] = "RUNNING"
    <3>1. tests_done[s] < p
      BY <2>1, <2>2, <2>4 DEF Behind
    <3>2. p # Compiling
      BY <3>1, <1>t DEF Compiling
    <3> QED
      BY <2>2, <2>3, <2>4, <3>1, <3>2, <1>t, TestsIsNat DEF Compiling
  <2>5. CASE status[s] = "COMPILING"
    BY <2>1, <2>2, <2>3, <2>5, TestsIsNat DEF Behind, Compiling
  <2> QED
    BY <2>3, <2>4, <2>5 DEF InFlight
<1> QED
  BY <1>1, <1>2, <1>3, <1>4 DEF RowCases, InFlight

(* Within one attempt a client never sees progress go backwards: whatever    *)
(* other workers, the sweeper and restarts do, a row is RUNNING for good     *)
(* once it is, and the number of tests done only grows.                      *)
THEOREM ProgressMonotone == Spec => ProgressIsMonotone
<1>1. Init => ProgressInv
  <2>1. Len(<<>>) = 0
    BY EmptySeq
  <2> QED
    BY <2>1 DEF Init, NoJobs, ProgressInv, Sent, Owns
<1> QED
  BY <1>1, Invariance, TokensUnique, ProgressInvStep, ProgressForward, PTL
     DEF Spec, ProgressIsMonotone
=============================================================================
