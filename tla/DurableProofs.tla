--------------------------- MODULE DurableProofs ---------------------------
(***************************************************************************)
(* What survives crashes and power failures, for any number of             *)
(* submissions, workers, faults and syncs.                                 *)
(*                                                                         *)
(* The inductive invariant DInv says of the table and of its copy on disk  *)
(* the same things, so that a power failure, which puts the copy in its    *)
(* place, keeps it.                                                        *)
(***************************************************************************)
EXTENDS Durable, LifecycleProofs

(* The table that a power failure leaves.                                   *)
OnDisk == INSTANCE Store WITH
  status <- disk.status, verdict <- disk.verdict, attempt <- disk.attempt,
  lease <- disk.lease, tests_done <- disk.tests_done, version <- disk.version,
  error <- disk.error, key <- disk.key

KeyedRowsExist == \A s \in Ids : key[s] # NULL => status[s] # "ABSENT"
KeyedOnDisk == \A s \in Ids : disk.key[s] # NULL => disk.status[s] # "ABSENT"

(* Who was answered, or is about to be, has a row.                          *)
AnsweredRowsExist ==
  /\ outages \in Nat
  /\ replying \subseteq Ids /\ accepted \subseteq Ids
  /\ outages = 0 => \A s \in replying \cup accepted : status[s] # "ABSENT"
  /\ \A s \in replying : status[s] # "ABSENT"

DInv ==
  /\ IInv /\ OnDisk!TableTypeOK
  /\ KeysAreUnique /\ OnDisk!KeysAreUnique
  /\ KeyedRowsExist /\ KeyedOnDisk
  /\ AnsweredRowsExist
  /\ DiskIsThePast

(* A step of the server, of a client or of the log is one of the workers or *)
(* leaves them alone; only a power failure is not.                          *)
LEMMA PowerOrNext == [DurableNext]_dvars => PowerLoss \/ [Next]_vars
<1> SUFFICES ASSUME [DurableNext]_dvars, ~PowerLoss PROVE [Next]_vars
  OBVIOUS
<1>1. CASE ServerNext
  BY <1>1 DEF ServerNext, Next
<1>2. CASE Create
  BY <1>2 DEF Create, Next
<1>3. CASE Stop
  BY <1>3 DEF Stop, Next
<1>4. CASE UNCHANGED vars
  BY <1>4
<1> QED
  BY <1>1, <1>2, <1>3, <1>4 DEF DurableNext, Sync, Repeat, Reply, dvars

(* Rows go forward: they are not deleted, keep their key, count their       *)
(* tokens and, once DONE, stay as they are.                                 *)
Forward ==
  \A s \in Ids : /\ status[s] # "ABSENT" => status'[s] # "ABSENT" /\ key'[s] = key[s]
                 /\ attempt'[s] >= attempt[s]
                 /\ status[s] = "DONE" => status'[s] = "DONE" /\ verdict'[s] = verdict[s]

(* Every operation on the table moves rows forward.                         *)
LEMMA RowsGoForward == TableTypeOK /\ [TableNext]_table => Forward
<1> SUFFICES ASSUME TableTypeOK, [TableNext]_table PROVE Forward
  OBVIOUS
<1>1. DoneRowsStay /\ TokensAreCounted
  BY DoneStep, TokensStep
<1>2. \A s \in Ids : attempt'[s] >= attempt[s]
  BY <1>1 DEF TokensAreCounted, TableTypeOK
<1>3. \A s \in Ids : status[s] = "DONE" => status'[s] = "DONE" /\ verdict'[s] = verdict[s]
  BY <1>1 DEF DoneRowsStay, RowUnchanged
<1>4. \A s \in Ids : status[s] # "ABSENT" => status'[s] # "ABSENT" /\ key'[s] = key[s]
  <2>1. ASSUME NEW s \in Ids, NEW k \in Keys \cup {NULL}, NEW v \in Versions, Insert(s, k, v)
        PROVE  \A t \in Ids : status[t] # "ABSENT" => status'[t] # "ABSENT" /\ key'[t] = key[t]
    BY <2>1, InsertIsFresh DEF Insert, TableTypeOK
  <2> QED
    BY <2>1 DEF TableNext, table, ClaimNext, LeaseExpires, Progress, Finish, FailAttempt,
         Sweep, RequeueInflight, TableTypeOK, InFlight
<1> QED
  BY <1>2, <1>3, <1>4 DEF Forward

(* A key comes with its row.                                                *)
LEMMA KeyedStep == TableTypeOK /\ KeyedRowsExist /\ [TableNext]_table => KeyedRowsExist'
<1> SUFFICES ASSUME TableTypeOK, KeyedRowsExist, [TableNext]_table PROVE KeyedRowsExist'
  OBVIOUS
<1>1. Forward
  BY RowsGoForward
<1>2. ASSUME NEW s \in Ids, NEW k \in Keys \cup {NULL}, NEW v \in Versions, Insert(s, k, v)
      PROVE  KeyedRowsExist'
  BY <1>1, <1>2 DEF Insert, TableTypeOK, KeyedRowsExist, Forward
<1>3. CASE key' = key
  BY <1>1, <1>3 DEF KeyedRowsExist, Forward
<1> QED
  BY <1>2, <1>3 DEF TableNext, table, ClaimNext, LeaseExpires, Progress, Finish, FailAttempt,
       Sweep, RequeueInflight

(* The machine comes back with the table on disk and no process.            *)
LEMMA PowerLossKeeps == DInv /\ PowerLoss => DInv'
<1> SUFFICES ASSUME DInv, PowerLoss PROVE DInv'
  OBVIOUS
<1> DEFINE Back == /\ status' = disk.status /\ verdict' = disk.verdict /\ attempt' = disk.attempt
                   /\ lease' = disk.lease /\ version' = disk.version
                   /\ tests_done' = disk.tests_done /\ error' = disk.error /\ key' = disk.key
                   /\ disk' = disk
<1>1. Back
  BY DEF PowerLoss
<1>2. TableTypeOK' /\ KeysAreUnique' /\ KeyedRowsExist'
  BY <1>1 DEF DInv, TableTypeOK, OnDisk!TableTypeOK, KeysAreUnique, OnDisk!KeysAreUnique,
       KeyedRowsExist, KeyedOnDisk, Verdicts, InFlight, Status, Errors,
       OnDisk!Verdicts, OnDisk!InFlight, OnDisk!Status, OnDisk!Errors
<1>3. OnDisk!TableTypeOK' /\ OnDisk!KeysAreUnique' /\ KeyedOnDisk'
  BY <1>1 DEF DInv, OnDisk!TableTypeOK, OnDisk!KeysAreUnique, KeyedOnDisk
<1>4. TypeOK' /\ Bookkeeping'
  <2>1. TypeOK
    BY DEF DInv, IInv
  <2> QED
    BY <1>2, <2>1, FaultType, ProgressRange, EmptySeq
       DEF PowerLoss, ProcessGone, TypeOK, Bookkeeping, Judging, PCs, HBs
<1>5. AnsweredRowsExist'
  BY DEF DInv, PowerLoss, AnsweredRowsExist
<1>6. DiskIsThePast'
  BY <1>1, <1>3 DEF DiskIsThePast, OnDisk!TableTypeOK
<1> QED
  BY <1>2, <1>3, <1>4, <1>5, <1>6 DEF DInv, IInv

(* The other steps move the table forward, and the disk not at all or up to *)
(* the table.                                                               *)
LEMMA NextKeeps == DInv /\ [DurableNext]_dvars /\ [Next]_vars /\ ~PowerLoss => DInv'
<1> SUFFICES ASSUME DInv, [DurableNext]_dvars, [Next]_vars, ~PowerLoss PROVE DInv'
  OBVIOUS
<1>a. IInv /\ TableTypeOK
  BY DEF DInv, IInv, TypeOK
<1>1. [TableNext]_table
  BY <1>a, StepIsTableStep
<1>2. IInv'
  BY <1>a, TypeStep, BookkeepingStep DEF IInv
<1>3. KeysAreUnique' /\ KeyedRowsExist'
  BY <1>a, <1>1, KeysStep, KeyedStep DEF DInv
<1>4. Forward
  BY <1>a, <1>1, RowsGoForward
<1>5. \/ disk' = disk
      \/ disk' = Rows /\ UNCHANGED <<vars, client, outages>>
  BY DEF DurableNext, Create, Repeat, Reply, Sync, Stop, dvars
<1>6. OnDisk!TableTypeOK' /\ OnDisk!KeysAreUnique' /\ KeyedOnDisk' /\ DiskIsThePast'
  <2>1. CASE disk' = disk
    <3>1. OnDisk!TableTypeOK' /\ OnDisk!KeysAreUnique' /\ KeyedOnDisk'
      BY <2>1 DEF DInv, OnDisk!TableTypeOK, OnDisk!KeysAreUnique, KeyedOnDisk
    <3>2. DiskIsThePast'
      <4>1. ASSUME NEW s \in Ids
            PROVE  attempt[s] \in Nat /\ attempt'[s] \in Nat /\ disk.attempt[s] \in Nat
        BY <1>a, <1>2 DEF TableTypeOK, IInv, TypeOK, DInv, OnDisk!TableTypeOK
      <4> QED
        BY <2>1, <4>1, <1>4 DEF DInv, DiskIsThePast, Forward
    <3> QED
      BY <3>1, <3>2
  <2>2. CASE disk' = Rows /\ UNCHANGED <<vars, client, outages>>
    <3>1. UNCHANGED table
      BY <2>2 DEF vars
    <3>2. /\ disk'.status = status /\ disk'.verdict = verdict /\ disk'.attempt = attempt
          /\ disk'.lease = lease /\ disk'.tests_done = tests_done /\ disk'.version = version
          /\ disk'.error = error /\ disk'.key = key
      BY <2>2 DEF Rows
    <3>3. OnDisk!TableTypeOK' /\ OnDisk!KeysAreUnique' /\ KeyedOnDisk'
      BY <3>2, <1>a DEF DInv, TableTypeOK, OnDisk!TableTypeOK, KeysAreUnique, OnDisk!KeysAreUnique,
           KeyedRowsExist, KeyedOnDisk, Verdicts, InFlight, Status, Errors,
           OnDisk!Verdicts, OnDisk!InFlight, OnDisk!Status, OnDisk!Errors
    <3>4. DiskIsThePast'
      BY <3>1, <3>2, <1>a DEF DiskIsThePast, table, TableTypeOK
    <3> QED
      BY <3>3, <3>4
  <2> QED
    BY <1>5, <2>1, <2>2
<1>7. AnsweredRowsExist'
  <2>1. \A s \in Ids : status[s] # "ABSENT" => status'[s] # "ABSENT"
    BY <1>4 DEF Forward
  <2>2. AnsweredRowsExist /\ KeyedRowsExist
    BY DEF DInv
  <2>3. CASE Create
    BY <2>1, <2>2, <2>3 DEF Create, AnsweredRowsExist
  <2>4. ASSUME NEW s \in Ids, Repeat(s) PROVE AnsweredRowsExist'
    BY <2>1, <2>2, <2>4 DEF Repeat, AnsweredRowsExist, KeyedRowsExist
  <2>5. ASSUME NEW s \in Ids, Reply(s) PROVE AnsweredRowsExist'
    BY <2>1, <2>2, <2>5 DEF Reply, Answerable, AnsweredRowsExist
  <2>6. CASE Stop
    BY <2>1, <2>2, <2>6 DEF Stop, AnsweredRowsExist
  <2>7. CASE UNCHANGED <<client, outages>>
    BY <2>1, <2>2, <2>7 DEF client, AnsweredRowsExist
  <2> QED
    BY <2>3, <2>4, <2>5, <2>6, <2>7 DEF DurableNext, Sync, dvars
<1> QED
  BY <1>2, <1>3, <1>6, <1>7 DEF DInv

(* The table and its copy on disk start out empty.                          *)
LEMMA DurableInitially == DurableInit => DInv
<1> SUFFICES ASSUME DurableInit PROVE DInv
  OBVIOUS
<1>1. IInv /\ TableInit
  BY InitIInv DEF DurableInit, Init
<1>2. TableTypeOK /\ KeysAreUnique
  BY <1>1, TableInitially
<1>3. KeyedRowsExist
  BY <1>1 DEF TableInit, KeyedRowsExist
<1>4. /\ disk.status = status /\ disk.verdict = verdict /\ disk.attempt = attempt
      /\ disk.lease = lease /\ disk.tests_done = tests_done /\ disk.version = version
      /\ disk.error = error /\ disk.key = key
  BY DEF DurableInit, Rows
<1>5. OnDisk!TableTypeOK /\ OnDisk!KeysAreUnique /\ KeyedOnDisk
  BY <1>2, <1>3, <1>4 DEF TableTypeOK, OnDisk!TableTypeOK, KeysAreUnique, OnDisk!KeysAreUnique,
       KeyedRowsExist, KeyedOnDisk, Verdicts, InFlight, Status, Errors,
       OnDisk!Verdicts, OnDisk!InFlight, OnDisk!Status, OnDisk!Errors
<1>6. DiskIsThePast
  BY <1>2, <1>4 DEF DiskIsThePast, TableTypeOK
<1>7. AnsweredRowsExist
  BY DEF DurableInit, AnsweredRowsExist
<1> QED
  BY <1>1, <1>2, <1>3, <1>5, <1>6, <1>7 DEF DInv

(* The inductive invariant of the durable server.                           *)
LEMMA DurableInvariant == DurableSpec => []DInv
<1>1. DInv /\ [DurableNext]_dvars => DInv'
  BY PowerOrNext, PowerLossKeeps, NextKeeps
<1> QED
  BY <1>1, DurableInitially, PTL DEF DurableSpec

-----------------------------------------------------------------------------
(* Persisted before the 202: no stop of the process loses a submission that *)
(* was answered.                                                            *)
THEOREM AcceptedSurvives == DurableSpec => []AcceptedSurvivesCrashes
<1>1. DInv => AcceptedSurvivesCrashes
  BY DEF DInv, AnsweredRowsExist, AcceptedSurvivesCrashes
<1> QED
  BY <1>1, DurableInvariant, PTL

(* What a power failure leaves is a past of the table.                      *)
THEOREM DiskInThePast == DurableSpec => []DiskIsThePast
<1>1. DInv => DiskIsThePast
  BY DEF DInv
<1> QED
  BY <1>1, DurableInvariant, PTL

(* An idempotency key has one row, also after a power failure.              *)
THEOREM KeysUniqueThroughout == DurableSpec => []KeysAreUnique
<1>1. DInv => KeysAreUnique
  BY DEF DInv
<1> QED
  BY <1>1, DurableInvariant, PTL

-----------------------------------------------------------------------------
(* What the queue and the lives of submissions rest on, of a table or of    *)
(* its copy: Tried, ErrorExplainsIE and Ordered.                            *)
Sound(st, vd, tries, er) ==
  /\ \A s \in Ids :
        /\ st[s] \in InFlight \cup {"DONE"} => tries[s] > 0
        /\ st[s] = "ABSENT" => tries[s] = 0
        /\ st[s] = "DONE" <=> vd[s] # NULL
        /\ st[s] = "DONE" => (vd[s] = "IE" <=> er[s] # NULL)
        /\ vd[s] = "IE" => \/ tries[s] >= MaxAttempts
                           \/ er[s] \in {"no problem", "no language"}
  /\ \A s, t \in Ids :
        s < t => /\ tries[t] > 0 => tries[s] > 0
                 /\ st[t] # "ABSENT" => st[s] # "ABSENT"

SoundTable == Sound(status, verdict, attempt, error)
SoundDisk  == Sound(disk.status, disk.verdict, disk.attempt, disk.error)

LEMMA TableIsSound == SoundTable <=> Tried /\ ErrorExplainsIE /\ Ordered
<1> QED
  BY DEF SoundTable, Sound, Tried, ErrorExplainsIE, Ordered, FirstTriesInOrder

QInv == DInv /\ TokensAreUnique /\ SoundTable /\ SoundDisk

LEMMA QueueStep == QInv /\ [DurableNext]_dvars => QInv'
<1> SUFFICES ASSUME QInv, [DurableNext]_dvars PROVE QInv'
  OBVIOUS
<1>1. DInv /\ DInv' /\ IInv
  BY PowerOrNext, PowerLossKeeps, NextKeeps DEF QInv, DInv
<1>2. CASE PowerLoss
  <2>1. \A w \in Workers : job'[w] = NULL
    BY <1>2 DEF PowerLoss, ProcessGone, NoJobs
  <2>2. /\ disk' = disk /\ status' = disk.status /\ verdict' = disk.verdict
        /\ attempt' = disk.attempt /\ error' = disk.error
    BY <1>2 DEF PowerLoss
  <2>3. SoundTable' /\ SoundDisk'
    BY <2>2 DEF QInv, SoundTable, SoundDisk
  <2> QED
    BY <1>1, <2>1, <2>3 DEF QInv, TokensAreUnique
<1>3. CASE ~PowerLoss
  <2>1. [Next]_vars
    BY <1>3, PowerOrNext
  <2>2. LInv /\ Ordered
    BY <1>1, TableIsSound DEF QInv, LInv
  <2>3. TokensAreUnique' /\ ErrorExplainsIE' /\ Tried' /\ Ordered'
    BY <2>1, <2>2, TokensUniqueStep, ErrorStep, TriedStep, OrderStep DEF LInv
  <2>4. SoundTable'
    <3>1. (SoundTable <=> Tried /\ ErrorExplainsIE /\ Ordered)'
      BY TableIsSound, PTL
    <3> QED
      BY <2>3, <3>1
  <2>5. disk' = disk \/ (disk' = Rows /\ UNCHANGED <<vars, client, outages>>)
    BY <1>3 DEF DurableNext, Create, Repeat, Reply, Sync, Stop, dvars
  <2>6. SoundDisk'
    <3>1. CASE disk' = disk
      BY <3>1 DEF QInv, SoundDisk
    <3>2. CASE disk' = Rows
      <4>1. /\ disk'.status = status /\ disk'.verdict = verdict /\ disk'.attempt = attempt
            /\ disk'.error = error
        BY <3>2 DEF Rows
      <4> QED
        BY <4>1 DEF QInv, SoundTable, SoundDisk
    <3> QED
      BY <2>5, <3>1, <3>2
  <2> QED
    BY <1>1, <2>3, <2>4, <2>6 DEF QInv
<1> QED
  BY <1>2, <1>3

LEMMA QueueInvariant == DurableSpec => []QInv
<1>1. DurableInit => QInv
  <2> SUFFICES ASSUME DurableInit PROVE QInv
    OBVIOUS
  <2>1. DInv /\ Init /\ disk = Rows
    BY DurableInitially DEF DurableInit
  <2>2. TokensAreUnique
    BY <2>1 DEF Init, NoJobs, TokensAreUnique
  <2>3. NULL # "IE"
    BY NullIsFresh
  <2>4. SoundTable
    BY <2>1, <2>3 DEF Init, TableInit, SoundTable, Sound, InFlight
  <2>5. /\ disk.status = status /\ disk.verdict = verdict /\ disk.attempt = attempt
        /\ disk.error = error
    BY <2>1 DEF Rows
  <2>6. SoundDisk
    BY <2>4, <2>5 DEF SoundTable, SoundDisk
  <2> QED
    BY <2>1, <2>2, <2>4, <2>6 DEF QInv
<1> QED
  BY <1>1, QueueStep, PTL DEF DurableSpec

(* First in, first out, also when a power failure takes back the newest     *)
(* rows and tries.                                                          *)
THEOREM FirstInFirstOutThroughout == DurableSpec => []FirstTriesInOrder
<1>1. QInv => FirstTriesInOrder
  BY TableIsSound DEF QInv, Ordered
<1> QED
  BY <1>1, QueueInvariant, PTL
=============================================================================
