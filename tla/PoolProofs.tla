----------------------------- MODULE PoolProofs -----------------------------
(***************************************************************************)
(* The sandbox pool, for any number of concurrent calls, boxes and         *)
(* executions.                                                             *)
(***************************************************************************)
EXTENDS SandboxPool, FiniteSetTheorems, SequenceTheorems, TLAPS

(* Where a call has no box.                                                 *)
Boxless == {"out", "permit", "unpermit"}

(* A call has a box exactly between pop and push, and is executing what it  *)
(* has counted.                                                             *)
BoxOf ==
  \A u \in Users : /\ at[u] \in Boxless <=> box[u] = NULL
                   /\ at[u] \in {"running", "reading"} => execs[u] \in 1 .. MaxExecs

(* Ids are in the pool once, or with one call, and never lost.              *)
Exclusive ==
  /\ \A i, j \in 1 .. Len(free_ids) : free_ids[i] = free_ids[j] => i = j
  /\ \A u \in Users, i \in 1 .. Len(free_ids) : box[u] # free_ids[i]
  /\ \A u, v \in Users : box[u] # NULL /\ box[u] = box[v] => u = v
  /\ \A b \in Boxes : \/ \E u \in Users : box[u] = b
                      \/ \E i \in 1 .. Len(free_ids) : free_ids[i] = b

(* What a call finds in its box on the way to its source file.              *)
Fresh ==
  \A u \in Users : /\ at[u] = "init"  => disk[box[u]] = "absent"
                   /\ at[u] = "write" => disk[box[u]] = "empty"

(* The meta file of an earlier execution is gone while isolate runs.        *)
Own == \A u \in Users : at[u] = "running" => meta[box[u]] = NULL

Types ==
  /\ permits  \in Nat
  /\ free_ids \in Seq(Boxes)
  /\ at       \in [Users -> Places]
  /\ box      \in [Users -> Boxes \cup {NULL}]
  /\ executed \in [Users -> BOOLEAN]
  /\ execs    \in [Users -> 0 .. MaxExecs]
  /\ disk     \in [Boxes -> {"absent", "empty", "source", "dirty"}]
  /\ meta     \in [Boxes -> Metas]

PInv == Types /\ BoxOf /\ Exclusive /\ Fresh /\ Own /\ ReportIsOwn

(* Popping, without the operators of SequencesExt.                          *)
LEMMA Pop ==
  ASSUME NEW S, NEW s \in Seq(S), s # <<>>
  PROVE  /\ Len(s) \in Nat \ {0} /\ Last(s) = s[Len(s)] /\ Last(s) \in S
         /\ Front(s) \in Seq(S) /\ Len(Front(s)) = Len(s) - 1
         /\ \A i \in 1 .. Len(s) - 1 : Front(s)[i] = s[i]
<1>1. Len(s) \in Nat \ {0}
  BY EmptySeq, LenProperties
<1>2. Last(s) = s[Len(s)] /\ s[Len(s)] \in S
  BY <1>1, ElementOfSeq DEF Last
<1> DEFINE n == Len(s) - 1
<1>3. n \in Nat /\ \A i \in 1 .. n : s[i] \in S
  BY <1>1, ElementOfSeq
<1>4. /\ SubSeq(s, 1, n) \in Seq(S)
      /\ Len(SubSeq(s, 1, n)) = IF 1 <= n THEN n - 1 + 1 ELSE 0
      /\ \A i \in 1 .. n - 1 + 1 : SubSeq(s, 1, n)[i] = s[1 + i - 1]
  <2> HIDE DEF n
  <2>1. 1 \in Int /\ n \in Int
    BY <1>3
  <2> QED
    BY <1>3, <2>1, SubSeqProperties
<1>5. /\ Len(SubSeq(s, 1, n)) = n
      /\ \A i \in 1 .. n : SubSeq(s, 1, n)[i] = s[i]
  <2> HIDE DEF n
  <2> QED
    BY <1>3, <1>4
<1> QED
  BY <1>1, <1>2, <1>4, <1>5 DEF Front

(* Who has a box, and where it goes when it is popped and pushed.           *)
LEMMA PopKeepsExclusive ==
  ASSUME Types, BoxOf, Exclusive, NEW u \in Users, PopId(u)
  PROVE  /\ free_ids' \in Seq(Boxes) /\ Len(free_ids) \in Nat \ {0}
         /\ Len(free_ids') = Len(free_ids) - 1
         /\ Last(free_ids) \in Boxes
         /\ Exclusive'
<1>1. /\ free_ids # <<>> /\ free_ids' = Front(free_ids)
      /\ box' = [box EXCEPT ![u] = Last(free_ids)] /\ box[u] = NULL
  BY DEF PopId, BoxOf, Boxless
<1> DEFINE n == Len(free_ids)
<1>2. /\ n \in Nat \ {0} /\ Last(free_ids) = free_ids[n] /\ Last(free_ids) \in Boxes
      /\ free_ids' \in Seq(Boxes) /\ Len(free_ids') = n - 1
      /\ \A i \in 1 .. n - 1 : free_ids'[i] = free_ids[i]
  BY <1>1, Pop DEF Types
<1>3. \A v \in Users : box'[v] = IF v = u THEN free_ids[n] ELSE box[v]
  BY <1>1, <1>2 DEF Types
<1>4. Exclusive /\ \A i \in 1 .. n - 1 : i \in 1 .. n /\ i # n
  BY <1>2
<1>5. \A i, j \in 1 .. Len(free_ids') : free_ids'[i] = free_ids'[j] => i = j
  BY <1>2, <1>4 DEF Exclusive
<1>6. \A v \in Users, i \in 1 .. Len(free_ids') : box'[v] # free_ids'[i]
  BY <1>2, <1>3, <1>4 DEF Exclusive
<1>7. \A v, w \in Users : box'[v] # NULL /\ box'[v] = box'[w] => v = w
  BY <1>2, <1>3, <1>4 DEF Exclusive
<1>8. ASSUME NEW b \in Boxes
      PROVE  \/ \E v \in Users : box'[v] = b
             \/ \E i \in 1 .. Len(free_ids') : free_ids'[i] = b
  <2>1. CASE \E v \in Users : box[v] = b
    BY <2>1, <1>1, <1>3, NullIsNoBox DEF Boxes
  <2>2. CASE \E i \in 1 .. n : free_ids[i] = b
    <3>1. PICK i \in 1 .. n : free_ids[i] = b
      BY <2>2
    <3>2. CASE i = n
      BY <3>1, <3>2, <1>3
    <3>3. CASE i # n
      <4>1. i \in 1 .. n - 1
        BY <3>3, <1>2
      <4> QED
        BY <3>1, <4>1, <1>2
    <3> QED
      BY <3>2, <3>3
  <2> QED
    BY <2>1, <2>2 DEF Exclusive
<1> QED
  BY <1>2, <1>5, <1>6, <1>7, <1>8 DEF Exclusive

(* Pushing an id takes it from its one holder.                              *)
LEMMA PushKeepsExclusive ==
  ASSUME Types, BoxOf, Exclusive, NEW u \in Users, DropId(u)
  PROVE  /\ free_ids' \in Seq(Boxes) /\ Len(free_ids) \in Nat
         /\ Len(free_ids') = Len(free_ids) + 1
         /\ box[u] \in Boxes
         /\ Exclusive'
<1>1. /\ free_ids' = Append(free_ids, box[u])
      /\ box' = [box EXCEPT ![u] = NULL]
      /\ box[u] # NULL
  BY DEF DropId, BoxOf, Boxless
<1> DEFINE n == Len(free_ids)
<1>2. box[u] \in Boxes /\ n \in Nat
  BY <1>1, LenProperties DEF Types
<1>3. /\ free_ids' \in Seq(Boxes) /\ Len(free_ids') = n + 1
      /\ \A i \in 1 .. n : free_ids'[i] = free_ids[i]
      /\ free_ids'[n + 1] = box[u]
  BY <1>1, <1>2, AppendProperties DEF Types
<1>4. \A v \in Users : box'[v] = IF v = u THEN NULL ELSE box[v]
  BY <1>1 DEF Types
<1>5. \A i \in 1 .. n + 1 : i \in 1 .. n \/ i = n + 1
  BY <1>2
<1>6. \A i \in 1 .. n : free_ids[i] \in Boxes /\ free_ids[i] # NULL
  BY NullIsNoBox, ElementOfSeq DEF Types, Boxes
<1>7. \A i, j \in 1 .. Len(free_ids') : free_ids'[i] = free_ids'[j] => i = j
  BY <1>2, <1>3, <1>5 DEF Exclusive
<1>8. \A v \in Users, i \in 1 .. Len(free_ids') : box'[v] # free_ids'[i]
  BY <1>1, <1>3, <1>4, <1>5, <1>6 DEF Exclusive
<1>9. \A v, w \in Users : box'[v] # NULL /\ box'[v] = box'[w] => v = w
  BY <1>4 DEF Exclusive
<1>10. ASSUME NEW b \in Boxes
       PROVE  \/ \E v \in Users : box'[v] = b
              \/ \E i \in 1 .. Len(free_ids') : free_ids'[i] = b
  <2>1. CASE b = box[u]
    BY <2>1, <1>2, <1>3
  <2>2. CASE b # box[u]
    <3>1. \A i \in 1 .. n : i \in 1 .. n + 1
      BY <1>2
    <3> QED
      BY <2>2, <3>1, <1>3, <1>4 DEF Exclusive
  <2> QED
    BY <2>1, <2>2
<1> QED
  BY <1>2, <1>3, <1>7, <1>8, <1>9, <1>10 DEF Exclusive

(* The other steps leave the ids where they are.                            *)
LEMMA RestKeepsExclusive ==
  ASSUME Exclusive, free_ids' = free_ids, box' = box
  PROVE  Exclusive'
BY DEF Exclusive

(* The box of a call is nobody else's.                                      *)
LEMMA OwnBox ==
  ASSUME Types, BoxOf, Exclusive, NEW u \in Users, at[u] \notin Boxless
  PROVE  /\ box[u] \in Boxes
         /\ \A v \in Users : at[v] \notin Boxless /\ v # u => box[v] # box[u]
BY DEF Types, BoxOf, Exclusive

(* Every step keeps the types and knows where calls have a box.             *)
LEMMA StepKeepsTypes ==
  ASSUME PInv, NEW u \in Users, AcquirePermit(u) \/ InBox(u)
  PROVE  Types' /\ BoxOf'
<1>a. Types /\ BoxOf /\ Exclusive
  BY DEF PInv
<1> USE MaxExecsIsNat, NullIsNoBox
<1>1. CASE AcquirePermit(u)
  BY <1>1, <1>a DEF AcquirePermit, Goto, call, Types, BoxOf, Boxless, Places
<1>2. CASE PopId(u)
  <2>1. free_ids' \in Seq(Boxes) /\ Last(free_ids) \in Boxes
    BY <1>2, <1>a, PopKeepsExclusive
  <2> QED
    BY <1>2, <1>a, <2>1 DEF PopId, Goto, Types, BoxOf, Boxless, Places, Boxes
<1>3. CASE InitCleanup(u)
  BY <1>3, <1>a DEF InitCleanup, Goto, call, Types, BoxOf, Boxless, Places
<1>4. CASE InitBox(u)
  BY <1>4, <1>a, OwnBox, ZenonT(60) DEF InitBox, Goto, call, Types, BoxOf, Boxless, Places
<1>5. CASE WriteFile(u)
  BY <1>5, <1>a, OwnBox, ZenonT(60) DEF WriteFile, Goto, call, Types, BoxOf, Boxless, Places
<1>6. CASE Exec(u)
  <2>1. execs[u] + 1 \in 1 .. MaxExecs
    BY <1>6, <1>a DEF Exec, Types
  <2>2. execs' \in [Users -> 0 .. MaxExecs] /\ execs'[u] \in 1 .. MaxExecs
    BY <1>6, <1>a, <2>1 DEF Exec, Types
  <2>3. meta' \in [Boxes -> Metas]
    BY <1>6, <1>a DEF Exec, RemoveMeta, Types, Metas
  <2>4. Types'
    BY <1>6, <1>a, <2>2, <2>3 DEF Exec, Goto, Types, Places
  <2>5. BoxOf'
    BY <1>6, <1>a, <2>2 DEF Exec, Goto, Types, BoxOf, Boxless
  <2> QED
    BY <2>4, <2>5
<1>7. CASE IsolateEnds(u)
  <2>1. [user |-> u, exec |-> execs[u]] \in Metas
    BY <1>7, <1>a DEF IsolateEnds, BoxOf, Metas
  <2> QED
    BY <1>7, <1>a, <2>1 DEF IsolateEnds, Goto, call, Types, BoxOf, Boxless, Places
<1>8. CASE ReadMeta(u)
  BY <1>8, <1>a DEF ReadMeta, Goto, call, Types, BoxOf, Boxless, Places
<1>9. CASE Judged(u)
  BY <1>9, <1>a DEF Judged, Goto, call, Types, BoxOf, Boxless, Places
<1>10. CASE Release(u)
  BY <1>10, <1>a DEF Release, Goto, call, Types, BoxOf, Boxless, Places
<1>11. CASE DropId(u)
  <2>1. free_ids' \in Seq(Boxes)
    BY <1>11, <1>a, PushKeepsExclusive
  <2> QED
    BY <1>11, <1>a, <2>1 DEF DropId, Goto, Types, BoxOf, Boxless, Places
<1>12. CASE DropPermit(u)
  BY <1>12, <1>a DEF DropPermit, Goto, call, Types, BoxOf, Boxless, Places
<1> QED
  BY <1>1, <1>2, <1>3, <1>4, <1>5, <1>6, <1>7, <1>8, <1>9, <1>10, <1>11, <1>12 DEF InBox

(* Fresh, Own and ReportIsOwn for one call.                                 *)
CallOK(u) ==
  /\ at[u] = "init"    => disk[box[u]] = "absent"
  /\ at[u] = "write"   => disk[box[u]] = "empty"
  /\ at[u] = "running" => meta[box[u]] = NULL
  /\ at[u] = "reading" => meta[box[u]] \in {NULL, [user |-> u, exec |-> execs[u]]}

(* What a call does in its own box does not matter to the others.           *)
LEMMA OthersKeep ==
  ASSUME Types, BoxOf, Exclusive, Fresh, Own, ReportIsOwn,
         NEW u \in Users, at[u] \notin Boxless, box' = box,
         \A v \in Users \ {u} : at'[v] = at[v] /\ execs'[v] = execs[v],
         \A b \in Boxes \ {box[u]} : disk'[b] = disk[b] /\ meta'[b] = meta[b],
         CallOK(u)'
  PROVE  Fresh' /\ Own' /\ ReportIsOwn'
<1>1. ASSUME NEW v \in Users PROVE CallOK(v)'
  <2>1. CASE v = u
    BY <2>1
  <2>2. CASE v # u /\ at[v] \in Boxless
    BY <2>2 DEF CallOK, Boxless
  <2>3. CASE v # u /\ at[v] \notin Boxless
    <3>1. box[v] \in Boxes \ {box[u]}
      BY <2>3, OwnBox
    <3>2. CallOK(v)
      BY DEF CallOK, Fresh, Own, ReportIsOwn
    <3>3. /\ at'[v] = at[v] /\ execs'[v] = execs[v]
          /\ box'[v] = box[v]
          /\ disk'[box[v]] = disk[box[v]] /\ meta'[box[v]] = meta[box[v]]
      BY <2>3, <3>1
    <3> QED
      BY <3>2, <3>3 DEF CallOK
  <2> QED
    BY <2>1, <2>2, <2>3
<1> QED
  BY <1>1 DEF CallOK, Fresh, Own, ReportIsOwn

(* Every step keeps boxes fresh and reports with their executions.          *)
LEMMA StepKeepsBoxes ==
  ASSUME PInv, NEW u \in Users, AcquirePermit(u) \/ InBox(u)
  PROVE  Fresh' /\ Own' /\ ReportIsOwn'
<1>a. Types /\ BoxOf /\ Exclusive /\ Fresh /\ Own /\ ReportIsOwn
  BY DEF PInv
<1>u. CallOK(u)
  BY <1>a DEF CallOK, Fresh, Own, ReportIsOwn
<1>o. at[u] \notin Boxless => box[u] \in Boxes
  BY <1>a, OwnBox
<1> USE DEF Goto, Boxless
<1>1. CASE AcquirePermit(u)
  BY <1>1, <1>a DEF Fresh, Own, ReportIsOwn, AcquirePermit, call, Types
<1>2. CASE PopId(u)
  BY <1>2, <1>a DEF Fresh, Own, ReportIsOwn, PopId, Types
<1>3. CASE InitCleanup(u)
  <2>1. /\ at[u] \notin Boxless /\ box' = box
        /\ \A v \in Users \ {u} : at'[v] = at[v] /\ execs'[v] = execs[v]
        /\ \A b \in Boxes \ {box[u]} : disk'[b] = disk[b] /\ meta'[b] = meta[b]
    BY <1>3, <1>a DEF InitCleanup, call, Types
  <2>2. CallOK(u)'
    BY <1>3, <1>a, <1>u, <1>o DEF InitCleanup, call, CallOK, Types
  <2> QED
    BY <2>1, <2>2, <1>a, OthersKeep
<1>4. CASE InitBox(u)
  <2>1. /\ at[u] \notin Boxless /\ box' = box
        /\ \A v \in Users \ {u} : at'[v] = at[v] /\ execs'[v] = execs[v]
        /\ \A b \in Boxes \ {box[u]} : disk'[b] = disk[b] /\ meta'[b] = meta[b]
    BY <1>4, <1>a DEF InitBox, call, Types
  <2>2. CallOK(u)'
    BY <1>4, <1>a, <1>u, <1>o DEF InitBox, call, CallOK, Types
  <2> QED
    BY <2>1, <2>2, <1>a, OthersKeep
<1>5. CASE WriteFile(u)
  <2>1. /\ at[u] \notin Boxless /\ box' = box
        /\ \A v \in Users \ {u} : at'[v] = at[v] /\ execs'[v] = execs[v]
        /\ \A b \in Boxes \ {box[u]} : disk'[b] = disk[b] /\ meta'[b] = meta[b]
    BY <1>5, <1>a DEF WriteFile, call, Types
  <2>2. CallOK(u)'
    BY <1>5, <1>a, <1>u, <1>o DEF WriteFile, call, CallOK, Types
  <2> QED
    BY <2>1, <2>2, <1>a, OthersKeep
<1>6. CASE Exec(u)
  <2>1. /\ at[u] \notin Boxless /\ box' = box
        /\ \A v \in Users \ {u} : at'[v] = at[v] /\ execs'[v] = execs[v]
        /\ \A b \in Boxes \ {box[u]} : disk'[b] = disk[b] /\ meta'[b] = meta[b]
    BY <1>6, <1>a DEF Exec, RemoveMeta, Types
  <2>2. CallOK(u)'
    BY <1>6, <1>a, <1>u, <1>o DEF Exec, RemoveMeta, CallOK, Types
  <2> QED
    BY <2>1, <2>2, <1>a, OthersKeep
<1>7. CASE IsolateEnds(u)
  <2>1. /\ at[u] \notin Boxless /\ box' = box
        /\ \A v \in Users \ {u} : at'[v] = at[v] /\ execs'[v] = execs[v]
        /\ \A b \in Boxes \ {box[u]} : disk'[b] = disk[b] /\ meta'[b] = meta[b]
    BY <1>7, <1>a DEF IsolateEnds, call, Types
  <2>2. CallOK(u)'
    BY <1>7, <1>a, <1>u, <1>o DEF IsolateEnds, call, CallOK, Types
  <2> QED
    BY <2>1, <2>2, <1>a, OthersKeep
<1>8. CASE ReadMeta(u)
  BY <1>8, <1>a DEF Fresh, Own, ReportIsOwn, ReadMeta, call, Types
<1>9. CASE Judged(u)
  BY <1>9, <1>a DEF Fresh, Own, ReportIsOwn, Judged, call, Types
<1>10. CASE Release(u)
  <2>1. /\ at[u] \notin Boxless /\ box' = box
        /\ \A v \in Users \ {u} : at'[v] = at[v] /\ execs'[v] = execs[v]
        /\ \A b \in Boxes \ {box[u]} : disk'[b] = disk[b] /\ meta'[b] = meta[b]
    BY <1>10, <1>a DEF Release, call, Types
  <2>2. CallOK(u)'
    BY <1>10, <1>a, <1>u, <1>o DEF Release, call, CallOK, Types
  <2> QED
    BY <2>1, <2>2, <1>a, OthersKeep
<1>11. CASE DropId(u)
  BY <1>11, <1>a DEF Fresh, Own, ReportIsOwn, DropId, Types
<1>12. CASE DropPermit(u)
  BY <1>12, <1>a DEF Fresh, Own, ReportIsOwn, DropPermit, call, Types
<1> QED
  BY <1>1, <1>2, <1>3, <1>4, <1>5, <1>6, <1>7, <1>8, <1>9, <1>10, <1>11, <1>12 DEF InBox

(* At the start all ids are in the pool, once.                              *)
LEMMA InitHolds == Init => PInv
<1> SUFFICES ASSUME Init PROVE PInv
  OBVIOUS
<1> USE SlotsArePositive, MaxExecsIsNat, NullIsNoBox
<1>1. /\ free_ids \in Seq(Boxes) /\ Len(free_ids) = Slots
      /\ \A i \in 1 .. Slots : free_ids[i] = Slots - i
  <2>1. \A i \in 1 .. Slots : Slots - i \in Boxes
    BY DEF Boxes
  <2>2. free_ids \in Seq(Boxes)
    BY <2>1, IsASeq DEF Init
  <2> QED
    BY <2>2, LenProperties DEF Init
<1>2. Types
  BY <1>1 DEF Init, Types, Places, Metas
<1>3. BoxOf /\ Fresh /\ Own /\ ReportIsOwn
  BY DEF Init, BoxOf, Fresh, Own, ReportIsOwn, Boxless
<1>4. Exclusive
  <2>1. \A u \in Users : box[u] = NULL
    BY DEF Init
  <2>2. \A i, j \in 1 .. Slots : free_ids[i] = free_ids[j] => i = j
    BY <1>1
  <2>3. \A u \in Users, i \in 1 .. Slots : box[u] # free_ids[i]
    BY <1>1, <2>1
  <2>4. ASSUME NEW b \in Boxes PROVE \E i \in 1 .. Slots : free_ids[i] = b
    <3>1. Slots - b \in 1 .. Slots /\ Slots - (Slots - b) = b
      BY DEF Boxes
    <3> QED
      BY <1>1, <3>1
  <2> QED
    BY <1>1, <2>1, <2>2, <2>3, <2>4 DEF Exclusive
<1> QED
  BY <1>2, <1>3, <1>4 DEF PInv

(* The invariant about ids, boxes and reports is inductive ...              *)
LEMMA PStep == PInv /\ [Next]_vars => PInv'
<1> SUFFICES ASSUME PInv, [Next]_vars PROVE PInv'
  OBVIOUS
<1>a. Types /\ BoxOf /\ Exclusive
  BY DEF PInv
<1>1. CASE UNCHANGED vars
  BY <1>1 DEF PInv, vars, Types, BoxOf, Exclusive, Fresh, Own, ReportIsOwn
<1>2. ASSUME NEW u \in Users, AcquirePermit(u) \/ InBox(u) PROVE PInv'
  <2>1. Types' /\ BoxOf' /\ Fresh' /\ Own' /\ ReportIsOwn'
    BY <1>2, StepKeepsTypes, StepKeepsBoxes
  <2>2. CASE PopId(u) \/ DropId(u)
    BY <2>1, <2>2, <1>a, PopKeepsExclusive, PushKeepsExclusive DEF PInv
  <2>3. CASE ~PopId(u) /\ ~DropId(u)
    <3>1. free_ids' = free_ids /\ box' = box
      BY <1>2, <2>3 DEF InBox, AcquirePermit, InitCleanup, InitBox, WriteFile, Exec,
           IsolateEnds, ReadMeta, Judged, Release, DropPermit, call
    <3> QED
      BY <2>1, <3>1, <1>a, RestKeepsExclusive DEF PInv
  <2> QED
    BY <2>2, <2>3
<1> QED
  BY <1>1, <1>2 DEF Next

-----------------------------------------------------------------------------
(* Counting: every call that is not outside has a permit, and every id that *)
(* is not in the pool has a call.                                           *)
Busy    == {u \in Users : at[u] # "out"}
Holding == {u \in Users : box[u] # NULL}

Counts ==
  /\ IsFiniteSet(Busy) /\ IsFiniteSet(Holding)
  /\ permits + Cardinality(Busy) = Slots
  /\ Len(free_ids) + Cardinality(Holding) = Slots

(* Only taking and giving back a permit changes who is busy ...             *)
LEMMA PermitStep ==
  ASSUME PInv, Counts, NEW u \in Users, AcquirePermit(u) \/ InBox(u)
  PROVE  /\ IsFiniteSet(Busy')
         /\ permits' + Cardinality(Busy') = Slots
<1>a. /\ permits \in Nat /\ at \in [Users -> Places]
      /\ IsFiniteSet(Busy) /\ permits + Cardinality(Busy) = Slots
      /\ Cardinality(Busy) \in Nat
  BY FS_CardinalityType DEF PInv, Types, Counts
<1>1. CASE AcquirePermit(u)
  <2>1. /\ Busy' = Busy \cup {u} /\ u \notin Busy
        /\ permits' = permits - 1
    BY <1>1, <1>a DEF AcquirePermit, Goto, Busy
  <2>2. IsFiniteSet(Busy') /\ Cardinality(Busy') = Cardinality(Busy) + 1
    BY <2>1, <1>a, FS_AddElement
  <2> QED
    BY <2>1, <2>2, <1>a
<1>2. CASE DropPermit(u)
  <2>1. /\ Busy' = Busy \ {u} /\ u \in Busy
        /\ permits' = permits + 1
    BY <1>2, <1>a DEF DropPermit, Goto, Busy
  <2>2. IsFiniteSet(Busy') /\ Cardinality(Busy') = Cardinality(Busy) - 1
    BY <2>1, <1>a, FS_RemoveElement
  <2> QED
    BY <2>1, <2>2, <1>a
<1>3. CASE ~AcquirePermit(u) /\ ~DropPermit(u)
  <2>1. permits' = permits /\ at[u] # "out" /\ \E p \in Places \ {"out"} : Goto(u, p)
    BY <1>3, <1>a DEF InBox, PopId, InitCleanup, InitBox, WriteFile, Exec, IsolateEnds,
         ReadMeta, Judged, Release, DropId, Goto, Places
  <2>2. Busy' = Busy
    BY <2>1, <1>a DEF Goto, Busy
  <2> QED
    BY <2>1, <2>2, <1>a
<1> QED
  BY <1>1, <1>2, <1>3

(* ... and only popping and pushing an id who holds a box.                  *)
LEMMA IdStep ==
  ASSUME PInv, Counts, NEW u \in Users, AcquirePermit(u) \/ InBox(u)
  PROVE  /\ IsFiniteSet(Holding')
         /\ Len(free_ids') + Cardinality(Holding') = Slots
<1>a. /\ Types /\ BoxOf /\ Exclusive
      /\ IsFiniteSet(Holding) /\ Len(free_ids) + Cardinality(Holding) = Slots
      /\ Cardinality(Holding) \in Nat
  BY FS_CardinalityType DEF PInv, Counts
<1>1. CASE PopId(u)
  <2>1. /\ Len(free_ids) \in Nat /\ Len(free_ids') = Len(free_ids) - 1
        /\ Last(free_ids) # NULL
    BY <1>1, <1>a, PopKeepsExclusive, NullIsNoBox DEF Boxes
  <2>2. Holding' = Holding \cup {u} /\ u \notin Holding
    BY <1>1, <1>a, <2>1 DEF PopId, Holding, Types, BoxOf, Boxless
  <2>3. IsFiniteSet(Holding') /\ Cardinality(Holding') = Cardinality(Holding) + 1
    BY <2>2, <1>a, FS_AddElement
  <2> QED
    BY <2>1, <2>3, <1>a
<1>2. CASE DropId(u)
  <2>1. Len(free_ids) \in Nat /\ Len(free_ids') = Len(free_ids) + 1
    BY <1>2, <1>a, PushKeepsExclusive
  <2>2. Holding' = Holding \ {u} /\ u \in Holding
    BY <1>2, <1>a DEF DropId, Holding, Types, BoxOf, Boxless
  <2>3. IsFiniteSet(Holding') /\ Cardinality(Holding') = Cardinality(Holding) - 1
    BY <2>2, <1>a, FS_RemoveElement
  <2> QED
    BY <2>1, <2>3, <1>a
<1>3. CASE ~PopId(u) /\ ~DropId(u)
  <2>1. free_ids' = free_ids /\ box' = box
    BY <1>3 DEF InBox, AcquirePermit, InitCleanup, InitBox, WriteFile, Exec,
         IsolateEnds, ReadMeta, Judged, Release, DropPermit, call
  <2> QED
    BY <2>1, <1>a DEF Holding
<1> QED
  BY <1>1, <1>2, <1>3

(* ... and so are the counts.                                               *)
LEMMA CountsStep == PInv /\ Counts /\ [Next]_vars => Counts'
<1> SUFFICES ASSUME PInv, Counts, [Next]_vars PROVE Counts'
  OBVIOUS
<1>1. CASE UNCHANGED vars
  BY <1>1 DEF Counts, Busy, Holding, vars
<1>2. ASSUME NEW u \in Users, AcquirePermit(u) \/ InBox(u) PROVE Counts'
  BY <1>2, PermitStep, IdStep DEF Counts
<1> QED
  BY <1>1, <1>2 DEF Next

(* At the start nobody has a permit or an id.                               *)
LEMMA CountsInit == Init => Counts
<1> SUFFICES ASSUME Init PROVE Counts
  OBVIOUS
<1>1. Busy = {} /\ Holding = {}
  BY DEF Init, Busy, Holding
<1>2. IsFiniteSet({}) /\ Cardinality({}) = 0
  BY FS_EmptySet
<1>3. Len(free_ids) = Slots
  BY SlotsArePositive, LenProperties, IsASeq DEF Init
<1> QED
  BY <1>1, <1>2, <1>3, SlotsArePositive DEF Counts, Init

(* The inductive invariant of the pool.                                     *)
LEMMA PoolInvariant == Spec => [](PInv /\ Counts)
<1> QED
  BY InitHolds, CountsInit, PStep, CountsStep, PTL DEF Spec

-----------------------------------------------------------------------------
(* The pool's variables keep their types; in particular there are never     *)
(* more permits than boxes.                                                 *)
THEOREM PoolTypes == Spec => []TypeOK
<1>1. PInv /\ Counts => TypeOK
  <2> SUFFICES ASSUME PInv, Counts PROVE TypeOK
    OBVIOUS
  <2>1. permits \in 0 .. Slots
    BY FS_CardinalityType, SlotsArePositive DEF PInv, Types, Counts
  <2> QED
    BY <2>1 DEF PInv, Types, TypeOK
<1> QED
  BY <1>1, PoolInvariant, PTL

(* The expect() in acquire never panics: who has a permit and no id yet     *)
(* makes fewer holders than permits are out, so an id is left.              *)
THEOREM PermitsFindIds == Spec => []PermitImpliesFreeId
<1>1. PInv /\ Counts => PermitImpliesFreeId
  <2> SUFFICES ASSUME PInv, Counts, NEW u \in Users, at[u] = "permit"
               PROVE  free_ids # <<>>
    BY DEF PermitImpliesFreeId
  <2>1. Holding \subseteq Busy \ {u} /\ u \in Busy
    BY DEF PInv, BoxOf, Boxless, Holding, Busy
  <2>2. /\ IsFiniteSet(Busy \ {u}) /\ Cardinality(Busy \ {u}) = Cardinality(Busy) - 1
    BY <2>1, FS_RemoveElement DEF Counts
  <2>3. Cardinality(Holding) <= Cardinality(Busy) - 1
    BY <2>1, <2>2, FS_Subset
  <2>4. /\ Cardinality(Busy) \in Nat /\ Cardinality(Holding) \in Nat
        /\ permits \in Nat /\ Len(free_ids) \in Nat
    BY FS_CardinalityType, LenProperties DEF Counts, PInv, Types
  <2>5. Len(free_ids) # 0
    BY <2>3, <2>4, SlotsArePositive DEF Counts
  <2> QED
    BY <2>5, EmptySeq
<1> QED
  BY <1>1, PoolInvariant, PTL

(* One box is used by one call at a time, and none is ever lost.            *)
THEOREM BoxesExclusive == Spec => []EachBoxOnce
<1>1. PInv => EachBoxOnce
  <2> SUFFICES ASSUME PInv, NEW b \in Boxes
               PROVE  \/ InPool(b) = {} /\ \E u \in Users : HeldBy(b) = {u}
                      \/ HeldBy(b) = {} /\ \E i \in DOMAIN free_ids : InPool(b) = {i}
    BY DEF EachBoxOnce
  <2>0. DOMAIN free_ids = 1 .. Len(free_ids) /\ b # NULL
    BY LenProperties, NullIsNoBox DEF PInv, Types, Boxes
  <2>1. CASE \E u \in Users : box[u] = b
    <3>1. PICK u \in Users : box[u] = b
      BY <2>1
    <3>2. HeldBy(b) = {u}
      BY <3>1, <2>0 DEF HeldBy, PInv, Exclusive
    <3>3. InPool(b) = {}
      BY <3>1, <2>0 DEF InPool, PInv, Exclusive
    <3> QED
      BY <3>2, <3>3
  <2>2. CASE \E i \in 1 .. Len(free_ids) : free_ids[i] = b
    <3>1. PICK i \in 1 .. Len(free_ids) : free_ids[i] = b
      BY <2>2
    <3>2. InPool(b) = {i}
      BY <3>1, <2>0 DEF InPool, PInv, Exclusive
    <3>3. HeldBy(b) = {}
      BY <3>1 DEF HeldBy, PInv, Exclusive
    <3> QED
      BY <3>1, <3>2, <3>3, <2>0
  <2> QED
    BY <2>1, <2>2 DEF PInv, Exclusive
<1> QED
  BY <1>1, PoolInvariant, PTL

(* A source file is written into an empty box only.                         *)
THEOREM BoxesFresh == Spec => []BoxIsFresh
<1>1. PInv => BoxIsFresh
  BY DEF PInv, Fresh, BoxIsFresh
<1> QED
  BY <1>1, PoolInvariant, PTL

(* A result is read from the meta file of its own execution.                *)
THEOREM ReportsOwn == Spec => []ReportIsOwn
<1>1. PInv => ReportIsOwn
  BY DEF PInv
<1> QED
  BY <1>1, PoolInvariant, PTL
=============================================================================
