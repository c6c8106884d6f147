---------------------------- MODULE SandboxPool ----------------------------
(***************************************************************************)
(* The pool of isolate boxes (crates/judge/src/isolate.rs) and the life of *)
(* a box inside Judge::judge (pipeline.rs): permit, box id, cleanup, init, *)
(* source file, executions, release, Drop.  Box ids and meta files are     *)
(* reused, and any call of the isolate binary may fail.                    *)
(*                                                                         *)
(* disk and meta stand for what isolate keeps outside the process.         *)
(***************************************************************************)
EXTENDS Integers, SequencesExt

CONSTANTS
  Users,      \* concurrent calls of judge()
  Slots,      \* IsolateConfig::slots
  MaxExecs,   \* bound on the executions in one box
  NULL

ASSUME SlotsArePositive == Slots \in Nat \ {0}
ASSUME MaxExecsIsNat    == MaxExecs \in Nat \ {0}
ASSUME NullIsNoBox      == NULL \notin 0 .. Slots - 1

Boxes == 0 .. Slots - 1

VARIABLES
  permits,    \* available permits of the semaphore
  free_ids,   \* a stack
  at,         \* where a call of judge() is
  box,        \* the id of its box
  executed,   \* IsolateBox::executed
  execs,      \* executions so far in this box
  disk,       \* box directory: "absent", "empty", "source" or "dirty"
  meta        \* which execution the meta file of a box describes

vars == <<permits, free_ids, at, box, executed, execs, disk, meta>>
call == <<box, executed, execs>>

Places == {"out", "permit", "cleanup", "init", "write", "ready", "running",
           "reading", "release", "drop", "unpermit"}
Metas  == [user : Users, exec : 1 .. MaxExecs] \cup {NULL}

TypeOK ==
  /\ permits  \in 0 .. Slots
  /\ free_ids \in Seq(Boxes)
  /\ at       \in [Users -> Places]
  /\ box      \in [Users -> Boxes \cup {NULL}]
  /\ executed \in [Users -> BOOLEAN]
  /\ execs    \in [Users -> 0 .. MaxExecs]
  /\ disk     \in [Boxes -> {"absent", "empty", "source", "dirty"}]
  /\ meta     \in [Boxes -> Metas]

Init ==
  /\ permits  = Slots
  /\ free_ids = [i \in 1 .. Slots |-> Slots - i]
  /\ at       = [u \in Users |-> "out"]
  /\ box      = [u \in Users |-> NULL]
  /\ executed = [u \in Users |-> FALSE]
  /\ execs    = [u \in Users |-> 0]
  /\ disk     \in [Boxes -> {"absent", "dirty"}]   \* an earlier process may have died
  /\ meta     = [b \in Boxes |-> NULL]

Goto(u, there) == at' = [at EXCEPT ![u] = there]

-----------------------------------------------------------------------------
NoPermit(u) ==  \* mutant: the permit is not kept
  /\ at[u] = "out" /\ permits > 0
  /\ Goto(u, "permit")
  /\ UNCHANGED <<permits, free_ids, call, disk, meta>>

(* acquire: a permit, then the id on top of the stack, which expect() says  *)
(* is there.                                                                *)
AcquirePermit(u) ==
  /\ at[u] = "out" /\ permits > 0
  /\ permits' = permits - 1
  /\ Goto(u, "permit")
  /\ UNCHANGED <<free_ids, call, disk, meta>>

PeekId(u) ==  \* mutant: the id stays in the pool
  /\ at[u] = "permit" /\ free_ids # <<>>
  /\ box'      = [box EXCEPT ![u] = Last(free_ids)]
  /\ executed' = [executed EXCEPT ![u] = FALSE]
  /\ Goto(u, "cleanup")
  /\ UNCHANGED <<permits, free_ids, execs, disk, meta>>

PopSpareId(u) ==  \* mutant: off by one, the last free id is never handed out
  /\ at[u] = "permit" /\ Len(free_ids) > 1
  /\ box'      = [box EXCEPT ![u] = Last(free_ids)]
  /\ free_ids' = Front(free_ids)
  /\ executed' = [executed EXCEPT ![u] = FALSE]
  /\ Goto(u, "cleanup")
  /\ UNCHANGED <<permits, execs, disk, meta>>

PopId(u) ==
  /\ at[u] = "permit" /\ free_ids # <<>>
  /\ box'      = [box EXCEPT ![u] = Last(free_ids)]
  /\ free_ids' = Front(free_ids)
  /\ executed' = [executed EXCEPT ![u] = FALSE]
  /\ Goto(u, "cleanup")
  /\ UNCHANGED <<permits, execs, disk, meta>>

NoCleanup(u) ==  \* mutant: relies on the release of the call before
  /\ at[u] = "cleanup"
  /\ Goto(u, "init")
  /\ UNCHANGED <<permits, free_ids, call, disk, meta>>

(* init: --cleanup, then --init.  A failure drops the box.                  *)
InitCleanup(u) ==
  /\ at[u] = "cleanup"
  /\ \/ Goto(u, "init") /\ disk' = [disk EXCEPT ![box[u]] = "absent"]
     \/ Goto(u, "drop") /\ UNCHANGED disk
  /\ UNCHANGED <<permits, free_ids, call, meta>>

(* isolate --init leaves a directory that is already there as it is.        *)
InitBox(u) ==
  /\ at[u] = "init"
  /\ \/ /\ Goto(u, "write")
        /\ disk' = [disk EXCEPT ![box[u]] = IF @ = "absent" THEN "empty" ELSE @]
     \/ Goto(u, "drop") /\ UNCHANGED disk
  /\ UNCHANGED <<permits, free_ids, call, meta>>

(* judge_in_box: the source file is created, O_EXCL, before anything runs.  *)
WriteFile(u) ==
  /\ at[u] = "write"
  /\ \/ /\ ~executed[u] /\ disk[box[u]] # "source"
        /\ disk' = [disk EXCEPT ![box[u]] = IF @ = "empty" THEN "source" ELSE @]
        /\ Goto(u, "ready")
     \/ Goto(u, "release") /\ UNCHANGED disk
  /\ UNCHANGED <<permits, free_ids, call, meta>>

(* exec: the old meta file is removed and isolate --run spawned ...         *)
KeepMeta(b) == UNCHANGED meta  \* mutant
RemoveMeta(b) == meta' = [meta EXCEPT ![b] = NULL]

Exec(u) ==
  /\ at[u] = "ready" /\ execs[u] < MaxExecs
  /\ executed' = [executed EXCEPT ![u] = TRUE]
  /\ execs'    = [execs EXCEPT ![u] = @ + 1]
  /\ RemoveMeta(box[u])
  /\ disk' = [disk EXCEPT ![box[u]] = "dirty"]
  /\ Goto(u, "running")
  /\ UNCHANGED <<permits, free_ids, box>>

(* ... which ends and writes the meta file, fails before writing it, or is  *)
(* killed by the guard timeout, with or without a meta file ...             *)
IsolateEnds(u) ==
  /\ at[u] = "running"
  /\ \/ meta' = [meta EXCEPT ![box[u]] = [user |-> u, exec |-> execs[u]]]
     \/ UNCHANGED meta
  /\ Goto(u, "reading") \/ Goto(u, "release")
  /\ UNCHANGED <<permits, free_ids, call, disk>>

(* ... and the meta file is read; without one interpret() is an error.      *)
ReadMeta(u) ==
  /\ at[u] = "reading"
  /\ Goto(u, IF meta[box[u]] = NULL THEN "release" ELSE "ready")
  /\ UNCHANGED <<permits, free_ids, call, disk, meta>>

(* All tests are run, or the submission failed one.                         *)
Judged(u) ==
  /\ at[u] = "ready"
  /\ Goto(u, "release")
  /\ UNCHANGED <<permits, free_ids, call, disk, meta>>

(* release: --cleanup; its failure is only logged.                          *)
Release(u) ==
  /\ at[u] = "release"
  /\ \/ disk' = [disk EXCEPT ![box[u]] = "absent"]
     \/ UNCHANGED disk
  /\ Goto(u, "drop")
  /\ UNCHANGED <<permits, free_ids, call, meta>>

(* Drop: the id goes back first, the permit field is dropped after it.      *)
DropId(u) ==
  /\ at[u] = "drop"
  /\ free_ids' = Append(free_ids, box[u])
  /\ box'      = [box EXCEPT ![u] = NULL]
  /\ executed' = [executed EXCEPT ![u] = FALSE]
  /\ execs'    = [execs EXCEPT ![u] = 0]
  /\ Goto(u, "unpermit")
  /\ UNCHANGED <<permits, disk, meta>>

DropPermit(u) ==
  /\ at[u] = "unpermit"
  /\ permits' = permits + 1
  /\ Goto(u, "out")
  /\ UNCHANGED <<free_ids, call, disk, meta>>

-----------------------------------------------------------------------------
InBox(u) ==
  \/ PopId(u) \/ InitCleanup(u) \/ InitBox(u) \/ WriteFile(u)
  \/ Exec(u) \/ IsolateEnds(u) \/ ReadMeta(u) \/ Judged(u)
  \/ Release(u) \/ DropId(u) \/ DropPermit(u)

Next == \E u \in Users : AcquirePermit(u) \/ InBox(u)

Spec == Init /\ [][Next]_vars

(* Calls of isolate return (init and cleanup have no timeout: assumed), and *)
(* tokio's semaphore serves those who wait in turn.                         *)
FairSpec == Spec /\ \A u \in Users : WF_vars(InBox(u)) /\ SF_vars(AcquirePermit(u))

-----------------------------------------------------------------------------
(* isolate.rs:137, "semaphore permit implies a free box id": the expect()    *)
(* never panics, although permit and id are taken and given back in          *)
(* separate steps.                                                           *)
PermitImpliesFreeId == \A u \in Users : at[u] = "permit" => free_ids # <<>>

(* "One box is used for one submission at a time": a box id is held by one   *)
(* call or lies once in the pool, also after failures in any step.           *)
HeldBy(b) == {u \in Users : box[u] = b}
InPool(b) == {i \in DOMAIN free_ids : free_ids[i] = b}

EachBoxOnce ==
  \A b \in Boxes :
     \/ InPool(b) = {} /\ \E u \in Users : HeldBy(b) = {u}
     \/ HeldBy(b) = {} /\ \E i \in DOMAIN free_ids : InPool(b) = {i}

(* sandbox.rs:77, "a freshly initialised, empty box": nothing of an earlier  *)
(* submission is left in a box when its source file is written, whatever     *)
(* happened to the release before or to the process before this one.         *)
BoxIsFresh == \A u \in Users : at[u] = "write" => disk[box[u]] = "empty"

(* The result of an execution comes from the meta file of that very          *)
(* execution, never from one left by an earlier one in a box of that id,     *)
(* also when isolate fails before it writes its own.                         *)
ReportIsOwn ==
  \A u \in Users :
     at[u] = "reading" => meta[box[u]] \in {NULL, [user |-> u, exec |-> execs[u]]}

(* Boxes and permits are never leaked: everyone who wants a box gets one     *)
(* again and again.                                                          *)
EveryoneIsServed == \A u \in Users : at[u] = "out" ~> at[u] = "cleanup"
=============================================================================
