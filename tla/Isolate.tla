------------------------------ MODULE Isolate ------------------------------
(***************************************************************************)
(* What IsolateBox::exec makes of one execution                            *)
(* (crates/judge/src/isolate.rs): the pipes are read up to a cap and the   *)
(* exit code and meta file of isolate become a status.                     *)
(*                                                                         *)
(* An execution is what isolate left behind: its exit code, the keys of    *)
(* the meta file (NULL: the key or, for meta, the file is missing), the    *)
(* stdout of the program in the chunks that read() returned, and what its  *)
(* stderr says.  Times are left out; memory is in kB.                      *)
(***************************************************************************)
EXTENDS Integers, SequencesExt

CONSTANT NULL

(* What stderr may carry: nothing, words of the program, or what it was     *)
(* given to read, all or the part that stderr_bytes keeps.                  *)
StderrTexts == {NULL, "words", "input"}

(* read_capped: the first cap bytes, and whether there were more.           *)
OverflowsRoom(chunk, room) == room > 0 /\ Len(chunk) > room  \* mutant: not once the cap is reached
Overflows(chunk, room) == Len(chunk) > room

ReadCapped(chunks, cap) ==
  LET read[n \in 0 .. Len(chunks)] ==
        IF n = 0 THEN [kept |-> <<>>, truncated |-> FALSE]
        ELSE LET r    == read[n - 1]
                 c    == chunks[n]
                 room == cap - Len(r.kept)
             IN  [kept      |-> r.kept \o SubSeq(c, 1, Min({Len(c), room})),
                  truncated |-> r.truncated \/ Overflows(c, room)]
  IN  read[Len(chunks)]

(* isolate itself failed: no statement about the program.                   *)
Broken(x) == x.exit \notin {0, 1} \/ x.meta = NULL \/ x.meta.status = "XX"

Memory(meta) ==
  IF meta.max_rss # NULL THEN meta.max_rss ELSE IF meta.cg_mem # NULL THEN meta.cg_mem ELSE 0

OomKilled(meta, limit, use_cgroups) == meta.oom_killed  \* mutant: trusts the OOM killer

OverMemory(meta, limit, use_cgroups) ==
  \/ meta.oom_killed
  \/ Memory(meta) > limit
  \/ ~use_cgroups /\ meta.status # NULL /\ Memory(meta) * 10 >= limit * 9

(* interpret.  "Err" is an infrastructure error.                            *)
Interpret(x, limit, use_cgroups, truncated) ==
  IF Broken(x) THEN "Err"
  ELSE IF x.meta.status = "TO" THEN IF x.meta.wall THEN "WallTimeLimit" ELSE "TimeLimit"
  ELSE IF OverMemory(x.meta, limit, use_cgroups) THEN "MemoryLimit"
  ELSE CASE x.meta.status = "SG" -> "Signaled"
         [] x.meta.status = "RE" -> "NonZeroExit"
         [] x.meta.status = NULL -> IF truncated THEN "OutputLimit" ELSE "Ok"
         [] OTHER                -> "Err"

(* exec, unless the call itself fails or its guard timeout fires.           *)
Exec(x, limits, use_cgroups) ==
  LET pipe == ReadCapped(x.chunks, limits.stdout)
  IN  [status |-> Interpret(x, limits.memory, use_cgroups, pipe.truncated),
       stdout |-> pipe.kept,
       stderr |-> x.stderr]
=============================================================================
