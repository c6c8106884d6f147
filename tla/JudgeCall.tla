----------------------------- MODULE JudgeCall -----------------------------
(***************************************************************************)
(* What the server relies on in one call of Judge::judge                   *)
(* (crates/judge/src/pipeline.rs): the order of its progress messages and  *)
(* what it may return after each.  Workers is built on this; Judge is the  *)
(* code in detail and is checked against it.                               *)
(***************************************************************************)
EXTENDS Integers

CONSTANTS
  Tests,   \* number of tests of the request
  NULL     \* a language that is not configured

Nothing   == -2  \* progress: nothing sent yet,
Compiling == -1  \* Compiling, or the number of tests done

(* The next notify() of judge_in_box, given the last one: compile if the    *)
(* language has a compile step, then the start of the tests, then each test.*)
NextProgress(language, p) ==
  IF p = Nothing /\ language = "compiled" THEN Compiling
  ELSE IF p < 0 THEN 0 ELSE p + 1

(* What judge() can return after progress p: CE when the compile step       *)
(* fails, the failing test's verdict right after it, AC after the last      *)
(* test, and an infrastructure error while a sandbox call is still to come. *)
Outcomes(language, p) ==
  IF language = NULL THEN {"no language"}
  ELSE    (IF p = Compiling  THEN {"CE"} ELSE {})
     \cup (IF p \in 1 .. Tests THEN {"WA"} ELSE {})
     \cup (IF p = Tests      THEN {"AC"} ELSE {"sandbox"})
=============================================================================
