----------------------------- MODULE Lifecycle -----------------------------
(***************************************************************************)
(* What the service promises for one submission, without workers, leases,  *)
(* fencing tokens or crashes: once accepted it is tried some number of     *)
(* times and then gets exactly one final verdict, which is IE only when it *)
(* was tried MaxAttempts times or can never be judged.                     *)
(***************************************************************************)
EXTENDS Naturals

CONSTANTS
  MaxAttempts,
  Permanent,   \* reasons why a submission can never be judged
  Transient,   \* reasons why one attempt failed
  NULL

VARIABLES
  phase,       \* "new", "pending" or "decided"
  tries,
  result,      \* the verdict, once decided
  reason       \* why it is IE

vars == <<phase, tries, result, reason>>

Init ==
  /\ phase  = "new"
  /\ tries  = 0
  /\ result = NULL
  /\ reason = NULL

Accept ==
  /\ phase = "new"
  /\ phase' = "pending"
  /\ UNCHANGED <<tries, result, reason>>

Try ==
  /\ phase = "pending"
  /\ tries' = tries + 1
  /\ UNCHANGED <<phase, result, reason>>

Decide ==
  /\ phase = "pending" /\ tries > 0
  /\ phase' = "decided"
  /\ result' \in {"AC", "WA", "CE"}
  /\ UNCHANGED <<tries, reason>>

GiveUp ==
  /\ phase = "pending" /\ tries > 0
  /\ phase' = "decided"
  /\ result' = "IE"
  /\ reason' \in Permanent \cup (IF tries >= MaxAttempts THEN Transient ELSE {})
  /\ UNCHANGED tries

Next == Accept \/ Try \/ Decide \/ GiveUp

Spec == Init /\ [][Next]_vars

(* An accepted submission is not left waiting for ever.                     *)
EventuallyDecided == phase = "pending" ~> phase = "decided"
=============================================================================
