----------------------------- MODULE MCWorkers -----------------------------
(* Values for the constants of Workers that a configuration cannot spell.   *)
EXTENDS Workers

CONSTANTS v1, v2

(* An edited problem, a language that gained a compile step, a removed      *)
(* problem and a removed language.                                          *)
MCCatalogs ==
  { [version |-> v1,   language |-> "interpreted"],
    [version |-> v2,   language |-> "compiled"],
    [version |-> NULL, language |-> "interpreted"],
    [version |-> v1,   language |-> NULL] }
=============================================================================
