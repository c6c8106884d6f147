------------------------------ MODULE MCEvents ------------------------------
(* Values for the constants of Events that a configuration cannot spell.    *)
EXTENDS Events

CONSTANTS v1

(* The problem stays; the language may have been removed at a restart.      *)
MCCatalogs ==
  { [version |-> v1, language |-> "interpreted"], [version |-> v1, language |-> NULL] }

(* The problem may have been removed at a restart.                          *)
MCCatalogsGone ==
  { [version |-> v1, language |-> "interpreted"], [version |-> NULL, language |-> "interpreted"] }
=============================================================================
