----------------------------- MODULE MCDurable -----------------------------
(* Values for the constants of Durable that a configuration cannot spell.   *)
EXTENDS Durable

CONSTANT v1

MCOneCatalog == { [version |-> v1, language |-> "interpreted"] }
=============================================================================
