---------------------------- MODULE MCConsolidate ----------------------------
(* Small instances of Consolidate for TLC. *)
EXTENDS Consolidate

Nothing == {[s \in Sessions |-> Empty]}
=============================================================================
