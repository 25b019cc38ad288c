-------------------------- MODULE MCNativeRouting --------------------------
(* Small instances of NativeRouting for TLC. *)
EXTENDS NativeRouting, TLC

CONSTANTS t1, t2, worker, reviewer

Flexible == worker :> [default |-> t1, allowed |-> {t1, t2}]
Strict == reviewer :> [default |-> t1, allowed |-> {t1}]

\* Two configurations that pin different roles.
Two == {Flexible, Strict}
=============================================================================
