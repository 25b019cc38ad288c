---------------------------- MODULE MCLifecycle ----------------------------
(* Small instances of Lifecycle for TLC. *)
EXTENDS Lifecycle, TLC

CONSTANTS p1, p2, v1, v2

OneSkill == {"skills/s"}

\* Version 1 ships a skill, version 2 retires it.
Retiring == (v1 :> OneSkill) @@ (v2 :> {})

\* The user starts from nothing or owns colliding files.
NothingOrColliding == {{}, {Policy, Hooks, "skills/s"}}
Colliding == {{Policy, "skills/s"}}

\* Both versions ship the same skill; they are interchangeable.
Stable == [v \in {v1, v2} |-> OneSkill]
Interchangeable == Permutations({v1, v2}) \cup Permutations(Procs)
=============================================================================
