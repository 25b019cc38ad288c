------------------------- MODULE MCNativeCompletion -------------------------
(* Small instances of NativeCompletion for TLC. *)
EXTENDS NativeCompletion, TLC

CONSTANTS m1, m2, e1, e2, worker, reviewer

As(r, m, e) == [type |-> r, model |-> m, effort |-> e]

\* A request may be met, or missed by the model, the effort or the type alone.
Two == {As(worker, m1, e1), As(worker, m2, e1)}
Four == Two \cup {As(worker, m1, e2), As(reviewer, m1, e1)}

\* Calls are interchangeable.
Interchangeable == Permutations(Calls)
=============================================================================
