--------------------------- MODULE MCBatchPromote ---------------------------
(* Small instances of BatchPromote for TLC. *)
EXTENDS BatchPromote, TLC

CONSTANTS s1, s2, u1, u2, u3, u4

File(records) == records @@ Empty
Rec(u) == [unit |-> u, status |-> "provisional", body |-> "first"]

\* u1 creates the page, u2 and u3 are its carriers, u4 is a unit outside the
\* batch.  The units share files, with u4 or without, or have files of their own.
Layouts ==
  { s1 :> File(1 :> Rec(u1) @@ 2 :> Rec(u2) @@ 3 :> Rec(u3))
      @@ s2 :> File(1 :> Rec(u2) @@ 2 :> Rec(u4)),
    s1 :> File(1 :> Rec(u1)) @@ s2 :> File(1 :> Rec(u2) @@ 2 :> Rec(u2) @@ 3 :> Rec(u3)) }

TheOrder == <<u1, u2, u3>>
TheManifest == u1 :> 1 @@ u2 :> 2 @@ u3 :> 1
=============================================================================
