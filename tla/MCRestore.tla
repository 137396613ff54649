----------------------------- MODULE MCRestore -----------------------------
(* Restore for TLC: a directory d or a file in its place, f in it, g beside it. *)
EXTENDS Restore, TLC

CONSTANTS d, f, g, c1, c2

ThreePaths == {d, f, g}
ThreeBelow == (d :> {} @@ f :> {d} @@ g :> {})
ThreeRank  == (d :> 1 @@ f :> 2 @@ g :> 3)
ThreeKinds == (d :> {"dir", "file"} @@ f :> {"file"} @@ g :> {"file"})
=============================================================================
