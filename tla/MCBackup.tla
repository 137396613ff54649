------------------------------ MODULE MCBackup ------------------------------
(* Backup for TLC: a directory d, a file f in it, a file g beside it. *)
EXTENDS Backup, TLC

CONSTANTS d, f, g, x, c1, c2

MCContents == {c1, c2, Empty}
\* The contents a user writes are interchangeable; safety runs only.
Perms == Permutations({c1, c2})

TwoPaths   == {d, f}
TwoBelow   == (d :> {} @@ f :> {d})
TwoRank    == (d :> 1 @@ f :> 2)
TwoKinds   == (d :> {"dir"} @@ f :> {"file"})

NoFaults   == [crash |-> 0, db |-> 0, lose |-> 0, kill |-> 0]
OneCrash   == [NoFaults EXCEPT !.crash = 1]
OneLose    == [NoFaults EXCEPT !.lose = 1]
AllFaults  == [k \in DOMAIN NoFaults |-> 1]

ThreePaths == {d, f, g}
ThreeBelow == (d :> {} @@ f :> {d} @@ g :> {})
ThreeRank  == (d :> 1 @@ f :> 2 @@ g :> 3)
ThreeKinds == (d :> {"dir"} @@ f :> {"file"} @@ g :> {"file"})

\* One path that is a file now and a directory then.
OnePaths   == {x}
OneBelow   == (x :> {})
OneRank    == (x :> 1)
BothKinds  == (x :> {"file", "dir"})
=============================================================================
