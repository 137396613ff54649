----------------------------- MODULE MCServerApi -----------------------------
(***************************************************************************)
(* ServerApi for TLC: a client with requests enough for two wrong logins,  *)
(* the right one and one more beside a client that only logs in, or two    *)
(* clients alike.                                                          *)
(***************************************************************************)
EXTENDS ServerApi, TLC

CONSTANTS k1, k2

MCClients == {k1, k2}
LongAndShort == (k1 :> 4 @@ k2 :> 1)
Alike == (k1 :> 2 @@ k2 :> 2)

\* Connections are alike.
Perms == Permutations(Conns)
=============================================================================
