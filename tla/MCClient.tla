------------------------------- MODULE MCClient -------------------------------
(***************************************************************************)
(* A client with one attempt to log in and two pushes to make, one just    *)
(* short enough for its header, the other that or too long, so that two    *)
(* may meet at the gate; and before that the dialogue of either program,   *)
(* with a name for each thing a name can do to the file it is written to.  *)
(***************************************************************************)
EXTENDS ClientProgram, TLC

CONSTANTS fresh_, home, taken

MCNames  == {fresh_, home, taken}
MCWords  == (fresh_ :> {} @@ home :> {"path"} @@ taken :> {})
MCOnDisk == (fresh_ :> "none" @@ home :> "dir" @@ taken :> "file")
MCLogins == <<"login1">>
MCPushes == {"push1", "push2"}
MCRequests == {"login1", "sync", "push1", "push2", "end", "endAgain", "endWatcher"}

\* The codes of MESSAGE_TYPE, and lengths of messages.
MCCode == [login1 |-> 2, sync |-> 3, push1 |-> 7, push2 |-> 7, end |-> 100, endAgain |-> 100, endWatcher |-> 100]
MCMessages == [r \in MCRequests |->
                 {[code |-> MCCode[r], length |-> n] : n \in CASE r = "push1" -> {16^7 - 1} [] r = "push2" -> {16^7 - 1, 16^7} [] OTHER -> {70, 5000}}]
=============================================================================
