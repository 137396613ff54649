----------------------------- MODULE AtMostOnce -----------------------------
(***************************************************************************)
(* What send_and_receive promises those who call it: a request is served   *)
(* at most once, one that returns with an answer was served, and one that  *)
(* fails may have been, or may still be.  Connection implements it.        *)
(***************************************************************************)
EXTENDS Naturals

CONSTANT Requests

VARIABLES call,    \* each request: not made, waited for, or how it has returned
          ran      \* how often the server has served it

Init == /\ call = [r \in Requests |-> "idle"]
        /\ ran = [r \in Requests |-> 0]

Make(r) == call[r] = "idle" /\ call' = [call EXCEPT ![r] = "waiting"] /\ UNCHANGED ran

\* Also after the caller has given up.
Run(r) == /\ call[r] # "idle" /\ ran[r] = 0
          /\ ran' = [ran EXCEPT ![r] = 1]
          /\ UNCHANGED call

Return(r, how) == /\ call[r] = "waiting" /\ how \in {"okay", "refused", "failed"}
                  /\ how # "failed" => ran[r] = 1
                  /\ call' = [call EXCEPT ![r] = how]
                  /\ UNCHANGED ran

\* Those who wait for the requests in S give up.
Abandon(S) == /\ \A r \in S : call[r] = "waiting"
              /\ call' = [r \in Requests |-> IF r \in S THEN "failed" ELSE call[r]]
              /\ UNCHANGED ran

Next == \/ \E r \in Requests : \/ Make(r) \/ Run(r)
                               \/ \E how \in {"okay", "refused", "failed"} : Return(r, how)
        \/ \E S \in SUBSET {r \in Requests : call[r] = "waiting"} : Abandon(S)

Spec == Init /\ [][Next]_<<call, ran>>
=============================================================================
