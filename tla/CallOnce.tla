---- MODULE CallOnce ----
(***************************************************************************)
(* What a remote call promises its caller: the request is carried out at   *)
(* most once, a result is the answer of that one execution, and an outcome *)
(* is final.  It does not promise that a call that fails was not carried   *)
(* out: the connection, the server or the caller may go at any point.      *)
(***************************************************************************)
CONSTANT Requests

VARIABLES outcome,  \* open, result, failed
          where     \* the request: new, sent, working, answered (on its way back), gone

callOnce == <<outcome, where>>

Init ==
    /\ outcome = [j \in Requests |-> "open"]
    /\ where = [j \in Requests |-> "new"]

\* The request moves one place on.
Onward == {<<"new", "sent">>, <<"sent", "working">>, <<"working", "answered">>}
Move(j) ==
    /\ \E p \in Onward : where[j] = p[1] /\ where' = [where EXCEPT ![j] = p[2]]
    /\ UNCHANGED outcome

\* The answer reaches a caller that still waits.
Result(j) ==
    /\ outcome[j] = "open" /\ where[j] = "answered"
    /\ outcome' = [outcome EXCEPT ![j] = "result"]
    /\ where' = [where EXCEPT ![j] = "gone"]

\* Something fails: some open calls are told an error, some requests or
\* answers are lost.
Fault ==
    /\ \A j \in Requests :
          /\ \/ outcome'[j] = outcome[j]
             \/ outcome[j] = "open" /\ outcome'[j] = "failed"
          /\ where'[j] \in {where[j], "gone"}
    /\ DOMAIN outcome' = Requests /\ DOMAIN where' = Requests

Next == Fault \/ \E j \in Requests : Move(j) \/ Result(j)
Spec == Init /\ [][Next]_callOnce
====
