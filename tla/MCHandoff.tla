------------------------------ MODULE MCHandoff --------------------------------
(* Small instances of Handoff. *)
EXTENDS Handoff

\* The two flows belong to one session; they hash to different workers, and so
\* do their session, their tunnel and the other session.  The LAC's packets all
\* arrive on worker 1.
MCHash == [k \in SessionKey |-> k[2]]
MCRxThread == [tid \in Tids |-> 1]
MCFlows == {1, 2}
MCFlowKey == [f \in MCFlows |-> <<1, 1>>]
MCFlowHash == [f \in MCFlows |-> f]
MCOuterHash == [tid \in Tids |-> 1]
MCOuterDst == [tid \in Tids |-> CHOOSE l \in Locals : TRUE]
MCTraffic == {<<1, "ip4">>, <<2, "truncated">>, <<1, "control">>}
MCWorkerLists == {<<>>, <<2>>, <<1, 2>>}
=============================================================================
