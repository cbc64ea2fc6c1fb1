------------------------------ MODULE MCPaging ------------------------------
(* Finite instances of Paging for TLC.                                      *)
EXTENDS PagingRefinement, TLC

(* Two steps once, with an ack timeout; one step twice, without.            *)
TwoSteps == [steps |-> 2, repeat |-> 0, ackTimeout |-> TRUE]
OneStepTwice == [steps |-> 1, repeat |-> 2, ackTimeout |-> FALSE]

(* Reloads that change the policy of a route.                               *)
MCTables == {[n \in PolicyName |-> TwoSteps], [n \in PolicyName |-> OneStepTwice]}

(* No reload changes anything.                                              *)
MCFixed == {[n \in PolicyName |-> TwoSteps]}

(* ... and one that removes it.                                             *)
MCVanishing == {[n \in PolicyName |-> TwoSteps], [n \in PolicyName |-> None]}

(* Timer ids are interchangeable: two states are the same when their rows,  *)
(* counted, and the row the scheduler holds are.                            *)
MCView ==
    LET rows == {timers[t] : t \in TimerId}
        count == [r \in rows |-> Cardinality({t \in TimerId : timers[t] = r})]
    IN  <<incidentVars, latest, pageVars, policies, count,
          IF selected = None THEN <<>> ELSE <<timers[selected]>>>>
=============================================================================
