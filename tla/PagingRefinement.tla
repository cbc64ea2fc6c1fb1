-------------------------- MODULE PagingRefinement --------------------------
(* Paging implements OnCall: the phase of an incident is its status, the    *)
(* rungs climbed are the 'notified' entries of its timeline, and the ladder *)
(* is as long as the policy snapshot says.                                  *)
EXTENDS Paging

LadderOf(i) == IF snapshot[i] = None THEN 0 ELSE Rungs(snapshot[i])

Promise == INSTANCE OnCall WITH
    Incident <- Incident,
    phase    <- status,
    climbed  <- [i \in Incident |-> Len(notified[i])],
    ladder   <- [i \in Incident |-> LadderOf(i)]

(* Every behaviour of the timers, transactions and reloads of Paging climbs *)
(* the ladder as OnCall promises: no rung twice, none skipped, none after an*)
(* acknowledgement before it has timed out, none after the end.             *)
KeepsThePromise == Promise!OCSpec
=============================================================================
