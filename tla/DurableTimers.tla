--------------------------- MODULE DurableTimers ---------------------------
(***************************************************************************)
(* What internal/timer promises of a future action, in the words of its    *)
(* package comment: once scheduled it happens once, "never zero times,     *)
(* never twice" (timer_test), unless it is cancelled first, and then never;*)
(* and it does not happen early.  TimerScheduler implements this module.   *)
(*                                                                         *)
(* Time is what is left until the instant asked for, in ticks, so that the *)
(* clock itself is not bounded.  EarlyBy is the precision promised.        *)
(***************************************************************************)
EXTENDS Integers

CONSTANTS TimerId, Delay, EarlyBy

VARIABLES
    stage, \* "none", "pending", "done" or "cancelled"
    left   \* ticks left until the instant asked for, 0 when it has come

dtVars == <<stage, left>>

DTInit ==
    /\ stage = [t \in TimerId |-> "none"]
    /\ left = [t \in TimerId |-> 0]

Ask(t, d) ==
    /\ stage[t] = "none"
    /\ stage' = [stage EXCEPT ![t] = "pending"]
    /\ left' = [left EXCEPT ![t] = d]

(* An action that happens may ask for others, at the same moment.           *)
Happen(t) ==
    /\ stage[t] = "pending"
    /\ left[t] <= EarlyBy
    /\ \E asked \in SUBSET {u \in TimerId : stage[u] = "none"} :
        /\ stage' = [u \in TimerId |-> IF u = t THEN "done"
                                       ELSE IF u \in asked THEN "pending"
                                       ELSE stage[u]]
        /\ \A u \in TimerId :
                IF u \in asked THEN left'[u] \in Delay ELSE left'[u] = left[u]
        /\ left' = [u \in TimerId |-> left'[u]]

CallOff(t) ==
    /\ stage[t] = "pending"
    /\ stage' = [stage EXCEPT ![t] = "cancelled"]
    /\ UNCHANGED left

Pass ==
    /\ left' = [t \in TimerId |-> IF left[t] > 0 THEN left[t] - 1 ELSE 0]
    /\ UNCHANGED stage

DTNext ==
    \/ \E t \in TimerId : Happen(t) \/ CallOff(t) \/ \E d \in Delay : Ask(t, d)
    \/ Pass

DTSpec == DTInit /\ [][DTNext]_dtVars
=============================================================================
