------------------------------ MODULE Breaker ------------------------------
(***************************************************************************)
(* The circuit breaker of internal/notify: per channel, how many failures  *)
(* in a row it has recorded and until when it admits nothing.  The state is*)
(* in memory only.  openUntil is kept relative to now, in seconds.         *)
(***************************************************************************)
EXTENDS Integers

CONSTANTS
    Channel,    \* the channels this process can deliver on
    Threshold,  \* consecutive failures that open the breaker
    Cooldown    \* seconds it then stays open

ASSUME BreakerAssumption == Threshold \in Nat \ {0} /\ Cooldown \in Nat \ {0}

VARIABLES
    failures,   \* consecutive failures, told apart up to the threshold
    openFor     \* seconds until openUntil, 0 when it has passed or is not set

breaker == <<failures, openFor>>

BreakerTypeOK ==
    /\ failures \in [Channel -> 0..Threshold]
    /\ openFor \in [Channel -> 0..Cooldown]

BreakerInit ==
    /\ failures = [ch \in Channel |-> 0]
    /\ openFor = [ch \in Channel |-> 0]

(* Whether a send may be attempted.  Asking changes nothing.                *)
Allow(ch) == openFor[ch] = 0

Succeed(ch) ==
    /\ failures' = [failures EXCEPT ![ch] = 0]
    /\ openFor' = [openFor EXCEPT ![ch] = 0]

Fail(ch) ==
    LET n == IF failures[ch] = Threshold THEN Threshold ELSE failures[ch] + 1 IN
    /\ failures' = [failures EXCEPT ![ch] = n]
    /\ openFor' = [openFor EXCEPT ![ch] = IF n = Threshold THEN Cooldown ELSE @]

Down(n) == IF n > 0 THEN n - 1 ELSE 0

BreakerElapse ==
    /\ openFor' = [ch \in Channel |-> Down(openFor[ch])]
    /\ UNCHANGED failures

BreakerRestart ==
    /\ failures' = [ch \in Channel |-> 0]
    /\ openFor' = [ch \in Channel |-> 0]
=============================================================================
