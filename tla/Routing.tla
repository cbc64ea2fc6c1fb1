------------------------------ MODULE Routing ------------------------------
(***************************************************************************)
(* What an alert is, where it goes and what it is the same as:             *)
(* internal/alert and internal/route.  A payload becomes alerts, the first *)
(* route that matches an alert takes it, the group key says which incident *)
(* it belongs to and the fingerprint which alert of that incident it is.   *)
(*                                                                         *)
(* Labels are functions from names to values.  A hash of the code is       *)
(* modelled by what it is taken over.  That is faithful as long as no name *)
(* of a label holds a '=' and nothing holds a NUL, which their             *)
(* serializations put in between: Fingerprint writes {"a=b": "c"} and      *)
(* {"a": "b=c"} alike (alert.go:54).                                       *)
(***************************************************************************)
EXTENDS Integers, Sequences, FiniteSets, TLC, Functions

CONSTANTS
    Lower,      \* names and statuses to their lower case
    MaxAlerts   \* the most alerts a payload may hold

(* A missing label has the empty value.                                     *)
Value(labels, k) == IF k \in DOMAIN labels THEN labels[k] ELSE ""

AlertStatus == {"firing", "resolved"}

-----------------------------------------------------------------------------
(* Normalization.  A payload has a format, a status, labels that are common *)
(* to its alerts (or those of the one alert of a bare generic payload) and  *)
(* its alerts.                                                              *)

(* Mutant: what is common overrides what is an alert's own.                 *)
MergeCommonWins(common, own) == common @@ own

Merge(common, own) == own @@ common

Alertmanager(p) ==
    [i \in DOMAIN p.alerts |->
        [labels |-> Merge(p.labels, p.alerts[i].labels),
         status |-> Lower[IF p.alerts[i].status = "" THEN p.status
                          ELSE p.alerts[i].status]]]

Raws(p) ==
    IF p.alerts = <<>> THEN <<[labels |-> p.labels, status |-> p.status]>>
    ELSE p.alerts

Generic(p) ==
    [i \in DOMAIN Raws(p) |->
        [labels |-> Raws(p)[i].labels,
         status |-> IF Raws(p)[i].status = "" THEN "firing"
                    ELSE Lower[Raws(p)[i].status]]]

Parse(p) == IF p.format = "generic" THEN Generic(p) ELSE Alertmanager(p)

(* Mutant: the status of an alert is taken as it comes.                     *)
AnyStatus(p) ==
    /\ Len(Parse(p)) \in 1..MaxAlerts
    /\ p.format = "generic" => \A i \in DOMAIN Parse(p) : DOMAIN Parse(p)[i].labels # {}

(* One bad alert rejects the payload it came in.                            *)
Acceptable(p) ==
    /\ Len(Parse(p)) \in 1..MaxAlerts
    /\ \A i \in DOMAIN Parse(p) :
        /\ Parse(p)[i].status \in AlertStatus
        /\ p.format = "generic" => DOMAIN Parse(p)[i].labels # {}

-----------------------------------------------------------------------------
(* A configured route has a name or "", its match criteria, team, policy,   *)
(* group_by as it is listed and its volatile labels.                        *)

(* Mutant: a route without a name is called by its place.                   *)
RouteNameByPlace(c, i) ==
    IF c.name # "" THEN [given |-> c.name] ELSE [place |-> i]

RouteName(c, i) ==
    IF c.name # "" THEN [given |-> c.name]
    ELSE [match |-> c.match, team |-> c.team, policy |-> c.policy]

DefaultVolatileLabels ==
    {"timestamp", "value", "instance_id", "pod", "container_id", "trace_id"}

(* What config.Load makes of a route: an empty list cannot be configured.   *)
WithDefaults(c) ==
    IF c.volatile = {} THEN [c EXCEPT !.volatile = DefaultVolatileLabels] ELSE c

Table(cfg) ==
    [i \in DOMAIN cfg |-> [name |-> RouteName(cfg[i], i), config |-> WithDefaults(cfg[i])]]

Matches(criteria, labels) ==
    \A k \in DOMAIN criteria : Value(labels, k) = criteria[k]

Matching(table, labels) ==
    {i \in DOMAIN table : Matches(table[i].config.match, labels)}

(* The first route that matches, of a table in which one does.              *)
Match(table, labels) ==
    table[CHOOSE i \in Matching(table, labels) :
            \A j \in Matching(table, labels) : i <= j]

(* Mutant: volatile labels are excluded only as they are spelled.           *)
FingerprintAsSpelled(rt, labels) ==
    Restrict(labels, DOMAIN labels \ rt.config.volatile)

Fingerprint(rt, labels) ==
    Restrict(labels, {k \in DOMAIN labels :
        Lower[k] \notin {Lower[v] : v \in rt.config.volatile}})

(* Mutant: in the order in which the labels are listed.                     *)
GroupKeyAsListed(rt, labels) ==
    <<rt.name, [i \in DOMAIN rt.config.groupBy |->
                    <<rt.config.groupBy[i], Value(labels, rt.config.groupBy[i])>>]>>

(* The name and the sorted list of group_by labels with their values: how   *)
(* often each is listed, and its value.                                     *)
GroupKey(rt, labels) ==
    LET by == rt.config.groupBy IN
    <<rt.name, [k \in Range(by) |->
                    <<Cardinality({i \in DOMAIN by : by[i] = k}), Value(labels, k)>>]>>
=============================================================================
