------------------------------ MODULE MCIngest ------------------------------
(* Finite instances of Ingest for TLC.                                      *)
EXTENDS Ingest

Same == DefaultVolatileLabels
            \cup {"service", "env", "tier", "firing", "resolved", "silenced", ""}

MCLower == [n \in Same \cup {"Pod", "RESOLVED"} |->
                CASE n = "Pod" -> "pod" [] n = "RESOLVED" -> "resolved" [] OTHER -> n]

-----------------------------------------------------------------------------
(* The monitoring of prod speaks for the services a and b.  Its common      *)
(* labels name a service of their own, which those of an alert override.    *)
Prod == [env |-> "prod", service |-> "all"]

Own(service, pod) == [service |-> service, Pod |-> pod]
Full(service, pod) == [env |-> "prod", service |-> service, Pod |-> pod]

Raw(service, pod, status) == [labels |-> Own(service, pod), status |-> status]
Mean(service, pod, status) == [labels |-> Full(service, pod), status |-> status]

Prometheus(status, raws, means) ==
    [format |-> "alertmanager", status |-> status, labels |-> Prod,
     alerts |-> raws, means |-> means]

AllFire == Prometheus("firing",
    <<Raw("a", "1", ""), Raw("b", "1", ""), Raw("a", "2", "firing")>>,
    <<Mean("a", "1", "firing"), Mean("b", "1", "firing"), Mean("a", "2", "firing")>>)

(* Both pods have been replaced when the alerts resolve.                    *)
AllResolve == Prometheus("resolved",
    <<Raw("a", "3", ""), Raw("b", "3", "RESOLVED")>>,
    <<Mean("a", "3", "resolved"), Mean("b", "3", "resolved")>>)

OneResolves == Prometheus("firing",
    <<Raw("a", "2", "RESOLVED"), Raw("b", "2", "")>>,
    <<Mean("a", "2", "resolved"), Mean("b", "2", "firing")>>)

-----------------------------------------------------------------------------
(* A shell script speaks for the service c of prod.                         *)
Bare(pod, status, status2) ==
    [format |-> "generic", status |-> status, labels |-> Full("c", pod),
     alerts |-> <<>>, means |-> <<Mean("c", pod, status2)>>]

ScriptFires == Bare("1", "", "firing")
ScriptResolves == Bare("2", "RESOLVED", "resolved")

(* Its second alert is no good.                                             *)
ScriptErrs ==
    [format |-> "generic", status |-> "", labels |-> [n \in {} |-> ""],
     alerts |-> <<[labels |-> Full("c", "1"), status |-> "resolved"],
                  [labels |-> Full("c", "1"), status |-> "silenced"]>>,
     means |-> <<Mean("c", "1", "resolved"), Mean("c", "1", "silenced")>>]

MCSender == {"prometheus", "script"}
MCTwoEach == [s \in MCSender |-> 2]
MCPayloads == [s \in MCSender |->
    IF s = "prometheus" THEN {AllFire, AllResolve, OneResolves}
    ELSE {ScriptFires, ScriptResolves, ScriptErrs}]

-----------------------------------------------------------------------------
(* What is in prod belongs to one team, the service b to another.           *)
ProdRoute(by) ==
    [name |-> "", match |-> [env |-> "prod"], team |-> "t", policy |-> "p",
     groupBy |-> by, volatile |-> {}]

ServiceRoute(name) ==
    [name |-> name, match |-> [service |-> "b"], team |-> "u", policy |-> "q",
     groupBy |-> <<"service">>, volatile |-> {"pod"}]

First == <<ServiceRoute("db"), ProdRoute(<<"env", "tier">>)>>
Reordered == <<ProdRoute(<<"tier", "env">>), ServiceRoute("db")>>
Removed == <<ServiceRoute("db")>>

MCConfigs == {First, Reordered, Removed}
MCFirst == First

(* The default set of volatile labels gives way to one without the pod.     *)
Edited == <<ServiceRoute("db"),
            [ProdRoute(<<"env", "tier">>) EXCEPT !.volatile = {"trace_id"}]>>
MCEdited == {First, Edited}

(* Two routes of one name, grouping alike.                                  *)
Twins == <<[ServiceRoute("db") EXCEPT !.groupBy = <<"env">>],
           [ProdRoute(<<"env">>) EXCEPT !.name = "db"]>>
MCTwins == {Twins}
=============================================================================
