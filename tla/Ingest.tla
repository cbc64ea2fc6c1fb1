------------------------------ MODULE Ingest ------------------------------
(***************************************************************************)
(* Ingestion: internal/ingest over internal/group, from a payload to the   *)
(* rows of the alerts and incidents tables.  Requests run concurrently.    *)
(* Each parses its payload, routes alert by alert with the table in force  *)
(* at that moment, and stores what was routed in chunks, a transaction for *)
(* each.  The configuration may be reloaded at any point.                  *)
(*                                                                         *)
(* A sender sends a payload when the last one has been answered.  What it  *)
(* means by a payload is part of the payload: MEANS holds the labels and   *)
(* status of each alert, stated by the instance and not by Parse.  No two  *)
(* senders speak of the same alert.                                        *)
(*                                                                         *)
(* A failed transaction stands for a shutdown or a sender that gives up as *)
(* well: both cancel it, and the sender hears no 200.  An incident that is *)
(* open may expire at any moment: the rungs before that, the timers and the*)
(* instant at which grace is over are in Paging.                           *)
(***************************************************************************)
EXTENDS Routing

CONSTANTS
    Sender,
    Payloads,       \* what each sender may send
    Configs,        \* the lists of routes a configuration file may hold
    FirstConfig,
    TxChunk,        \* alerts to a transaction
    MaxRequests,    \* bound: payloads of each sender
    MaxUpsets       \* bound: failed transactions, reloads and incidents that
                    \* expire or are resolved by a person, together

ASSUME IngestAssumption ==
    /\ FirstConfig \in Configs /\ MaxAlerts \in Nat
    /\ TxChunk \in Nat \ {0} /\ MaxUpsets \in Nat /\ MaxRequests \in [Sender -> Nat]
    /\ \A s \in Sender : \A p \in Payloads[s] :
        Acceptable(p) => Len(p.means) = Len(Parse(p))

IsList(x) == x \in Seq(Range(x))

(* What is decoded: a payload has a list of alerts, a file a list of routes.*)
ASSUME DecoderAssumption ==
    /\ \A s \in Sender : \A p \in Payloads[s] : IsList(p.alerts)
    /\ \A cfg \in Configs :
        /\ IsList(cfg)
        /\ \A c \in Range(cfg) :
            DOMAIN c = {"name", "match", "team", "policy", "groupBy", "volatile"}

VARIABLES
    table,      \* the route table
    request,    \* of each sender, the last
    alerts,     \* rows, in the order of their ids
    incidents,  \* rows, in the order of their ids
    heard,      \* history: what the last payload answered with 200 said
    upsets      \* how many so far

rows == <<alerts, incidents>>
vars == <<table, request, rows, heard, upsets>>

Stage == {"routing", "storing", "accepted", "rejected", "failed"}

(* What the labels say to a reader of the route's configuration: the group  *)
(* they belong to and the alert they name in it.                            *)
Group(c, labels) ==
    [route |-> IF c.name # "" THEN [given |-> c.name]
               ELSE [match |-> c.match, team |-> c.team, policy |-> c.policy],
     values |-> [k \in Range(c.groupBy) |-> Value(labels, k)]]

Named(c, labels) ==
    Restrict(labels, {k \in DOMAIN labels :
                        ~\E v \in c.volatile : Lower[v] = Lower[k]})

About(c, labels) == [group |-> Group(c, labels), alert |-> Named(c, labels)]

NoRequest == [n |-> 0, stage |-> "accepted", payload |-> <<>>, read |-> 0,
              pending |-> <<>>, unrouted |-> 0, accepted |-> 0, created |-> 0,
              deduped |-> 0]

Init ==
    /\ table = Table(FirstConfig)
    /\ request = [s \in Sender |-> NoRequest]
    /\ alerts = <<>> /\ incidents = <<>>
    /\ heard = [s \in Sender |-> {}]
    /\ upsets = 0

Upset == upsets < MaxUpsets /\ upsets' = upsets + 1

-----------------------------------------------------------------------------
(* A request.                                                               *)

Answered(s) == request[s].stage \in {"accepted", "rejected", "failed"}

Send(s, p) ==
    /\ Answered(s)
    /\ request[s].n < MaxRequests[s]
    /\ request' = [request EXCEPT ![s] =
                    [NoRequest EXCEPT !.n = request[s].n + 1, !.payload = p,
                        !.stage = IF Acceptable(p) THEN "routing" ELSE "rejected"]]
    /\ UNCHANGED <<table, rows, heard, upsets>>

(* The next alert of the payload meets the table.                           *)
Route(s) ==
    LET r == request[s]
        i == r.read + 1
    IN  /\ r.stage = "routing"
        /\ IF i > Len(Parse(r.payload))
           THEN request' = [request EXCEPT ![s].stage = "storing"]
           ELSE LET a == Parse(r.payload)[i] IN
                IF Matching(table, a.labels) = {}
                THEN request' = [request EXCEPT ![s].read = i,
                                                ![s].unrouted = @ + 1]
                ELSE LET rt == Match(table, a.labels) IN
                     request' = [request EXCEPT ![s].read = i,
                        ![s].pending = Append(@,
                            [key |-> GroupKey(rt, a.labels),
                             fingerprint |-> Fingerprint(rt, a.labels),
                             status |-> a.status,
                             policy |-> rt.config.policy,
                             about |-> About(rt.config, r.payload.means[i].labels),
                             means |-> r.payload.means[i].status,
                             from |-> <<s, r.n>>])]
        /\ UNCHANGED <<table, rows, heard, upsets>>

-----------------------------------------------------------------------------
(* One alert inside a transaction.  db holds the tables as the transaction  *)
(* sees them, and the counts of its chunk.                                  *)

AlertRow(a, id) ==
    [incident |-> id, fingerprint |-> a.fingerprint, status |-> a.status,
     about |-> a.about, policy |-> a.policy, from |-> a.from]

OpenOf(db, key) ==
    {id \in DOMAIN db.incidents : db.incidents[id].open /\ db.incidents[id].key = key}

OpenIncident(db, a) ==
    [db EXCEPT
        !.incidents = Append(@,
            [key |-> a.key, policy |-> a.policy, open |-> TRUE, alertCount |-> 1, dedupCount |-> 0,
             closing |-> FALSE, byHand |-> FALSE, expired |-> FALSE,
             group |-> a.about.group,
             from |-> a.from]),
        !.alerts = Append(@, AlertRow(a, Len(db.incidents) + 1)),
        !.created = @ + 1]

HasFingerprint(rowsOf, id, fingerprint) ==
    \E n \in DOMAIN rowsOf :
        rowsOf[n].incident = id /\ rowsOf[n].fingerprint = fingerprint

(* The last row of each fingerprint of the incident is a resolution.        *)
AllAlertsResolved(rowsOf, id) ==
    \A n \in DOMAIN rowsOf :
        (/\ rowsOf[n].incident = id
         /\ \A m \in DOMAIN rowsOf :
                (/\ rowsOf[m].incident = id
                 /\ rowsOf[m].fingerprint = rowsOf[n].fingerprint) => m <= n)
            => rowsOf[n].status = "resolved"

(* Mutant: the fingerprint is looked for among the rows with the new one.   *)
AttachThenLook(db, a, id) ==
    LET stored == Append(db.alerts, AlertRow(a, id))
        seen == IF HasFingerprint(stored, id, a.fingerprint) THEN 1 ELSE 0
        joined == [db.incidents[id] EXCEPT
                    !.alertCount = @ + 1,
                    !.dedupCount = @ + seen,
                    !.closing = IF a.status = "firing" THEN FALSE
                                ELSE @ \/ AllAlertsResolved(stored, id)]
    IN  [db EXCEPT !.alerts = stored,
                   !.incidents = [@ EXCEPT ![id] = joined],
                   !.deduped = @ + seen]

(* closing stands for a pending resolve_timeout timer: firing cancels it.   *)
Attach(db, a, id) ==
    LET stored == Append(db.alerts, AlertRow(a, id))
        seen == IF HasFingerprint(db.alerts, id, a.fingerprint) THEN 1 ELSE 0
        joined == [db.incidents[id] EXCEPT
                    !.alertCount = @ + 1,
                    !.dedupCount = @ + seen,
                    !.closing = IF a.status = "firing" THEN FALSE
                                ELSE @ \/ AllAlertsResolved(stored, id)]
    IN  [db EXCEPT !.alerts = stored,
                   !.incidents = [@ EXCEPT ![id] = joined],
                   !.deduped = @ + seen]

ApplyAlert(db, a) ==
    IF OpenOf(db, a.key) # {}
    THEN Attach(db, a, CHOOSE id \in OpenOf(db, a.key) : TRUE)
    ELSE IF a.status = "resolved"
    THEN [db EXCEPT !.alerts = Append(@, AlertRow(a, 0))]
    ELSE OpenIncident(db, a)

-----------------------------------------------------------------------------
Smaller(m, n) == IF m < n THEN m ELSE n

(* The next chunk of what was routed.                                       *)
Chunk(r) == SubSeq(r.pending, r.accepted + 1, Smaller(r.accepted + TxChunk, Len(r.pending)))

(* Its alerts one after the other.                                          *)
Applied(chunk) ==
    LET db[n \in 0..Len(chunk)] ==
            IF n = 0 THEN [alerts |-> alerts, incidents |-> incidents,
                           created |-> 0, deduped |-> 0]
            ELSE ApplyAlert(db[n - 1], chunk[n])
    IN  db[Len(chunk)]

(* The transaction of a chunk commits.                                      *)
StoreChunk(s) ==
    LET r == request[s] IN
    /\ r.stage = "storing" /\ r.accepted < Len(r.pending)
    /\ LET db == Applied(Chunk(r)) IN
        /\ alerts' = db.alerts /\ incidents' = db.incidents
        /\ request' = [request EXCEPT
                        ![s].accepted = @ + Len(Chunk(r)),
                        ![s].created = @ + db.created,
                        ![s].deduped = @ + db.deduped]
    /\ UNCHANGED <<table, heard, upsets>>

Fails(s) ==
    /\ request[s].stage = "storing" /\ request[s].accepted < Len(request[s].pending)
    /\ Upset
    /\ request' = [request EXCEPT ![s].stage = "failed"]
    /\ heard' = [heard EXCEPT ![s] = {}]

(* Mutant: each alert of the chunk is committed by itself.                  *)
ChunkFailsHalfway(s) ==
    /\ Fails(s)
    /\ LET db == Applied(SubSeq(Chunk(request[s]), 1, 1)) IN
        alerts' = db.alerts /\ incidents' = db.incidents
    /\ UNCHANGED table

(* It fails, and the request with it: 500.  Earlier chunks stay.            *)
ChunkFails(s) ==
    /\ Fails(s)
    /\ UNCHANGED <<table, rows>>

(* What a sender has said when all of its payload is in: of each alert, the *)
(* last word.                                                               *)
Said(pending) ==
    {[about |-> pending[i].about, status |-> pending[i].means] :
        i \in {n \in DOMAIN pending : \A m \in DOMAIN pending :
                (m > n) => pending[m].about # pending[n].about}}

(* 200, with the counts.                                                    *)
Accept(s) ==
    LET r == request[s] IN
    /\ r.stage = "storing" /\ r.accepted = Len(r.pending)
    /\ request' = [request EXCEPT ![s].stage = "accepted"]
    /\ heard' = [heard EXCEPT ![s] = Said(r.pending)]
    /\ UNCHANGED <<table, rows, upsets>>

-----------------------------------------------------------------------------
(* The grace window of an incident is over.                                 *)
Close(id) ==
    /\ incidents[id].open /\ incidents[id].closing
    /\ incidents' = [incidents EXCEPT
                        ![id].closing = FALSE,
                        ![id].open = ~AllAlertsResolved(alerts, id)]
    /\ UNCHANGED <<table, request, alerts, heard, upsets>>

(* A person resolves it, whatever its alerts do.                            *)
ResolveByHand(id) ==
    /\ incidents[id].open
    /\ Upset
    /\ incidents' = [incidents EXCEPT ![id].open = FALSE, ![id].closing = FALSE,
                                      ![id].byHand = TRUE]
    /\ UNCHANGED <<table, request, alerts, heard>>

(* Nobody answered the last rung: whatever its alerts do, what fires next   *)
(* for its group opens another.  Its timers stay.                           *)
Expire(id) ==
    /\ incidents[id].open
    /\ Upset
    /\ incidents' = [incidents EXCEPT ![id].open = FALSE, ![id].expired = TRUE]
    /\ UNCHANGED <<table, request, alerts, heard>>

Reload(cfg) ==
    /\ Upset
    /\ table' = Table(cfg)
    /\ UNCHANGED <<request, rows, heard>>

Next ==
    \/ \E s \in Sender :
        \/ \E p \in Payloads[s] : Send(s, p)
        \/ Route(s) \/ StoreChunk(s) \/ ChunkFails(s) \/ Accept(s)
    \/ \E id \in DOMAIN incidents : Close(id) \/ ResolveByHand(id) \/ Expire(id)
    \/ \E cfg \in Configs : Reload(cfg)

Spec == Init /\ [][Next]_vars

-----------------------------------------------------------------------------
Rows(id) == {n \in DOMAIN alerts : alerts[n].incident = id}

TypeOK ==
    /\ table \in {Table(cfg) : cfg \in Configs}
    /\ \A s \in Sender :
        LET r == request[s] IN
        /\ r.n \in 0..MaxRequests[s] /\ r.stage \in Stage
        /\ r.n > 0 => r.payload \in Payloads[s]
        /\ r.read + r.unrouted <= 2 * MaxAlerts
        /\ r.accepted \in 0..Len(r.pending)
    /\ \A n \in DOMAIN alerts :
        /\ alerts[n].incident \in 0..Len(incidents)
        /\ alerts[n].status \in AlertStatus
    /\ \A id \in DOMAIN incidents :
        /\ incidents[id].open \in BOOLEAN /\ incidents[id].closing \in BOOLEAN
        /\ incidents[id].alertCount \in Nat \ {0} /\ incidents[id].dedupCount \in Nat
    /\ upsets \in 0..MaxUpsets

(* An incident holds the alerts of one group and no group has two open      *)
(* incidents, whatever the order of routes and of group_by labels, and      *)
(* however reloads fall between routing an alert and storing it.            *)
GroupsKeptApart ==
    /\ \A n \in DOMAIN alerts :
        alerts[n].incident # 0
            => alerts[n].about.group = incidents[alerts[n].incident].group
    /\ \A i, j \in DOMAIN incidents :
        (incidents[i].open /\ incidents[j].open
            /\ incidents[i].group = incidents[j].group) => i = j

LastOf(id, alert) ==
    CHOOSE n \in Rows(id) :
        /\ alerts[n].about.alert = alert
        /\ \A m \in Rows(id) : alerts[m].about.alert = alert => m <= n

Fires(id, alert) ==
    /\ \E n \in Rows(id) : alerts[n].about.alert = alert
    /\ alerts[LastOf(id, alert)].status = "firing"

Quiet(id) == \A n \in Rows(id) : ~Fires(id, alerts[n].about.alert)

(* A sender that got its 200 has been heard, whatever it was told before and*)
(* whatever pod the alert came from: what it said fires is held by an       *)
(* incident that is open, that a person closed or that expired unanswered,  *)
(* and what it said has resolved keeps no incident of its group open.  If   *)
(* that was the last, the incident is closing.                              *)
SenderIsHeard ==
    \A s \in Sender :
        Answered(s) => \A h \in heard[s] :
            LET held == {id \in DOMAIN incidents : incidents[id].group = h.about.group} IN
            IF h.status = "firing"
            THEN \E id \in held : /\ Fires(id, h.about.alert)
                                  /\ \/ incidents[id].open
                                     \/ incidents[id].byHand
                                     \/ incidents[id].expired
            ELSE \A id \in held :
                    incidents[id].open => /\ ~Fires(id, h.about.alert)
                                          /\ Quiet(id) => incidents[id].closing

(* The counts of an incident are those of the rows it has, past chunks that *)
(* failed and payloads that came again, and a request counts what it has    *)
(* stored: whole chunks, and nothing of its payload unaccounted for.        *)
CountsAreTrue ==
    /\ \A id \in DOMAIN incidents :
        /\ incidents[id].alertCount = Cardinality(Rows(id))
        /\ incidents[id].dedupCount = Cardinality(Rows(id))
              - Cardinality({alerts[n].about.alert : n \in Rows(id)})
    /\ \A s \in Sender :
        LET r == request[s]
            mine == {n \in DOMAIN alerts : alerts[n].from = <<s, r.n>>}
        IN  /\ r.accepted = Cardinality(mine)
            /\ r.created = Cardinality({id \in DOMAIN incidents :
                                incidents[id].from = <<s, r.n>>})
            /\ r.stage \in {"storing", "accepted", "failed"} /\ r.n > 0
                => r.unrouted + Len(r.pending) = Len(r.payload.means)
            /\ r.stage = "accepted" => r.accepted = Len(r.pending)

-----------------------------------------------------------------------------
(* What does not hold of the code.                                          *)

(* route.go: "Two routes never share an incident even for identical labels".*)
(* Nothing refuses two routes of one name.                                  *)
RoutesKeptApart ==
    \A n \in DOMAIN alerts :
        alerts[n].incident # 0
            => alerts[n].policy = incidents[alerts[n].incident].policy

(* When all that ever fired has resolved, every open incident is closing.   *)
(* An edit of a route while its alerts fire strands the incident: what      *)
(* resolves has another fingerprint, or another group.                      *)
EditsStrandNothing ==
    (\A s \in Sender :
        /\ request[s].n > 0 /\ request[s].stage = "accepted"
        /\ \A i \in DOMAIN request[s].payload.means :
            request[s].payload.means[i].status = "resolved")
    => \A id \in DOMAIN incidents : incidents[id].open => incidents[id].closing
=============================================================================
