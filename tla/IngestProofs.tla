---------------------------- MODULE IngestProofs ----------------------------
(***************************************************************************)
(* Proofs about Ingest for any senders, payloads, configurations, chunk    *)
(* sizes and numbers of requests and upsets.                               *)
(***************************************************************************)
EXTENDS Ingest, FiniteSetTheorems, SequenceTheorems, WellFoundedInduction, TLAPS

-----------------------------------------------------------------------------
(* Lists.                                                                  *)

LEMMA ListFacts ==
    ASSUME NEW list, IsList(list)
    PROVE  /\ Len(list) \in Nat /\ DOMAIN list = 1..Len(list)
           /\ IsFiniteSet(DOMAIN list)
<1>1. Len(list) \in Nat /\ DOMAIN list = 1..Len(list)
  BY LenProperties DEF IsList
<1> QED
  BY <1>1, FS_Interval

LEMMA EmptyList == IsList(<<>>) /\ Len(<<>>) = 0 /\ DOMAIN <<>> = {}
<1>1. <<>> \in Seq(Range(<<>>)) /\ Len(<<>>) = 0
  BY EmptySeq
<1> QED
  BY <1>1 DEF IsList

(* One element more.                                                       *)
LEMMA AppendList ==
    ASSUME NEW list, IsList(list), NEW e
    PROVE  /\ IsList(Append(list, e)) /\ Len(Append(list, e)) = Len(list) + 1
           /\ DOMAIN Append(list, e) = DOMAIN list \cup {Len(list) + 1}
           /\ Len(list) + 1 \notin DOMAIN list
           /\ \A i \in DOMAIN list : Append(list, e)[i] = list[i]
           /\ Append(list, e)[Len(list) + 1] = e
<1> DEFINE S == Range(list) \cup {e}
           longer == Append(list, e)
<1>1. Len(list) \in Nat /\ DOMAIN list = 1..Len(list)
  BY ListFacts
<1>2. list \in Seq(S)
  <2>1. Seq(Range(list)) \subseteq Seq(S)
    BY SeqMonotonic
  <2> QED
    BY <2>1 DEF IsList
<1>3. e \in S
  OBVIOUS
<1> HIDE DEF S, longer
<1>4. /\ longer \in Seq(S) /\ Len(longer) = Len(list) + 1
      /\ \A i \in 1..Len(list) : longer[i] = list[i]
      /\ longer[Len(list) + 1] = e
  BY <1>2, <1>3, AppendProperties DEF longer
<1>5. IsList(longer)
  BY <1>4, SeqOfRange DEF IsList
<1>6. DOMAIN longer = 1..(Len(list) + 1)
  BY <1>4, LenProperties
<1>7. 1..(Len(list) + 1) = 1..Len(list) \cup {Len(list) + 1}
  BY <1>1
<1> QED
  BY <1>1, <1>4, <1>5, <1>6, <1>7 DEF longer

(* One element replaced.                                                   *)
LEMMA ReplaceInList ==
    ASSUME NEW list, IsList(list), NEW i \in DOMAIN list, NEW e
    PROVE  /\ IsList([list EXCEPT ![i] = e])
           /\ Len([list EXCEPT ![i] = e]) = Len(list)
<1> DEFINE S == Range(list) \cup {e}
           other == [list EXCEPT ![i] = e]
<1>1. i \in 1..Len(list)
  BY ListFacts
<1>2. list \in Seq(S)
  <2>1. Seq(Range(list)) \subseteq Seq(S)
    BY SeqMonotonic
  <2> QED
    BY <2>1 DEF IsList
<1>3. e \in S
  OBVIOUS
<1> HIDE DEF S
<1>4. other \in Seq(S) /\ Len(other) = Len(list)
  BY <1>1, <1>2, <1>3, ExceptSeq
<1> HIDE DEF other
<1>5. IsList(other)
  BY <1>4, SeqOfRange DEF IsList
<1> QED
  BY <1>4, <1>5 DEF other

(* A piece of a list.                                                      *)
LEMMA PieceOfList ==
    ASSUME NEW list, IsList(list), NEW m \in Nat, NEW n \in Nat,
           m < n, n <= Len(list)
    PROVE  /\ IsList(SubSeq(list, m + 1, n)) /\ Len(SubSeq(list, m + 1, n)) = n - m
           /\ DOMAIN SubSeq(list, m + 1, n) = 1..(n - m)
           /\ \A i \in 1..(n - m) :
                  m + i \in DOMAIN list /\ SubSeq(list, m + 1, n)[i] = list[m + i]
<1> DEFINE piece == SubSeq(list, m + 1, n)
           S == Range(list)
<1>1. Len(list) \in Nat /\ DOMAIN list = 1..Len(list)
  BY ListFacts
<1>2. \A i \in (m + 1)..n : list[i] \in S
  <2>1. \A i \in (m + 1)..n : i \in DOMAIN list
    BY <1>1
  <2> QED
    BY <2>1 DEF Range
<1> HIDE DEF S
<1>3. m + 1 \in Int /\ n \in Int /\ m + 1 <= n
  OBVIOUS
<1>4. /\ piece \in Seq(S)
      /\ Len(piece) = IF m + 1 <= n THEN n - (m + 1) + 1 ELSE 0
      /\ \A i \in 1..(n - (m + 1) + 1) : piece[i] = list[(m + 1) + i - 1]
  BY <1>2, <1>3, SubSeqProperties
<1> HIDE DEF piece
<1>5. Len(piece) = n - m
  BY <1>3, <1>4
<1>6. DOMAIN piece = 1..(n - m)
  BY <1>4, <1>5, LenProperties
<1>7. ASSUME NEW i \in 1..(n - m)
      PROVE  m + i \in DOMAIN list /\ piece[i] = list[m + i]
  <2>1. /\ i \in 1..(n - (m + 1) + 1) /\ (m + 1) + i - 1 = m + i
        /\ m + i \in 1..Len(list)
    BY <1>1
  <2> QED
    BY <1>1, <1>4, <2>1
<1>8. IsList(piece)
  BY <1>4, SeqOfRange DEF IsList
<1> QED
  BY <1>5, <1>6, <1>7, <1>8 DEF piece

(* The least natural number with a property, where induction over an       *)
(* operator is out of the provers' reach.                                  *)
LEMMA SmallestOf ==
    ASSUME NEW S, S \subseteq Nat, S # {}
    PROVE  \E n \in S : \A m \in S : n <= m
<1>1. PICK n \in S : \A m \in S : ~(<<m, n>> \in OpToRel(<, Nat))
  BY NatLessThanWellFounded, WFMin
<1>2. \A m \in S : ~(m < n)
  BY <1>1 DEF OpToRel
<1> QED
  BY <1>2

-----------------------------------------------------------------------------
(* One alert.                                                              *)

IncidentFields ==
    {"key", "policy", "open", "alertCount", "dedupCount", "closing", "byHand", "expired",
     "group", "from"}

(* The tables, as far as their types go.                                   *)
TablesTyped(rowsOf, incs) ==
    /\ IsList(rowsOf) /\ IsList(incs)
    /\ \A n \in DOMAIN rowsOf :
        rowsOf[n].incident \in 0..Len(incs) /\ rowsOf[n].status \in AlertStatus
    /\ \A id \in DOMAIN incs :
        /\ DOMAIN incs[id] = IncidentFields
        /\ incs[id].open \in BOOLEAN /\ incs[id].closing \in BOOLEAN
        /\ incs[id].alertCount \in Nat \ {0} /\ incs[id].dedupCount \in Nat

DbFields == {"alerts", "incidents", "created", "deduped"}

Seen(db, id, fingerprint) ==
    IF HasFingerprint(db.alerts, id, fingerprint) THEN 1 ELSE 0

(* What ApplyAlert does: a row in any case, of no incident, of the open one *)
(* of its group, or of a new one.                                          *)
Dropped(db, a, new) ==
    /\ OpenOf(db, a.key) = {} /\ a.status = "resolved"
    /\ new.alerts = Append(db.alerts, AlertRow(a, 0))
    /\ new.incidents = db.incidents
    /\ new.created = db.created /\ new.deduped = db.deduped

Attached(db, a, new, id) ==
    /\ id \in OpenOf(db, a.key)
    /\ new.alerts = Append(db.alerts, AlertRow(a, id))
    /\ \E closing \in BOOLEAN :
        /\ a.status = "resolved" /\ AllAlertsResolved(new.alerts, id) => closing
        /\ new.incidents =
            [db.incidents EXCEPT ![id] =
                [db.incidents[id] EXCEPT
                    !.alertCount = @ + 1,
                    !.dedupCount = @ + Seen(db, id, a.fingerprint),
                    !.closing = closing]]
    /\ new.created = db.created
    /\ new.deduped = db.deduped + Seen(db, id, a.fingerprint)

Opened(db, a, new) ==
    /\ OpenOf(db, a.key) = {} /\ a.status = "firing"
    /\ new.alerts = Append(db.alerts, AlertRow(a, Len(db.incidents) + 1))
    /\ new.incidents =
        Append(db.incidents,
               [key |-> a.key, policy |-> a.policy, open |-> TRUE, alertCount |-> 1,
                dedupCount |-> 0, closing |-> FALSE, byHand |-> FALSE,
                expired |-> FALSE,
                group |-> a.about.group, from |-> a.from])
    /\ new.created = db.created + 1 /\ new.deduped = db.deduped

LEMMA ApplyCases ==
    ASSUME NEW db, NEW a, DOMAIN db = DbFields,
           TablesTyped(db.alerts, db.incidents), a.status \in AlertStatus
    PROVE  /\ DOMAIN ApplyAlert(db, a) = DbFields
           /\ \/ Dropped(db, a, ApplyAlert(db, a))
              \/ \E id \in DOMAIN db.incidents : Attached(db, a, ApplyAlert(db, a), id)
              \/ Opened(db, a, ApplyAlert(db, a))
<1> DEFINE new == ApplyAlert(db, a)
<1>1. CASE OpenOf(db, a.key) # {}
  <2>1. PICK id \in OpenOf(db, a.key) : new = Attach(db, a, id)
    BY <1>1 DEF ApplyAlert
  <2>2. id \in DOMAIN db.incidents
    BY DEF OpenOf
  <2>3. DOMAIN db.incidents[id] = IncidentFields /\ db.incidents[id].closing \in BOOLEAN
    BY <2>2 DEF TablesTyped
  <2> DEFINE stored == Append(db.alerts, AlertRow(a, id))
             seen == Seen(db, id, a.fingerprint)
             closing == IF a.status = "firing" THEN FALSE
                        ELSE db.incidents[id].closing \/ AllAlertsResolved(stored, id)
             row == [db.incidents[id] EXCEPT
                        !.alertCount = @ + 1, !.dedupCount = @ + seen, !.closing = closing]
             incs == [db.incidents EXCEPT ![id] = row]
  <2>4. closing \in BOOLEAN
    BY <2>3 DEF AllAlertsResolved
  <2>5. new = [db EXCEPT !.alerts = stored, !.incidents = incs, !.deduped = @ + seen]
    <3> DEFINE joined == [db.incidents[id] EXCEPT
                            !.alertCount = @ + 1, !.dedupCount = @ + seen,
                            !.closing = IF a.status = "firing" THEN FALSE
                                        ELSE @ \/ AllAlertsResolved(stored, id)]
    <3>1. new = [db EXCEPT !.alerts = stored,
                           !.incidents = [@ EXCEPT ![id] = joined],
                           !.deduped = @ + seen]
      BY <2>1, Zenon DEF Attach, Seen
    <3>2. joined = row
      <4> HIDE DEF seen, stored
      <4> QED
        BY <2>3 DEF IncidentFields
    <3> HIDE DEF stored, seen, row, joined
    <3> QED
      BY <3>1, <3>2 DEF DbFields
  <2> HIDE DEF stored, seen, closing, incs
  <2>6. /\ DOMAIN new = DbFields /\ new.alerts = stored /\ new.incidents = incs
        /\ new.created = db.created /\ new.deduped = db.deduped + seen
    BY <2>5 DEF DbFields
  <2>7. a.status = "resolved" /\ AllAlertsResolved(new.alerts, id) => closing
    BY <2>6 DEF closing
  <2>8. Attached(db, a, new, id)
    BY <2>4, <2>6, <2>7 DEF Attached, stored, seen, incs
  <2> QED
    BY <2>2, <2>6, <2>8
<1>2. CASE OpenOf(db, a.key) = {} /\ a.status = "resolved"
  <2>1. new = [db EXCEPT !.alerts = Append(@, AlertRow(a, 0))]
    BY <1>2 DEF ApplyAlert
  <2> HIDE DEF new
  <2>2. DOMAIN new = DbFields /\ Dropped(db, a, new)
    BY <1>2, <2>1 DEF Dropped, DbFields
  <2> QED
    BY <2>2 DEF new
<1>3. CASE OpenOf(db, a.key) = {} /\ a.status # "resolved"
  <2>1. new = OpenIncident(db, a)
    BY <1>3 DEF ApplyAlert
  <2> HIDE DEF new
  <2>2. DOMAIN new = DbFields /\ Opened(db, a, new)
    BY <1>3, <2>1 DEF OpenIncident, Opened, DbFields, AlertStatus
  <2> QED
    BY <2>2 DEF new
<1> QED
  BY <1>1, <1>2, <1>3

(* The tables keep their types.                                            *)
LEMMA ApplyTyped ==
    ASSUME NEW db, NEW a, DOMAIN db = DbFields, db.created \in Nat, db.deduped \in Nat,
           TablesTyped(db.alerts, db.incidents), a.status \in AlertStatus
    PROVE  LET new == ApplyAlert(db, a) IN
           /\ DOMAIN new = DbFields /\ new.created \in Nat /\ new.deduped \in Nat
           /\ TablesTyped(new.alerts, new.incidents)
<1> DEFINE new == ApplyAlert(db, a)
<1>1. /\ DOMAIN new = DbFields
      /\ \/ Dropped(db, a, new)
         \/ \E id \in DOMAIN db.incidents : Attached(db, a, new, id)
         \/ Opened(db, a, new)
  BY ApplyCases
<1> HIDE DEF new
<1>2. /\ IsList(db.alerts) /\ IsList(db.incidents)
      /\ Len(db.incidents) \in Nat /\ DOMAIN db.incidents = 1..Len(db.incidents)
      /\ \A n \in DOMAIN db.alerts : /\ db.alerts[n].incident \in 0..Len(db.incidents)
                                     /\ db.alerts[n].status \in AlertStatus
  BY ListFacts DEF TablesTyped
<1> DEFINE old == Len(db.incidents)
<1>3. ASSUME NEW m \in Nat, old <= m, NEW id \in 0..m,
             NEW longer, longer = Append(db.alerts, AlertRow(a, id))
      PROVE  /\ IsList(longer)
             /\ \A n \in DOMAIN longer : /\ longer[n].incident \in 0..m
                                         /\ longer[n].status \in AlertStatus
  <2>1. AlertRow(a, id).incident = id /\ AlertRow(a, id).status = a.status
    BY DEF AlertRow
  <2>2. /\ IsList(longer)
        /\ DOMAIN longer = DOMAIN db.alerts \cup {Len(db.alerts) + 1}
        /\ \A n \in DOMAIN db.alerts : longer[n] = db.alerts[n]
        /\ longer[Len(db.alerts) + 1] = AlertRow(a, id)
    BY <1>2, <1>3, AppendList
  <2>3. \A n \in 0..old : n \in 0..m
    BY <1>2, <1>3
  <2> QED
    BY <1>2, <1>3, <2>1, <2>2, <2>3
<1>4. /\ old \in Nat /\ old <= old /\ old + 1 \in Nat /\ old <= old + 1
      /\ 0 \in 0..old /\ old + 1 \in 0..(old + 1)
      /\ \A id \in DOMAIN db.incidents : id \in 0..old
  BY <1>2
<1>5. CASE Dropped(db, a, new)
  <2>1. new.alerts = Append(db.alerts, AlertRow(a, 0)) /\ new.incidents = db.incidents
    BY <1>5 DEF Dropped
  <2>2. /\ IsList(new.alerts)
        /\ \A n \in DOMAIN new.alerts : /\ new.alerts[n].incident \in 0..Len(db.incidents)
                                        /\ new.alerts[n].status \in AlertStatus
    <3> HIDE DEF old
    <3> QED
      BY <1>3, <1>4, <2>1 DEF old
  <2> QED
    BY <1>1, <1>5, <2>1, <2>2 DEF Dropped, TablesTyped, new
<1>6. ASSUME NEW id \in DOMAIN db.incidents, Attached(db, a, new, id)
      PROVE  /\ new.created \in Nat /\ new.deduped \in Nat
             /\ TablesTyped(new.alerts, new.incidents)
  <2> DEFINE seen == Seen(db, id, a.fingerprint)
             row == db.incidents[id]
  <2>1. seen \in Nat
    BY DEF Seen
  <2> HIDE DEF seen
  <2>2. PICK closing \in BOOLEAN :
          new.incidents = [db.incidents EXCEPT ![id] =
            [row EXCEPT !.alertCount = @ + 1, !.dedupCount = @ + seen, !.closing = closing]]
    BY <1>6 DEF Attached, seen
  <2>3. /\ DOMAIN row = IncidentFields /\ row.open \in BOOLEAN
        /\ row.alertCount \in Nat \ {0} /\ row.dedupCount \in Nat
    BY <1>6 DEF TablesTyped
  <2> DEFINE joined == [row EXCEPT !.alertCount = @ + 1, !.dedupCount = @ + seen,
                                   !.closing = closing]
  <2> HIDE DEF row
  <2>4. /\ DOMAIN joined = IncidentFields /\ joined.open \in BOOLEAN
        /\ joined.closing \in BOOLEAN
        /\ joined.alertCount \in Nat \ {0} /\ joined.dedupCount \in Nat
    BY <2>1, <2>3 DEF IncidentFields
  <2> HIDE DEF joined
  <2>5. new.incidents = [db.incidents EXCEPT ![id] = joined]
    BY <2>2 DEF joined
  <2>6. IsList(new.incidents) /\ Len(new.incidents) = Len(db.incidents)
    BY <1>2, <2>5, ReplaceInList
  <2>7. new.alerts = Append(db.alerts, AlertRow(a, id))
    BY <1>6 DEF Attached
  <2>8. /\ IsList(new.alerts)
        /\ \A n \in DOMAIN new.alerts : /\ new.alerts[n].incident \in 0..Len(db.incidents)
                                        /\ new.alerts[n].status \in AlertStatus
    <3> HIDE DEF old
    <3> QED
      BY <1>3, <1>4, <2>7 DEF old
  <2>9. \A k \in DOMAIN new.incidents :
            /\ DOMAIN new.incidents[k] = IncidentFields
            /\ new.incidents[k].open \in BOOLEAN /\ new.incidents[k].closing \in BOOLEAN
            /\ new.incidents[k].alertCount \in Nat \ {0}
            /\ new.incidents[k].dedupCount \in Nat
    BY <2>4, <2>5 DEF TablesTyped
  <2>10. new.created \in Nat /\ new.deduped \in Nat
    BY <1>6, <2>1 DEF Attached, seen
  <2> QED
    BY <2>6, <2>8, <2>9, <2>10 DEF TablesTyped
<1>7. CASE Opened(db, a, new)
  <2> DEFINE row == [key |-> a.key, policy |-> a.policy, open |-> TRUE, alertCount |-> 1,
                     dedupCount |-> 0, closing |-> FALSE, byHand |-> FALSE,
                     expired |-> FALSE,
                     group |-> a.about.group, from |-> a.from]
  <2>1. /\ new.alerts = Append(db.alerts, AlertRow(a, Len(db.incidents) + 1))
        /\ new.incidents = Append(db.incidents, row)
    BY <1>7 DEF Opened
  <2>2. /\ DOMAIN row = IncidentFields /\ row.open \in BOOLEAN /\ row.closing \in BOOLEAN
        /\ row.alertCount \in Nat \ {0} /\ row.dedupCount \in Nat
    BY DEF IncidentFields
  <2> HIDE DEF row
  <2>3. /\ IsList(new.incidents) /\ Len(new.incidents) = Len(db.incidents) + 1
        /\ DOMAIN new.incidents = DOMAIN db.incidents \cup {Len(db.incidents) + 1}
        /\ \A k \in DOMAIN db.incidents : new.incidents[k] = db.incidents[k]
        /\ new.incidents[Len(db.incidents) + 1] = row
    BY <1>2, <2>1, AppendList
  <2>4. /\ IsList(new.alerts)
        /\ \A n \in DOMAIN new.alerts :
                /\ new.alerts[n].incident \in 0..(Len(db.incidents) + 1)
                /\ new.alerts[n].status \in AlertStatus
    BY <1>3, <1>4, <2>1
  <2>5. \A k \in DOMAIN new.incidents :
            /\ DOMAIN new.incidents[k] = IncidentFields
            /\ new.incidents[k].open \in BOOLEAN /\ new.incidents[k].closing \in BOOLEAN
            /\ new.incidents[k].alertCount \in Nat \ {0}
            /\ new.incidents[k].dedupCount \in Nat
    BY <2>2, <2>3 DEF TablesTyped
  <2> QED
    <3>1. new.created = db.created + 1 /\ new.deduped = db.deduped
      BY <1>7 DEF Opened
    <3>2. TablesTyped(new.alerts, new.incidents)
      BY <2>3, <2>4, <2>5 DEF TablesTyped
    <3> QED
      BY <1>1, <3>1, <3>2 DEF new
<1> QED
  BY <1>1, <1>5, <1>6, <1>7 DEF new

-----------------------------------------------------------------------------
(* What the proofs take for granted of an instance, where its properties   *)
(* are about more than the code.                                           *)

(* Parse reads the labels the sender means.                                *)
ReadAsMeant ==
    \A s \in Sender : \A p \in Payloads[s] :
        Acceptable(p) => \A i \in DOMAIN Parse(p) :
                            p.means[i].labels = Parse(p)[i].labels

(* No route lists a label of group_by twice: validation does not look, and *)
(* an edit that drops the repetition would give the group another key.     *)
LabelsListedOnce ==
    \A cfg \in Configs : \A i \in DOMAIN cfg : IsInjective(cfg[i].groupBy)

-----------------------------------------------------------------------------
(* Group keys and groups.                                                  *)

Entries == UNION {Range(Table(cfg)) : cfg \in Configs}

Labels == UNION {{p.means[i].labels : i \in DOMAIN Parse(p)} :
                    p \in UNION {Payloads[s] : s \in Sender}}

(* A key and the group it stands for.                                      *)
Keyed(key, group) ==
    \E rt \in Entries, labels \in Labels :
        key = GroupKey(rt, labels) /\ group = Group(rt.config, labels)

(* A route of a table says what the file says of it.                       *)
LEMMA EntryOf ==
    ASSUME LabelsListedOnce, NEW rt \in Entries
    PROVE  /\ rt.name = IF rt.config.name # "" THEN [given |-> rt.config.name]
                        ELSE [match |-> rt.config.match, team |-> rt.config.team,
                              policy |-> rt.config.policy]
           /\ IsInjective(rt.config.groupBy)
<1>1. PICK cfg \in Configs :
        \E i \in DOMAIN cfg :
            rt = [name |-> RouteName(cfg[i], i), config |-> WithDefaults(cfg[i])]
  BY DEF Entries, Range, Table
<1>2. PICK i \in DOMAIN cfg :
        rt = [name |-> RouteName(cfg[i], i), config |-> WithDefaults(cfg[i])]
  BY <1>1
<1>3. DOMAIN cfg[i] = {"name", "match", "team", "policy", "groupBy", "volatile"}
  BY DecoderAssumption DEF Range
<1> DEFINE c == cfg[i]
           d == WithDefaults(c)
<1>4. /\ d.name = c.name /\ d.match = c.match /\ d.team = c.team
      /\ d.policy = c.policy /\ d.groupBy = c.groupBy
  BY <1>3 DEF WithDefaults
<1>5. rt.name = RouteName(c, i) /\ rt.config = d
  BY <1>2
<1>6. IsInjective(c.groupBy)
  BY DEF LabelsListedOnce
<1> HIDE DEF c, d
<1> QED
  BY <1>4, <1>5, <1>6 DEF RouteName

(* The key of a route with its labels.                                     *)
LEMMA KeyOf ==
    ASSUME LabelsListedOnce, NEW rt \in Entries, NEW labels
    PROVE  GroupKey(rt, labels) =
                <<rt.name, [k \in Range(rt.config.groupBy) |-> <<1, Value(labels, k)>>]>>
<1> DEFINE by == rt.config.groupBy
<1>1. ASSUME NEW k \in Range(by) PROVE Cardinality({i \in DOMAIN by : by[i] = k}) = 1
  <2>1. PICK j \in DOMAIN by : by[j] = k
    BY DEF Range
  <2>2. IsInjective(by)
    BY EntryOf
  <2>3. {i \in DOMAIN by : by[i] = k} = {j}
    BY <2>1, <2>2 DEF IsInjective
  <2> QED
    BY <2>3, FS_Singleton
<1> QED
  BY <1>1 DEF GroupKey

(* A key stands for one group, and a group has one key.                    *)
LEMMA KeyTellsGroup ==
    ASSUME LabelsListedOnce, NEW key, NEW group, Keyed(key, group),
           NEW key2, NEW group2, Keyed(key2, group2)
    PROVE  key = key2 <=> group = group2
<1>1. PICK rt \in Entries, l \in Labels :
        key = GroupKey(rt, l) /\ group = Group(rt.config, l)
  BY DEF Keyed
<1>2. PICK rt2 \in Entries, l2 \in Labels :
        key2 = GroupKey(rt2, l2) /\ group2 = Group(rt2.config, l2)
  BY DEF Keyed
<1> DEFINE by == Range(rt.config.groupBy)
           by2 == Range(rt2.config.groupBy)
           f == [k \in by |-> <<1, Value(l, k)>>]
           f2 == [k \in by2 |-> <<1, Value(l2, k)>>]
           v == [k \in by |-> Value(l, k)]
           v2 == [k \in by2 |-> Value(l2, k)]
<1>3. key = <<rt.name, f>> /\ key2 = <<rt2.name, f2>>
  BY <1>1, <1>2, KeyOf
<1>4. group = [route |-> rt.name, values |-> v] /\ group2 = [route |-> rt2.name, values |-> v2]
  BY <1>1, <1>2, EntryOf DEF Group
<1>5. f = f2 <=> v = v2
  <2>1. ASSUME f = f2 PROVE v = v2
    <3>1. by = by2
      <4>1. by = DOMAIN f /\ by2 = DOMAIN f2
        OBVIOUS
      <4> QED
        BY <2>1, <4>1
    <3>2. ASSUME NEW k \in by PROVE Value(l, k) = Value(l2, k)
      <4>1. f[k] = <<1, Value(l, k)>> /\ f2[k] = <<1, Value(l2, k)>>
        BY <3>1
      <4> QED
        BY <2>1, <4>1
    <3> QED
      BY <3>1, <3>2
  <2>2. ASSUME v = v2 PROVE f = f2
    <3>1. by = by2
      <4>1. by = DOMAIN v /\ by2 = DOMAIN v2
        OBVIOUS
      <4> QED
        BY <2>2, <4>1
    <3>2. ASSUME NEW k \in by PROVE Value(l, k) = Value(l2, k)
      <4>1. v[k] = Value(l, k) /\ v2[k] = Value(l2, k)
        BY <3>1
      <4> QED
        BY <2>2, <4>1
    <3> QED
      BY <3>1, <3>2
  <2> QED
    BY <2>1, <2>2
<1> HIDE DEF f, f2, v, v2
<1> QED
  BY <1>3, <1>4, <1>5

-----------------------------------------------------------------------------
(* The tables, as far as they are true.                                    *)

RowsOf(rowsOf, id) == {n \in DOMAIN rowsOf : rowsOf[n].incident = id}
NamesOf(rowsOf, id) == {rowsOf[n].about.alert : n \in RowsOf(rowsOf, id)}
FromOf(list, request_) == {n \in DOMAIN list : list[n].from = request_}

(* A row is of the alert its fingerprint says and, where a key tells the   *)
(* group, in an incident of the group the alert is in.                     *)
RowsTrue(rowsOf, incs) ==
    \A n \in DOMAIN rowsOf :
        /\ rowsOf[n].fingerprint = rowsOf[n].about.alert
        /\ LabelsListedOnce /\ rowsOf[n].incident # 0
            => rowsOf[n].about.group = incs[rowsOf[n].incident].group

(* An incident has the key of its group, and counts its rows.              *)
IncidentTrue(rowsOf, inc, id) ==
    /\ Keyed(inc.key, inc.group)
    /\ IsFiniteSet(NamesOf(rowsOf, id))
    /\ inc.alertCount = Cardinality(RowsOf(rowsOf, id))
    /\ inc.dedupCount = Cardinality(RowsOf(rowsOf, id)) - Cardinality(NamesOf(rowsOf, id))

OnePerKey(incs) ==
    \A i, j \in DOMAIN incs :
        incs[i].open /\ incs[j].open /\ incs[i].key = incs[j].key => i = j

TablesTrue(rowsOf, incs) ==
    /\ RowsTrue(rowsOf, incs)
    /\ \A id \in DOMAIN incs : IncidentTrue(rowsOf, incs[id], id)
    /\ OnePerKey(incs)

(* One row more.                                                           *)
LEMMA RowAdded ==
    ASSUME NEW list, IsList(list), NEW e, NEW id
    PROVE  LET longer == Append(list, e) IN
           /\ RowsOf(longer, id) = IF e.incident = id
                                   THEN RowsOf(list, id) \cup {Len(list) + 1}
                                   ELSE RowsOf(list, id)
           /\ NamesOf(longer, id) = IF e.incident = id
                                    THEN NamesOf(list, id) \cup {e.about.alert}
                                    ELSE NamesOf(list, id)
           /\ IsFiniteSet(RowsOf(list, id)) /\ Cardinality(RowsOf(list, id)) \in Nat
           /\ Cardinality(RowsOf(longer, id)) =
                Cardinality(RowsOf(list, id)) + (IF e.incident = id THEN 1 ELSE 0)
<1> DEFINE longer == Append(list, e)
           last == Len(list) + 1
<1>1. /\ DOMAIN longer = DOMAIN list \cup {last} /\ last \notin DOMAIN list
      /\ \A i \in DOMAIN list : longer[i] = list[i]
      /\ longer[last] = e
  BY AppendList
<1> HIDE DEF longer, last
<1>2. RowsOf(longer, id) = IF e.incident = id THEN RowsOf(list, id) \cup {last}
                           ELSE RowsOf(list, id)
  BY <1>1 DEF RowsOf
<1>3. NamesOf(longer, id) = IF e.incident = id THEN NamesOf(list, id) \cup {e.about.alert}
                            ELSE NamesOf(list, id)
  <2>1. \A n \in RowsOf(list, id) : longer[n] = list[n]
    BY <1>1 DEF RowsOf
  <2>2. CASE e.incident = id
    BY <1>1, <1>2, <2>1, <2>2 DEF NamesOf
  <2>3. CASE e.incident # id
    BY <1>1, <1>2, <2>1, <2>3 DEF NamesOf
  <2> QED
    BY <2>2, <2>3
<1>4. IsFiniteSet(RowsOf(list, id)) /\ Cardinality(RowsOf(list, id)) \in Nat
  <2>1. RowsOf(list, id) \in SUBSET (DOMAIN list) /\ IsFiniteSet(DOMAIN list)
    BY ListFacts DEF RowsOf
  <2> QED
    BY <2>1, FS_Subset, FS_CardinalityType
<1>5. Cardinality(RowsOf(longer, id)) =
        Cardinality(RowsOf(list, id)) + (IF e.incident = id THEN 1 ELSE 0)
  <2>1. last \notin RowsOf(list, id)
    BY <1>1 DEF RowsOf
  <2>2. Cardinality(RowsOf(list, id) \cup {last}) = Cardinality(RowsOf(list, id)) + 1
    BY <1>4, <2>1, FS_AddElement
  <2> QED
    BY <1>2, <1>4, <2>2
<1> QED
  BY <1>2, <1>3, <1>4, <1>5 DEF longer, last

(* One row, or one incident, of a request more.                            *)
LEMMA FromAdded ==
    ASSUME NEW list, IsList(list), NEW e, NEW f
    PROVE  /\ IsFiniteSet(FromOf(list, f)) /\ Cardinality(FromOf(list, f)) \in Nat
           /\ Cardinality(FromOf(Append(list, e), f)) =
                Cardinality(FromOf(list, f)) + (IF e.from = f THEN 1 ELSE 0)
<1> DEFINE longer == Append(list, e)
           last == Len(list) + 1
<1>1. /\ DOMAIN longer = DOMAIN list \cup {last} /\ last \notin DOMAIN list
      /\ \A i \in DOMAIN list : longer[i] = list[i]
      /\ longer[last] = e
  BY AppendList
<1> HIDE DEF longer, last
<1>2. FromOf(longer, f) = IF e.from = f THEN FromOf(list, f) \cup {last}
                          ELSE FromOf(list, f)
  BY <1>1 DEF FromOf
<1>3. IsFiniteSet(FromOf(list, f)) /\ Cardinality(FromOf(list, f)) \in Nat
  <2>1. FromOf(list, f) \in SUBSET (DOMAIN list) /\ IsFiniteSet(DOMAIN list)
    BY ListFacts DEF FromOf
  <2> QED
    BY <2>1, FS_Subset, FS_CardinalityType
<1>4. Cardinality(FromOf(longer, f)) =
        Cardinality(FromOf(list, f)) + (IF e.from = f THEN 1 ELSE 0)
  <2>1. last \notin FromOf(list, f)
    BY <1>1 DEF FromOf
  <2>2. Cardinality(FromOf(list, f) \cup {last}) = Cardinality(FromOf(list, f)) + 1
    BY <1>3, <2>1, FS_AddElement
  <2> QED
    BY <1>2, <1>3, <2>2
<1> QED
  BY <1>3, <1>4 DEF longer

(* What an alert brings, once it is routed.                                *)
Routed(a) ==
    /\ a.status \in AlertStatus
    /\ a.fingerprint = a.about.alert
    /\ Keyed(a.key, a.about.group)

(* A row that is not of an incident leaves the incident true.              *)
LEMMA StillTrue ==
    ASSUME NEW list, IsList(list), NEW e, NEW id, NEW inc, IncidentTrue(list, inc, id),
           e.incident # id
    PROVE  IncidentTrue(Append(list, e), inc, id)
BY RowAdded DEF IncidentTrue

(* Rows stay true when one more is.                                        *)
LEMMA RowsStayTrue ==
    ASSUME NEW list, IsList(list), NEW e, NEW incs, NEW incs2, RowsTrue(list, incs),
           \A n \in DOMAIN list :
                list[n].incident # 0
                    => incs2[list[n].incident].group = incs[list[n].incident].group,
           e.fingerprint = e.about.alert,
           LabelsListedOnce /\ e.incident # 0 => e.about.group = incs2[e.incident].group
    PROVE  RowsTrue(Append(list, e), incs2)
<1> DEFINE longer == Append(list, e)
<1>1. /\ DOMAIN longer = DOMAIN list \cup {Len(list) + 1}
      /\ \A i \in DOMAIN list : longer[i] = list[i]
      /\ longer[Len(list) + 1] = e
  BY AppendList
<1> HIDE DEF longer
<1>2. RowsTrue(longer, incs2)
  BY <1>1 DEF RowsTrue
<1> QED
  BY <1>2 DEF longer

(* An incident counts a row of its own, and a repetition of an alert it has*)
(* as such.                                                                *)
LEMMA CountsOneMore ==
    ASSUME NEW list, IsList(list), NEW e, NEW id, NEW inc,
           IncidentTrue(list, inc, id), e.incident = id, NEW name, e.about.alert = name,
           \A n \in DOMAIN list : list[n].fingerprint = list[n].about.alert,
           NEW joined, joined.key = inc.key, joined.group = inc.group,
           joined.alertCount = inc.alertCount + 1,
           joined.dedupCount = inc.dedupCount
                + (IF HasFingerprint(list, id, name) THEN 1 ELSE 0)
    PROVE  IncidentTrue(Append(list, e), joined, id)
<1> DEFINE names == NamesOf(list, id)
<1>1. HasFingerprint(list, id, name) <=> name \in names
  BY DEF HasFingerprint, NamesOf, RowsOf
<1>2. IsFiniteSet(names)
  BY DEF IncidentTrue
<1>3. /\ NamesOf(Append(list, e), id) = names \cup {name}
      /\ Cardinality(RowsOf(list, id)) \in Nat
      /\ Cardinality(RowsOf(Append(list, e), id)) = Cardinality(RowsOf(list, id)) + 1
  BY RowAdded
<1> HIDE DEF names
<1>4. /\ IsFiniteSet(names \cup {name}) /\ Cardinality(names) \in Nat
      /\ Cardinality(names \cup {name}) =
            IF name \in names THEN Cardinality(names) ELSE Cardinality(names) + 1
  BY <1>2, FS_AddElement, FS_CardinalityType
<1>5. /\ Keyed(joined.key, joined.group)
      /\ inc.alertCount = Cardinality(RowsOf(list, id))
      /\ inc.dedupCount = Cardinality(RowsOf(list, id)) - Cardinality(names)
  BY DEF IncidentTrue, names
<1>6. joined.alertCount = Cardinality(RowsOf(Append(list, e), id))
  BY <1>3, <1>5
<1>7. joined.dedupCount = Cardinality(RowsOf(Append(list, e), id))
                            - Cardinality(NamesOf(Append(list, e), id))
  BY <1>1, <1>3, <1>4, <1>5
<1> QED
  BY <1>3, <1>4, <1>5, <1>6, <1>7 DEF IncidentTrue

(* The tables stay true.                                                   *)
LEMMA ApplyTrue ==
    ASSUME NEW db, NEW a, DOMAIN db = DbFields,
           TablesTyped(db.alerts, db.incidents), TablesTrue(db.alerts, db.incidents),
           Routed(a)
    PROVE  LET new == ApplyAlert(db, a) IN TablesTrue(new.alerts, new.incidents)
<1> DEFINE new == ApplyAlert(db, a)
           rowsOf == db.alerts
           incs == db.incidents
<1>1. \/ Dropped(db, a, new)
      \/ \E id \in DOMAIN incs : Attached(db, a, new, id)
      \/ Opened(db, a, new)
  BY ApplyCases DEF Routed
<1> HIDE DEF new
<1>2. /\ IsList(rowsOf) /\ IsList(incs)
      /\ Len(incs) \in Nat /\ DOMAIN incs = 1..Len(incs)
      /\ \A n \in DOMAIN rowsOf : rowsOf[n].incident \in 0..Len(incs)
  BY ListFacts DEF TablesTyped
<1>3. /\ RowsTrue(rowsOf, incs) /\ OnePerKey(incs)
      /\ \A id \in DOMAIN incs : IncidentTrue(rowsOf, incs[id], id)
      /\ \A n \in DOMAIN rowsOf : rowsOf[n].fingerprint = rowsOf[n].about.alert
  BY DEF TablesTrue, RowsTrue
<1>4. \A id : /\ AlertRow(a, id).incident = id /\ AlertRow(a, id).about = a.about
              /\ AlertRow(a, id).fingerprint = a.about.alert
  BY DEF AlertRow, Routed
<1>5. CASE Dropped(db, a, new)
  <2> DEFINE e == AlertRow(a, 0)
  <2>1. new.alerts = Append(rowsOf, e) /\ new.incidents = incs
    BY <1>5 DEF Dropped
  <2>2. e.incident = 0 /\ e.fingerprint = e.about.alert
    BY <1>4
  <2> HIDE DEF e, rowsOf, incs
  <2>3. \A id \in DOMAIN incs : IncidentTrue(Append(rowsOf, e), incs[id], id)
    <3>1. 0 \notin DOMAIN incs
      BY <1>2
    <3> QED
      BY <1>2, <1>3, <2>2, <3>1, StillTrue
  <2>4. RowsTrue(Append(rowsOf, e), incs)
    BY <1>2, <1>3, <2>2, RowsStayTrue
  <2> QED
    BY <1>3, <2>1, <2>3, <2>4 DEF TablesTrue, new
<1>6. ASSUME NEW id \in DOMAIN incs, Attached(db, a, new, id)
      PROVE  TablesTrue(new.alerts, new.incidents)
  <2> DEFINE e == AlertRow(a, id)
             inc == incs[id]
             seen == Seen(db, id, a.fingerprint)
  <2>1. PICK closing \in BOOLEAN :
            new.incidents = [incs EXCEPT ![id] =
                [inc EXCEPT !.alertCount = @ + 1, !.dedupCount = @ + seen,
                            !.closing = closing]]
    BY <1>6 DEF Attached
  <2> DEFINE joined == [inc EXCEPT !.alertCount = @ + 1, !.dedupCount = @ + seen,
                                   !.closing = closing]
  <2>2. inc.open /\ inc.key = a.key
    BY <1>6 DEF Attached, OpenOf
  <2>3. DOMAIN inc = IncidentFields
    BY DEF TablesTyped
  <2>4. seen = IF HasFingerprint(rowsOf, id, a.about.alert) THEN 1 ELSE 0
    BY DEF Seen, Routed
  <2> HIDE DEF inc, seen, rowsOf
  <2>5. /\ joined.key = inc.key /\ joined.group = inc.group /\ joined.open = inc.open
        /\ joined.alertCount = inc.alertCount + 1
        /\ joined.dedupCount = inc.dedupCount + seen
    BY <2>3 DEF IncidentFields
  <2> HIDE DEF joined
  <2>6. new.alerts = Append(rowsOf, e) /\ new.incidents = [incs EXCEPT ![id] = joined]
    BY <1>6, <2>1 DEF Attached, joined, rowsOf
  <2>7. e.incident = id /\ e.about = a.about /\ e.fingerprint = a.about.alert
    BY <1>4
  <2> HIDE DEF e, incs
  <2>8. IncidentTrue(rowsOf, inc, id)
    BY <1>3 DEF inc
  <2>9. IncidentTrue(Append(rowsOf, e), joined, id)
    BY <1>2, <1>3, <2>4, <2>5, <2>7, <2>8, CountsOneMore
  <2>10. LabelsListedOnce => a.about.group = inc.group
    BY <2>2, <2>8, KeyTellsGroup DEF Routed, IncidentTrue
  <2> DEFINE incs2 == [incs EXCEPT ![id] = joined]
  <2>11. /\ DOMAIN incs2 = DOMAIN incs /\ incs2[id] = joined
         /\ \A k \in DOMAIN incs : k # id => incs2[k] = incs[k]
         /\ \A k \in DOMAIN incs : /\ incs2[k].group = incs[k].group
                                   /\ incs2[k].key = incs[k].key
                                   /\ incs2[k].open = incs[k].open
    BY <2>5 DEF inc
  <2> HIDE DEF incs2
  <2>12. \A k \in DOMAIN incs2 : IncidentTrue(Append(rowsOf, e), incs2[k], k)
    BY <1>2, <1>3, <2>7, <2>9, <2>11, StillTrue
  <2>13. RowsTrue(Append(rowsOf, e), incs2)
    <3>1. \A n \in DOMAIN rowsOf :
              rowsOf[n].incident # 0
                => incs2[rowsOf[n].incident].group = incs[rowsOf[n].incident].group
      BY <1>2, <2>11
    <3>2. /\ LabelsListedOnce => e.about.group = incs2[e.incident].group
          /\ e.fingerprint = e.about.alert
      BY <2>7, <2>10, <2>11 DEF inc
    <3> QED
      BY <1>2, <1>3, <3>1, <3>2, RowsStayTrue
  <2>14. OnePerKey(incs2)
    BY <1>3, <2>11 DEF OnePerKey
  <2> QED
    BY <2>6, <2>12, <2>13, <2>14 DEF TablesTrue, incs2
<1>7. CASE Opened(db, a, new)
  <2> DEFINE id == Len(incs) + 1
             e == AlertRow(a, id)
             inc == [key |-> a.key, policy |-> a.policy, open |-> TRUE, alertCount |-> 1,
                     dedupCount |-> 0, closing |-> FALSE, byHand |-> FALSE,
                     expired |-> FALSE,
                     group |-> a.about.group, from |-> a.from]
             incs2 == Append(incs, inc)
  <2>1. /\ OpenOf(db, a.key) = {}
        /\ new.alerts = Append(rowsOf, e) /\ new.incidents = incs2
    BY <1>7 DEF Opened
  <2>2. \A k \in DOMAIN incs : ~(incs[k].open /\ incs[k].key = a.key)
    BY <2>1 DEF OpenOf
  <2>3. /\ inc.key = a.key /\ inc.group = a.about.group
        /\ inc.alertCount = 1 /\ inc.dedupCount = 0
    OBVIOUS
  <2>4. e.incident = id /\ e.about = a.about /\ e.fingerprint = a.about.alert
    BY <1>4
  <2> HIDE DEF e, inc, incs, rowsOf
  <2>5. /\ DOMAIN incs2 = DOMAIN incs \cup {id} /\ id \notin DOMAIN incs /\ id \in Nat
        /\ id # 0
        /\ \A k \in DOMAIN incs : incs2[k] = incs[k]
        /\ incs2[id] = inc
    BY <1>2, AppendList
  <2>6. \A n \in DOMAIN rowsOf : rowsOf[n].incident # id
    BY <1>2
  <2> HIDE DEF incs2, id
  <2>7. IncidentTrue(Append(rowsOf, e), inc, id)
    <3>1. RowsOf(rowsOf, id) = {}
      BY <2>6 DEF RowsOf
    <3>2. NamesOf(rowsOf, id) = {}
      BY <3>1 DEF NamesOf
    <3>3. /\ Cardinality(RowsOf(Append(rowsOf, e), id)) = 0 + 1
          /\ NamesOf(Append(rowsOf, e), id) = {a.about.alert}
      BY <1>2, <2>4, <3>1, <3>2, FS_EmptySet, RowAdded
    <3>4. IsFiniteSet({a.about.alert}) /\ Cardinality({a.about.alert}) = 1
      BY FS_Singleton
    <3> QED
      BY <2>3, <3>3, <3>4 DEF IncidentTrue, Routed
  <2>8. \A k \in DOMAIN incs2 : IncidentTrue(Append(rowsOf, e), incs2[k], k)
    BY <1>2, <1>3, <2>4, <2>5, <2>7, StillTrue
  <2>9. RowsTrue(Append(rowsOf, e), incs2)
    <3>1. \A n \in DOMAIN rowsOf :
              rowsOf[n].incident # 0
                => incs2[rowsOf[n].incident].group = incs[rowsOf[n].incident].group
      BY <1>2, <2>5
    <3>2. e.about.group = incs2[e.incident].group /\ e.fingerprint = e.about.alert
      BY <2>3, <2>4, <2>5
    <3> QED
      BY <1>2, <1>3, <3>1, <3>2, RowsStayTrue
  <2>10. OnePerKey(incs2)
    BY <1>3, <2>2, <2>3, <2>5 DEF OnePerKey
  <2> QED
    BY <2>1, <2>8, <2>9, <2>10 DEF TablesTrue, new
<1> QED
  BY <1>1, <1>5, <1>6, <1>7 DEF new

(* A request's rows and incidents are counted, and nobody else's change.   *)
LEMMA ApplyCounts ==
    ASSUME NEW db, NEW a, DOMAIN db = DbFields, db.created \in Nat,
           TablesTyped(db.alerts, db.incidents), a.status \in AlertStatus, NEW f
    PROVE  LET new == ApplyAlert(db, a) IN
           /\ Cardinality(FromOf(new.alerts, f)) =
                Cardinality(FromOf(db.alerts, f)) + (IF a.from = f THEN 1 ELSE 0)
           /\ Cardinality(FromOf(new.incidents, f)) =
                Cardinality(FromOf(db.incidents, f))
                    + (IF a.from = f THEN new.created - db.created ELSE 0)
<1> DEFINE new == ApplyAlert(db, a)
<1>1. \/ Dropped(db, a, new)
      \/ \E id \in DOMAIN db.incidents : Attached(db, a, new, id)
      \/ Opened(db, a, new)
  BY ApplyCases
<1> HIDE DEF new
<1>2. IsList(db.alerts) /\ IsList(db.incidents)
  BY DEF TablesTyped
<1>3. Cardinality(FromOf(db.incidents, f)) \in Nat
  BY <1>2, FromAdded
<1>4. \E id : new.alerts = Append(db.alerts, AlertRow(a, id))
  BY <1>1 DEF Dropped, Attached, Opened
<1>5. \A id : AlertRow(a, id).from = a.from
  BY DEF AlertRow
<1>6. Cardinality(FromOf(new.alerts, f)) =
        Cardinality(FromOf(db.alerts, f)) + (IF a.from = f THEN 1 ELSE 0)
  BY <1>2, <1>4, <1>5, FromAdded
<1>7. Cardinality(FromOf(new.incidents, f)) =
        Cardinality(FromOf(db.incidents, f))
            + (IF a.from = f THEN new.created - db.created ELSE 0)
  <2>1. CASE Dropped(db, a, new)
    <3>1. new.incidents = db.incidents /\ new.created - db.created = 0
      BY <2>1 DEF Dropped
    <3> QED
      BY <1>3, <3>1
  <2>2. ASSUME NEW id \in DOMAIN db.incidents, Attached(db, a, new, id)
        PROVE  FromOf(new.incidents, f) = FromOf(db.incidents, f)
               /\ new.created - db.created = 0
    <3> DEFINE row == db.incidents[id]
    <3>1. PICK closing \in BOOLEAN :
            new.incidents = [db.incidents EXCEPT ![id] =
                [row EXCEPT !.alertCount = @ + 1,
                            !.dedupCount = @ + Seen(db, id, a.fingerprint),
                            !.closing = closing]]
      BY <2>2 DEF Attached
    <3>2. DOMAIN row = IncidentFields
      BY DEF TablesTyped
    <3> DEFINE joined == [row EXCEPT !.alertCount = @ + 1,
                                     !.dedupCount = @ + Seen(db, id, a.fingerprint),
                                     !.closing = closing]
    <3> HIDE DEF row
    <3>3. joined.from = row.from
      BY <3>2 DEF IncidentFields
    <3> HIDE DEF joined
    <3>4. new.incidents = [db.incidents EXCEPT ![id] = joined]
      BY <3>1 DEF joined
    <3>5. FromOf(new.incidents, f) = FromOf(db.incidents, f)
      BY <3>3, <3>4 DEF FromOf, row
    <3> QED
      BY <2>2, <3>5 DEF Attached
  <2>3. CASE Opened(db, a, new)
    <3> DEFINE row == [key |-> a.key, policy |-> a.policy, open |-> TRUE, alertCount |-> 1,
                       dedupCount |-> 0, closing |-> FALSE, byHand |-> FALSE,
                       expired |-> FALSE,
                       group |-> a.about.group, from |-> a.from]
    <3>1. new.incidents = Append(db.incidents, row) /\ new.created - db.created = 1
      BY <2>3 DEF Opened
    <3>2. row.from = a.from
      OBVIOUS
    <3> HIDE DEF row
    <3> QED
      BY <1>2, <3>1, <3>2, FromAdded
  <2> QED
    BY <1>1, <1>3, <2>1, <2>2, <2>3
<1> QED
  BY <1>6, <1>7 DEF new

-----------------------------------------------------------------------------
(* One chunk.                                                              *)

Before == [alerts |-> alerts, incidents |-> incidents, created |-> 0, deduped |-> 0]

DbTyped(db) ==
    /\ DOMAIN db = DbFields /\ db.created \in Nat /\ db.deduped \in Nat
    /\ TablesTyped(db.alerts, db.incidents)

(* What Applied does, alert by alert.                                      *)
LEMMA AppliedUnfolds ==
    ASSUME NEW chunk, Len(chunk) \in Nat
    PROVE  \E db :
            /\ db = [n \in 0..Len(chunk) |->
                        IF n = 0 THEN Before ELSE ApplyAlert(db[n - 1], chunk[n])]
            /\ Applied(chunk) = db[Len(chunk)]
<1> DEFINE Run(g, k) ==
               g = [n \in 0..k |->
                        IF n = 0 THEN Before ELSE ApplyAlert(g[n - 1], chunk[n])]
           bad == {k \in 0..Len(chunk) : ~\E g : Run(g, k)}
<1>1. bad = {}
  <2> SUFFICES ASSUME bad # {} PROVE FALSE
    OBVIOUS
  <2>1. PICK k \in bad : \A j \in bad : k <= j
    <3> HIDE DEF bad
    <3>1. bad \subseteq Nat
      BY DEF bad
    <3> QED
      BY <3>1, SmallestOf
  <2>2. CASE k = 0
    <3> DEFINE g == [n \in 0..0 |-> Before]
    <3>1. Run(g, 0)
      OBVIOUS
    <3> QED
      BY <2>2, <3>1
  <2>3. CASE k > 0
    <3>1. k \in Nat /\ k - 1 \in 0..Len(chunk)
      BY <2>3
    <3>2. k - 1 \notin bad
      <4> HIDE DEF bad
      <4> QED
        BY <2>1, <3>1
    <3>3. PICK g : Run(g, k - 1)
      BY <3>1, <3>2
    <3> DEFINE h == [n \in 0..k |-> IF n = k THEN ApplyAlert(g[k - 1], chunk[k]) ELSE g[n]]
    <3>4. \A n \in 0..k :
            h[n] = IF n = 0 THEN Before ELSE ApplyAlert(h[n - 1], chunk[n])
      <4> SUFFICES ASSUME NEW n \in 0..k
                   PROVE  h[n] = IF n = 0 THEN Before ELSE ApplyAlert(h[n - 1], chunk[n])
        OBVIOUS
      <4>1. CASE n = k
        BY <2>3, <3>1, <4>1
      <4>2. CASE n # k
        <5>1. n \in 0..(k - 1) /\ h[n] = g[n] /\ (n # 0 => h[n - 1] = g[n - 1])
          BY <3>1, <4>2
        <5>2. g[n] = IF n = 0 THEN Before ELSE ApplyAlert(g[n - 1], chunk[n])
          BY <3>3, <5>1
        <5> QED
          BY <5>1, <5>2
      <4> QED
        BY <4>1, <4>2
    <3>5. Run(h, k)
      BY <3>4
    <3> QED
      BY <2>1, <3>5
  <2> QED
    BY <2>1, <2>2, <2>3
<1>2. \E g : Run(g, Len(chunk))
  BY <1>1
<1> DEFINE db[n \in 0..Len(chunk)] ==
            IF n = 0 THEN Before ELSE ApplyAlert(db[n - 1], chunk[n])
<1>3. Applied(chunk) = db[Len(chunk)]
  BY DEF Applied, Before
<1>4. Run(db, Len(chunk))
  BY <1>2
<1> QED
  BY <1>3, <1>4

(* The types, after each of its alerts.                                    *)
LEMMA AppliedTyped ==
    ASSUME NEW chunk, IsList(chunk), TablesTyped(alerts, incidents),
           \A i \in DOMAIN chunk : chunk[i].status \in AlertStatus
    PROVE  \E db : /\ db[0] = Before
                   /\ \A n \in 1..Len(chunk) : db[n] = ApplyAlert(db[n - 1], chunk[n])
                   /\ \A n \in 0..Len(chunk) : DbTyped(db[n])
                   /\ Applied(chunk) = db[Len(chunk)]
<1>1. Len(chunk) \in Nat /\ DOMAIN chunk = 1..Len(chunk)
  BY ListFacts
<1>2. PICK db :
        /\ db = [n \in 0..Len(chunk) |->
                    IF n = 0 THEN Before ELSE ApplyAlert(db[n - 1], chunk[n])]
        /\ Applied(chunk) = db[Len(chunk)]
  BY <1>1, AppliedUnfolds
<1>3. db[0] = Before /\ \A n \in 1..Len(chunk) : db[n] = ApplyAlert(db[n - 1], chunk[n])
  BY <1>1, <1>2
<1> DEFINE bad == {n \in 0..Len(chunk) : ~DbTyped(db[n])}
<1>4. bad = {}
  <2> SUFFICES ASSUME bad # {} PROVE FALSE
    OBVIOUS
  <2>1. PICK n \in bad : \A m \in bad : n <= m
    <3> HIDE DEF bad
    <3>1. bad \subseteq Nat
      BY DEF bad
    <3> QED
      BY <3>1, SmallestOf
  <2>2. CASE n = 0
    <3>1. DbTyped(Before)
      BY DEF Before, DbTyped, DbFields
    <3> QED
      BY <1>3, <2>1, <2>2, <3>1
  <2>3. CASE n > 0
    <3>1. n \in 1..Len(chunk) /\ n - 1 \in 0..Len(chunk)
      BY <1>1, <2>3
    <3>2. n - 1 \notin bad
      <4> HIDE DEF bad
      <4> QED
        BY <2>1, <3>1
    <3>3. DbTyped(db[n - 1]) /\ chunk[n].status \in AlertStatus
      BY <1>1, <3>1, <3>2
    <3>4. DbTyped(ApplyAlert(db[n - 1], chunk[n]))
      <4> HIDE DEF bad
      <4> QED
        BY <3>3, ApplyTyped DEF DbTyped
    <3> QED
      BY <1>3, <2>1, <3>1, <3>4
  <2> QED
    BY <2>1, <2>2, <2>3
<1> QED
  BY <1>2, <1>3, <1>4

(* A chunk of a request keeps the tables true and is counted.              *)
LEMMA AppliedTrue ==
    ASSUME NEW chunk, IsList(chunk), NEW f,
           TablesTyped(alerts, incidents), TablesTrue(alerts, incidents),
           \A i \in DOMAIN chunk : Routed(chunk[i]) /\ chunk[i].from = f
    PROVE  LET db == Applied(chunk) IN
           /\ TablesTrue(db.alerts, db.incidents)
           /\ \A g : /\ Cardinality(FromOf(db.alerts, g)) =
                            Cardinality(FromOf(alerts, g))
                                + (IF f = g THEN Len(chunk) ELSE 0)
                     /\ Cardinality(FromOf(db.incidents, g)) =
                            Cardinality(FromOf(incidents, g))
                                + (IF f = g THEN db.created ELSE 0)
<1>1. Len(chunk) \in Nat /\ DOMAIN chunk = 1..Len(chunk)
  BY ListFacts
<1>2. PICK db : /\ db[0] = Before
                /\ \A n \in 1..Len(chunk) : db[n] = ApplyAlert(db[n - 1], chunk[n])
                /\ \A n \in 0..Len(chunk) : DbTyped(db[n])
                /\ Applied(chunk) = db[Len(chunk)]
  BY AppliedTyped DEF Routed
<1>3. \A g : /\ Cardinality(FromOf(alerts, g)) \in Nat
             /\ Cardinality(FromOf(incidents, g)) \in Nat
  BY FromAdded DEF TablesTyped
<1> DEFINE Count(n, g) ==
                /\ Cardinality(FromOf(db[n].alerts, g)) =
                        Cardinality(FromOf(alerts, g)) + (IF f = g THEN n ELSE 0)
                /\ Cardinality(FromOf(db[n].incidents, g)) =
                        Cardinality(FromOf(incidents, g))
                            + (IF f = g THEN db[n].created ELSE 0)
           Good(n) == TablesTrue(db[n].alerts, db[n].incidents) /\ \A g : Count(n, g)
           bad == {n \in 0..Len(chunk) : ~Good(n)}
<1>4. bad = {}
  <2> SUFFICES ASSUME bad # {} PROVE FALSE
    OBVIOUS
  <2>1. PICK n \in bad : \A m \in bad : n <= m
    <3> HIDE DEF bad
    <3>1. bad \subseteq Nat
      BY DEF bad
    <3> QED
      BY <3>1, SmallestOf
  <2>2. CASE n = 0
    <3>1. /\ db[0].alerts = alerts /\ db[0].incidents = incidents /\ db[0].created = 0
      BY <1>2 DEF Before
    <3>2. Good(0)
      BY <1>3, <3>1
    <3> QED
      BY <2>1, <2>2, <3>2
  <2>3. CASE n > 0
    <3>1. n \in Nat /\ n \in 1..Len(chunk) /\ n - 1 \in 0..Len(chunk)
      BY <1>1, <2>3
    <3>2. n - 1 \notin bad
      <4> HIDE DEF bad
      <4> QED
        BY <2>1, <3>1
    <3>3. Good(n - 1)
      BY <3>1, <3>2
    <3> DEFINE old == db[n - 1]
               new == db[n]
               a == chunk[n]
    <3>4. /\ DbTyped(old) /\ DbTyped(new) /\ new = ApplyAlert(old, a)
          /\ Routed(a) /\ a.from = f
      BY <1>1, <1>2, <3>1
    <3>5. TablesTrue(old.alerts, old.incidents)
      BY <3>3
    <3>6. ASSUME NEW g PROVE Count(n, g)
      <4>1. Count(n - 1, g)
        BY <3>3
      <4> HIDE DEF old, new, a, bad
      <4>2. /\ Cardinality(FromOf(new.alerts, g)) =
                    Cardinality(FromOf(old.alerts, g)) + (IF f = g THEN 1 ELSE 0)
            /\ Cardinality(FromOf(new.incidents, g)) =
                    Cardinality(FromOf(old.incidents, g))
                        + (IF f = g THEN new.created - old.created ELSE 0)
        BY <3>4, ApplyCounts DEF DbTyped, Routed
      <4>3. new.created \in Nat /\ old.created \in Nat
        BY <3>4 DEF DbTyped
      <4> DEFINE rows0 == Cardinality(FromOf(alerts, g))
                 incs0 == Cardinality(FromOf(incidents, g))
                 rows1 == Cardinality(FromOf(old.alerts, g))
                 incs1 == Cardinality(FromOf(old.incidents, g))
                 made0 == old.created
                 made1 == new.created
      <4>4. /\ rows1 = rows0 + (IF f = g THEN n - 1 ELSE 0)
            /\ incs1 = incs0 + (IF f = g THEN made0 ELSE 0)
        BY <4>1 DEF old
      <4>5. rows0 \in Nat /\ incs0 \in Nat /\ made0 \in Nat /\ made1 \in Nat
        BY <1>3, <4>3
      <4> HIDE DEF rows0, incs0, rows1, incs1, made0, made1, Count
      <4>6. /\ rows1 + (IF f = g THEN 1 ELSE 0) = rows0 + (IF f = g THEN n ELSE 0)
            /\ incs1 + (IF f = g THEN made1 - made0 ELSE 0)
                    = incs0 + (IF f = g THEN made1 ELSE 0)
        BY <3>1, <4>4, <4>5
      <4>7. /\ Cardinality(FromOf(new.alerts, g)) = rows0 + (IF f = g THEN n ELSE 0)
            /\ Cardinality(FromOf(new.incidents, g)) =
                    incs0 + (IF f = g THEN new.created ELSE 0)
        BY <4>2, <4>6 DEF rows1, incs1, made0, made1
      <4> QED
        BY <4>7 DEF Count, new, rows0, incs0
    <3>7. TablesTrue(new.alerts, new.incidents)
      <4> HIDE DEF old, new, a, bad, Good
      <4> QED
        BY <3>4, <3>5, ApplyTrue DEF DbTyped
    <3>8. Good(n)
      BY <3>6, <3>7
    <3> QED
      BY <2>1, <3>8
  <2> QED
    BY <2>1, <2>2, <2>3
<1>5. Good(Len(chunk))
  BY <1>1, <1>4
<1> QED
  BY <1>2, <1>5

-----------------------------------------------------------------------------
(* A payload and the route of an alert.                                    *)

LEMMA Parsed ==
    ASSUME NEW s \in Sender, NEW p \in Payloads[s], Acceptable(p)
    PROVE  /\ Len(Parse(p)) \in Nat /\ Len(Parse(p)) <= MaxAlerts
           /\ DOMAIN Parse(p) = 1..Len(Parse(p))
           /\ \A i \in DOMAIN Parse(p) : Parse(p)[i].status \in AlertStatus
           /\ Len(p.means) = Len(Parse(p))
<1>1. /\ Len(Parse(p)) \in 1..MaxAlerts /\ MaxAlerts \in Nat
      /\ Len(p.means) = Len(Parse(p))
      /\ \A i \in DOMAIN Parse(p) : Parse(p)[i].status \in AlertStatus
  BY IngestAssumption DEF Acceptable
<1>2. IsList(p.alerts)
  BY DecoderAssumption
<1>3. IsList(Raws(p))
  <2>1. CASE p.alerts = <<>>
    <3> DEFINE raw == [labels |-> p.labels, status |-> p.status]
    <3>1. Raws(p) = <<raw>>
      BY <2>1 DEF Raws
    <3> HIDE DEF raw
    <3>2. <<raw>> \in Seq({raw})
      OBVIOUS
    <3> QED
      BY <3>1, <3>2, SeqOfRange DEF IsList
  <2> QED
    BY <1>2, <2>1 DEF Raws
<1>4. \E n \in Nat : DOMAIN Parse(p) = 1..n
  <2>1. DOMAIN Generic(p) = DOMAIN Raws(p) /\ DOMAIN Alertmanager(p) = DOMAIN p.alerts
    BY DEF Generic, Alertmanager
  <2>2. DOMAIN Parse(p) = DOMAIN Raws(p) \/ DOMAIN Parse(p) = DOMAIN p.alerts
    BY <2>1 DEF Parse
  <2> QED
    BY <1>2, <1>3, <2>2, ListFacts
<1>5. PICK n \in Nat : DOMAIN Parse(p) = 1..n
  BY <1>4
<1>6. Parse(p) = [i \in DOMAIN Parse(p) |-> Parse(p)[i]]
  BY Zenon DEF Parse, Generic, Alertmanager
<1> DEFINE q == Parse(p)
<1> HIDE DEF q
<1>7. Len(q) = n
  BY <1>5, <1>6 DEF q
<1> QED
  BY <1>1, <1>5, <1>7 DEF q

(* The first route that matches is one of the table's.                     *)
LEMMA MatchIsEntry ==
    ASSUME NEW cfg \in Configs, NEW labels, Matching(Table(cfg), labels) # {}
    PROVE  Match(Table(cfg), labels) \in Range(Table(cfg))
<1> DEFINE S == Matching(Table(cfg), labels)
<1>1. S \subseteq DOMAIN Table(cfg) /\ DOMAIN Table(cfg) = DOMAIN cfg
  BY DEF Matching, Table
<1>2. DOMAIN cfg \subseteq Nat
  <2>1. IsList(cfg)
    BY DecoderAssumption
  <2> QED
    BY <2>1, ListFacts
<1> HIDE DEF S
<1>3. \E i \in S : \A j \in S : i <= j
  BY <1>1, <1>2, SmallestOf DEF S
<1>4. PICK i \in S : Match(Table(cfg), labels) = Table(cfg)[i]
  BY <1>3 DEF Match, S
<1> QED
  BY <1>1, <1>4 DEF Range

-----------------------------------------------------------------------------
(* The inductive invariant, as far as types and the reading of a payload   *)
(* go.                                                                     *)

RequestFields ==
    {"n", "stage", "payload", "read", "pending", "unrouted", "accepted", "created",
     "deduped"}

(* What has been read of a payload is routed or counted as not.            *)
RequestTyped(s, r) ==
    /\ DOMAIN r = RequestFields
    /\ r.n \in 0..MaxRequests[s] /\ r.stage \in Stage
    /\ r.n > 0 => r.payload \in Payloads[s]
    /\ r.n = 0 => r.stage = "accepted" /\ r.read = 0
    /\ IsList(r.pending) /\ \A i \in DOMAIN r.pending : r.pending[i].status \in AlertStatus
    /\ r.read \in Nat /\ r.unrouted \in Nat /\ r.accepted \in Nat
    /\ r.created \in Nat /\ r.deduped \in Nat
    /\ r.read = r.unrouted + Len(r.pending)
    /\ r.n > 0 /\ r.stage # "rejected"
        => Acceptable(r.payload) /\ r.read <= Len(Parse(r.payload))
    /\ r.n > 0 /\ r.stage \in {"storing", "accepted", "failed"}
        => r.read = Len(Parse(r.payload))
    /\ r.stage = "rejected" => r.read = 0
    /\ r.stage \in {"routing", "rejected"} => r.accepted = 0
    /\ r.accepted <= Len(r.pending)
    /\ r.stage = "accepted" => r.accepted = Len(r.pending)

Typed ==
    /\ table \in {Table(cfg) : cfg \in Configs}
    /\ DOMAIN request = Sender
    /\ \A s \in Sender : RequestTyped(s, request[s])
    /\ TablesTyped(alerts, incidents)
    /\ upsets \in 0..MaxUpsets

LEMMA InitTyped == Init => Typed
<1> SUFFICES ASSUME Init PROVE Typed
  OBVIOUS
<1>1. ASSUME NEW s \in Sender PROVE RequestTyped(s, request[s])
  <2>1. request[s] = NoRequest /\ MaxRequests[s] \in Nat
    BY IngestAssumption DEF Init
  <2>2. 0 \in 0..MaxRequests[s]
    BY <2>1
  <2>3. /\ DOMAIN NoRequest = RequestFields /\ NoRequest.n = 0
        /\ NoRequest.stage = "accepted" /\ NoRequest.read = 0
        /\ NoRequest.pending = <<>> /\ NoRequest.unrouted = 0
        /\ NoRequest.accepted = 0 /\ NoRequest.created = 0 /\ NoRequest.deduped = 0
    BY DEF NoRequest, RequestFields
  <2> QED
    BY <2>1, <2>2, <2>3, EmptyList DEF RequestTyped, Stage
<1>2. TablesTyped(alerts, incidents)
  BY EmptyList DEF Init, TablesTyped
<1>3. table \in {Table(cfg) : cfg \in Configs} /\ upsets \in 0..MaxUpsets
  BY IngestAssumption DEF Init
<1> QED
  BY <1>1, <1>2, <1>3 DEF Init, Typed

(* A step of a sender that leaves the others their requests.               *)
LEMMA OneRequest ==
    ASSUME Typed, NEW s \in Sender, NEW r, RequestTyped(s, r),
           request' = [request EXCEPT ![s] = r],
           UNCHANGED <<table, rows>>, upsets' \in 0..MaxUpsets
    PROVE  Typed'
<1>1. /\ DOMAIN request' = Sender /\ request'[s] = r
      /\ \A t \in Sender : t # s => request'[t] = request[t]
  BY DEF Typed
<1>2. \A t \in Sender : RequestTyped(t, request'[t])
  BY <1>1 DEF Typed
<1>3. TablesTyped(alerts, incidents)' /\ table' \in {Table(cfg) : cfg \in Configs}
  BY DEF Typed, rows
<1> QED
  BY <1>1, <1>2, <1>3 DEF Typed

LEMMA SendTyped ==
    ASSUME Typed, NEW s \in Sender, NEW p \in Payloads[s], Send(s, p)
    PROVE  Typed'
<1> DEFINE n == request[s].n + 1
           stage == IF Acceptable(p) THEN "routing" ELSE "rejected"
           r == [NoRequest EXCEPT !.n = n, !.payload = p, !.stage = stage]
<1>1. request' = [request EXCEPT ![s] = r] /\ UNCHANGED <<table, rows, upsets>>
  BY DEF Send
<1>2. n \in 0..MaxRequests[s] /\ n > 0
  <2>1. /\ request[s].n \in 0..MaxRequests[s] /\ request[s].n < MaxRequests[s]
        /\ MaxRequests[s] \in Nat
    BY IngestAssumption DEF Send, Typed, RequestTyped
  <2> QED
    BY <2>1
<1> HIDE DEF n
<1>3. /\ DOMAIN r = RequestFields /\ r.n = n /\ r.payload = p /\ r.stage = stage
      /\ r.read = 0 /\ r.pending = <<>> /\ r.unrouted = 0
      /\ r.accepted = 0 /\ r.created = 0 /\ r.deduped = 0
  BY DEF NoRequest, RequestFields
<1>4. Acceptable(p) => Len(Parse(p)) \in Nat
  BY Parsed
<1>5. /\ stage \in Stage /\ stage \notin {"storing", "accepted", "failed"}
      /\ stage # "rejected" => Acceptable(p)
  BY DEF Stage
<1> HIDE DEF r, stage
<1>6. RequestTyped(s, r)
  BY <1>2, <1>3, <1>4, <1>5, EmptyList DEF RequestTyped
<1>7. upsets' \in 0..MaxUpsets
  BY <1>1 DEF Typed
<1> QED
  BY <1>1, <1>6, <1>7, OneRequest DEF r

(* What a request is when its next alert is read.                          *)
NotRouted(r) == [r EXCEPT !.read = @ + 1, !.unrouted = @ + 1]
WithAlert(r, a) == [r EXCEPT !.read = @ + 1, !.pending = Append(@, a)]
AlertOf(s, rt) ==
    LET r == request[s]
        i == r.read + 1
        a == Parse(r.payload)[i]
    IN  [key |-> GroupKey(rt, a.labels), fingerprint |-> Fingerprint(rt, a.labels),
         status |-> a.status, policy |-> rt.config.policy,
         about |-> About(rt.config, r.payload.means[i].labels),
         means |-> r.payload.means[i].status, from |-> <<s, r.n>>]

(* The three things Route does.                                            *)
LEMMA RouteCases ==
    ASSUME Typed, NEW s \in Sender, Route(s)
    PROVE  /\ UNCHANGED <<table, rows, heard, upsets>>
           /\ request[s].stage = "routing" /\ request[s].n > 0
           /\ \/ /\ request[s].read = Len(Parse(request[s].payload))
                 /\ request' = [request EXCEPT ![s] = [request[s] EXCEPT !.stage = "storing"]]
              \/ /\ request[s].read < Len(Parse(request[s].payload))
                 /\ request' = [request EXCEPT ![s] = NotRouted(request[s])]
              \/ /\ request[s].read < Len(Parse(request[s].payload))
                 /\ \E rt \in Entries :
                        request' = [request EXCEPT ![s] =
                                        WithAlert(request[s], AlertOf(s, rt))]
<1> DEFINE r == request[s]
           i == r.read + 1
           a == Parse(r.payload)[i]
<1>1. /\ UNCHANGED <<table, rows, heard, upsets>> /\ r.stage = "routing"
      /\ RequestTyped(s, r) /\ DOMAIN request = Sender /\ DOMAIN r = RequestFields
  BY DEF Route, Typed, RequestTyped
<1>2. /\ r.n > 0 /\ r.payload \in Payloads[s] /\ Acceptable(r.payload)
      /\ r.read \in Nat /\ r.read <= Len(Parse(r.payload))
  BY <1>1 DEF RequestTyped
<1>3. Len(Parse(r.payload)) \in Nat
  BY <1>2, Parsed
<1>4. CASE i > Len(Parse(r.payload))
  <2>1. request' = [request EXCEPT ![s].stage = "storing"]
    BY <1>4 DEF Route
  <2>2. r.read = Len(Parse(r.payload))
    <3> HIDE DEF r
    <3> QED
      BY <1>2, <1>3, <1>4
  <2> QED
    BY <1>1, <1>2, <2>1, <2>2
<1>5. CASE ~(i > Len(Parse(r.payload)))
  <2>1. r.read < Len(Parse(r.payload))
    <3> HIDE DEF r
    <3> QED
      BY <1>2, <1>3, <1>5
  <2>2. CASE Matching(table, a.labels) = {}
    <3>1. request' = [request EXCEPT ![s].read = r.read + 1, ![s].unrouted = @ + 1]
      BY <1>5, <2>2, Zenon DEF Route
    <3>2. request' = [request EXCEPT ![s] = NotRouted(r)]
      BY <1>1, <3>1 DEF NotRouted, RequestFields
    <3> QED
      BY <1>1, <1>2, <2>1, <3>2
  <2>3. CASE Matching(table, a.labels) # {}
    <3> DEFINE rt == Match(table, a.labels)
               alert == AlertOf(s, rt)
    <3>1. PICK cfg \in Configs : table = Table(cfg)
      BY DEF Typed
    <3>2. rt \in Entries
      BY <2>3, <3>1, MatchIsEntry DEF Entries
    <3>3. request' = [request EXCEPT ![s].read = r.read + 1,
                                     ![s].pending = Append(@, alert)]
      BY <1>5, <2>3, Zenon DEF Route, AlertOf
    <3> HIDE DEF alert
    <3>4. request' = [request EXCEPT ![s] = WithAlert(r, alert)]
      BY <1>1, <3>3 DEF WithAlert, RequestFields
    <3> QED
      BY <1>1, <1>2, <2>1, <3>1, <3>2, <3>4 DEF alert
  <2> QED
    BY <2>2, <2>3
<1> QED
  BY <1>4, <1>5

LEMMA RouteTyped ==
    ASSUME Typed, NEW s \in Sender, Route(s)
    PROVE  Typed'
<1> DEFINE r == request[s]
<1>1. /\ RequestTyped(s, r) /\ r.stage = "routing" /\ r.n > 0
      /\ UNCHANGED <<table, rows>> /\ upsets' \in 0..MaxUpsets
  BY RouteCases DEF Typed
<1>2. /\ DOMAIN r = RequestFields /\ r.payload \in Payloads[s] /\ Acceptable(r.payload)
      /\ r.read \in Nat /\ r.unrouted \in Nat /\ IsList(r.pending)
      /\ r.read = r.unrouted + Len(r.pending) /\ r.accepted = 0
      /\ \A i \in DOMAIN r.pending : r.pending[i].status \in AlertStatus
  BY <1>1 DEF RequestTyped
<1>3. /\ Len(Parse(r.payload)) \in Nat /\ Len(r.pending) \in Nat
      /\ DOMAIN Parse(r.payload) = 1..Len(Parse(r.payload))
      /\ \A i \in DOMAIN Parse(r.payload) : Parse(r.payload)[i].status \in AlertStatus
  BY <1>2, Parsed, ListFacts
<1>4. CASE /\ r.read = Len(Parse(r.payload))
           /\ request' = [request EXCEPT ![s] = [r EXCEPT !.stage = "storing"]]
  <2> DEFINE new == [r EXCEPT !.stage = "storing"]
  <2> HIDE DEF r
  <2>1. /\ DOMAIN new = RequestFields /\ new.stage = "storing"
        /\ new.n = r.n /\ new.payload = r.payload /\ new.read = r.read
        /\ new.pending = r.pending /\ new.unrouted = r.unrouted
        /\ new.accepted = r.accepted /\ new.created = r.created
        /\ new.deduped = r.deduped
    BY <1>2 DEF RequestFields
  <2> HIDE DEF new
  <2>2. RequestTyped(s, new)
    BY <1>1, <1>2, <1>3, <1>4, <2>1 DEF RequestTyped, Stage
  <2> QED
    BY <1>1, <1>4, <2>2, OneRequest DEF new
<1>5. CASE /\ r.read < Len(Parse(r.payload))
           /\ request' = [request EXCEPT ![s] = NotRouted(r)]
  <2> DEFINE new == NotRouted(r)
  <2> HIDE DEF r
  <2>1. /\ DOMAIN new = RequestFields /\ new.stage = r.stage
        /\ new.n = r.n /\ new.payload = r.payload /\ new.read = r.read + 1
        /\ new.pending = r.pending /\ new.unrouted = r.unrouted + 1
        /\ new.accepted = r.accepted /\ new.created = r.created
        /\ new.deduped = r.deduped
    BY <1>2 DEF RequestFields, NotRouted
  <2> HIDE DEF new
  <2>2. RequestTyped(s, new)
    BY <1>1, <1>2, <1>3, <1>5, <2>1 DEF RequestTyped, Stage
  <2> QED
    BY <1>1, <1>5, <2>2, OneRequest DEF new
<1>6. ASSUME r.read < Len(Parse(r.payload)), NEW rt \in Entries,
             request' = [request EXCEPT ![s] = WithAlert(r, AlertOf(s, rt))]
      PROVE  Typed'
  <2> DEFINE alert == AlertOf(s, rt)
             new == WithAlert(r, alert)
  <2>1. alert.status \in AlertStatus
    <3>1. alert.status = Parse(r.payload)[r.read + 1].status
      BY DEF AlertOf
    <3>2. r.read + 1 \in 1..Len(Parse(r.payload))
      <4> HIDE DEF r
      <4> QED
        BY <1>2, <1>3, <1>6
    <3> QED
      BY <1>3, <3>1, <3>2
  <2> HIDE DEF r, alert
  <2>2. /\ DOMAIN new = RequestFields /\ new.stage = r.stage
        /\ new.n = r.n /\ new.payload = r.payload /\ new.read = r.read + 1
        /\ new.pending = Append(r.pending, alert) /\ new.unrouted = r.unrouted
        /\ new.accepted = r.accepted /\ new.created = r.created
        /\ new.deduped = r.deduped
    BY <1>2 DEF RequestFields, WithAlert
  <2>3. /\ IsList(new.pending) /\ Len(new.pending) = Len(r.pending) + 1
        /\ \A i \in DOMAIN new.pending : new.pending[i].status \in AlertStatus
    BY <1>2, <2>1, <2>2, AppendList
  <2> HIDE DEF new
  <2>4. /\ new.read \in Nat /\ new.read <= Len(Parse(r.payload))
        /\ new.read = new.unrouted + Len(new.pending)
        /\ new.accepted = 0 /\ new.accepted <= Len(new.pending)
    BY <1>2, <1>3, <1>6, <2>2, <2>3
  <2>5. /\ new.stage = "routing" /\ new.n # 0 /\ new.payload = r.payload
        /\ new.n \in 0..MaxRequests[s]
        /\ new.created \in Nat /\ new.deduped \in Nat
    BY <1>1, <2>2 DEF RequestTyped
  <2>6. RequestTyped(s, new)
    BY <1>2, <2>2, <2>3, <2>4, <2>5 DEF RequestTyped, Stage
  <2> QED
    BY <1>1, <1>6, <2>6, OneRequest DEF new, alert
<1> QED
  BY <1>4, <1>5, <1>6, RouteCases

(* The next chunk is of the alerts that were routed.                       *)
LEMMA ChunkOfPending ==
    ASSUME Typed, NEW s \in Sender, request[s].accepted < Len(request[s].pending)
    PROVE  LET r == request[s] IN
           /\ IsList(Chunk(r)) /\ Len(Chunk(r)) \in Nat \ {0}
           /\ r.accepted + Len(Chunk(r)) <= Len(r.pending)
           /\ \A i \in DOMAIN Chunk(r) : /\ r.accepted + i \in DOMAIN r.pending
                                         /\ Chunk(r)[i] = r.pending[r.accepted + i]
<1> DEFINE r == request[s]
           n == Smaller(r.accepted + TxChunk, Len(r.pending))
<1>1. IsList(r.pending) /\ r.accepted \in Nat /\ r.accepted < Len(r.pending)
  BY DEF Typed, RequestTyped
<1>2. Len(r.pending) \in Nat
  BY <1>1, ListFacts
<1>3. n \in Nat /\ r.accepted < n /\ n <= Len(r.pending)
  BY <1>1, <1>2, IngestAssumption DEF Smaller
<1>4. Chunk(r) = SubSeq(r.pending, r.accepted + 1, n)
  BY DEF Chunk
<1> DEFINE list == r.pending
           m == r.accepted
           piece == SubSeq(list, m + 1, n)
<1> HIDE DEF n, list, m
<1>5. /\ IsList(piece) /\ Len(piece) = n - m
      /\ \A i \in DOMAIN piece : m + i \in DOMAIN list /\ piece[i] = list[m + i]
  <2>1. IsList(list) /\ m \in Nat /\ n \in Nat /\ m < n /\ n <= Len(list)
    BY <1>1, <1>3 DEF list, m
  <2> QED
    BY <2>1, PieceOfList
<1>6. Len(piece) \in Nat \ {0} /\ m + Len(piece) <= Len(list)
  <2> HIDE DEF piece
  <2> QED
    BY <1>1, <1>2, <1>3, <1>5 DEF list, m
<1>7. piece = Chunk(r)
  BY <1>4 DEF list, m
<1> HIDE DEF piece
<1> QED
  BY <1>5, <1>6, <1>7 DEF list, m

(* What StoreChunk makes of the request.                                   *)
Counted(r, db) ==
    [r EXCEPT !.accepted = @ + Len(Chunk(r)), !.created = @ + db.created,
              !.deduped = @ + db.deduped]

LEMMA StoreCase ==
    ASSUME Typed, NEW s \in Sender, StoreChunk(s)
    PROVE  LET r == request[s]
               new == Counted(r, Applied(Chunk(r)))
           IN  /\ request' = [request EXCEPT ![s] = new]
               /\ DOMAIN new = RequestFields /\ new.stage = r.stage
               /\ new.n = r.n /\ new.payload = r.payload /\ new.read = r.read
               /\ new.pending = r.pending /\ new.unrouted = r.unrouted
               /\ new.accepted = r.accepted + Len(Chunk(r))
               /\ new.created = r.created + Applied(Chunk(r)).created
               /\ new.deduped = r.deduped + Applied(Chunk(r)).deduped
<1> DEFINE r == request[s]
           db == Applied(Chunk(r))
           m == Len(Chunk(r))
<1>1. request' = [request EXCEPT ![s].accepted = @ + m, ![s].created = @ + db.created,
                                 ![s].deduped = @ + db.deduped]
  BY DEF StoreChunk
<1>2. DOMAIN r = RequestFields /\ DOMAIN request = Sender
  BY DEF Typed, RequestTyped
<1> HIDE DEF m, db
<1>3. request' = [request EXCEPT ![s] = [r EXCEPT !.accepted = @ + m,
                                !.created = @ + db.created, !.deduped = @ + db.deduped]]
  BY <1>1, <1>2 DEF RequestFields
<1> HIDE DEF r
<1> DEFINE new == [r EXCEPT !.accepted = @ + m, !.created = @ + db.created,
                            !.deduped = @ + db.deduped]
<1>4. /\ DOMAIN new = RequestFields /\ new.stage = r.stage
      /\ new.n = r.n /\ new.payload = r.payload /\ new.read = r.read
      /\ new.pending = r.pending /\ new.unrouted = r.unrouted
      /\ new.accepted = r.accepted + m
      /\ new.created = r.created + db.created
      /\ new.deduped = r.deduped + db.deduped
  BY <1>2 DEF RequestFields
<1>5. new = Counted(r, db)
  BY DEF Counted, m
<1> HIDE DEF new
<1> QED
  BY <1>3, <1>4, <1>5 DEF r, db, m, new

LEMMA StoreTyped ==
    ASSUME Typed, NEW s \in Sender, StoreChunk(s)
    PROVE  /\ Typed'
           /\ DbTyped(Applied(Chunk(request[s])))
<1> DEFINE r == request[s]
           db == Applied(Chunk(r))
           new == Counted(r, db)
<1>1. /\ r.stage = "storing" /\ r.accepted < Len(r.pending)
      /\ alerts' = db.alerts /\ incidents' = db.incidents
      /\ UNCHANGED <<table, heard, upsets>>
  BY DEF StoreChunk
<1>2. /\ IsList(Chunk(r)) /\ Len(Chunk(r)) \in Nat \ {0}
      /\ r.accepted + Len(Chunk(r)) <= Len(r.pending)
      /\ \A i \in DOMAIN Chunk(r) : /\ r.accepted + i \in DOMAIN r.pending
                                    /\ Chunk(r)[i] = r.pending[r.accepted + i]
  BY <1>1, ChunkOfPending
<1>3. RequestTyped(s, r)
  BY DEF Typed
<1>4. DbTyped(db)
  <2>1. \A i \in DOMAIN Chunk(r) : Chunk(r)[i].status \in AlertStatus
    BY <1>2, <1>3 DEF RequestTyped
  <2>2. TablesTyped(alerts, incidents)
    BY DEF Typed
  <2>3. Len(Chunk(r)) \in 0..Len(Chunk(r))
    BY <1>2
  <2> HIDE DEF r
  <2> QED
    BY <1>2, <2>1, <2>2, <2>3, AppliedTyped
<1>5. /\ request' = [request EXCEPT ![s] = new]
      /\ DOMAIN new = RequestFields /\ new.stage = r.stage
      /\ new.n = r.n /\ new.payload = r.payload /\ new.read = r.read
      /\ new.pending = r.pending /\ new.unrouted = r.unrouted
      /\ new.accepted = r.accepted + Len(Chunk(r))
      /\ new.created = r.created + db.created
      /\ new.deduped = r.deduped + db.deduped
  BY StoreCase
<1>6. db.created \in Nat /\ db.deduped \in Nat
  BY <1>4 DEF DbTyped
<1>7. RequestTyped(s, new)
  <2>1. Len(Chunk(r)) \in Nat /\ r.accepted + Len(Chunk(r)) <= Len(r.pending)
    BY <1>2
  <2>2. /\ r.accepted \in Nat /\ r.created \in Nat /\ r.deduped \in Nat
        /\ r.n # 0 \/ r.stage = "accepted"
    BY <1>3 DEF RequestTyped
  <2> DEFINE m == Len(Chunk(r))
  <2> HIDE DEF r, db, new, m
  <2>3. /\ new.accepted \in Nat /\ new.accepted <= Len(new.pending)
        /\ new.created \in Nat /\ new.deduped \in Nat
    BY <1>5, <1>6, <2>1, <2>2 DEF m
  <2>4. new.stage = "storing" /\ r.stage = "storing"
    BY <1>1, <1>5
  <2>5. /\ DOMAIN new = RequestFields /\ new.n = r.n /\ new.payload = r.payload
        /\ new.read = r.read /\ new.pending = r.pending /\ new.unrouted = r.unrouted
    BY <1>5
  <2> QED
    BY <1>3, <2>3, <2>4, <2>5 DEF RequestTyped
<1>8. \A t \in Sender : RequestTyped(t, request'[t])
  <2> HIDE DEF new
  <2> QED
    BY <1>5, <1>7 DEF Typed
<1>9. TablesTyped(alerts', incidents')
  BY <1>1, <1>4 DEF DbTyped
<1> QED
  BY <1>1, <1>4, <1>5, <1>8, <1>9 DEF Typed

LEMMA UpsetBounded ==
    ASSUME Typed, Upset
    PROVE  upsets' \in 0..MaxUpsets
BY IngestAssumption DEF Typed, Upset

(* A request that has an answer, or an error, is otherwise what it was.    *)
LEMMA StageTyped ==
    ASSUME Typed, NEW s \in Sender, NEW stage \in {"accepted", "failed"},
           request[s].stage = "storing",
           stage = "accepted" => request[s].accepted = Len(request[s].pending),
           request' = [request EXCEPT ![s].stage = stage],
           UNCHANGED <<table, rows>>, upsets' \in 0..MaxUpsets
    PROVE  Typed'
<1> DEFINE r == request[s]
           new == [r EXCEPT !.stage = stage]
<1>1. RequestTyped(s, r)
  BY DEF Typed
<1>2. request' = [request EXCEPT ![s] = new]
  OBVIOUS
<1> HIDE DEF r
<1>3. /\ DOMAIN new = RequestFields /\ new.stage = stage
      /\ new.n = r.n /\ new.payload = r.payload /\ new.read = r.read
      /\ new.pending = r.pending /\ new.unrouted = r.unrouted
      /\ new.accepted = r.accepted /\ new.created = r.created
      /\ new.deduped = r.deduped
  BY <1>1 DEF RequestTyped, RequestFields
<1> HIDE DEF new
<1>4. RequestTyped(s, new)
  BY <1>1, <1>3 DEF RequestTyped, Stage, r
<1> QED
  BY <1>2, <1>4, OneRequest

LEMMA AnswerTyped ==
    ASSUME Typed, NEW s \in Sender, ChunkFails(s) \/ Accept(s)
    PROVE  Typed'
<1>1. CASE ChunkFails(s)
  <2>1. upsets' \in 0..MaxUpsets
    BY <1>1, UpsetBounded DEF ChunkFails, Fails
  <2> QED
    BY <1>1, <2>1, StageTyped DEF ChunkFails, Fails
<1>2. CASE Accept(s)
  <2>1. upsets' \in 0..MaxUpsets
    BY <1>2 DEF Accept, Typed
  <2> QED
    BY <1>2, <2>1, StageTyped DEF Accept
<1> QED
  BY <1>1, <1>2

(* What a step that ends an incident, or may, makes of it.                 *)
Ends(id) == Close(id) \/ ResolveByHand(id) \/ Expire(id)

ClosedAs(inc, open, closing, byHand, expired) ==
    [inc EXCEPT !.closing = closing, !.open = open, !.byHand = byHand,
                !.expired = expired]

LEMMA CloseCase ==
    ASSUME TablesTyped(alerts, incidents), NEW id \in DOMAIN incidents,
           Ends(id)
    PROVE  /\ UNCHANGED <<table, request, alerts, heard>>
           /\ incidents[id].open
           /\ \E open, closing, byHand, expired :
                /\ open \in BOOLEAN /\ closing \in BOOLEAN
                /\ incidents' = [incidents EXCEPT ![id] =
                        ClosedAs(incidents[id], open, closing, byHand, expired)]
                /\ \/ open = ~AllAlertsResolved(alerts, id)
                   \/ open = FALSE /\ (byHand = TRUE \/ expired = TRUE)
<1> DEFINE inc == incidents[id]
<1>1. DOMAIN inc = IncidentFields /\ inc.closing \in BOOLEAN
  BY DEF TablesTyped
<1>2. CASE Close(id)
  <2> DEFINE open == ~AllAlertsResolved(alerts, id)
  <2>1. open \in BOOLEAN
    BY DEF AllAlertsResolved
  <2>2. incidents' = [incidents EXCEPT ![id].closing = FALSE, ![id].open = open]
    BY <1>2 DEF Close
  <2>3. open = ~AllAlertsResolved(alerts, id)
    OBVIOUS
  <2> HIDE DEF open
  <2>4. incidents' = [incidents EXCEPT ![id] =
                        ClosedAs(inc, open, FALSE, inc.byHand, inc.expired)]
    BY <1>1, <2>2 DEF ClosedAs, IncidentFields
  <2>5. inc.open /\ UNCHANGED <<table, request, alerts, heard>> /\ FALSE \in BOOLEAN
    BY <1>2 DEF Close
  <2> HIDE DEF inc
  <2> QED
    BY <2>1, <2>3, <2>4, <2>5 DEF inc
<1>3. CASE ResolveByHand(id)
  <2>1. incidents' = [incidents EXCEPT ![id].open = FALSE, ![id].closing = FALSE,
                                       ![id].byHand = TRUE]
    BY <1>3 DEF ResolveByHand
  <2>2. incidents' = [incidents EXCEPT ![id] = ClosedAs(inc, FALSE, FALSE, TRUE, inc.expired)]
    BY <1>1, <2>1 DEF ClosedAs, IncidentFields
  <2>3. inc.open /\ UNCHANGED <<table, request, alerts, heard>> /\ FALSE \in BOOLEAN
    BY <1>3 DEF ResolveByHand
  <2> HIDE DEF inc
  <2> QED
    BY <2>2, <2>3 DEF inc
<1>4. CASE Expire(id)
  <2>1. incidents' = [incidents EXCEPT ![id].open = FALSE, ![id].expired = TRUE]
    BY <1>4 DEF Expire
  <2>2. incidents' = [incidents EXCEPT ![id] =
                        ClosedAs(inc, FALSE, inc.closing, inc.byHand, TRUE)]
    BY <1>1, <2>1 DEF ClosedAs, IncidentFields
  <2> QED
    BY <1>1, <1>4, <2>2 DEF Expire
<1> QED
  BY <1>2, <1>3, <1>4 DEF Ends

LEMMA CloseTyped ==
    ASSUME Typed, NEW id \in DOMAIN incidents, Ends(id)
    PROVE  Typed'
<1> DEFINE inc == incidents[id]
<1>1. /\ TablesTyped(alerts, incidents) /\ IsList(incidents)
      /\ DOMAIN inc = IncidentFields
      /\ inc.alertCount \in Nat \ {0} /\ inc.dedupCount \in Nat
  BY DEF Typed, TablesTyped
<1>2. UNCHANGED <<table, request, alerts, heard>>
  BY <1>1, CloseCase
<1>3. PICK open, closing, byHand, expired :
        /\ open \in BOOLEAN /\ closing \in BOOLEAN
        /\ incidents' = [incidents EXCEPT ![id] = ClosedAs(inc, open, closing, byHand, expired)]
  BY <1>1, CloseCase
<1> HIDE DEF inc
<1> DEFINE new == ClosedAs(inc, open, closing, byHand, expired)
<1>4. /\ DOMAIN new = IncidentFields /\ new.open \in BOOLEAN /\ new.closing \in BOOLEAN
      /\ new.alertCount \in Nat \ {0} /\ new.dedupCount \in Nat
  BY <1>1, <1>3 DEF ClosedAs, IncidentFields
<1> HIDE DEF new
<1>5. incidents' = [incidents EXCEPT ![id] = new]
  BY <1>3 DEF new
<1>6. IsList(incidents') /\ Len(incidents') = Len(incidents)
  BY <1>1, <1>5, ReplaceInList
<1>7. TablesTyped(alerts', incidents')
  BY <1>1, <1>2, <1>4, <1>5, <1>6 DEF TablesTyped
<1>8. upsets' \in 0..MaxUpsets
  <2>1. CASE Close(id)
    BY <2>1 DEF Close, Typed
  <2>2. CASE ResolveByHand(id)
    BY <2>2, UpsetBounded DEF ResolveByHand
  <2>3. CASE Expire(id)
    BY <2>3, UpsetBounded DEF Expire
  <2> QED
    BY <2>1, <2>2, <2>3 DEF Ends
<1> QED
  BY <1>2, <1>7, <1>8 DEF Typed

LEMMA NextTyped == Typed /\ [Next]_vars => Typed'
<1> SUFFICES ASSUME Typed, [Next]_vars PROVE Typed'
  OBVIOUS
<1>1. ASSUME NEW s \in Sender, NEW p \in Payloads[s], Send(s, p) PROVE Typed'
  BY <1>1, SendTyped
<1>2. ASSUME NEW s \in Sender, Route(s) PROVE Typed'
  BY <1>2, RouteTyped
<1>3. ASSUME NEW s \in Sender, StoreChunk(s) PROVE Typed'
  BY <1>3, StoreTyped
<1>4. ASSUME NEW s \in Sender, ChunkFails(s) \/ Accept(s) PROVE Typed'
  BY <1>4, AnswerTyped
<1>5. ASSUME NEW id \in DOMAIN incidents, Ends(id) PROVE Typed'
  BY <1>5, CloseTyped
<1>6. ASSUME NEW cfg \in Configs, Reload(cfg) PROVE Typed'
  <2>1. upsets' \in 0..MaxUpsets
    BY <1>6, UpsetBounded DEF Reload
  <2> QED
    BY <1>6, <2>1 DEF Reload, Typed, rows
<1>7. CASE UNCHANGED vars
  BY <1>7 DEF Typed, vars, rows
<1> QED
  BY <1>1, <1>2, <1>3, <1>4, <1>5, <1>6, <1>7 DEF Next, Ends

THEOREM Invariance == Spec => []Typed
<1>1. Init => Typed
  BY InitTyped
<1>2. Typed /\ [Next]_vars => Typed'
  BY NextTyped
<1> QED
  BY <1>1, <1>2, PTL DEF Spec

(* Type correctness: a request is never counted past what was routed, and  *)
(* a row is of an incident there is.                                       *)
THEOREM TypeCorrect == Spec => []TypeOK
<1>1. Typed => TypeOK
  <2> SUFFICES ASSUME Typed PROVE TypeOK
    OBVIOUS
  <2>1. ASSUME NEW s \in Sender
        PROVE  LET r == request[s] IN
               /\ r.read + r.unrouted <= 2 * MaxAlerts
               /\ r.accepted \in 0..Len(r.pending)
    <3> DEFINE r == request[s]
    <3>1. /\ RequestTyped(s, r) /\ MaxAlerts \in Nat
          /\ IsList(r.pending) /\ r.read \in Nat /\ r.unrouted \in Nat
          /\ r.accepted \in Nat /\ r.accepted <= Len(r.pending)
          /\ r.read = r.unrouted + Len(r.pending)
      BY IngestAssumption DEF Typed, RequestTyped
    <3>2. Len(r.pending) \in Nat
      BY <3>1, ListFacts
    <3>3. r.read <= MaxAlerts
      <4>1. CASE r.n = 0 \/ r.stage = "rejected"
        BY <3>1, <4>1 DEF RequestTyped
      <4>2. CASE r.n # 0 /\ r.stage # "rejected"
        <5>1. /\ r.payload \in Payloads[s] /\ Acceptable(r.payload)
              /\ r.read <= Len(Parse(r.payload))
          BY <3>1, <4>2 DEF RequestTyped
        <5>2. Len(Parse(r.payload)) \in Nat /\ Len(Parse(r.payload)) <= MaxAlerts
          BY <5>1, Parsed
        <5> HIDE DEF r
        <5> QED
          BY <3>1, <5>1, <5>2
      <4> QED
        BY <4>1, <4>2
    <3> HIDE DEF r
    <3>4. r.read + r.unrouted <= 2 * MaxAlerts /\ r.accepted \in 0..Len(r.pending)
      BY <3>1, <3>2, <3>3
    <3> QED
      BY <3>4 DEF r
  <2> QED
    BY <2>1 DEF Typed, TypeOK, RequestTyped, TablesTyped
<1> QED
  BY <1>1, Invariance, PTL

-----------------------------------------------------------------------------
(* The inductive invariant of what is stored, on top of the types: the     *)
(* tables are true, what a request holds is routed, and it counts its rows *)
(* and incidents.  Of a request that is still to come there are none.      *)

PendingTrue(s, r) ==
    \A i \in DOMAIN r.pending :
        Routed(r.pending[i]) /\ r.pending[i].from = <<s, r.n>>

StoredTrue(s, r, rowsOf, incs) ==
    /\ r.accepted = Cardinality(FromOf(rowsOf, <<s, r.n>>))
    /\ r.created = Cardinality(FromOf(incs, <<s, r.n>>))
    /\ \A m \in Nat : m > r.n =>
            /\ Cardinality(FromOf(rowsOf, <<s, m>>)) = 0
            /\ Cardinality(FromOf(incs, <<s, m>>)) = 0

Truth ==
    /\ TablesTrue(alerts, incidents)
    /\ \A s \in Sender : /\ PendingTrue(s, request[s])
                         /\ StoredTrue(s, request[s], alerts, incidents)

LEMMA InitTrue == Init => Truth
<1> SUFFICES ASSUME Init PROVE Truth
  OBVIOUS
<1>1. alerts = <<>> /\ incidents = <<>> /\ DOMAIN <<>> = {}
  BY EmptyList DEF Init
<1>2. TablesTrue(alerts, incidents)
  BY <1>1 DEF TablesTrue, RowsTrue, OnePerKey
<1>3. ASSUME NEW s \in Sender
      PROVE  PendingTrue(s, request[s]) /\ StoredTrue(s, request[s], alerts, incidents)
  <2>1. /\ request[s].pending = <<>> /\ request[s].accepted = 0
        /\ request[s].created = 0
    BY DEF Init, NoRequest
  <2>2. \A f : Cardinality(FromOf(alerts, f)) = 0 /\ Cardinality(FromOf(incidents, f)) = 0
    <3>1. \A f : FromOf(alerts, f) = {} /\ FromOf(incidents, f) = {}
      BY <1>1 DEF FromOf
    <3> QED
      BY <3>1, FS_EmptySet
  <2> QED
    BY <1>1, <2>1, <2>2 DEF PendingTrue, StoredTrue
<1> QED
  BY <1>2, <1>3 DEF Truth

(* An alert that is routed has the key of its group, and the fingerprint of*)
(* the alert it is.                                                        *)
LEMMA AlertRouted ==
    ASSUME ReadAsMeant, Typed, NEW s \in Sender, NEW rt \in Entries,
           request[s].stage = "routing", request[s].n > 0,
           request[s].read < Len(Parse(request[s].payload))
    PROVE  Routed(AlertOf(s, rt)) /\ AlertOf(s, rt).from = <<s, request[s].n>>
<1> DEFINE r == request[s]
           p == r.payload
           i == r.read + 1
           labels == p.means[i].labels
           alert == AlertOf(s, rt)
<1>1. p \in Payloads[s] /\ Acceptable(p) /\ r.read \in Nat
  BY DEF Typed, RequestTyped
<1>2. i \in DOMAIN Parse(p)
  <2>1. Len(Parse(p)) \in Nat /\ DOMAIN Parse(p) = 1..Len(Parse(p))
    BY <1>1, Parsed
  <2> QED
    BY <1>1, <2>1
<1>3. Parse(p)[i].labels = labels /\ Parse(p)[i].status \in AlertStatus
  BY <1>1, <1>2, Parsed DEF ReadAsMeant
<1>4. labels \in Labels
  BY <1>1, <1>2 DEF Labels
<1>5. /\ alert.key = GroupKey(rt, Parse(p)[i].labels)
      /\ alert.fingerprint = Fingerprint(rt, Parse(p)[i].labels)
      /\ alert.status = Parse(p)[i].status
      /\ alert.about = About(rt.config, labels)
      /\ alert.from = <<s, r.n>>
  BY DEF AlertOf
<1>6. /\ alert.about.group = Group(rt.config, labels)
      /\ alert.about.alert = Named(rt.config, labels)
  BY <1>5 DEF About
<1> HIDE DEF labels
<1>7. Fingerprint(rt, labels) = Named(rt.config, labels)
  <2>1. {k \in DOMAIN labels : Lower[k] \notin {Lower[v] : v \in rt.config.volatile}} =
        {k \in DOMAIN labels : ~\E v \in rt.config.volatile : Lower[v] = Lower[k]}
    OBVIOUS
  <2> QED
    BY <2>1 DEF Fingerprint, Named
<1>8. Keyed(alert.key, alert.about.group)
  BY <1>3, <1>4, <1>5, <1>6 DEF Keyed
<1> QED
  BY <1>3, <1>5, <1>6, <1>7, <1>8 DEF Routed

(* A step of a request that stores nothing.                                *)
LEMMA NothingStored ==
    ASSUME Typed, Truth, NEW s \in Sender, NEW r, request' = [request EXCEPT ![s] = r],
           UNCHANGED rows, PendingTrue(s, r), StoredTrue(s, r, alerts, incidents)
    PROVE  Truth'
<1>1. /\ request'[s] = r /\ \A t \in Sender : t # s => request'[t] = request[t]
      /\ alerts' = alerts /\ incidents' = incidents
  BY DEF Typed, rows
<1> QED
  BY <1>1 DEF Truth

LEMMA SendTrue ==
    ASSUME Typed, Truth, NEW s \in Sender, NEW p \in Payloads[s], Send(s, p)
    PROVE  Truth'
<1> DEFINE n == request[s].n + 1
           stage == IF Acceptable(p) THEN "routing" ELSE "rejected"
           r == [NoRequest EXCEPT !.n = n, !.payload = p, !.stage = stage]
<1>1. request' = [request EXCEPT ![s] = r] /\ UNCHANGED rows
  BY DEF Send
<1>2. request[s].n \in Nat
  BY IngestAssumption DEF Typed, RequestTyped
<1>3. n \in Nat /\ n > request[s].n /\ \A m \in Nat : m > n => m > request[s].n
  BY <1>2
<1> HIDE DEF n, stage
<1>4. r.n = n /\ r.pending = <<>> /\ r.accepted = 0 /\ r.created = 0
  BY DEF NoRequest
<1> HIDE DEF r
<1>5. PendingTrue(s, r)
  BY <1>4, EmptyList DEF PendingTrue
<1>6. StoredTrue(s, r, alerts, incidents)
  BY <1>3, <1>4 DEF Truth, StoredTrue
<1> QED
  BY <1>1, <1>5, <1>6, NothingStored

LEMMA RouteTrue ==
    ASSUME ReadAsMeant, Typed, Truth, NEW s \in Sender, Route(s)
    PROVE  Truth'
<1> DEFINE r == request[s]
<1>1. /\ UNCHANGED rows /\ r.stage = "routing" /\ r.n > 0
      /\ DOMAIN r = RequestFields /\ IsList(r.pending)
      /\ PendingTrue(s, r) /\ StoredTrue(s, r, alerts, incidents)
  BY RouteCases DEF Typed, RequestTyped, Truth
<1>2. ASSUME NEW new, request' = [request EXCEPT ![s] = new],
             new.n = r.n, new.pending = r.pending,
             new.accepted = r.accepted, new.created = r.created
      PROVE  Truth'
  <2> HIDE DEF r
  <2>1. PendingTrue(s, new) /\ StoredTrue(s, new, alerts, incidents)
    BY <1>1, <1>2 DEF PendingTrue, StoredTrue
  <2> QED
    BY <1>1, <1>2, <2>1, NothingStored
<1>3. CASE request' = [request EXCEPT ![s] = [r EXCEPT !.stage = "storing"]]
  <2> DEFINE new == [r EXCEPT !.stage = "storing"]
  <2> HIDE DEF r
  <2>1. /\ new.n = r.n /\ new.pending = r.pending
        /\ new.accepted = r.accepted /\ new.created = r.created
    BY <1>1 DEF RequestFields
  <2> QED
    BY <1>2, <1>3, <2>1
<1>4. CASE request' = [request EXCEPT ![s] = NotRouted(r)]
  <2> DEFINE new == NotRouted(r)
  <2> HIDE DEF r
  <2>1. /\ new.n = r.n /\ new.pending = r.pending
        /\ new.accepted = r.accepted /\ new.created = r.created
    BY <1>1 DEF RequestFields, NotRouted
  <2> QED
    BY <1>2, <1>4, <2>1
<1>5. ASSUME r.read < Len(Parse(r.payload)), NEW rt \in Entries,
             request' = [request EXCEPT ![s] = WithAlert(r, AlertOf(s, rt))]
      PROVE  Truth'
  <2> DEFINE alert == AlertOf(s, rt)
             new == WithAlert(r, alert)
  <2>1. Routed(alert) /\ alert.from = <<s, r.n>>
    BY <1>1, <1>5, AlertRouted
  <2> HIDE DEF alert, r
  <2>2. /\ new.n = r.n /\ new.pending = Append(r.pending, alert)
        /\ new.accepted = r.accepted /\ new.created = r.created
    BY <1>1 DEF RequestFields, WithAlert
  <2> HIDE DEF new
  <2>3. /\ DOMAIN new.pending = DOMAIN r.pending \cup {Len(r.pending) + 1}
        /\ \A i \in DOMAIN r.pending : new.pending[i] = r.pending[i]
        /\ new.pending[Len(r.pending) + 1] = alert
    BY <1>1, <2>2, AppendList
  <2>4. PendingTrue(s, new)
    BY <1>1, <2>1, <2>2, <2>3 DEF PendingTrue
  <2>5. StoredTrue(s, new, alerts, incidents)
    BY <1>1, <2>2 DEF StoredTrue
  <2> QED
    BY <1>1, <1>5, <2>4, <2>5, NothingStored DEF new, alert
<1> QED
  BY <1>3, <1>4, <1>5, RouteCases

(* The chunk a request stores is counted for the request and for no other. *)
LEMMA StoreTrue ==
    ASSUME Typed, Truth, NEW s \in Sender, StoreChunk(s)
    PROVE  Truth'
<1> DEFINE r == request[s]
           db == Applied(Chunk(r))
           new == Counted(r, db)
           f == <<s, r.n>>
<1>1. /\ r.accepted < Len(r.pending)
      /\ alerts' = db.alerts /\ incidents' = db.incidents
  BY DEF StoreChunk
<1>2. /\ IsList(Chunk(r)) /\ Len(Chunk(r)) \in Nat
      /\ \A i \in DOMAIN Chunk(r) : /\ r.accepted + i \in DOMAIN r.pending
                                    /\ Chunk(r)[i] = r.pending[r.accepted + i]
  BY <1>1, ChunkOfPending
<1>3. \A i \in DOMAIN Chunk(r) : Routed(Chunk(r)[i]) /\ Chunk(r)[i].from = f
  BY <1>2 DEF Truth, PendingTrue
<1>4. TablesTyped(alerts, incidents) /\ TablesTrue(alerts, incidents) /\ DbTyped(db)
  BY StoreTyped DEF Typed, Truth
<1>5. /\ TablesTrue(db.alerts, db.incidents)
      /\ \A g : /\ Cardinality(FromOf(db.alerts, g)) =
                       Cardinality(FromOf(alerts, g))
                           + (IF f = g THEN Len(Chunk(r)) ELSE 0)
                /\ Cardinality(FromOf(db.incidents, g)) =
                       Cardinality(FromOf(incidents, g))
                           + (IF f = g THEN db.created ELSE 0)
  <2> HIDE DEF r, f
  <2> QED
    BY <1>2, <1>3, <1>4, AppliedTrue
<1>6. /\ request' = [request EXCEPT ![s] = new]
      /\ new.n = r.n /\ new.pending = r.pending
      /\ new.accepted = r.accepted + Len(Chunk(r))
      /\ new.created = r.created + db.created
  BY StoreCase
<1>7. /\ request'[s] = new /\ \A t \in Sender : t # s => request'[t] = request[t]
  BY <1>6 DEF Typed
<1>8. PendingTrue(s, r) /\ StoredTrue(s, r, alerts, incidents)
  BY DEF Truth
<1>9. \A g : /\ Cardinality(FromOf(alerts, g)) \in Nat
             /\ Cardinality(FromOf(incidents, g)) \in Nat
  BY <1>4, FromAdded DEF TablesTyped
<1>10. r.n \in Nat
  BY IngestAssumption DEF Typed, RequestTyped
<1> HIDE DEF new, db
<1>11. PendingTrue(s, new)
  BY <1>6, <1>8 DEF PendingTrue
<1>12. StoredTrue(s, new, db.alerts, db.incidents)
  <2>1. ASSUME NEW m \in Nat, m > new.n
        PROVE  /\ Cardinality(FromOf(db.alerts, <<s, m>>)) = 0
               /\ Cardinality(FromOf(db.incidents, <<s, m>>)) = 0
    <3>1. f # <<s, m>>
      BY <1>6, <1>10, <2>1
    <3>2. /\ Cardinality(FromOf(alerts, <<s, m>>)) = 0
          /\ Cardinality(FromOf(incidents, <<s, m>>)) = 0
      BY <1>6, <1>8, <2>1 DEF StoredTrue
    <3> QED
      BY <1>5, <3>1, <3>2
  <2>2. /\ new.accepted = Cardinality(FromOf(db.alerts, <<s, new.n>>))
        /\ new.created = Cardinality(FromOf(db.incidents, <<s, new.n>>))
    BY <1>5, <1>6, <1>8 DEF StoredTrue
  <2> QED
    BY <2>1, <2>2 DEF StoredTrue
<1>13. ASSUME NEW t \in Sender, t # s
       PROVE  StoredTrue(t, request[t], db.alerts, db.incidents)
  <2>1. \A m : f # <<t, m>>
    BY <1>13
  <2>2. \A m : /\ Cardinality(FromOf(db.alerts, <<t, m>>)) =
                      Cardinality(FromOf(alerts, <<t, m>>))
               /\ Cardinality(FromOf(db.incidents, <<t, m>>)) =
                      Cardinality(FromOf(incidents, <<t, m>>))
    BY <1>5, <1>9, <2>1
  <2>3. StoredTrue(t, request[t], alerts, incidents)
    BY DEF Truth
  <2> QED
    BY <2>2, <2>3 DEF StoredTrue
<1>14. \A t \in Sender : /\ PendingTrue(t, request'[t])
                         /\ StoredTrue(t, request'[t], alerts', incidents')
  BY <1>1, <1>7, <1>11, <1>12, <1>13 DEF Truth
<1> QED
  BY <1>1, <1>5, <1>14 DEF Truth

LEMMA AnswerTrue ==
    ASSUME Typed, Truth, NEW s \in Sender, ChunkFails(s) \/ Accept(s)
    PROVE  Truth'
<1> DEFINE r == request[s]
<1>1. /\ DOMAIN r = RequestFields
      /\ PendingTrue(s, r) /\ StoredTrue(s, r, alerts, incidents)
  BY DEF Typed, RequestTyped, Truth
<1>2. PICK stage : request' = [request EXCEPT ![s].stage = stage] /\ UNCHANGED rows
  <2>1. CASE ChunkFails(s)
    BY <2>1 DEF ChunkFails, Fails
  <2>2. CASE Accept(s)
    BY <2>2 DEF Accept
  <2> QED
    BY <2>1, <2>2
<1> DEFINE new == [r EXCEPT !.stage = stage]
<1>3. request' = [request EXCEPT ![s] = new]
  BY <1>2
<1> HIDE DEF r
<1>4. /\ new.n = r.n /\ new.pending = r.pending
      /\ new.accepted = r.accepted /\ new.created = r.created
  BY <1>1 DEF RequestFields
<1> HIDE DEF new
<1>5. PendingTrue(s, new) /\ StoredTrue(s, new, alerts, incidents)
  BY <1>1, <1>4 DEF PendingTrue, StoredTrue
<1> QED
  BY <1>2, <1>3, <1>5, NothingStored

(* An incident that closes stays what it was, and opens no other.          *)
LEMMA CloseTrue ==
    ASSUME Typed, Truth, NEW id \in DOMAIN incidents, Ends(id)
    PROVE  Truth'
<1> DEFINE inc == incidents[id]
<1>1. TablesTyped(alerts, incidents) /\ DOMAIN inc = IncidentFields
  BY DEF Typed, TablesTyped
<1>2. UNCHANGED <<table, request, alerts, heard>> /\ inc.open
  BY <1>1, CloseCase
<1>3. PICK open, closing, byHand, expired :
        /\ open \in BOOLEAN /\ closing \in BOOLEAN
        /\ incidents' = [incidents EXCEPT ![id] = ClosedAs(inc, open, closing, byHand, expired)]
  BY <1>1, CloseCase
<1> HIDE DEF inc
<1> DEFINE new == ClosedAs(inc, open, closing, byHand, expired)
<1>4. /\ new.key = inc.key /\ new.group = inc.group /\ new.from = inc.from
      /\ new.alertCount = inc.alertCount /\ new.dedupCount = inc.dedupCount
  BY <1>1 DEF ClosedAs, IncidentFields
<1> HIDE DEF new
<1>5. incidents' = [incidents EXCEPT ![id] = new]
  BY <1>3 DEF new
<1>6. /\ DOMAIN incidents' = DOMAIN incidents
      /\ \A k \in DOMAIN incidents :
            /\ incidents'[k].key = incidents[k].key
            /\ incidents'[k].group = incidents[k].group
            /\ incidents'[k].from = incidents[k].from
            /\ incidents'[k].alertCount = incidents[k].alertCount
            /\ incidents'[k].dedupCount = incidents[k].dedupCount
            /\ incidents'[k].open => incidents[k].open
  BY <1>2, <1>4, <1>5 DEF inc
<1>7. TablesTrue(alerts', incidents')
  <2>1. RowsTrue(alerts, incidents')
    <3>1. \A n \in DOMAIN alerts :
            alerts[n].incident # 0 => alerts[n].incident \in DOMAIN incidents
      <4>1. IsList(incidents) /\ \A n \in DOMAIN alerts : alerts[n].incident \in 0..Len(incidents)
        BY <1>1 DEF TablesTyped
      <4>2. Len(incidents) \in Nat /\ DOMAIN incidents = 1..Len(incidents)
        BY <4>1, ListFacts
      <4> QED
        BY <4>1, <4>2
    <3> QED
      BY <1>6, <3>1 DEF Truth, TablesTrue, RowsTrue
  <2>2. \A k \in DOMAIN incidents' : IncidentTrue(alerts, incidents'[k], k)
    BY <1>6 DEF Truth, TablesTrue, IncidentTrue
  <2>3. OnePerKey(incidents')
    BY <1>6 DEF Truth, TablesTrue, OnePerKey
  <2> QED
    BY <1>2, <2>1, <2>2, <2>3 DEF TablesTrue
<1>8. \A f : FromOf(incidents', f) = FromOf(incidents, f)
  BY <1>6 DEF FromOf
<1> QED
  BY <1>2, <1>7, <1>8 DEF Truth, StoredTrue

LEMMA NextTrue ==
    ASSUME ReadAsMeant, Typed, Truth, [Next]_vars
    PROVE  Truth'
<1>1. ASSUME NEW s \in Sender, NEW p \in Payloads[s], Send(s, p) PROVE Truth'
  BY <1>1, SendTrue
<1>2. ASSUME NEW s \in Sender, Route(s) PROVE Truth'
  BY <1>2, RouteTrue
<1>3. ASSUME NEW s \in Sender, StoreChunk(s) PROVE Truth'
  BY <1>3, StoreTrue
<1>4. ASSUME NEW s \in Sender, ChunkFails(s) \/ Accept(s) PROVE Truth'
  BY <1>4, AnswerTrue
<1>5. ASSUME NEW id \in DOMAIN incidents, Ends(id) PROVE Truth'
  BY <1>5, CloseTrue
<1>6. ASSUME NEW cfg \in Configs, Reload(cfg) PROVE Truth'
  BY <1>6 DEF Reload, Truth, rows
<1>7. CASE UNCHANGED vars
  BY <1>7 DEF Truth, vars, rows
<1> QED
  BY <1>1, <1>2, <1>3, <1>4, <1>5, <1>6, <1>7 DEF Next, Ends

LEMMA TruthInvariance ==
    ASSUME ReadAsMeant
    PROVE  Spec => [](Typed /\ Truth)
<1>1. Init => Typed /\ Truth
  BY InitTyped, InitTrue
<1>2. (Typed /\ Truth) /\ [Next]_vars => (Typed /\ Truth)'
  BY NextTyped, NextTrue
<1> QED
  BY <1>1, <1>2, PTL DEF Spec

(* Groups are kept apart: an incident holds the alerts of one group, and no *)
(* group has two open incidents, whatever the order of routes and labels in *)
(* the configurations, and however reloads, chunks that fail and people fall*)
(* between the routing of an alert and its storing.                         *)
THEOREM GroupsApart ==
    ASSUME ReadAsMeant, LabelsListedOnce
    PROVE  Spec => []GroupsKeptApart
<1>1. Typed /\ Truth => GroupsKeptApart
  <2> SUFFICES ASSUME Typed, Truth PROVE GroupsKeptApart
    OBVIOUS
  <2>1. \A i \in DOMAIN incidents : Keyed(incidents[i].key, incidents[i].group)
    BY DEF Truth, TablesTrue, IncidentTrue
  <2>2. ASSUME NEW i \in DOMAIN incidents, NEW j \in DOMAIN incidents,
               incidents[i].open, incidents[j].open, incidents[i].group = incidents[j].group
        PROVE  i = j
    <3>1. incidents[i].key = incidents[j].key
      BY <2>1, <2>2, KeyTellsGroup
    <3> QED
      BY <2>2, <3>1 DEF Truth, TablesTrue, OnePerKey
  <2> QED
    BY <2>2 DEF Truth, TablesTrue, RowsTrue, GroupsKeptApart
<1> QED
  BY <1>1, TruthInvariance, PTL

(* The counts are true: those of an incident are of its rows, those of a    *)
(* request are of what it has stored, and nothing of a payload that was     *)
(* read to its end is unaccounted for.                                      *)
THEOREM CountsTrue ==
    ASSUME ReadAsMeant
    PROVE  Spec => []CountsAreTrue
<1>1. Typed /\ Truth => CountsAreTrue
  <2> SUFFICES ASSUME Typed, Truth PROVE CountsAreTrue
    OBVIOUS
  <2>1. ASSUME NEW id \in DOMAIN incidents
        PROVE  /\ incidents[id].alertCount = Cardinality(Rows(id))
               /\ incidents[id].dedupCount = Cardinality(Rows(id))
                    - Cardinality({alerts[n].about.alert : n \in Rows(id)})
    <3>1. RowsOf(alerts, id) = Rows(id)
      BY DEF RowsOf, Rows
    <3>2. NamesOf(alerts, id) = {alerts[n].about.alert : n \in Rows(id)}
      BY <3>1 DEF NamesOf
    <3> QED
      BY <3>1, <3>2 DEF Truth, TablesTrue, IncidentTrue
  <2>2. ASSUME NEW s \in Sender
        PROVE  LET r == request[s] IN
               /\ r.stage \in {"storing", "accepted", "failed"} /\ r.n > 0
                    => r.unrouted + Len(r.pending) = Len(r.payload.means)
               /\ r.stage = "accepted" => r.accepted = Len(r.pending)
    <3> DEFINE r == request[s]
    <3>1. RequestTyped(s, r)
      BY DEF Typed
    <3>2. ASSUME r.stage \in {"storing", "accepted", "failed"}, r.n > 0
          PROVE  r.unrouted + Len(r.pending) = Len(r.payload.means)
      <4>1. r.stage # "rejected"
        BY <3>2
      <4>2. /\ r.payload \in Payloads[s] /\ Acceptable(r.payload)
            /\ r.unrouted + Len(r.pending) = Len(Parse(r.payload))
        BY <3>1, <3>2, <4>1 DEF RequestTyped
      <4> QED
        BY <4>2, IngestAssumption
    <3> QED
      BY <3>1, <3>2 DEF RequestTyped
  <2>3. ASSUME NEW s \in Sender
        PROVE  LET r == request[s] IN
               /\ r.accepted = Cardinality({n \in DOMAIN alerts : alerts[n].from = <<s, r.n>>})
               /\ r.created = Cardinality({id \in DOMAIN incidents :
                                            incidents[id].from = <<s, r.n>>})
    BY DEF Truth, StoredTrue, FromOf
  <2> QED
    BY <2>1, <2>2, <2>3 DEF CountsAreTrue
<1> QED
  BY <1>1, TruthInvariance, PTL

-----------------------------------------------------------------------------
(* What a sender that was answered has been heard to say.                  *)

(* The status of an alert is read as the sender means it.                  *)
StatusAsMeant ==
    \A s \in Sender : \A p \in Payloads[s] :
        Acceptable(p) => \A i \in DOMAIN Parse(p) :
                            p.means[i].status = Parse(p)[i].status

(* What a sender may speak of, whichever route takes it.                   *)
Speaks(s) ==
    UNION {UNION {{About(rt.config, p.means[i].labels) : i \in DOMAIN Parse(p)} :
                      p \in Payloads[s]} : rt \in Entries}

(* No two senders speak of the same alert.                                 *)
OwnAlerts ==
    \A s, t \in Sender : s # t => \A x \in Speaks(s), y \in Speaks(t) : x # y

Of(rowsOf, n, id, alert) == rowsOf[n].incident = id /\ rowsOf[n].about.alert = alert

(* The last row of an alert in an incident says that it fires.             *)
FiresIn(rowsOf, id, alert) ==
    \E n \in DOMAIN rowsOf :
        /\ Of(rowsOf, n, id, alert) /\ rowsOf[n].status = "firing"
        /\ \A m \in DOMAIN rowsOf : Of(rowsOf, m, id, alert) => m <= n

(* An open incident with nothing firing is about to close.                 *)
QuietCloses(rowsOf, incs) ==
    \A id \in DOMAIN incs :
        incs[id].open /\ AllAlertsResolved(rowsOf, id) => incs[id].closing

(* What was said last of an alert is what the tables hold.                 *)
HeardIn(rowsOf, incs, about, status) ==
    IF status = "firing"
    THEN \E id \in DOMAIN incs :
            /\ incs[id].group = about.group /\ FiresIn(rowsOf, id, about.alert)
            /\ incs[id].open \/ incs[id].byHand \/ incs[id].expired
    ELSE \A id \in DOMAIN incs :
            incs[id].group = about.group /\ incs[id].open
                => ~FiresIn(rowsOf, id, about.alert)

LEMMA FiresAdded ==
    ASSUME NEW list, IsList(list), NEW e, NEW id, NEW alert
    PROVE  FiresIn(Append(list, e), id, alert) <=>
                IF e.incident = id /\ e.about.alert = alert
                THEN e.status = "firing" ELSE FiresIn(list, id, alert)
<1> DEFINE longer == Append(list, e)
           last == Len(list) + 1
<1>1. /\ DOMAIN longer = DOMAIN list \cup {last} /\ last \notin DOMAIN list
      /\ \A i \in DOMAIN list : longer[i] = list[i]
      /\ longer[last] = e
  BY AppendList
<1>2. /\ last \in Nat /\ \A n \in DOMAIN list : n <= last /\ ~(last <= n)
      /\ DOMAIN list \subseteq Nat
  BY ListFacts
<1> HIDE DEF longer, last
<1>3. \A n \in DOMAIN list : Of(longer, n, id, alert) <=> Of(list, n, id, alert)
  BY <1>1 DEF Of
<1>4. Of(longer, last, id, alert) <=> e.incident = id /\ e.about.alert = alert
  BY <1>1 DEF Of
<1>5. CASE e.incident = id /\ e.about.alert = alert
  <2>1. FiresIn(longer, id, alert) => e.status = "firing"
    <3> SUFFICES ASSUME FiresIn(longer, id, alert) PROVE e.status = "firing"
      OBVIOUS
    <3>1. PICK n \in DOMAIN longer :
            /\ longer[n].status = "firing"
            /\ \A m \in DOMAIN longer : Of(longer, m, id, alert) => m <= n
      BY DEF FiresIn
    <3>2. n = last
      BY <1>1, <1>2, <1>4, <1>5, <3>1
    <3> QED
      BY <1>1, <3>1, <3>2
  <2>2. e.status = "firing" => FiresIn(longer, id, alert)
    BY <1>1, <1>2, <1>4, <1>5 DEF FiresIn
  <2> QED
    BY <1>5, <2>1, <2>2 DEF longer
<1>6. CASE ~(e.incident = id /\ e.about.alert = alert)
  BY <1>1, <1>3, <1>4, <1>6 DEF FiresIn, longer
<1> QED
  BY <1>5, <1>6

(* AllAlertsResolved is what its name says.                                *)
LEMMA ResolvedMeansQuiet ==
    ASSUME NEW list, IsList(list), NEW id,
           \A n \in DOMAIN list : /\ list[n].fingerprint = list[n].about.alert
                                  /\ list[n].status \in AlertStatus
    PROVE  AllAlertsResolved(list, id) <=> \A alert : ~FiresIn(list, id, alert)
<1>1. ASSUME AllAlertsResolved(list, id), NEW alert, FiresIn(list, id, alert)
      PROVE  FALSE
  <2>1. PICK n \in DOMAIN list :
            /\ Of(list, n, id, alert) /\ list[n].status = "firing"
            /\ \A m \in DOMAIN list : Of(list, m, id, alert) => m <= n
    BY <1>1 DEF FiresIn
  <2>2. list[n].status = "resolved"
    BY <1>1, <2>1 DEF AllAlertsResolved, Of
  <2> QED
    BY <2>1, <2>2
<1>2. ASSUME \A alert : ~FiresIn(list, id, alert)
      PROVE  AllAlertsResolved(list, id)
  <2> SUFFICES ASSUME NEW n \in DOMAIN list, list[n].incident = id,
                      \A m \in DOMAIN list :
                        (/\ list[m].incident = id
                         /\ list[m].fingerprint = list[n].fingerprint) => m <= n
               PROVE  list[n].status = "resolved"
    BY DEF AllAlertsResolved
  <2> DEFINE alert == list[n].about.alert
  <2>1. /\ Of(list, n, id, alert)
        /\ \A m \in DOMAIN list : Of(list, m, id, alert) => m <= n
    BY DEF Of
  <2>2. ~FiresIn(list, id, alert)
    BY <1>2
  <2>3. list[n].status # "firing"
    BY <2>1, <2>2 DEF FiresIn
  <2> QED
    BY <2>3 DEF AlertStatus
<1> QED
  BY <1>1, <1>2

(* The row that an alert becomes, and what happens to each incident: its   *)
(* group stays, it is not reopened, and a new one fires.                   *)
LEMMA ApplyRow ==
    ASSUME LabelsListedOnce, NEW db, NEW a, DOMAIN db = DbFields,
           db.created \in Nat, db.deduped \in Nat,
           TablesTyped(db.alerts, db.incidents), TablesTrue(db.alerts, db.incidents),
           Routed(a)
    PROVE  LET new == ApplyAlert(db, a) IN
           \E j \in 0..Len(new.incidents) :
            /\ new.alerts = Append(db.alerts, AlertRow(a, j))
            /\ DOMAIN db.incidents \subseteq DOMAIN new.incidents
            /\ \A id \in DOMAIN db.incidents :
                /\ new.incidents[id].group = db.incidents[id].group
                /\ new.incidents[id].open = db.incidents[id].open
                /\ new.incidents[id].byHand = db.incidents[id].byHand
                /\ new.incidents[id].expired = db.incidents[id].expired
                /\ id # j => new.incidents[id] = db.incidents[id]
            /\ \A id \in DOMAIN new.incidents : id \notin DOMAIN db.incidents => id = j
            /\ j # 0 => /\ j \in DOMAIN new.incidents
                        /\ new.incidents[j].open
                        /\ new.incidents[j].group = a.about.group
                        /\ \/ a.status = "firing"
                           \/ AllAlertsResolved(new.alerts, j) => new.incidents[j].closing
            /\ a.status = "firing" => j # 0
            /\ j = 0 => \A id \in DOMAIN db.incidents :
                            db.incidents[id].open => db.incidents[id].group # a.about.group
<1> DEFINE new == ApplyAlert(db, a)
           incs == db.incidents
           incs2 == new.incidents
<1>1. /\ \/ Dropped(db, a, new)
         \/ \E id \in DOMAIN incs : Attached(db, a, new, id)
         \/ Opened(db, a, new)
      /\ TablesTyped(new.alerts, incs2) /\ TablesTrue(new.alerts, incs2)
  BY ApplyCases, ApplyTyped, ApplyTrue DEF Routed
<1> HIDE DEF new
<1>2. /\ IsList(incs) /\ Len(incs) \in Nat /\ DOMAIN incs = 1..Len(incs)
      /\ Len(incs2) \in Nat /\ DOMAIN incs2 = 1..Len(incs2)
      /\ \A id \in DOMAIN incs : Keyed(incs[id].key, incs[id].group)
      /\ \A id \in DOMAIN incs2 : Keyed(incs2[id].key, incs2[id].group)
      /\ Keyed(a.key, a.about.group)
  BY <1>1, ListFacts DEF TablesTyped, TablesTrue, IncidentTrue, Routed
<1>3. CASE Dropped(db, a, new)
  <2>1. /\ new.alerts = Append(db.alerts, AlertRow(a, 0)) /\ incs2 = incs
        /\ OpenOf(db, a.key) = {} /\ a.status = "resolved"
    BY <1>3 DEF Dropped
  <2>2. \A id \in DOMAIN incs : incs[id].open => incs[id].group # a.about.group
    <3>1. \A id \in DOMAIN incs : incs[id].open => incs[id].key # a.key
      BY <2>1 DEF OpenOf
    <3> QED
      BY <1>2, <3>1, KeyTellsGroup
  <2>3. 0 \in 0..Len(incs2) /\ 0 \notin DOMAIN incs
    BY <1>2
  <2> QED
    BY <2>1, <2>2, <2>3 DEF new
<1>4. ASSUME NEW j \in DOMAIN incs, Attached(db, a, new, j)
      PROVE  /\ j \in 0..Len(incs2) /\ j # 0 /\ j \in DOMAIN incs2
             /\ new.alerts = Append(db.alerts, AlertRow(a, j))
             /\ DOMAIN incs2 = DOMAIN incs
             /\ \A id \in DOMAIN incs : /\ incs2[id].group = incs[id].group
                                        /\ incs2[id].open = incs[id].open
                                        /\ incs2[id].byHand = incs[id].byHand
                                        /\ incs2[id].expired = incs[id].expired
                                        /\ id # j => incs2[id] = incs[id]
             /\ incs2[j].open /\ incs2[j].group = a.about.group
             /\ \/ a.status = "firing"
                \/ AllAlertsResolved(new.alerts, j) => incs2[j].closing
  <2> DEFINE row == incs[j]
             seen == Seen(db, j, a.fingerprint)
  <2>1. PICK closing \in BOOLEAN :
            /\ a.status = "resolved" /\ AllAlertsResolved(new.alerts, j) => closing
            /\ incs2 = [incs EXCEPT ![j] =
                [row EXCEPT !.alertCount = @ + 1, !.dedupCount = @ + seen,
                            !.closing = closing]]
    BY <1>4 DEF Attached
  <2>2. /\ DOMAIN row = IncidentFields /\ row.open /\ row.key = a.key
        /\ a.status \in AlertStatus
    BY <1>4 DEF TablesTyped, Attached, OpenOf, Routed
  <2>3. row.group = a.about.group
    BY <1>2, <2>2, KeyTellsGroup
  <2> DEFINE joined == [row EXCEPT !.alertCount = @ + 1, !.dedupCount = @ + seen,
                                   !.closing = closing]
  <2> HIDE DEF row, seen
  <2>4. /\ joined.group = row.group /\ joined.open = row.open
        /\ joined.byHand = row.byHand /\ joined.expired = row.expired
        /\ joined.closing = closing
    BY <2>2 DEF IncidentFields
  <2> HIDE DEF joined
  <2>5. incs2 = [incs EXCEPT ![j] = joined]
    BY <2>1 DEF joined
  <2>6. new.alerts = Append(db.alerts, AlertRow(a, j))
    BY <1>4 DEF Attached
  <2>7. /\ DOMAIN incs2 = DOMAIN incs /\ incs2[j] = joined
        /\ \A id \in DOMAIN incs : id # j => incs2[id] = incs[id]
    BY <2>5
  <2>8. j \in 0..Len(incs2) /\ j # 0
    BY <1>2, <2>7
  <2> HIDE DEF incs, incs2
  <2> QED
    BY <2>1, <2>2, <2>3, <2>4, <2>6, <2>7, <2>8 DEF row, AlertStatus
<1>5. CASE Opened(db, a, new)
  <2> DEFINE j == Len(incs) + 1
             inc == [key |-> a.key, policy |-> a.policy, open |-> TRUE, alertCount |-> 1,
                     dedupCount |-> 0, closing |-> FALSE, byHand |-> FALSE,
                     expired |-> FALSE,
                     group |-> a.about.group, from |-> a.from]
  <2>1. /\ new.alerts = Append(db.alerts, AlertRow(a, j)) /\ incs2 = Append(incs, inc)
        /\ a.status = "firing"
    BY <1>5 DEF Opened
  <2>2. inc.open /\ inc.group = a.about.group
    OBVIOUS
  <2> HIDE DEF inc, incs, incs2
  <2>3. /\ DOMAIN incs2 = DOMAIN incs \cup {j} /\ j \notin DOMAIN incs
        /\ \A id \in DOMAIN incs : incs2[id] = incs[id]
        /\ incs2[j] = inc
    BY <1>2, <2>1, AppendList
  <2>4. j # 0 /\ j \in 0..Len(incs2)
    <3>1. Len(incs) \in Nat /\ Len(incs2) \in Nat /\ DOMAIN incs2 = 1..Len(incs2)
      BY <1>2
    <3>2. j \in DOMAIN incs2
      BY <2>3
    <3> QED
      BY <3>1, <3>2
  <2> HIDE DEF j
  <2> QED
    BY <2>1, <2>2, <2>3, <2>4 DEF incs, incs2, new
<1> QED
  BY <1>1, <1>3, <1>4, <1>5 DEF new

(* An open incident with nothing firing stays about to close.              *)
LEMMA ApplyQuiet ==
    ASSUME LabelsListedOnce, NEW db, NEW a, DOMAIN db = DbFields,
           db.created \in Nat, db.deduped \in Nat,
           TablesTyped(db.alerts, db.incidents), TablesTrue(db.alerts, db.incidents),
           Routed(a), QuietCloses(db.alerts, db.incidents)
    PROVE  LET new == ApplyAlert(db, a) IN QuietCloses(new.alerts, new.incidents)
<1> DEFINE new == ApplyAlert(db, a)
<1>1. TablesTyped(new.alerts, new.incidents) /\ TablesTrue(new.alerts, new.incidents)
  BY ApplyTyped, ApplyTrue DEF Routed
<1>2. PICK j \in 0..Len(new.incidents) :
        /\ new.alerts = Append(db.alerts, AlertRow(a, j))
        /\ \A id \in DOMAIN db.incidents : id # j => new.incidents[id] = db.incidents[id]
        /\ \A id \in DOMAIN new.incidents : id \notin DOMAIN db.incidents => id = j
        /\ j # 0 => \/ a.status = "firing"
                    \/ AllAlertsResolved(new.alerts, j) => new.incidents[j].closing
  BY ApplyRow
<1> HIDE DEF new
<1>3. \A id : /\ AlertRow(a, id).incident = id /\ AlertRow(a, id).about = a.about
              /\ AlertRow(a, id).status = a.status
  BY DEF AlertRow
<1>4. \A id : /\ AllAlertsResolved(db.alerts, id) <=> \A alert : ~FiresIn(db.alerts, id, alert)
              /\ AllAlertsResolved(new.alerts, id) <=> \A alert : ~FiresIn(new.alerts, id, alert)
  <2>1. ASSUME NEW list, NEW incs, TablesTyped(list, incs), TablesTrue(list, incs), NEW id
        PROVE  AllAlertsResolved(list, id) <=> \A alert : ~FiresIn(list, id, alert)
    <3>1. /\ IsList(list)
          /\ \A n \in DOMAIN list : /\ list[n].fingerprint = list[n].about.alert
                                    /\ list[n].status \in AlertStatus
      BY <2>1 DEF TablesTyped, TablesTrue, RowsTrue
    <3> QED
      BY <3>1, ResolvedMeansQuiet
  <2> QED
    BY <1>1, <2>1
<1>5. IsList(db.alerts)
  BY DEF TablesTyped
<1>6. ASSUME NEW id \in DOMAIN new.incidents, id # j,
             new.incidents[id].open, AllAlertsResolved(new.alerts, id)
      PROVE  new.incidents[id].closing
  <2>1. id \in DOMAIN db.incidents /\ new.incidents[id] = db.incidents[id]
    BY <1>2, <1>6
  <2>2. \A alert : FiresIn(new.alerts, id, alert) <=> FiresIn(db.alerts, id, alert)
    BY <1>2, <1>3, <1>5, <1>6, FiresAdded
  <2>3. AllAlertsResolved(db.alerts, id)
    BY <1>4, <1>6, <2>2
  <2> QED
    BY <1>6, <2>1, <2>3 DEF QuietCloses
<1>7. ASSUME j \in DOMAIN new.incidents, AllAlertsResolved(new.alerts, j)
      PROVE  new.incidents[j].closing
  <2>1. j # 0
    <3>1. IsList(new.incidents)
      BY <1>1 DEF TablesTyped
    <3>2. Len(new.incidents) \in Nat /\ DOMAIN new.incidents = 1..Len(new.incidents)
      BY <3>1, ListFacts
    <3> QED
      BY <1>7, <3>2
  <2>2. a.status # "firing"
    <3>1. ~FiresIn(new.alerts, j, a.about.alert)
      BY <1>4, <1>7
    <3> QED
      BY <1>2, <1>3, <1>5, <3>1, FiresAdded
  <2> QED
    BY <1>2, <1>7, <2>1, <2>2
<1> QED
  BY <1>6, <1>7 DEF QuietCloses, new

(* What was heard of an alert stays heard until there is word of it again, *)
(* and then that word is what has been heard.                              *)
LEMMA ApplyHeard ==
    ASSUME LabelsListedOnce, NEW db, NEW a, DOMAIN db = DbFields,
           db.created \in Nat, db.deduped \in Nat,
           TablesTyped(db.alerts, db.incidents), TablesTrue(db.alerts, db.incidents),
           Routed(a)
    PROVE  LET new == ApplyAlert(db, a) IN
           /\ \A about, status :
                (about.group # a.about.group \/ about.alert # a.about.alert)
                /\ HeardIn(db.alerts, db.incidents, about, status)
                    => HeardIn(new.alerts, new.incidents, about, status)
           /\ HeardIn(new.alerts, new.incidents, a.about, a.status)
<1> DEFINE new == ApplyAlert(db, a)
           incs == db.incidents
           incs2 == new.incidents
<1>1. TablesTyped(new.alerts, incs2) /\ TablesTrue(new.alerts, incs2)
  BY ApplyTyped, ApplyTrue DEF Routed
<1>2. PICK j \in 0..Len(incs2) :
        /\ new.alerts = Append(db.alerts, AlertRow(a, j))
        /\ DOMAIN incs \subseteq DOMAIN incs2
        /\ \A id \in DOMAIN incs : /\ incs2[id].group = incs[id].group
                                   /\ incs2[id].open = incs[id].open
                                   /\ incs2[id].byHand = incs[id].byHand
                                   /\ incs2[id].expired = incs[id].expired
        /\ \A id \in DOMAIN incs2 : id \notin DOMAIN incs => id = j
        /\ j # 0 => /\ j \in DOMAIN incs2 /\ incs2[j].open
                    /\ incs2[j].group = a.about.group
        /\ a.status = "firing" => j # 0
        /\ j = 0 => \A id \in DOMAIN incs : incs[id].open => incs[id].group # a.about.group
  BY ApplyRow
<1> HIDE DEF new
<1>3. \A id : /\ AlertRow(a, id).incident = id /\ AlertRow(a, id).about = a.about
              /\ AlertRow(a, id).status = a.status
  BY DEF AlertRow
<1>4. \A id, alert :
        FiresIn(new.alerts, id, alert) <=>
            IF j = id /\ a.about.alert = alert
            THEN a.status = "firing" ELSE FiresIn(db.alerts, id, alert)
  <2>1. IsList(db.alerts)
    BY DEF TablesTyped
  <2> QED
    BY <1>2, <1>3, <2>1, FiresAdded
<1>5. DOMAIN incs = 1..Len(incs) /\ DOMAIN incs2 = 1..Len(incs2)
      /\ Len(incs) \in Nat /\ Len(incs2) \in Nat
  <2>1. IsList(incs) /\ IsList(incs2)
    BY <1>1 DEF TablesTyped
  <2> QED
    BY <2>1, ListFacts
<1>6. 0 \notin DOMAIN incs2
  BY <1>5
<1>7. ASSUME NEW about, NEW status,
             about.group # a.about.group \/ about.alert # a.about.alert,
             HeardIn(db.alerts, incs, about, status)
      PROVE  HeardIn(new.alerts, incs2, about, status)
  <2>1. \A id \in DOMAIN incs2 :
            incs2[id].group = about.group =>
                (FiresIn(new.alerts, id, about.alert) <=> FiresIn(db.alerts, id, about.alert))
    BY <1>2, <1>4, <1>6, <1>7
  <2>2. CASE status = "firing"
    <3>1. PICK id \in DOMAIN incs :
            /\ incs[id].group = about.group /\ FiresIn(db.alerts, id, about.alert)
            /\ incs[id].open \/ incs[id].byHand \/ incs[id].expired
      BY <1>7, <2>2 DEF HeardIn
    <3>2. id \in DOMAIN incs2 /\ FiresIn(new.alerts, id, about.alert)
      BY <1>2, <2>1, <3>1
    <3> QED
      BY <1>2, <2>2, <3>1, <3>2 DEF HeardIn
  <2>3. CASE status # "firing"
    <3>1. ASSUME NEW id \in DOMAIN incs2, incs2[id].group = about.group, incs2[id].open
          PROVE  ~FiresIn(new.alerts, id, about.alert)
      <4>1. CASE id \in DOMAIN incs
        <5>1. incs[id].group = about.group /\ incs[id].open
          BY <1>2, <3>1, <4>1
        <5>2. ~FiresIn(db.alerts, id, about.alert)
          BY <1>7, <2>3, <4>1, <5>1 DEF HeardIn
        <5> QED
          BY <2>1, <3>1, <5>2
      <4>2. CASE id \notin DOMAIN incs
        <5>1. \A n \in DOMAIN db.alerts : db.alerts[n].incident # id
          <6>1. \A n \in DOMAIN db.alerts : db.alerts[n].incident \in 0..Len(incs)
            BY DEF TablesTyped
          <6>2. id \notin 0..Len(incs)
            BY <1>5, <3>1, <4>2
          <6> QED
            BY <6>1, <6>2
        <5>2. ~FiresIn(db.alerts, id, about.alert)
          BY <5>1 DEF FiresIn, Of
        <5> QED
          BY <2>1, <3>1, <5>2
      <4> QED
        BY <4>1, <4>2
    <3> QED
      BY <2>3, <3>1 DEF HeardIn
  <2> QED
    BY <2>2, <2>3
<1>8. HeardIn(new.alerts, incs2, a.about, a.status)
  <2>1. CASE a.status = "firing"
    <3>1. j \in DOMAIN incs2 /\ FiresIn(new.alerts, j, a.about.alert)
      BY <1>2, <1>4, <2>1
    <3> QED
      BY <1>2, <2>1, <3>1 DEF HeardIn
  <2>2. CASE a.status # "firing"
    <3>1. ASSUME NEW id \in DOMAIN incs2, incs2[id].group = a.about.group, incs2[id].open
          PROVE  id = j
      <4>1. CASE j = 0
        <5>1. id \in DOMAIN incs
          BY <1>2, <1>6, <4>1
        <5> QED
          BY <1>2, <3>1, <4>1, <5>1
      <4>2. CASE j # 0
        <5>1. j \in DOMAIN incs2 /\ incs2[j].open /\ incs2[j].group = incs2[id].group
          BY <1>2, <3>1, <4>2
        <5>2. Keyed(incs2[id].key, incs2[id].group) /\ Keyed(incs2[j].key, incs2[j].group)
          BY <1>1, <5>1 DEF TablesTrue, IncidentTrue
        <5>3. incs2[id].key = incs2[j].key
          BY <5>1, <5>2, KeyTellsGroup
        <5> QED
          BY <1>1, <3>1, <5>1, <5>3 DEF TablesTrue, OnePerKey
      <4> QED
        BY <4>1, <4>2
    <3>2. ~FiresIn(new.alerts, j, a.about.alert)
      BY <1>4, <2>2
    <3> QED
      BY <2>2, <3>1, <3>2 DEF HeardIn
  <2> QED
    BY <2>1, <2>2
<1> QED
  BY <1>7, <1>8 DEF new

(* Of the first k alerts of a request, the last word on each is heard.     *)
HeardUpTo(rowsOf, incs, pending, k) ==
    \A i \in 1..k :
        (\A m \in 1..k : m > i => pending[m].about # pending[i].about)
            => HeardIn(rowsOf, incs, pending[i].about, pending[i].status)

IsAbout(x) == x = [group |-> x.group, alert |-> x.alert]

(* What was heard of the alerts that the list does not name stays heard.   *)
OthersHeard(rowsOf, incs, pending) ==
    \A about, status :
        (/\ IsAbout(about) /\ \A i \in DOMAIN pending : pending[i].about # about
         /\ HeardIn(alerts, incidents, about, status))
            => HeardIn(rowsOf, incs, about, status)

(* A chunk adds its alerts to what is heard, and takes nothing away of what*)
(* others have said.                                                       *)
LEMMA AppliedHeard ==
    ASSUME LabelsListedOnce, NEW pending, IsList(pending), NEW k \in Nat,
           NEW chunk, IsList(chunk),
           \A i \in DOMAIN chunk : k + i \in DOMAIN pending /\ chunk[i] = pending[k + i],
           \A i \in DOMAIN pending : Routed(pending[i]) /\ IsAbout(pending[i].about),
           TablesTyped(alerts, incidents), TablesTrue(alerts, incidents),
           QuietCloses(alerts, incidents), HeardUpTo(alerts, incidents, pending, k)
    PROVE  LET db == Applied(chunk) IN
           /\ QuietCloses(db.alerts, db.incidents)
           /\ HeardUpTo(db.alerts, db.incidents, pending, k + Len(chunk))
           /\ OthersHeard(db.alerts, db.incidents, pending)
<1>1. /\ Len(chunk) \in Nat /\ DOMAIN chunk = 1..Len(chunk)
      /\ \A i \in DOMAIN chunk : Routed(chunk[i]) /\ IsAbout(chunk[i].about)
  BY ListFacts
<1>2. PICK db : /\ db[0] = Before
                /\ \A n \in 1..Len(chunk) : db[n] = ApplyAlert(db[n - 1], chunk[n])
                /\ \A n \in 0..Len(chunk) : DbTyped(db[n])
                /\ Applied(chunk) = db[Len(chunk)]
  BY <1>1, AppliedTyped DEF Routed
<1> DEFINE Good(n) == /\ TablesTrue(db[n].alerts, db[n].incidents)
                      /\ QuietCloses(db[n].alerts, db[n].incidents)
                      /\ HeardUpTo(db[n].alerts, db[n].incidents, pending, k + n)
                      /\ OthersHeard(db[n].alerts, db[n].incidents, pending)
           bad == {n \in 0..Len(chunk) : ~Good(n)}
<1>3. bad = {}
  <2> SUFFICES ASSUME bad # {} PROVE FALSE
    OBVIOUS
  <2>1. PICK n \in bad : \A m \in bad : n <= m
    <3> HIDE DEF bad
    <3>1. bad \subseteq Nat
      BY DEF bad
    <3> QED
      BY <3>1, SmallestOf
  <2>2. CASE n = 0
    <3>1. db[0].alerts = alerts /\ db[0].incidents = incidents /\ k + 0 = k
      BY <1>2 DEF Before
    <3>2. OthersHeard(alerts, incidents, pending)
      BY Zenon DEF OthersHeard
    <3>3. Good(0)
      BY <3>1, <3>2
    <3> QED
      BY <2>1, <2>2, <3>3
  <2>3. CASE n > 0
    <3>1. /\ n \in Nat /\ n \in 1..Len(chunk) /\ n - 1 \in 0..Len(chunk)
          /\ k + (n - 1) = (k + n) - 1 /\ k + n \in Nat /\ k + n > 0
      BY <1>1, <2>3
    <3>2. n - 1 \notin bad
      <4> HIDE DEF bad
      <4> QED
        BY <2>1, <3>1
    <3>3. Good(n - 1)
      BY <3>1, <3>2
    <3> DEFINE old == db[n - 1]
               new == db[n]
               a == chunk[n]
               last == k + n
    <3>4. /\ DbTyped(old) /\ DbTyped(new) /\ new = ApplyAlert(old, a)
          /\ Routed(a) /\ IsAbout(a.about)
          /\ last \in DOMAIN pending /\ a = pending[last]
      BY <1>1, <1>2, <3>1
    <3>5. /\ TablesTrue(old.alerts, old.incidents)
          /\ QuietCloses(old.alerts, old.incidents)
          /\ HeardUpTo(old.alerts, old.incidents, pending, last - 1)
          /\ OthersHeard(old.alerts, old.incidents, pending)
      BY <3>1, <3>3
    <3>6. /\ \A about, status :
                (about.group # a.about.group \/ about.alert # a.about.alert)
                /\ HeardIn(old.alerts, old.incidents, about, status)
                    => HeardIn(new.alerts, new.incidents, about, status)
          /\ HeardIn(new.alerts, new.incidents, a.about, a.status)
          /\ QuietCloses(new.alerts, new.incidents)
          /\ TablesTrue(new.alerts, new.incidents)
      <4> HIDE DEF old, new, a, last, bad, Good
      <4>1. /\ DOMAIN old = DbFields /\ old.created \in Nat /\ old.deduped \in Nat
            /\ TablesTyped(old.alerts, old.incidents)
        BY <3>4 DEF DbTyped
      <4> QED
        BY <3>4, <3>5, <4>1, ApplyHeard, ApplyQuiet, ApplyTrue
    <3>7. \A x : IsAbout(x) /\ x # a.about
                    => x.group # a.about.group \/ x.alert # a.about.alert
      <4> HIDE DEF a
      <4> QED
        BY <3>4 DEF IsAbout
    <3> HIDE DEF old, new, a
    <3>8. HeardUpTo(new.alerts, new.incidents, pending, last)
      <4> HIDE DEF last, bad, Good
      <4> SUFFICES ASSUME NEW i \in 1..last,
                          \A m \in 1..last : m > i => pending[m].about # pending[i].about
                   PROVE  HeardIn(new.alerts, new.incidents,
                                  pending[i].about, pending[i].status)
        BY DEF HeardUpTo
      <4>1. last \in Nat /\ last > 0
        BY <3>1 DEF last
      <4>2. CASE i = last
        BY <3>4, <3>6, <4>2
      <4>3. CASE i # last
        <5>1. i \in 1..(last - 1) /\ last \in 1..last /\ last > i
              /\ \A m \in 1..(last - 1) : m \in 1..last
          BY <4>1, <4>3
        <5>2. HeardIn(old.alerts, old.incidents, pending[i].about, pending[i].status)
          BY <3>5, <5>1 DEF HeardUpTo
        <5>3. i \in DOMAIN pending
          <6>1. DOMAIN pending = 1..Len(pending) /\ Len(pending) \in Nat
            BY ListFacts
          <6> QED
            BY <3>4, <5>1, <6>1
        <5>4. IsAbout(pending[i].about) /\ pending[i].about # a.about
          BY <3>4, <5>1, <5>3
        <5> QED
          BY <3>6, <3>7, <5>2, <5>4
      <4> QED
        BY <4>2, <4>3
    <3>9. OthersHeard(new.alerts, new.incidents, pending)
      <4> HIDE DEF last, bad, Good
      <4> SUFFICES ASSUME NEW about, NEW status, IsAbout(about),
                          \A i \in DOMAIN pending : pending[i].about # about,
                          HeardIn(alerts, incidents, about, status)
                   PROVE  HeardIn(new.alerts, new.incidents, about, status)
        BY Zenon DEF OthersHeard
      <4>1. HeardIn(old.alerts, old.incidents, about, status)
        BY <3>5, Zenon DEF OthersHeard
      <4>2. about # a.about
        BY <3>4
      <4> QED
        BY <3>6, <3>7, <4>1, <4>2
    <3>10. Good(n)
      BY <3>6, <3>8, <3>9 DEF new
    <3> QED
      BY <2>1, <3>10
  <2> QED
    BY <2>1, <2>2, <2>3
<1>4. Good(Len(chunk))
  <2> HIDE DEF Good
  <2> QED
    BY <1>1, <1>3
<1> QED
  BY <1>2, <1>4

(* The inductive invariant of what is heard, on top of the others: what a  *)
(* request holds is what its sender says, the chunks it has stored are     *)
(* heard, and what a sender that has its answer was told of is too.        *)

PendingSpoken(s, r) ==
    \A i \in DOMAIN r.pending :
        r.pending[i].about \in Speaks(s) /\ r.pending[i].status = r.pending[i].means

AllHeard(said, rowsOf, incs) == \A h \in said : HeardIn(rowsOf, incs, h.about, h.status)

HeardSoFar(s, r, said, rowsOf, incs) ==
    /\ PendingSpoken(s, r)
    /\ \A h \in said : h.about \in Speaks(s)
    /\ r.stage = "storing" => HeardUpTo(rowsOf, incs, r.pending, r.accepted)
    /\ r.stage \in {"accepted", "rejected", "failed"} => AllHeard(said, rowsOf, incs)

Hearing ==
    /\ QuietCloses(alerts, incidents)
    /\ heard = [s \in Sender |-> heard[s]]
    /\ \A s \in Sender : HeardSoFar(s, request[s], heard[s], alerts, incidents)

LEMMA InitHeard == Init => Hearing
<1> SUFFICES ASSUME Init PROVE Hearing
  OBVIOUS
<1>1. alerts = <<>> /\ incidents = <<>> /\ DOMAIN <<>> = {}
  BY EmptyList DEF Init
<1>2. QuietCloses(alerts, incidents)
  BY <1>1 DEF QuietCloses
<1>3. ASSUME NEW s \in Sender
      PROVE  HeardSoFar(s, request[s], heard[s], alerts, incidents)
  <2>1. request[s].pending = <<>> /\ request[s].stage = "accepted" /\ heard[s] = {}
    BY DEF Init, NoRequest
  <2> QED
    BY <1>1, <2>1 DEF HeardSoFar, PendingSpoken, AllHeard
<1> QED
  BY <1>2, <1>3 DEF Init, Hearing

LEMMA SpeaksOfAlerts ==
    ASSUME NEW s \in Sender, NEW x \in Speaks(s)
    PROVE  IsAbout(x)
BY DEF Speaks, About, IsAbout

(* A step of one request that leaves the tables as they are.               *)
LEMMA OneSpeaks ==
    ASSUME Typed, Hearing, NEW s \in Sender, NEW r, NEW said,
           request' = [request EXCEPT ![s] = r], heard' = [heard EXCEPT ![s] = said],
           UNCHANGED rows, HeardSoFar(s, r, said, alerts, incidents)
    PROVE  Hearing'
<1>1. /\ alerts' = alerts /\ incidents' = incidents
      /\ heard' = [t \in Sender |-> heard'[t]] /\ heard'[s] = said /\ request'[s] = r
      /\ \A t \in Sender : t # s => request'[t] = request[t] /\ heard'[t] = heard[t]
  BY DEF Typed, Hearing, rows
<1>2. \A t \in Sender : HeardSoFar(t, request'[t], heard'[t], alerts', incidents')
  BY <1>1 DEF Hearing
<1>3. QuietCloses(alerts', incidents')
  BY <1>1 DEF Hearing
<1> QED
  BY <1>1, <1>2, <1>3 DEF Hearing

LEMMA SendHeard ==
    ASSUME Typed, Hearing, NEW s \in Sender, NEW p \in Payloads[s], Send(s, p)
    PROVE  Hearing'
<1> DEFINE n == request[s].n + 1
           stage == IF Acceptable(p) THEN "routing" ELSE "rejected"
           r == [NoRequest EXCEPT !.n = n, !.payload = p, !.stage = stage]
<1>1. request' = [request EXCEPT ![s] = r] /\ UNCHANGED <<rows, heard>>
  BY DEF Send
<1>2. stage # "storing"
  OBVIOUS
<1>3. request[s].stage \in {"accepted", "rejected", "failed"}
  BY DEF Send, Answered
<1> HIDE DEF n, stage
<1>4. r.pending = <<>> /\ r.stage = stage
  BY DEF NoRequest
<1> HIDE DEF r
<1>5. HeardSoFar(s, request[s], heard[s], alerts, incidents)
  BY DEF Hearing
<1>6. HeardSoFar(s, r, heard[s], alerts, incidents)
  <2>1. PendingSpoken(s, r)
    BY <1>4, EmptyList DEF PendingSpoken
  <2>2. AllHeard(heard[s], alerts, incidents) /\ \A h \in heard[s] : h.about \in Speaks(s)
    BY <1>3, <1>5 DEF HeardSoFar
  <2>3. r.stage # "storing"
    BY <1>2, <1>4
  <2> QED
    BY <2>1, <2>2, <2>3 DEF HeardSoFar
<1>7. heard' = [heard EXCEPT ![s] = heard[s]]
  BY <1>1 DEF Hearing
<1> QED
  BY <1>1, <1>6, <1>7, OneSpeaks

(* An alert that is routed is one its sender speaks of.                    *)
LEMMA AlertSpoken ==
    ASSUME StatusAsMeant, Typed, NEW s \in Sender, NEW rt \in Entries,
           request[s].stage = "routing", request[s].n > 0,
           request[s].read < Len(Parse(request[s].payload))
    PROVE  /\ AlertOf(s, rt).about \in Speaks(s)
           /\ AlertOf(s, rt).status = AlertOf(s, rt).means
<1> DEFINE r == request[s]
           p == r.payload
           i == r.read + 1
<1>1. p \in Payloads[s] /\ Acceptable(p) /\ r.read \in Nat
  BY DEF Typed, RequestTyped
<1>2. i \in DOMAIN Parse(p)
  <2>1. Len(Parse(p)) \in Nat /\ DOMAIN Parse(p) = 1..Len(Parse(p))
    BY <1>1, Parsed
  <2> QED
    BY <1>1, <2>1
<1>3. p.means[i].status = Parse(p)[i].status
  BY <1>1, <1>2 DEF StatusAsMeant
<1>4. About(rt.config, p.means[i].labels) \in Speaks(s)
  BY <1>1, <1>2 DEF Speaks
<1> QED
  BY <1>3, <1>4 DEF AlertOf

LEMMA RouteHeard ==
    ASSUME StatusAsMeant, Typed, Hearing, NEW s \in Sender, Route(s)
    PROVE  Hearing'
<1> DEFINE r == request[s]
<1>1. /\ UNCHANGED <<rows, heard>> /\ r.stage = "routing" /\ r.n > 0
      /\ DOMAIN r = RequestFields /\ IsList(r.pending) /\ r.accepted = 0
      /\ HeardSoFar(s, r, heard[s], alerts, incidents)
  BY RouteCases DEF Typed, RequestTyped, Hearing
<1>2. heard' = [heard EXCEPT ![s] = heard[s]]
  BY <1>1 DEF Hearing
<1>3. ASSUME NEW new, request' = [request EXCEPT ![s] = new],
             PendingSpoken(s, new), new.stage \in {"routing", "storing"}, new.accepted = 0
      PROVE  Hearing'
  <2>1. HeardUpTo(alerts, incidents, new.pending, new.accepted)
    BY <1>3 DEF HeardUpTo
  <2>2. HeardSoFar(s, new, heard[s], alerts, incidents)
    BY <1>1, <1>3, <2>1 DEF HeardSoFar
  <2> QED
    BY <1>1, <1>2, <1>3, <2>2, OneSpeaks
<1>4. PendingSpoken(s, r)
  BY <1>1 DEF HeardSoFar
<1>5. CASE request' = [request EXCEPT ![s] = [r EXCEPT !.stage = "storing"]]
  <2> DEFINE new == [r EXCEPT !.stage = "storing"]
  <2> HIDE DEF r
  <2>1. new.stage = "storing" /\ new.pending = r.pending /\ new.accepted = 0
    BY <1>1 DEF RequestFields
  <2>2. PendingSpoken(s, new)
    BY <1>4, <2>1 DEF PendingSpoken
  <2> QED
    BY <1>3, <1>5, <2>1, <2>2
<1>6. CASE request' = [request EXCEPT ![s] = NotRouted(r)]
  <2> DEFINE new == NotRouted(r)
  <2> HIDE DEF r
  <2>1. new.stage = "routing" /\ new.pending = r.pending /\ new.accepted = 0
    BY <1>1 DEF RequestFields, NotRouted
  <2>2. PendingSpoken(s, new)
    BY <1>4, <2>1 DEF PendingSpoken
  <2> QED
    BY <1>3, <1>6, <2>1, <2>2
<1>7. ASSUME r.read < Len(Parse(r.payload)), NEW rt \in Entries,
             request' = [request EXCEPT ![s] = WithAlert(r, AlertOf(s, rt))]
      PROVE  Hearing'
  <2> DEFINE alert == AlertOf(s, rt)
             new == WithAlert(r, alert)
  <2>1. alert.about \in Speaks(s) /\ alert.status = alert.means
    BY <1>1, <1>7, AlertSpoken
  <2> HIDE DEF alert, r
  <2>2. /\ new.stage = "routing" /\ new.pending = Append(r.pending, alert)
        /\ new.accepted = 0
    BY <1>1 DEF RequestFields, WithAlert
  <2> HIDE DEF new
  <2>3. /\ DOMAIN new.pending = DOMAIN r.pending \cup {Len(r.pending) + 1}
        /\ \A i \in DOMAIN r.pending : new.pending[i] = r.pending[i]
        /\ new.pending[Len(r.pending) + 1] = alert
    BY <1>1, <2>2, AppendList
  <2>4. PendingSpoken(s, new)
    BY <1>4, <2>1, <2>3 DEF PendingSpoken
  <2> QED
    BY <1>3, <1>7, <2>2, <2>4 DEF new, alert
<1> QED
  BY <1>5, <1>6, <1>7, RouteCases

(* The chunk a request stores is heard, and so is what others have said.   *)
LEMMA StoreHeard ==
    ASSUME LabelsListedOnce, OwnAlerts, Typed, Truth, Hearing,
           NEW s \in Sender, StoreChunk(s)
    PROVE  Hearing'
<1> DEFINE r == request[s]
           db == Applied(Chunk(r))
           new == Counted(r, db)
           k == r.accepted
           pending == r.pending
<1>1. /\ r.accepted < Len(r.pending) /\ r.stage = "storing"
      /\ alerts' = db.alerts /\ incidents' = db.incidents /\ heard' = heard
  BY DEF StoreChunk
<1>2. /\ IsList(pending) /\ k \in Nat /\ PendingTrue(s, r)
      /\ HeardSoFar(s, r, heard[s], alerts, incidents)
      /\ TablesTyped(alerts, incidents) /\ TablesTrue(alerts, incidents)
      /\ QuietCloses(alerts, incidents)
  BY DEF Typed, Truth, Hearing, RequestTyped
<1>3. /\ IsList(Chunk(r))
      /\ \A i \in DOMAIN Chunk(r) : k + i \in DOMAIN pending /\ Chunk(r)[i] = pending[k + i]
  BY <1>1, ChunkOfPending
<1>4. \A i \in DOMAIN pending : Routed(pending[i]) /\ IsAbout(pending[i].about)
                                /\ pending[i].about \in Speaks(s)
  BY <1>2, SpeaksOfAlerts DEF PendingTrue, HeardSoFar, PendingSpoken
<1>5. HeardUpTo(alerts, incidents, pending, k)
  BY <1>1, <1>2 DEF HeardSoFar
<1>6. /\ QuietCloses(db.alerts, db.incidents)
      /\ HeardUpTo(db.alerts, db.incidents, pending, k + Len(Chunk(r)))
      /\ OthersHeard(db.alerts, db.incidents, pending)
  <2> DEFINE chunk == Chunk(r)
  <2> HIDE DEF r, k, pending, chunk
  <2>1. LET new_ == Applied(chunk) IN
        /\ QuietCloses(new_.alerts, new_.incidents)
        /\ HeardUpTo(new_.alerts, new_.incidents, pending, k + Len(chunk))
        /\ OthersHeard(new_.alerts, new_.incidents, pending)
    BY <1>2, <1>3, <1>4, <1>5, AppliedHeard DEF chunk
  <2> QED
    BY <2>1 DEF chunk
<1>7. /\ request' = [request EXCEPT ![s] = new] /\ new.stage = r.stage
      /\ new.pending = pending /\ new.accepted = k + Len(Chunk(r))
  BY StoreCase
<1>8. request'[s] = new /\ \A t \in Sender : t # s => request'[t] = request[t]
  BY <1>7 DEF Typed
<1> HIDE DEF new, db
<1>9. HeardSoFar(s, new, heard[s], db.alerts, db.incidents)
  <2>1. PendingSpoken(s, new) /\ \A h \in heard[s] : h.about \in Speaks(s)
    BY <1>2, <1>7 DEF HeardSoFar, PendingSpoken
  <2>2. new.stage = "storing"
    BY <1>1, <1>7
  <2>3. HeardUpTo(db.alerts, db.incidents, new.pending, new.accepted)
    BY <1>6, <1>7
  <2> QED
    BY <2>1, <2>2, <2>3 DEF HeardSoFar
<1>10. ASSUME NEW t \in Sender, t # s, NEW x \in Speaks(t), NEW status,
              HeardIn(alerts, incidents, x, status)
       PROVE  HeardIn(db.alerts, db.incidents, x, status)
  <2>1. \A i \in DOMAIN pending : pending[i].about # x
    BY <1>4, <1>10 DEF OwnAlerts
  <2>2. IsAbout(x)
    BY <1>10, SpeaksOfAlerts
  <2> HIDE DEF pending
  <2> QED
    BY <1>6, <1>10, <2>1, <2>2 DEF OthersHeard
<1>11. ASSUME NEW t \in Sender, t # s
       PROVE  HeardSoFar(t, request[t], heard[t], db.alerts, db.incidents)
  <2> DEFINE q == request[t]
  <2>1. HeardSoFar(t, q, heard[t], alerts, incidents) /\ RequestTyped(t, q)
    BY DEF Hearing, Typed
  <2> HIDE DEF q
  <2>2. PendingSpoken(t, q) /\ \A h \in heard[t] : h.about \in Speaks(t)
    BY <2>1 DEF HeardSoFar
  <2>3. ASSUME q.stage = "storing"
        PROVE  HeardUpTo(db.alerts, db.incidents, q.pending, q.accepted)
    <3>1. HeardUpTo(alerts, incidents, q.pending, q.accepted)
      BY <2>1, <2>3 DEF HeardSoFar
    <3>2. \A i \in 1..q.accepted : i \in DOMAIN q.pending
      <4>1. IsList(q.pending) /\ q.accepted \in Nat /\ q.accepted <= Len(q.pending)
        BY <2>1 DEF RequestTyped
      <4>2. DOMAIN q.pending = 1..Len(q.pending) /\ Len(q.pending) \in Nat
        BY <4>1, ListFacts
      <4> QED
        BY <4>1, <4>2
    <3>3. \A i \in 1..q.accepted : q.pending[i].about \in Speaks(t)
      BY <2>2, <3>2 DEF PendingSpoken
    <3> QED
      BY <1>10, <1>11, <3>1, <3>3 DEF HeardUpTo
  <2>4. AllHeard(heard[t], alerts, incidents) => AllHeard(heard[t], db.alerts, db.incidents)
    BY <1>10, <1>11, <2>2 DEF AllHeard
  <2> QED
    BY <2>1, <2>2, <2>3, <2>4 DEF HeardSoFar, q
<1>12. \A t \in Sender : HeardSoFar(t, request'[t], heard'[t], alerts', incidents')
  BY <1>1, <1>8, <1>9, <1>11
<1>13. QuietCloses(alerts', incidents') /\ heard' = [t \in Sender |-> heard'[t]]
  BY <1>1, <1>6 DEF Hearing
<1> QED
  BY <1>12, <1>13 DEF Hearing

(* The answer 200 comes when the last word on every alert has been heard.  *)
LEMMA AnswerHeard ==
    ASSUME Typed, Hearing, NEW s \in Sender, ChunkFails(s) \/ Accept(s)
    PROVE  Hearing'
<1> DEFINE r == request[s]
<1>1. /\ DOMAIN r = RequestFields /\ IsList(r.pending)
      /\ HeardSoFar(s, r, heard[s], alerts, incidents)
  BY DEF Typed, RequestTyped, Hearing
<1>2. ASSUME NEW stage, NEW said, stage # "storing",
             request' = [request EXCEPT ![s].stage = stage],
             heard' = [heard EXCEPT ![s] = said], UNCHANGED rows,
             \A h \in said : h.about \in Speaks(s), AllHeard(said, alerts, incidents)
      PROVE  Hearing'
  <2> DEFINE new == [r EXCEPT !.stage = stage]
  <2>1. request' = [request EXCEPT ![s] = new]
    BY <1>2
  <2> HIDE DEF r
  <2>2. new.pending = r.pending /\ new.stage = stage
    BY <1>1 DEF RequestFields
  <2> HIDE DEF new
  <2>3. PendingSpoken(s, new)
    BY <1>1, <2>2 DEF HeardSoFar, PendingSpoken
  <2>4. HeardSoFar(s, new, said, alerts, incidents)
    BY <1>2, <2>2, <2>3 DEF HeardSoFar
  <2> QED
    BY <1>2, <2>1, <2>4, OneSpeaks
<1>3. CASE ChunkFails(s)
  <2>1. /\ request' = [request EXCEPT ![s].stage = "failed"]
        /\ heard' = [heard EXCEPT ![s] = {}] /\ UNCHANGED rows
    BY <1>3 DEF ChunkFails, Fails
  <2> DEFINE said == {}
  <2>2. AllHeard(said, alerts, incidents) /\ \A h \in said : h.about \in Speaks(s)
    BY DEF AllHeard
  <2> HIDE DEF said
  <2>3. heard' = [heard EXCEPT ![s] = said]
    BY <2>1 DEF said
  <2> QED
    BY <1>2, <2>1, <2>2, <2>3
<1>4. CASE Accept(s)
  <2> DEFINE said == Said(r.pending)
  <2>1. /\ request' = [request EXCEPT ![s].stage = "accepted"]
        /\ heard' = [heard EXCEPT ![s] = said] /\ UNCHANGED rows
        /\ r.stage = "storing" /\ r.accepted = Len(r.pending)
    BY <1>4 DEF Accept
  <2>2. /\ HeardUpTo(alerts, incidents, r.pending, Len(r.pending))
        /\ PendingSpoken(s, r) /\ DOMAIN r.pending = 1..Len(r.pending)
    BY <1>1, <2>1, ListFacts DEF HeardSoFar
  <2>3. ASSUME NEW h \in said
        PROVE  h.about \in Speaks(s) /\ HeardIn(alerts, incidents, h.about, h.status)
    <3> DEFINE pending == r.pending
    <3>1. PICK i \in DOMAIN pending :
            /\ \A m \in DOMAIN pending : m > i => pending[m].about # pending[i].about
            /\ h = [about |-> pending[i].about, status |-> pending[i].means]
      BY DEF Said
    <3>2. h.about \in Speaks(s) /\ h.about = pending[i].about /\ h.status = pending[i].status
      BY <2>2, <3>1 DEF PendingSpoken
    <3>3. HeardIn(alerts, incidents, pending[i].about, pending[i].status)
      <4> HIDE DEF r
      <4> QED
        BY <2>2, <3>1 DEF HeardUpTo
    <3> QED
      BY <3>2, <3>3
  <2> HIDE DEF said
  <2>4. AllHeard(said, alerts, incidents)
    BY <2>3 DEF AllHeard
  <2> QED
    BY <1>2, <2>1, <2>3, <2>4
<1> QED
  BY <1>3, <1>4

(* An incident closes when nothing in it fires, by hand, or unanswered.    *)
LEMMA CloseHeard ==
    ASSUME Typed, Truth, Hearing, NEW id \in DOMAIN incidents,
           Ends(id)
    PROVE  Hearing'
<1> DEFINE inc == incidents[id]
<1>1. /\ TablesTyped(alerts, incidents) /\ TablesTrue(alerts, incidents)
      /\ DOMAIN inc = IncidentFields /\ QuietCloses(alerts, incidents)
  BY DEF Typed, Truth, TablesTyped, Hearing
<1>2. UNCHANGED <<table, request, alerts, heard>> /\ inc.open
  BY <1>1, CloseCase
<1>3. PICK open, closing, byHand, expired :
        /\ open \in BOOLEAN /\ closing \in BOOLEAN
        /\ incidents' = [incidents EXCEPT ![id] = ClosedAs(inc, open, closing, byHand, expired)]
        /\ \/ open = ~AllAlertsResolved(alerts, id)
           \/ open = FALSE /\ (byHand = TRUE \/ expired = TRUE)
  BY <1>1, CloseCase
<1>4. AllAlertsResolved(alerts, id) <=> \A alert : ~FiresIn(alerts, id, alert)
  <2>1. /\ IsList(alerts)
        /\ \A n \in DOMAIN alerts : /\ alerts[n].fingerprint = alerts[n].about.alert
                                    /\ alerts[n].status \in AlertStatus
    BY <1>1 DEF TablesTyped, TablesTrue, RowsTrue
  <2> QED
    BY <2>1, ResolvedMeansQuiet
<1> HIDE DEF inc
<1> DEFINE new == ClosedAs(inc, open, closing, byHand, expired)
<1>5. /\ new.open = open /\ new.byHand = byHand /\ new.expired = expired
      /\ new.group = inc.group
  BY <1>1 DEF ClosedAs, IncidentFields
<1> HIDE DEF new
<1>6. incidents' = [incidents EXCEPT ![id] = new]
  BY <1>3 DEF new
<1>7. /\ DOMAIN incidents' = DOMAIN incidents /\ incidents'[id] = new
      /\ \A j \in DOMAIN incidents : j # id => incidents'[j] = incidents[j]
  BY <1>6
<1>8. QuietCloses(alerts, incidents')
  <2>1. ~(new.open /\ AllAlertsResolved(alerts, id))
    BY <1>3, <1>5
  <2> QED
    BY <1>1, <1>7, <2>1 DEF QuietCloses
<1>9. ASSUME NEW about, NEW status, HeardIn(alerts, incidents, about, status)
      PROVE  HeardIn(alerts, incidents', about, status)
  <2>1. CASE status = "firing"
    <3>1. PICK j \in DOMAIN incidents :
            /\ incidents[j].group = about.group /\ FiresIn(alerts, j, about.alert)
            /\ incidents[j].open \/ incidents[j].byHand \/ incidents[j].expired
      BY <1>9, <2>1 DEF HeardIn
    <3>2. CASE j = id
      <4>1. ~AllAlertsResolved(alerts, id)
        BY <1>4, <3>1, <3>2
      <4>2. new.open \/ new.byHand = TRUE \/ new.expired = TRUE
        BY <1>3, <1>5, <4>1
      <4>3. new.group = about.group
        BY <1>5, <3>1, <3>2 DEF inc
      <4> QED
        BY <1>7, <2>1, <3>1, <3>2, <4>2, <4>3 DEF HeardIn
    <3>3. CASE j # id
      BY <1>7, <2>1, <3>1, <3>3 DEF HeardIn
    <3> QED
      BY <3>2, <3>3
  <2>2. CASE status # "firing"
    <3>1. \A j \in DOMAIN incidents :
            incidents[j].group = about.group /\ incidents[j].open
                => ~FiresIn(alerts, j, about.alert)
      BY <1>9, <2>2 DEF HeardIn
    <3>2. \A j \in DOMAIN incidents :
            /\ incidents'[j].group = incidents[j].group
            /\ incidents'[j].open => incidents[j].open
      BY <1>2, <1>5, <1>7 DEF inc
    <3> QED
      BY <1>7, <2>2, <3>1, <3>2 DEF HeardIn
  <2> QED
    BY <2>1, <2>2
<1>10. ASSUME NEW s \in Sender
       PROVE  HeardSoFar(s, request[s], heard[s], alerts, incidents')
  <2>1. HeardSoFar(s, request[s], heard[s], alerts, incidents)
    BY DEF Hearing
  <2> QED
    BY <1>9, <2>1 DEF HeardSoFar, HeardUpTo, AllHeard
<1> QED
  BY <1>2, <1>8, <1>10 DEF Hearing

LEMMA NextHeard ==
    ASSUME StatusAsMeant, LabelsListedOnce, OwnAlerts, Typed, Truth, Hearing, [Next]_vars
    PROVE  Hearing'
<1>1. ASSUME NEW s \in Sender, NEW p \in Payloads[s], Send(s, p) PROVE Hearing'
  BY <1>1, SendHeard
<1>2. ASSUME NEW s \in Sender, Route(s) PROVE Hearing'
  BY <1>2, RouteHeard
<1>3. ASSUME NEW s \in Sender, StoreChunk(s) PROVE Hearing'
  BY <1>3, StoreHeard
<1>4. ASSUME NEW s \in Sender, ChunkFails(s) \/ Accept(s) PROVE Hearing'
  BY <1>4, AnswerHeard
<1>5. ASSUME NEW id \in DOMAIN incidents, Ends(id) PROVE Hearing'
  BY <1>5, CloseHeard
<1>6. ASSUME NEW cfg \in Configs, Reload(cfg) PROVE Hearing'
  BY <1>6 DEF Reload, Hearing, rows
<1>7. CASE UNCHANGED vars
  BY <1>7 DEF Hearing, vars, rows
<1> QED
  BY <1>1, <1>2, <1>3, <1>4, <1>5, <1>6, <1>7 DEF Next, Ends

(* Of the rows of an alert in an incident one is the last.                 *)
LEMMA LastRow ==
    ASSUME TablesTyped(alerts, incidents), NEW id, NEW alert,
           \E n \in Rows(id) : alerts[n].about.alert = alert
    PROVE  LET last == LastOf(id, alert) IN
           /\ last \in Rows(id) /\ alerts[last].about.alert = alert
           /\ \A m \in Rows(id) : alerts[m].about.alert = alert => m <= last
<1> DEFINE S == {n \in Rows(id) : alerts[n].about.alert = alert}
           size == Len(alerts)
           after == {size - n : n \in S}
<1>1. size \in Nat /\ DOMAIN alerts = 1..size
  BY ListFacts DEF TablesTyped
<1>2. S # {} /\ S \subseteq 1..size
  BY <1>1 DEF Rows
<1> HIDE DEF size, S
<1>3. after # {} /\ after \subseteq Nat
  <2>1. ASSUME NEW n \in S PROVE size - n \in Nat
    <3>1. n \in 1..size
      BY <1>2
    <3>2. n \in Int /\ n <= size /\ size \in Int
      BY <1>1, <3>1
    <3> QED
      BY <3>2
  <2> QED
    BY <1>2, <2>1
<1>4. PICK least \in after : \A m \in after : least <= m
  <2> HIDE DEF after
  <2> QED
    BY <1>3, SmallestOf
<1>5. PICK n \in S : least = size - n
  BY <1>4
<1>6. \A m \in S : m <= n
  <2> SUFFICES ASSUME NEW m \in S PROVE m <= n
    OBVIOUS
  <2>1. size - n <= size - m
    BY <1>4, <1>5
  <2> QED
    BY <1>1, <1>2, <2>1
<1>7. \E last \in Rows(id) :
        /\ alerts[last].about.alert = alert
        /\ \A m \in Rows(id) : alerts[m].about.alert = alert => m <= last
  BY <1>6 DEF S
<1> QED
  BY <1>7 DEF LastOf

LEMMA FiresMeans ==
    ASSUME TablesTyped(alerts, incidents), NEW id, NEW alert
    PROVE  Fires(id, alert) <=> FiresIn(alerts, id, alert)
<1>1. \A n : n \in DOMAIN alerts /\ Of(alerts, n, id, alert)
                <=> n \in Rows(id) /\ alerts[n].about.alert = alert
  BY DEF Of, Rows
<1>2. CASE ~\E n \in Rows(id) : alerts[n].about.alert = alert
  BY <1>1, <1>2 DEF Fires, FiresIn
<1>3. CASE \E n \in Rows(id) : alerts[n].about.alert = alert
  <2> DEFINE last == LastOf(id, alert)
  <2>1. /\ last \in Rows(id) /\ alerts[last].about.alert = alert
        /\ \A m \in Rows(id) : alerts[m].about.alert = alert => m <= last
    BY <1>3, LastRow
  <2>2. Fires(id, alert) <=> alerts[last].status = "firing"
    BY <1>3 DEF Fires
  <2> HIDE DEF last
  <2>3. DOMAIN alerts \subseteq Nat
    BY ListFacts DEF TablesTyped
  <2>4. alerts[last].status = "firing" => FiresIn(alerts, id, alert)
    BY <1>1, <2>1 DEF FiresIn
  <2>5. ASSUME FiresIn(alerts, id, alert) PROVE alerts[last].status = "firing"
    <3>1. PICK n \in DOMAIN alerts :
            /\ Of(alerts, n, id, alert) /\ alerts[n].status = "firing"
            /\ \A m \in DOMAIN alerts : Of(alerts, m, id, alert) => m <= n
      BY <2>5 DEF FiresIn
    <3>2. n <= last /\ last <= n /\ n \in Nat /\ last \in Nat
      BY <1>1, <2>1, <2>3, <3>1
    <3>3. n = last
      BY <3>2
    <3> QED
      BY <3>1, <3>3
  <2> QED
    BY <2>2, <2>4, <2>5
<1> QED
  BY <1>2, <1>3

(* A sender that got its 200 is heard: what it said fires is held by an     *)
(* incident that is open, that a person closed or that expired unanswered,  *)
(* what it said has resolved keeps none open, and an incident with nothing  *)
(* left is about to close, whatever others send, fails, closes, expires or  *)
(* is reloaded in between.                                                  *)
THEOREM SenderHeard ==
    ASSUME ReadAsMeant, StatusAsMeant, LabelsListedOnce, OwnAlerts
    PROVE  Spec => []SenderIsHeard
<1>1. Typed /\ Truth /\ Hearing => SenderIsHeard
  <2> SUFFICES ASSUME Typed, Truth, Hearing, NEW s \in Sender, Answered(s),
                      NEW h \in heard[s]
               PROVE  LET held == {id \in DOMAIN incidents :
                                    incidents[id].group = h.about.group} IN
                      IF h.status = "firing"
                      THEN \E id \in held : /\ Fires(id, h.about.alert)
                                            /\ \/ incidents[id].open
                                               \/ incidents[id].byHand
                                               \/ incidents[id].expired
                      ELSE \A id \in held :
                            incidents[id].open => /\ ~Fires(id, h.about.alert)
                                                  /\ Quiet(id) => incidents[id].closing
    BY DEF SenderIsHeard
  <2>1. TablesTyped(alerts, incidents) /\ TablesTrue(alerts, incidents)
    BY DEF Typed, Truth
  <2>2. HeardIn(alerts, incidents, h.about, h.status) /\ QuietCloses(alerts, incidents)
    BY DEF Hearing, HeardSoFar, AllHeard, Answered
  <2>3. \A id, alert : Fires(id, alert) <=> FiresIn(alerts, id, alert)
    BY <2>1, FiresMeans
  <2>4. ASSUME NEW id, Quiet(id) PROVE AllAlertsResolved(alerts, id)
    <3>1. /\ IsList(alerts)
          /\ \A n \in DOMAIN alerts : /\ alerts[n].fingerprint = alerts[n].about.alert
                                      /\ alerts[n].status \in AlertStatus
      BY <2>1 DEF TablesTyped, TablesTrue, RowsTrue
    <3>2. \A alert : ~FiresIn(alerts, id, alert)
      <4> SUFFICES ASSUME NEW alert, FiresIn(alerts, id, alert) PROVE FALSE
        OBVIOUS
      <4>1. PICK n \in DOMAIN alerts : Of(alerts, n, id, alert)
        BY DEF FiresIn
      <4>2. n \in Rows(id) /\ alerts[n].about.alert = alert
        BY <4>1 DEF Of, Rows
      <4> QED
        BY <2>3, <2>4, <4>2 DEF Quiet
    <3> QED
      BY <3>1, <3>2, ResolvedMeansQuiet
  <2>5. CASE h.status = "firing"
    BY <2>2, <2>3, <2>5 DEF HeardIn
  <2>6. CASE h.status # "firing"
    BY <2>2, <2>3, <2>4, <2>6 DEF HeardIn, QuietCloses
  <2> QED
    BY <2>5, <2>6
<1>2. Init => Typed /\ Truth /\ Hearing
  BY InitTyped, InitTrue, InitHeard
<1>3. (Typed /\ Truth /\ Hearing) /\ [Next]_vars => (Typed /\ Truth /\ Hearing)'
  BY NextTyped, NextTrue, NextHeard
<1> QED
  BY <1>1, <1>2, <1>3, PTL DEF Spec
=============================================================================
