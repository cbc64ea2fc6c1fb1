---------------------------- MODULE ReloadProofs ----------------------------
(***************************************************************************)
(* Proofs about Reload for any files, alerts, teams and steps: what a      *)
(* resolution that reloads interrupt comes up with, and what a validated   *)
(* configuration guarantees to a page.                                     *)
(***************************************************************************)
EXTENDS Reload, SequenceTheorems, WellFoundedInduction, TLAPS

-----------------------------------------------------------------------------
(* The list of people.                                                     *)

Grown(list, id) == IF id \in Range(list) THEN list ELSE Append(list, id)

(* One more name: it is listed, once.                                      *)
LEMMA OneMore ==
    ASSUME NEW S, NEW list \in Seq(S), IsInjective(list), NEW id \in S
    PROVE  /\ Grown(list, id) \in Seq(S) /\ IsInjective(Grown(list, id))
           /\ Range(Grown(list, id)) = Range(list) \cup {id}
<1>1. CASE id \in Range(list)
  BY <1>1 DEF Grown
<1>2. CASE id \notin Range(list)
  <2> DEFINE longer == Append(list, id)
  <2>1. Grown(list, id) = longer
    BY <1>2 DEF Grown
  <2>2. /\ longer \in Seq(S) /\ Len(longer) = Len(list) + 1
        /\ \A i \in 1..Len(list) : longer[i] = list[i]
        /\ longer[Len(list) + 1] = id
    BY AppendProperties
  <2>3. /\ Len(list) \in Nat /\ DOMAIN list = 1..Len(list)
        /\ DOMAIN longer = 1..(Len(list) + 1)
    BY <2>2, LenProperties
  <2>4. \A i \in DOMAIN list : list[i] # id
    BY <1>2 DEF Range
  <2>5. IsInjective(longer)
    <3> SUFFICES ASSUME NEW i \in DOMAIN longer, NEW j \in DOMAIN longer,
                        longer[i] = longer[j]
                 PROVE  i = j
      BY DEF IsInjective
    <3> HIDE DEF longer
    <3>1. i \in DOMAIN list \/ i = Len(list) + 1
      BY <2>3
    <3>2. j \in DOMAIN list \/ j = Len(list) + 1
      BY <2>3
    <3> QED
      BY <2>2, <2>3, <2>4, <3>1, <3>2 DEF IsInjective
  <2>6. Range(longer) = Range(list) \cup {id}
    <3> HIDE DEF longer
    <3>1. \A i \in DOMAIN longer : i \in DOMAIN list \/ i = Len(list) + 1
      BY <2>3
    <3>2. Len(list) + 1 \in DOMAIN longer /\ \A i \in DOMAIN list : i \in DOMAIN longer
      BY <2>3
    <3> QED
      BY <2>2, <2>3, <3>1, <3>2 DEF Range
  <2> QED
    BY <2>1, <2>2, <2>5, <2>6
<1> QED
  BY <1>1, <1>2

(* The least natural number with a property, where induction over an       *)
(* operator is out of the provers' reach.                                  *)
LEMMA SmallestOf ==
    ASSUME NEW S, S \subseteq Nat, S # {}
    PROVE  \E n \in S : \A m \in S : n <= m
<1>1. PICK n \in S : \A m \in S : ~(<<m, n>> \in OpToRel(<, Nat))
  BY NatLessThanWellFounded, WFMin
<1>2. \A m \in S : ~(m < n)
  BY <1>1 DEF OpToRel
<1> QED
  BY <1>2

(* What Add does, name by name.                                            *)
LEMMA AddUnfolds ==
    ASSUME NEW users, NEW ids, Len(ids) \in Nat
    PROVE  \E after :
            /\ after = [n \in 0..Len(ids) |->
                            IF n = 0 THEN users ELSE Grown(after[n - 1], ids[n])]
            /\ Add(users, ids) = after[Len(ids)]
<1> DEFINE Run(g, k) ==
               g = [n \in 0..k |-> IF n = 0 THEN users ELSE Grown(g[n - 1], ids[n])]
           bad == {k \in 0..Len(ids) : ~\E g : Run(g, k)}
<1>1. bad = {}
  <2> SUFFICES ASSUME bad # {} PROVE FALSE
    OBVIOUS
  <2>1. PICK k \in bad : \A j \in bad : k <= j
    <3> HIDE DEF bad
    <3>1. bad \subseteq Nat
      BY DEF bad
    <3> QED
      BY <3>1, SmallestOf
  <2>2. CASE k = 0
    <3> DEFINE g == [n \in 0..0 |-> users]
    <3>1. Run(g, 0)
      OBVIOUS
    <3> QED
      BY <2>2, <3>1
  <2>3. CASE k > 0
    <3>1. k \in Nat /\ k - 1 \in 0..Len(ids)
      BY <2>3
    <3>2. k - 1 \notin bad
      <4> HIDE DEF bad
      <4> QED
        BY <2>1, <3>1
    <3>3. PICK g : Run(g, k - 1)
      BY <3>1, <3>2
    <3> DEFINE h == [n \in 0..k |-> IF n = k THEN Grown(g[k - 1], ids[k]) ELSE g[n]]
    <3>4. \A n \in 0..k : h[n] = IF n = 0 THEN users ELSE Grown(h[n - 1], ids[n])
      <4> SUFFICES ASSUME NEW n \in 0..k
                   PROVE  h[n] = IF n = 0 THEN users ELSE Grown(h[n - 1], ids[n])
        OBVIOUS
      <4>1. CASE n = k
        BY <2>3, <3>1, <4>1
      <4>2. CASE n # k
        <5>1. n \in 0..(k - 1) /\ h[n] = g[n] /\ (n # 0 => h[n - 1] = g[n - 1])
          BY <3>1, <4>2
        <5>2. g[n] = IF n = 0 THEN users ELSE Grown(g[n - 1], ids[n])
          BY <3>3, <5>1
        <5> QED
          BY <5>1, <5>2
      <4> QED
        BY <4>1, <4>2
    <3>5. Run(h, k)
      BY <3>4
    <3> QED
      BY <2>1, <3>5
  <2> QED
    BY <2>1, <2>2, <2>3
<1>2. \E g : Run(g, Len(ids))
  BY <1>1
<1> DEFINE after[n \in 0..Len(ids)] ==
            IF n = 0 THEN users
            ELSE IF ids[n] \in Range(after[n - 1]) THEN after[n - 1]
            ELSE Append(after[n - 1], ids[n])
<1>3. Add(users, ids) = after[Len(ids)]
  BY DEF Add
<1>4. Run(after, Len(ids))
  BY <1>2 DEF Grown
<1> QED
  BY <1>3, <1>4

(* Add lists whoever it is given, and nobody twice.                        *)
LEMMA AddLists ==
    ASSUME NEW S, NEW users \in Seq(S), IsInjective(users), NEW ids \in Seq(S)
    PROVE  /\ Add(users, ids) \in Seq(S) /\ IsInjective(Add(users, ids))
           /\ Range(Add(users, ids)) = Range(users) \cup Range(ids)
<1>1. Len(ids) \in Nat /\ DOMAIN ids = 1..Len(ids) /\ \A i \in 1..Len(ids) : ids[i] \in S
  BY LenProperties, ElementOfSeq
<1>2. PICK after :
        /\ after = [n \in 0..Len(ids) |->
                        IF n = 0 THEN users ELSE Grown(after[n - 1], ids[n])]
        /\ Add(users, ids) = after[Len(ids)]
  BY <1>1, AddUnfolds
<1>3. after[0] = users /\ \A n \in 1..Len(ids) : after[n] = Grown(after[n - 1], ids[n])
  BY <1>1, <1>2
<1> DEFINE Listed(n) == /\ after[n] \in Seq(S) /\ IsInjective(after[n])
                        /\ Range(after[n]) = Range(users) \cup {ids[i] : i \in 1..n}
           bad == {n \in 0..Len(ids) : ~Listed(n)}
<1>4. bad = {}
  <2> SUFFICES ASSUME bad # {} PROVE FALSE
    OBVIOUS
  <2>1. PICK n \in bad : \A m \in bad : n <= m
    <3> HIDE DEF bad
    <3>1. bad \subseteq Nat
      BY DEF bad
    <3> QED
      BY <3>1, SmallestOf
  <2>2. CASE n = 0
    <3>1. Listed(0)
      BY <1>3
    <3> QED
      BY <2>1, <2>2, <3>1
  <2>3. CASE n > 0
    <3>1. n \in 1..Len(ids) /\ n - 1 \in 0..Len(ids)
      BY <1>1, <2>3
    <3>2. n - 1 \notin bad
      <4> HIDE DEF bad
      <4> QED
        BY <2>1, <3>1
    <3>3. Listed(n - 1)
      BY <3>1, <3>2
    <3>4. after[n] = Grown(after[n - 1], ids[n]) /\ ids[n] \in S
      BY <1>1, <1>3, <3>1
    <3>5. /\ after[n] \in Seq(S) /\ IsInjective(after[n])
          /\ Range(after[n]) = Range(after[n - 1]) \cup {ids[n]}
      <4> DEFINE list == after[n - 1]
                 id == ids[n]
      <4>1. list \in Seq(S) /\ IsInjective(list) /\ id \in S
        BY <3>3, <3>4
      <4>2. after[n] = Grown(list, id)
        BY <3>4
      <4> HIDE DEF Listed, bad, list, id
      <4>3. /\ Grown(list, id) \in Seq(S) /\ IsInjective(Grown(list, id))
            /\ Range(Grown(list, id)) = Range(list) \cup {id}
        BY <4>1, OneMore
      <4> QED
        BY <4>2, <4>3 DEF list, id
    <3>6. {ids[i] : i \in 1..n} = {ids[i] : i \in 1..(n - 1)} \cup {ids[n]}
      <4>1. 1..n = 1..(n - 1) \cup {n}
        BY <3>1
      <4> QED
        BY <4>1
    <3>7. Listed(n)
      BY <3>3, <3>5, <3>6
    <3> QED
      BY <2>1, <3>7
  <2> QED
    BY <2>1, <2>2, <2>3
<1>5. Listed(Len(ids))
  BY <1>1, <1>4
<1> QED
  BY <1>1, <1>2, <1>5 DEF Range

-----------------------------------------------------------------------------
(* What validation says of a step.                                         *)

(* Answers, kind by kind.                                                  *)
LEMMA AnswersOf ==
    ASSUME NEW c, NEW t
    PROVE  /\ t.kind = "user" => Answers(c, t) = {<<t.name>>}
           /\ t.kind = "team" => Answers(c, t) =
                {IF t.name \in DOMAIN c.teams THEN c.teams[t.name] ELSE <<>>}
           /\ t.kind = "schedule" => Answers(c, t) =
                {<<>>} \cup (IF t.name \in DOMAIN c.schedules
                             THEN {<<u>> : u \in c.schedules[t.name] \cup Cover} ELSE {})
<1>1. ASSUME t.kind = "user"
      PROVE  Answers(c, t) = {<<t.name>>}
  BY <1>1, Zenon DEF Answers
<1>2. ASSUME t.kind = "team"
      PROVE  Answers(c, t) =
                {IF t.name \in DOMAIN c.teams THEN c.teams[t.name] ELSE <<>>}
  BY <1>2, Zenon DEF Answers
<1>3. ASSUME t.kind = "schedule"
      PROVE  Answers(c, t) =
                {<<>>} \cup (IF t.name \in DOMAIN c.schedules
                             THEN {<<u>> : u \in c.schedules[t.name] \cup Cover} ELSE {})
  BY <1>3, Zenon DEF Answers
<1> QED
  BY <1>1, <1>2, <1>3

(* reachableUsers, kind by kind.                                           *)
LEMMA ReachableOf ==
    ASSUME NEW c, NEW targets, NEW t \in Range(targets), NEW u
    PROVE  /\ t.kind = "user" /\ u \in {t.name} \cap Users(c)
                => u \in reachableUsers(c, targets)
           /\ t.kind = "team" /\ u \in Range(c.teams[t.name])
                => u \in reachableUsers(c, targets)
           /\ t.kind = "schedule" /\ u \in c.schedules[t.name]
                => u \in reachableUsers(c, targets)
<1> DEFINE people(x) == CASE x.kind = "user" -> {x.name} \cap Users(c)
                          [] x.kind = "team" -> Range(c.teams[x.name])
                          [] x.kind = "schedule" -> c.schedules[x.name]
<1>1. reachableUsers(c, targets) = UNION {people(x) : x \in Range(targets)}
  BY Zenon DEF reachableUsers
<1>2. t.kind = "user" => people(t) = {t.name} \cap Users(c)
  BY Zenon
<1>3. t.kind = "team" => people(t) = Range(c.teams[t.name])
  BY Zenon
<1>4. t.kind = "schedule" => people(t) = c.schedules[t.name]
  BY Zenon
<1> HIDE DEF people
<1> QED
  BY <1>1, <1>2, <1>3, <1>4

Known == {"user", "team", "schedule"}

(* A usable configuration is one that validation let through.              *)
LEMMA UsableIsValid ==
    ASSUME NEW c \in Usable
    PROVE  c \in File /\ c # Absent /\ Validate(c)
BY DEF Usable, Load

(* The steps of a usable configuration.                                    *)
LEMMA StepIsValid ==
    ASSUME NEW c \in Usable, NEW p \in DOMAIN c.policies,
           NEW n \in 1..Len(c.policies[p])
    PROVE  /\ IsList(c.policies[p][n].targets)
           /\ validateStep(c, c.policies[p][n])
           /\ \A t \in Range(c.policies[p][n].targets) : t.kind \in Known
<1> DEFINE steps == c.policies[p]
           s == steps[n]
<1>1. c \in File /\ Validate(c)
  BY UsableIsValid
<1>2. steps \in Seq(Range(steps))
  BY <1>1, FileAssumption DEF IsList
<1>3. s \in Range(steps)
  <2>1. n \in DOMAIN steps
    BY <1>2, LenProperties
  <2> QED
    BY <2>1 DEF Range
<1>4. IsList(s.targets)
  BY <1>1, <1>3, FileAssumption
<1>5. s \in Step(c)
  BY <1>3 DEF Step
<1>6. validateStep(c, s)
  BY <1>1, <1>5 DEF Validate, validatePolicies
<1>7. \A t \in Range(s.targets) : t.kind \in Known
  BY <1>6 DEF validateStep, KnownTarget, Known
<1> QED
  BY <1>4, <1>6, <1>7

(* There is a first step.                                                  *)
LEMMA FirstStep ==
    ASSUME NEW c \in Usable, NEW p \in DOMAIN c.policies
    PROVE  Len(c.policies[p]) \in Nat /\ 1 \in 1..Len(c.policies[p])
<1> DEFINE steps == c.policies[p]
<1>1. c \in File /\ Validate(c)
  BY UsableIsValid
<1>2. steps \in Seq(Range(steps)) /\ steps # <<>>
  BY <1>1, FileAssumption DEF IsList, Validate, validatePolicies
<1> HIDE DEF steps
<1>3. Len(steps) \in Nat /\ Len(steps) # 0
  BY <1>2, LenProperties, EmptySeq
<1> QED
  BY <1>3 DEF steps

(* What a target comes up with is a list, whichever configuration is asked.*)
LEMMA AnswersAreLists ==
    ASSUME NEW c \in Usable, NEW t, t.kind \in Known, NEW ids \in Answers(c, t)
    PROVE  IsList(ids)
<1>1. c \in File
  BY UsableIsValid
<1>2. IsList(<<>>) /\ \A u : IsList(<<u>>)
  <2>1. Range(<<>>) = {} /\ \A u : Range(<<u>>) = {u}
    BY DEF Range
  <2> QED
    BY <2>1 DEF IsList
<1>3. \A n \in DOMAIN c.teams : IsList(c.teams[n])
  BY <1>1, FileAssumption
<1>4. CASE t.kind = "user"
  BY <1>2, <1>4, AnswersOf
<1>5. CASE t.kind = "team"
  BY <1>2, <1>3, <1>5, AnswersOf
<1>6. CASE t.kind = "schedule"
  BY <1>2, <1>6, AnswersOf
<1> QED
  BY <1>4, <1>5, <1>6 DEF Known

(* Whoever a step of a configuration comes up with was looked at by its    *)
(* validation, unless an override names them.                              *)
LEMMA WhoeverIsAsked ==
    ASSUME NEW c \in Usable, NEW s, validateStep(c, s),
           NEW t \in Range(s.targets), NEW ids \in Answers(c, t),
           NEW u \in Range(ids)
    PROVE  u \in reachableUsers(c, s.targets) \/ u \in Cover
<1>1. Validate(c)
  BY UsableIsValid
<1>2. \A x : Range(<<x>>) = {x}
  BY DEF Range
<1>3. Range(<<>>) = {}
  BY DEF Range
<1>4. KnownTarget(c, t)
  BY DEF validateStep
<1>5. CASE t.kind = "user"
  <2>1. u = t.name /\ t.name \in Users(c)
    BY <1>2, <1>4, <1>5, AnswersOf DEF KnownTarget
  <2> QED
    BY <1>5, <2>1, ReachableOf
<1>6. CASE t.kind = "team"
  <2>1. t.name \in DOMAIN c.teams /\ u \in Range(c.teams[t.name])
    BY <1>4, <1>6, AnswersOf DEF KnownTarget
  <2> QED
    BY <1>6, <2>1, ReachableOf
<1>7. CASE t.kind = "schedule"
  <2>1. u \in c.schedules[t.name] \cup Cover
    BY <1>2, <1>3, <1>4, <1>7, AnswersOf DEF KnownTarget
  <2> QED
    BY <1>7, <2>1, ReachableOf
<1> QED
  BY <1>4, <1>5, <1>6, <1>7 DEF KnownTarget

(* Whom validation looked at is a user, with an address on each channel of *)
(* the step.                                                               *)
LEMMA WhoeverIsReachable ==
    ASSUME NEW c \in Usable, NEW s, validateStep(c, s),
           NEW u \in reachableUsers(c, s.targets)
    PROVE  u \in Users(c) /\ s.channels \subseteq DOMAIN c.contacts[u]
<1> DEFINE people(x) == CASE x.kind = "user" -> {x.name} \cap Users(c)
                          [] x.kind = "team" -> Range(c.teams[x.name])
                          [] x.kind = "schedule" -> c.schedules[x.name]
<1>1. reachableUsers(c, s.targets) = UNION {people(x) : x \in Range(s.targets)}
  BY Zenon DEF reachableUsers
<1>2. PICK t \in Range(s.targets) : u \in people(t)
  BY <1>1
<1>3. KnownTarget(c, t) /\ Validate(c)
  BY UsableIsValid DEF validateStep
<1>4. /\ t.kind = "user" => people(t) = {t.name} \cap Users(c)
      /\ t.kind = "team" => people(t) = Range(c.teams[t.name])
      /\ t.kind = "schedule" => people(t) = c.schedules[t.name]
  <2>1. t.kind = "user" => people(t) = {t.name} \cap Users(c)
    BY Zenon
  <2>2. t.kind = "team" => people(t) = Range(c.teams[t.name])
    BY Zenon
  <2>3. t.kind = "schedule" => people(t) = c.schedules[t.name]
    BY Zenon
  <2> QED
    BY <2>1, <2>2, <2>3
<1> HIDE DEF people
<1>5. CASE t.kind = "user"
  BY <1>2, <1>4, <1>5 DEF validateStep
<1>6. CASE t.kind = "team"
  <2>1. t.name \in DOMAIN c.teams
    BY <1>3, <1>6 DEF KnownTarget
  <2>2. u \in Users(c)
    BY <1>2, <1>3, <1>4, <1>6, <2>1 DEF Validate, validateTeams
  <2> QED
    BY <2>2 DEF validateStep
<1>7. CASE t.kind = "schedule"
  <2>1. t.name \in DOMAIN c.schedules
    BY <1>3, <1>7 DEF KnownTarget
  <2>2. u \in Users(c)
    BY <1>2, <1>3, <1>4, <1>7, <2>1 DEF Validate, validateSchedules
  <2> QED
    BY <2>2 DEF validateStep
<1> QED
  BY <1>3, <1>5, <1>6, <1>7 DEF KnownTarget

-----------------------------------------------------------------------------
(* The inductive invariant.                                                *)

(* What the watcher is about to put in force can be built from.            *)
ConfigsLoaded ==
    /\ file \in File \cup {Absent}
    /\ current \in File /\ Load(current) # {}
    /\ inForce \in [Holder -> Usable]
    /\ watcher \in {"starting", "waiting", "loading"} \cup Holder
    /\ watcher \in Holder => FromConfig(current)

PageTyped ==
    /\ DOMAIN page = DOMAIN NoPage
    /\ page.stage \in {"none", "grouped", "due", "resolving", "addressing", "stranded"}
    /\ page.from \subseteq Usable
    /\ page.rung \in 1..Len(page.steps) + 1

(* An incident that met one configuration has a policy there, and whatever *)
(* it met, the steps it follows are those of one of them.                  *)
FollowsAPolicy ==
    /\ page.stage = "none" => page = NoPage
    /\ page.stage # "none" => page.from # {}
    /\ page.stage \in {"none", "grouped", "stranded"} => page.steps = <<>> /\ page.rung = 1
    /\ page.stage # "none" =>
            \A c \in Usable : page.from = {c} => page.policy \in DOMAIN c.policies
    /\ page.stage = "stranded" => \A c \in Usable : page.from # {c}
    /\ page.stage \in {"due", "resolving", "addressing"} =>
            \E c \in page.from : /\ page.policy \in DOMAIN c.policies
                                 /\ page.steps = c.policies[page.policy]
                                 /\ page.rung \in 1..Len(page.steps)

Targets == page.steps[page.rung].targets

(* The first k targets have been asked, all of the same configuration, and *)
(* who they came up with is listed, nobody twice.                          *)
Asked(k) ==
    /\ page.state \in page.from
    /\ IsList(page.users) /\ IsInjective(page.users)
    /\ \E list \in [1..k -> UNION {Answers(page.state, t) : t \in Range(Targets)}] :
            /\ \A i \in 1..k : list[i] \in Answers(page.state, Targets[i])
            /\ Range(page.users) = UNION {Range(list[i]) : i \in 1..k}

Resolving ==
    page.stage = "resolving" =>
        /\ IsList(page.left) /\ Len(page.left) <= Len(Targets)
        /\ \A i \in 1..Len(page.left) :
                page.left[i] = Targets[Len(Targets) - Len(page.left) + i]
        /\ Asked(Len(Targets) - Len(page.left))

Addressing ==
    page.stage = "addressing" =>
        /\ Asked(Len(Targets))
        /\ page.calls \subseteq Range(page.users) \X page.steps[page.rung].channels

PageInv == PageTyped /\ FollowsAPolicy /\ Resolving /\ Addressing

Inv == ConfigsLoaded /\ PageInv

(* The step an incident is at.                                             *)
LEMMA AtAStep ==
    ASSUME PageInv, page.stage \in {"due", "resolving", "addressing"}
    PROVE  /\ Len(page.steps) \in Nat /\ page.rung \in Nat
           /\ page.rung <= Len(page.steps)
           /\ IsList(Targets) /\ \A t \in Range(Targets) : t.kind \in Known
           /\ \A c \in Usable : page.from = {c} =>
                    validateStep(c, page.steps[page.rung])
<1>1. PICK c \in page.from : /\ page.policy \in DOMAIN c.policies
                            /\ page.steps = c.policies[page.policy]
                            /\ page.rung \in 1..Len(page.steps)
  BY DEF PageInv, FollowsAPolicy
<1>2. c \in Usable
  BY DEF PageInv, PageTyped
<1>3. Len(page.steps) \in Nat
  BY <1>1, <1>2, FirstStep
<1>4. /\ IsList(Targets) /\ validateStep(c, page.steps[page.rung])
      /\ \A t \in Range(Targets) : t.kind \in Known
  BY <1>1, <1>2, StepIsValid DEF Targets
<1> QED
  BY <1>1, <1>3, <1>4

(* No incident is on its way.                                              *)
LEMMA NoPageInv ==
    ASSUME page' = NoPage
    PROVE  PageInv'
<1>1. page'.steps = <<>> /\ page'.rung = 1 /\ page'.from = {} /\ page'.stage = "none"
  BY DEF NoPage
<1>2. Len(page'.steps) = 0
  BY <1>1, EmptySeq
<1>3. PageTyped'
  BY <1>1, <1>2 DEF PageTyped
<1>4. FollowsAPolicy' /\ Resolving' /\ Addressing'
  BY <1>1 DEF FollowsAPolicy, Resolving, Addressing
<1> QED
  BY <1>3, <1>4 DEF PageInv

(* A step that leaves the incident alone.                                  *)
LEMMA SamePage ==
    ASSUME PageInv, page' = page
    PROVE  PageInv'
<1>1. PageTyped'
  BY DEF PageInv, PageTyped
<1>2. FollowsAPolicy'
  BY DEF PageInv, FollowsAPolicy
<1>3. Targets' = Targets /\ \A k : Asked(k)' <=> Asked(k)
  BY DEF Targets, Asked
<1>4. Resolving' /\ Addressing'
  BY <1>3 DEF PageInv, Resolving, Addressing
<1> QED
  BY <1>1, <1>2, <1>4 DEF PageInv

(* The initial state satisfies the invariant.                              *)
LEMMA InitInv == Init => Inv
<1> SUFFICES ASSUME Init PROVE Inv
  OBVIOUS
<1>1. ConfigsLoaded
  BY DEF Init, ConfigsLoaded, Usable
<1>2. page = NoPage
  BY DEF Init
<1>3. PageTyped
  <2>1. page.steps = <<>> /\ page.rung = 1 /\ page.from = {} /\ page.stage = "none"
    BY <1>2 DEF NoPage
  <2>2. Len(page.steps) = 0
    BY <2>1, EmptySeq
  <2> QED
    BY <1>2, <2>1, <2>2 DEF PageTyped
<1>4. FollowsAPolicy /\ Resolving /\ Addressing
  BY <1>2 DEF FollowsAPolicy, Resolving, Addressing, NoPage
<1> QED
  BY <1>1, <1>3, <1>4 DEF Inv, PageInv

(* The operator and the watcher: only what validation let through is put in*)
(* force, and the incident does not notice.                                *)
LEMMA WatcherInv ==
    ASSUME Inv, Watcher \/ Signal \/ \E f \in File \cup {Absent} : Edit(f)
    PROVE  Inv'
<1> USE DEF fileVars, watchVars, pageVars
<1>1. page' = page
  BY DEF Watcher, Signal, Edit, StatAtStart, OnSignal, OnTick, Rejected, Accepted, Swap
<1>2. PageInv'
  BY <1>1, SamePage DEF Inv
<1>3. ConfigsLoaded'
  <2>1. CASE StatAtStart \/ OnSignal \/ OnTick \/ Rejected \/ Signal
    BY <2>1 DEF StatAtStart, OnSignal, OnTick, Rejected, Signal, Inv, ConfigsLoaded,
                Holder
  <2>2. CASE Accepted
    <3>1. current' \in Load(file) /\ file \in File \cup {Absent}
      BY <2>2 DEF Accepted, Inv, ConfigsLoaded
    <3>2. current' = file /\ file \in File /\ Load(current') # {}
      BY <3>1 DEF Load
    <3>3. watcher' = IF FromConfig(current') THEN "router" ELSE "waiting"
      BY <2>2 DEF Accepted
    <3> QED
      BY <2>2, <3>2, <3>3 DEF Accepted, Inv, ConfigsLoaded, Holder
  <2>3. CASE Swap
    <3>1. current \in Usable
      BY <2>3 DEF Swap, Inv, ConfigsLoaded, Usable
    <3>2. watcher' \in {"waiting"} \cup Holder
      BY <2>3 DEF Swap, Holder, After
    <3> QED
      BY <2>3, <3>1, <3>2 DEF Swap, Inv, ConfigsLoaded
  <2>4. ASSUME NEW f \in File \cup {Absent}, Edit(f) PROVE ConfigsLoaded'
    BY <2>4 DEF Edit, Inv, ConfigsLoaded
  <2> QED
    BY <2>1, <2>2, <2>3, <2>4 DEF Watcher
<1> QED
  BY <1>2, <1>3 DEF Inv

(* An incident's step leaves the configurations alone.                     *)
LEMMA StaysInv ==
    ASSUME Inv, Stays, PageInv'
    PROVE  Inv'
BY DEF Inv, Stays, fileVars, watchVars, ConfigsLoaded

(* An incident is grouped by a route whose policy exists there.            *)
LEMMA IngestInv ==
    ASSUME Inv, NEW labels \in Alert, Ingest(labels)
    PROVE  PageInv'
<1> DEFINE c == inForce["router"]
<1>1. c \in Usable
  BY DEF Inv, ConfigsLoaded, Holder
<1>2. PICK r \in Match(c, labels) :
        page' = [NoPage EXCEPT !.stage = "grouped", !.policy = r.policy, !.from = {c}]
  BY DEF Ingest
<1>3. r \in Range(c.routes)
  BY DEF Match, Range
<1>4. r.policy \in DOMAIN c.policies
  BY <1>1, <1>3, UsableIsValid DEF Validate, validateRoutes
<1> HIDE DEF c
<1>5. /\ DOMAIN page' = DOMAIN NoPage
      /\ page'.stage = "grouped" /\ page'.policy = r.policy /\ page'.from = {c}
      /\ page'.steps = <<>> /\ page'.rung = 1
  BY <1>2 DEF NoPage
<1>6. PageTyped'
  BY <1>1, <1>5 DEF PageTyped
<1>7. FollowsAPolicy' /\ Resolving' /\ Addressing'
  BY <1>4, <1>5 DEF FollowsAPolicy, Resolving, Addressing
<1> QED
  BY <1>6, <1>7 DEF PageInv

(* The policy is looked up; of one configuration it is still there.        *)
LEMMA PageDueInv ==
    ASSUME Inv, PageDue
    PROVE  PageInv'
<1> DEFINE c == inForce["policies"]
<1>1. c \in Usable
  BY DEF Inv, ConfigsLoaded, Holder
<1>2. /\ page.stage = "grouped"
      /\ page' = IF page.policy \in DOMAIN c.policies
                 THEN [[page EXCEPT !.from = @ \cup {c}] EXCEPT
                            !.stage = "due", !.steps = c.policies[page.policy]]
                 ELSE [[page EXCEPT !.from = @ \cup {c}] EXCEPT !.stage = "stranded"]
  BY DEF PageDue
<1> HIDE DEF c
<1>3. DOMAIN page = DOMAIN NoPage
  BY DEF Inv, PageInv, PageTyped
<1>4. /\ page.from \subseteq Usable /\ page.from # {} /\ page.rung = 1
      /\ page.steps = <<>>
      /\ \A d \in Usable : page.from = {d} => page.policy \in DOMAIN d.policies
  BY <1>2 DEF Inv, PageInv, PageTyped, FollowsAPolicy
<1>5. \A d \in Usable : page.from \cup {c} = {d} => d = c /\ page.from = {d}
  BY <1>4
<1>6. CASE page.policy \in DOMAIN c.policies
  <2>1. page' = [[page EXCEPT !.from = @ \cup {c}] EXCEPT
                    !.stage = "due", !.steps = c.policies[page.policy]]
    BY <1>2, <1>6
  <2>2. /\ DOMAIN page' = DOMAIN NoPage
        /\ page'.stage = "due" /\ page'.steps = c.policies[page.policy]
        /\ page'.from = page.from \cup {c} /\ page'.policy = page.policy
        /\ page'.rung = page.rung
    BY <1>3, <2>1 DEF NoPage
  <2>3. Len(page'.steps) \in Nat /\ 1 \in 1..Len(page'.steps)
    BY <1>1, <1>6, <2>2, FirstStep
  <2>4. PageTyped'
    BY <1>1, <1>4, <2>2, <2>3 DEF PageTyped
  <2>5. FollowsAPolicy'
    BY <1>4, <1>5, <1>6, <2>2, <2>3 DEF FollowsAPolicy
  <2>6. Resolving' /\ Addressing'
    BY <2>2 DEF Resolving, Addressing
  <2> QED
    BY <2>4, <2>5, <2>6 DEF PageInv
<1>7. CASE page.policy \notin DOMAIN c.policies
  <2>1. page' = [[page EXCEPT !.from = @ \cup {c}] EXCEPT !.stage = "stranded"]
    BY <1>2, <1>7
  <2>2. /\ DOMAIN page' = DOMAIN NoPage
        /\ page'.stage = "stranded" /\ page'.steps = page.steps
        /\ page'.from = page.from \cup {c} /\ page'.policy = page.policy
        /\ page'.rung = page.rung
    BY <1>3, <2>1 DEF NoPage
  <2>3. PageTyped'
    BY <1>1, <1>4, <2>2 DEF PageTyped
  <2>4. FollowsAPolicy'
    BY <1>4, <1>5, <1>7, <2>2 DEF FollowsAPolicy
  <2>5. Resolving' /\ Addressing'
    BY <2>2 DEF Resolving, Addressing
  <2> QED
    BY <2>3, <2>4, <2>5 DEF PageInv
<1> QED
  BY <1>6, <1>7

AtStep == {"due", "resolving", "addressing"}

(* A step of a rung goes on, and may meet another configuration.           *)
LEMMA StepGoesOn ==
    ASSUME PageInv, page.stage \in AtStep,
           DOMAIN page' = DOMAIN NoPage, page'.stage \in AtStep,
           page'.policy = page.policy, page'.steps = page.steps,
           page'.rung \in 1..Len(page.steps),
           NEW met \in SUBSET Usable, page'.from = page.from \cup met
    PROVE  PageTyped' /\ FollowsAPolicy'
<1>1. /\ page.from \subseteq Usable /\ page.from # {}
      /\ \A d \in Usable : page.from = {d} => page.policy \in DOMAIN d.policies
  BY DEF PageInv, PageTyped, FollowsAPolicy, AtStep
<1>2. PICK c \in page.from : /\ page.policy \in DOMAIN c.policies
                            /\ page.steps = c.policies[page.policy]
  BY DEF PageInv, FollowsAPolicy, AtStep
<1>3. Len(page.steps) \in Nat
  BY AtAStep DEF AtStep
<1>4. PageTyped'
  BY <1>1, <1>3 DEF PageTyped, AtStep
<1>5. \A d \in Usable : page'.from = {d} => page.from = {d}
  BY <1>1
<1>6. FollowsAPolicy'
  BY <1>1, <1>2, <1>5 DEF FollowsAPolicy, AtStep
<1> QED
  BY <1>4, <1>6

(* A resolution begins: it has asked nobody yet.                           *)
LEMMA BeginStepInv ==
    ASSUME Inv, BeginStep
    PROVE  PageInv'
<1> DEFINE c == inForce["targets"]
<1>1. c \in Usable
  BY DEF Inv, ConfigsLoaded, Holder
<1>2. /\ page.stage = "due"
      /\ page' = [page EXCEPT !.stage = "resolving", !.state = c,
                              !.left = Targets, !.users = <<>>, !.from = @ \cup {c}]
  BY DEF BeginStep, Targets
<1> HIDE DEF c
<1>3. PageInv /\ DOMAIN page = DOMAIN NoPage
  BY DEF Inv, PageInv, PageTyped
<1>4. /\ DOMAIN page' = DOMAIN NoPage
      /\ page'.stage = "resolving" /\ page'.state = c /\ page'.left = Targets
      /\ page'.users = <<>> /\ page'.from = page.from \cup {c}
      /\ page'.policy = page.policy /\ page'.steps = page.steps
      /\ page'.rung = page.rung
  BY <1>2, <1>3 DEF NoPage
<1>5. Targets' = Targets
  BY <1>4 DEF Targets
<1>6. /\ Len(page.steps) \in Nat /\ page.rung \in 1..Len(page.steps)
      /\ IsList(Targets)
  BY <1>2, <1>3, AtAStep DEF PageInv, FollowsAPolicy
<1>7. PageTyped' /\ FollowsAPolicy'
  <2>1. {c} \in SUBSET Usable
    BY <1>1
  <2> QED
    BY <1>2, <1>3, <1>4, <1>6, <2>1, StepGoesOn DEF AtStep
<1>8. Asked(0)'
  <2>1. Range(<<>>) = {} /\ IsList(<<>>) /\ IsInjective(<<>>)
    BY DEF Range, IsList, IsInjective
  <2>2. 1..0 = {}
    OBVIOUS
  <2> DEFINE list == [i \in 1..0 |-> {}]
  <2>3. /\ list \in [1..0 -> UNION {Answers(page'.state, t) : t \in Range(Targets')}]
        /\ \A i \in 1..0 : list[i] \in Answers(page'.state, Targets'[i])
        /\ UNION {Range(list[i]) : i \in 1..0} = {}
    BY <2>2
  <2> HIDE DEF list
  <2>4. Range(page'.users) = UNION {Range(list[i]) : i \in 1..0}
    BY <1>4, <2>1, <2>3
  <2>5. IsList(page'.users) /\ IsInjective(page'.users) /\ page'.state \in page'.from
    BY <1>4, <2>1
  <2> QED
    BY <2>3, <2>4, <2>5 DEF Asked
<1>9. Resolving'
  <2>1. Len(Targets) \in Nat
    BY <1>6, LenProperties DEF IsList
  <2>2. Len(Targets') - Len(page'.left) = 0
    BY <1>4, <1>5, <2>1
  <2>3. \A i \in 1..Len(page'.left) : page'.left[i] = Targets'[0 + i]
    BY <1>4, <1>5, <2>1
  <2> QED
    BY <1>4, <1>5, <1>6, <1>8, <2>1, <2>2, <2>3 DEF Resolving
<1>10. Addressing'
  BY <1>4 DEF Addressing
<1> QED
  BY <1>7, <1>9, <1>10 DEF PageInv

(* One target more has been asked, of the same configuration.              *)
LEMMA ResolveTargetInv ==
    ASSUME Inv, ResolveTarget
    PROVE  PageInv'
<1>1. PICK ids \in Answers(page.state, Head(page.left)) :
        page' = [page EXCEPT !.left = Tail(@), !.users = Add(@, ids)]
  BY DEF ResolveTarget
<1>2. page.stage = "resolving" /\ page.left # <<>>
  BY DEF ResolveTarget
<1>3. PageInv /\ DOMAIN page = DOMAIN NoPage
  BY DEF Inv, PageInv, PageTyped
<1>4. /\ DOMAIN page' = DOMAIN NoPage
      /\ page'.stage = "resolving" /\ page'.state = page.state
      /\ page'.left = Tail(page.left) /\ page'.users = Add(page.users, ids)
      /\ page'.from = page.from /\ page'.policy = page.policy
      /\ page'.steps = page.steps /\ page'.rung = page.rung
  BY <1>1, <1>2, <1>3 DEF NoPage
<1>5. Targets' = Targets
  BY <1>4 DEF Targets
<1>6. /\ Len(page.steps) \in Nat /\ page.rung \in 1..Len(page.steps)
      /\ IsList(Targets) /\ \A t \in Range(Targets) : t.kind \in Known
  BY <1>2, <1>3, AtAStep DEF PageInv, FollowsAPolicy
<1>7. PageTyped' /\ FollowsAPolicy'
  <2>1. page'.from = page.from \cup {} /\ {} \in SUBSET Usable
    BY <1>4
  <2> QED
    BY <1>2, <1>3, <1>4, <1>6, <2>1, StepGoesOn DEF AtStep
<1>0. PICK k : k = Len(Targets) - Len(page.left)
  OBVIOUS
<1>8. /\ IsList(page.left) /\ Len(page.left) <= Len(Targets) /\ Asked(k)
      /\ \A i \in 1..Len(page.left) : page.left[i] = Targets[k + i]
  BY <1>0, <1>2, <1>3 DEF PageInv, Resolving
<1>9. /\ Len(Targets) \in Nat /\ DOMAIN Targets = 1..Len(Targets)
      /\ Len(page.left) \in Nat /\ Len(page.left) > 0
  <2>1. Len(page.left) \in Nat /\ Len(page.left) # 0
    BY <1>2, <1>8, LenProperties, EmptySeq DEF IsList
  <2> QED
    BY <1>6, <2>1, LenProperties DEF IsList
<1>10. /\ IsList(Tail(page.left)) /\ Len(Tail(page.left)) = Len(page.left) - 1
       /\ \A i \in 1..Len(Tail(page.left)) : Tail(page.left)[i] = page.left[i + 1]
       /\ Head(page.left) = page.left[1]
  <2> DEFINE left == page.left
  <2>1. left \in Seq(Range(left)) /\ left # <<>>
    BY <1>2, <1>8 DEF IsList
  <2> HIDE DEF left
  <2>2. /\ Head(left) = left[1] /\ Len(Tail(left)) = Len(left) - 1
        /\ Tail(left) \in Seq(Range(left))
        /\ \A i \in 1..Len(Tail(left)) : Tail(left)[i] = left[i + 1]
    BY <2>1, HeadTailProperties
  <2>3. IsList(Tail(left))
    BY <2>2, SeqOfRange DEF IsList
  <2> QED
    BY <2>2, <2>3 DEF left
<1>11. k \in Nat /\ k + 1 \in 1..Len(Targets) /\ Head(page.left) = Targets[k + 1]
  <2>1. 1 \in 1..Len(page.left)
    BY <1>9
  <2>2. Len(page.left) <= Len(Targets)
    BY <1>8
  <2>3. k \in Nat /\ k + 1 \in 1..Len(Targets)
    <3>1. Len(Targets) \in Nat /\ Len(page.left) \in Nat /\ Len(page.left) > 0
      BY <1>9
    <3>2. \A m, n \in Nat : n > 0 /\ n <= m => m - n \in Nat /\ (m - n) + 1 \in 1..m
      OBVIOUS
    <3> QED
      BY <1>0, <2>2, <3>1, <3>2
  <2> QED
    BY <1>8, <1>10, <2>1, <2>3
<1>12. ids \in Answers(page.state, Targets[k + 1]) /\ Targets[k + 1] \in Range(Targets)
  BY <1>1, <1>9, <1>11 DEF Range
<1>13. page.state \in page.from /\ page.state \in Usable
  BY <1>3, <1>8 DEF Asked, PageInv, PageTyped
<1>14. IsList(ids)
  BY <1>6, <1>12, <1>13, AnswersAreLists
<1>15. /\ IsList(page'.users) /\ IsInjective(page'.users)
       /\ Range(page'.users) = Range(page.users) \cup Range(ids)
  <2> DEFINE users == page.users
             S == Range(users) \cup Range(ids)
  <2>1. users \in Seq(Range(users)) /\ IsInjective(users) /\ ids \in Seq(Range(ids))
    BY <1>8, <1>14 DEF Asked, IsList
  <2> HIDE DEF users
  <2>2. Range(users) \subseteq S /\ Range(ids) \subseteq S
    OBVIOUS
  <2>3. Seq(Range(users)) \subseteq Seq(S) /\ Seq(Range(ids)) \subseteq Seq(S)
    <3> HIDE DEF S
    <3> QED
      BY <2>2, SeqMonotonic
  <2>4. users \in Seq(S) /\ ids \in Seq(S)
    BY <2>1, <2>3
  <2>5. /\ Add(users, ids) \in Seq(S) /\ IsInjective(Add(users, ids))
        /\ Range(Add(users, ids)) = S
    <3>1. \A T : users \in Seq(T) /\ ids \in Seq(T) =>
            /\ Add(users, ids) \in Seq(T) /\ IsInjective(Add(users, ids))
            /\ Range(Add(users, ids)) = Range(users) \cup Range(ids)
      BY <2>1, AddLists
    <3> QED
      BY <2>4, <3>1
  <2> QED
    BY <1>4, <2>5 DEF IsList, users
<1>16. Asked(k + 1)'
  <2> DEFINE Any == UNION {Answers(page.state, t) : t \in Range(Targets)}
  <2>1. PICK list \in [1..k -> Any] :
            /\ \A i \in 1..k : list[i] \in Answers(page.state, Targets[i])
            /\ Range(page.users) = UNION {Range(list[i]) : i \in 1..k}
    BY <1>8 DEF Asked
  <2> DEFINE longer == [i \in 1..(k + 1) |-> IF i = k + 1 THEN ids ELSE list[i]]
  <2>2. ids \in Any
    BY <1>12
  <2> HIDE DEF Any
  <2>3. longer \in [1..(k + 1) -> Any]
    BY <1>11, <2>1, <2>2
  <2>4. \A i \in 1..(k + 1) : longer[i] \in Answers(page.state, Targets[i])
    BY <1>11, <1>12, <2>1
  <2>5. UNION {Range(longer[i]) : i \in 1..(k + 1)} = Range(page.users) \cup Range(ids)
    <3>1. 1..(k + 1) = 1..k \cup {k + 1}
      BY <1>11
    <3>2. longer[k + 1] = ids /\ \A i \in 1..k : longer[i] = list[i]
      BY <1>11
    <3> HIDE DEF longer
    <3> QED
      BY <2>1, <3>1, <3>2
  <2> HIDE DEF longer
  <2>6. /\ longer \in [1..(k + 1) -> UNION {Answers(page'.state, t) : t \in Range(Targets')}]
        /\ \A i \in 1..(k + 1) : longer[i] \in Answers(page'.state, Targets'[i])
        /\ Range(page'.users) = UNION {Range(longer[i]) : i \in 1..(k + 1)}
    BY <1>4, <1>5, <1>15, <2>3, <2>4, <2>5 DEF Any
  <2> QED
    BY <1>4, <1>13, <1>15, <2>6 DEF Asked
<1>17. Resolving'
  <2>1. Len(page'.left) = Len(page.left) - 1 /\ Len(Targets') - Len(page'.left) = k + 1
    <3>1. Len(Targets') = Len(Targets) /\ Len(page'.left) = Len(page.left) - 1
      BY <1>4, <1>5, <1>10
    <3>2. Len(Targets) \in Nat /\ Len(page.left) \in Nat
      BY <1>9
    <3>3. \A m, n \in Nat : m - (n - 1) = (m - n) + 1
      OBVIOUS
    <3> QED
      BY <1>0, <3>1, <3>2, <3>3
  <2>2. \A i \in 1..Len(page'.left) : page'.left[i] = Targets'[(k + 1) + i]
    <3> SUFFICES ASSUME NEW i \in 1..(Len(page.left) - 1)
                 PROVE  Tail(page.left)[i] = Targets[(k + 1) + i]
      BY <1>4, <1>5, <2>1
    <3>1. i + 1 \in 1..Len(page.left) /\ i \in 1..Len(Tail(page.left))
      BY <1>9, <1>10
    <3>2. Tail(page.left)[i] = Targets[k + (i + 1)]
      BY <1>8, <1>10, <3>1
    <3> QED
      BY <1>11, <3>2
  <2>3. IsList(page'.left) /\ Len(page'.left) <= Len(Targets')
    BY <1>4, <1>5, <1>8, <1>9, <1>10
  <2> QED
    BY <1>16, <2>1, <2>2, <2>3 DEF Resolving
<1>18. Addressing'
  BY <1>4 DEF Addressing
<1> QED
  BY <1>7, <1>17, <1>18 DEF PageInv

(* Everybody the step found is to be paged on each of its channels.        *)
LEMMA EndResolveInv ==
    ASSUME Inv, EndResolve
    PROVE  PageInv'
<1>1. /\ page.stage = "resolving" /\ page.left = <<>>
      /\ page' = [page EXCEPT !.stage = "addressing", !.pages = {}, !.skipped = {},
                              !.calls = Range(page.users)
                                            \X page.steps[page.rung].channels]
  BY DEF EndResolve
<1>2. PageInv /\ DOMAIN page = DOMAIN NoPage
  BY DEF Inv, PageInv, PageTyped
<1>3. /\ DOMAIN page' = DOMAIN NoPage
      /\ page'.stage = "addressing" /\ page'.state = page.state
      /\ page'.users = page.users /\ page'.from = page.from
      /\ page'.policy = page.policy /\ page'.steps = page.steps
      /\ page'.rung = page.rung
      /\ page'.calls = Range(page.users) \X page.steps[page.rung].channels
  BY <1>1, <1>2 DEF NoPage
<1>4. Targets' = Targets
  BY <1>3 DEF Targets
<1>5. /\ Len(page.steps) \in Nat /\ page.rung \in 1..Len(page.steps)
      /\ IsList(Targets)
  BY <1>1, <1>2, AtAStep DEF PageInv, FollowsAPolicy
<1>6. PageTyped' /\ FollowsAPolicy'
  <2>1. page'.from = page.from \cup {} /\ {} \in SUBSET Usable
    BY <1>3
  <2> QED
    BY <1>1, <1>2, <1>3, <1>5, <2>1, StepGoesOn DEF AtStep
<1>7. Asked(Len(Targets))
  <2>1. Len(Targets) \in Nat /\ Len(page.left) = 0
    BY <1>1, <1>5, LenProperties, EmptySeq DEF IsList
  <2>2. Len(Targets) - Len(page.left) = Len(Targets)
    BY <2>1
  <2>3. Asked(Len(Targets) - Len(page.left))
    BY <1>1, <1>2 DEF PageInv, Resolving
  <2> QED
    BY <2>2, <2>3
<1>8. Asked(Len(Targets))'
  BY <1>3, <1>4, <1>7 DEF Asked
<1>9. Resolving' /\ Addressing'
  BY <1>3, <1>8 DEF Resolving, Addressing
<1> QED
  BY <1>6, <1>9 DEF PageInv

(* One of those calls is made, or passed over, of what is in force by then.*)
LEMMA AddressInv ==
    ASSUME Inv, Address
    PROVE  PageInv'
<1> DEFINE c == inForce["contacts"]
<1>1. c \in Usable
  BY DEF Inv, ConfigsLoaded, Holder
<1>2. page.stage = "addressing"
  BY DEF Address
<1>3. PageInv /\ DOMAIN page = DOMAIN NoPage
  BY DEF Inv, PageInv, PageTyped
<1>4. PICK call \in page.calls :
        LET dest == Destination(c, call[1], call[2])
            p == [page EXCEPT !.calls = @ \ {call}, !.from = @ \cup {c}]
        IN  page' = IF dest = {} THEN [p EXCEPT !.skipped = @ \cup {call}]
                    ELSE [p EXCEPT !.pages = @ \cup {[user |-> call[1],
                                                      channel |-> call[2],
                                                      dest |-> d] : d \in dest}]
  BY DEF Address
<1> HIDE DEF c
<1>5. /\ DOMAIN page' = DOMAIN NoPage
      /\ page'.stage = "addressing" /\ page'.state = page.state
      /\ page'.users = page.users /\ page'.from = page.from \cup {c}
      /\ page'.policy = page.policy /\ page'.steps = page.steps
      /\ page'.rung = page.rung /\ page'.calls \subseteq page.calls
  <2>1. CASE Destination(c, call[1], call[2]) = {}
    <3>1. page' = [[page EXCEPT !.calls = @ \ {call}, !.from = @ \cup {c}]
                        EXCEPT !.skipped = @ \cup {call}]
      BY <1>4, <2>1
    <3> QED
      BY <1>2, <1>3, <3>1 DEF NoPage
  <2>2. CASE Destination(c, call[1], call[2]) # {}
    <3> DEFINE more == {[user |-> call[1], channel |-> call[2], dest |-> d] :
                            d \in Destination(c, call[1], call[2])}
    <3>1. page' = [[page EXCEPT !.calls = @ \ {call}, !.from = @ \cup {c}]
                        EXCEPT !.pages = @ \cup more]
      BY <1>4, <2>2
    <3> HIDE DEF more
    <3> QED
      BY <1>2, <1>3, <3>1 DEF NoPage
  <2> QED
    BY <2>1, <2>2
<1>6. Targets' = Targets
  BY <1>5 DEF Targets
<1>7. Len(page.steps) \in Nat /\ page.rung \in 1..Len(page.steps)
  BY <1>2, <1>3, AtAStep DEF PageInv, FollowsAPolicy
<1>8. PageTyped' /\ FollowsAPolicy'
  <2>1. {c} \in SUBSET Usable
    BY <1>1
  <2> QED
    BY <1>2, <1>3, <1>5, <1>7, <2>1, StepGoesOn DEF AtStep
<1>9. /\ Asked(Len(Targets))
      /\ page.calls \subseteq Range(page.users) \X page.steps[page.rung].channels
  BY <1>2, <1>3 DEF PageInv, Addressing
<1>10. Asked(Len(Targets))'
  BY <1>5, <1>6, <1>9 DEF Asked
<1>11. Resolving' /\ Addressing'
  BY <1>5, <1>9, <1>10 DEF Resolving, Addressing
<1> QED
  BY <1>8, <1>11 DEF PageInv

(* The next rung, or the end of the policy.                                *)
LEMMA CommitInv ==
    ASSUME Inv, Commit
    PROVE  PageInv'
<1>1. /\ page.stage = "addressing"
      /\ page' = IF page.rung < Len(page.steps)
                 THEN [page EXCEPT !.stage = "due", !.rung = @ + 1, !.state = Absent,
                                   !.users = <<>>, !.pages = {}, !.skipped = {}]
                 ELSE NoPage
  BY DEF Commit
<1>2. PageInv /\ DOMAIN page = DOMAIN NoPage
  BY DEF Inv, PageInv, PageTyped
<1>3. Len(page.steps) \in Nat /\ page.rung \in 1..Len(page.steps)
  BY <1>1, <1>2, AtAStep DEF PageInv, FollowsAPolicy
<1>4. CASE page.rung < Len(page.steps)
  <2>1. /\ DOMAIN page' = DOMAIN NoPage
        /\ page'.stage = "due" /\ page'.from = page.from
        /\ page'.policy = page.policy /\ page'.steps = page.steps
        /\ page'.rung = page.rung + 1
    <3>1. page' = [page EXCEPT !.stage = "due", !.rung = @ + 1, !.state = Absent,
                               !.users = <<>>, !.pages = {}, !.skipped = {}]
      BY <1>1, <1>4
    <3> QED
      BY <1>2, <3>1 DEF NoPage
  <2>2. page.from = page.from \cup {} /\ {} \in SUBSET Usable
    OBVIOUS
  <2>3. page'.rung \in 1..Len(page.steps)
    BY <1>3, <1>4, <2>1
  <2>4. PageTyped' /\ FollowsAPolicy'
    BY <1>1, <1>2, <2>1, <2>2, <2>3, StepGoesOn DEF AtStep
  <2>5. Resolving' /\ Addressing'
    BY <2>1 DEF Resolving, Addressing
  <2> QED
    BY <2>4, <2>5 DEF PageInv
<1>5. CASE ~(page.rung < Len(page.steps))
  <2>1. page' = NoPage
    BY <1>1, <1>5
  <2> QED
    BY <2>1, NoPageInv
<1> QED
  BY <1>4, <1>5

(* The step runs again, the first one from the lookup of its policy on.    *)
LEMMA RollbackInv ==
    ASSUME Inv, Rollback
    PROVE  PageInv'
<1>1. /\ page.stage \in {"resolving", "addressing"}
      /\ page' = [page EXCEPT !.stage = IF page.rung = 1 THEN "grouped" ELSE "due",
                              !.steps = IF page.rung = 1 THEN <<>> ELSE @,
                              !.left = <<>>, !.state = Absent, !.users = <<>>,
                              !.calls = {}, !.pages = {}, !.skipped = {}]
  BY DEF Rollback
<1>2. PageInv /\ DOMAIN page = DOMAIN NoPage
  BY DEF Inv, PageInv, PageTyped
<1>3. /\ DOMAIN page' = DOMAIN NoPage
      /\ page'.stage = IF page.rung = 1 THEN "grouped" ELSE "due"
      /\ page'.steps = IF page.rung = 1 THEN <<>> ELSE page.steps
      /\ page'.from = page.from /\ page'.policy = page.policy
      /\ page'.rung = page.rung
  BY <1>1, <1>2 DEF NoPage
<1>4. Len(page.steps) \in Nat /\ page.rung \in 1..Len(page.steps)
  BY <1>1, <1>2, AtAStep DEF PageInv, FollowsAPolicy
<1>5. CASE page.rung = 1
  <2>1. page'.stage = "grouped" /\ page'.steps = <<>> /\ page'.rung = 1
    BY <1>3, <1>5
  <2>2. /\ page.from \subseteq Usable /\ page.from # {}
        /\ \A d \in Usable : page.from = {d} => page.policy \in DOMAIN d.policies
    BY <1>1, <1>2 DEF PageInv, PageTyped, FollowsAPolicy
  <2>3. Len(page'.steps) = 0
    BY <2>1, EmptySeq
  <2>4. PageTyped'
    BY <1>3, <2>1, <2>2, <2>3 DEF PageTyped
  <2>5. FollowsAPolicy' /\ Resolving' /\ Addressing'
    BY <1>3, <2>1, <2>2 DEF FollowsAPolicy, Resolving, Addressing
  <2> QED
    BY <2>4, <2>5 DEF PageInv
<1>6. CASE page.rung # 1
  <2>1. page'.stage = "due" /\ page'.steps = page.steps
    BY <1>3, <1>6
  <2>2. page.from = page.from \cup {} /\ {} \in SUBSET Usable
    OBVIOUS
  <2>3. PageTyped' /\ FollowsAPolicy'
    BY <1>1, <1>2, <1>3, <1>4, <2>1, <2>2, StepGoesOn DEF AtStep
  <2>4. Resolving' /\ Addressing'
    BY <2>1 DEF Resolving, Addressing
  <2> QED
    BY <2>3, <2>4 DEF PageInv
<1> QED
  BY <1>5, <1>6

(* Every step of the system preserves the invariant.                       *)
LEMMA NextInv == Inv /\ [Next]_vars => Inv'
<1> SUFFICES ASSUME Inv, [Next]_vars PROVE Inv'
  OBVIOUS
<1>1. CASE Watcher \/ Signal \/ \E f \in File \cup {Absent} : Edit(f)
  BY <1>1, WatcherInv
<1>2. ASSUME NEW labels \in Alert, Ingest(labels) PROVE Inv'
  BY <1>2, IngestInv, StaysInv DEF Ingest
<1>3. CASE PageDue
  BY <1>3, PageDueInv, StaysInv DEF PageDue
<1>4. CASE BeginStep
  BY <1>4, BeginStepInv, StaysInv DEF BeginStep
<1>5. CASE ResolveTarget
  BY <1>5, ResolveTargetInv, StaysInv DEF ResolveTarget
<1>6. CASE EndResolve
  BY <1>6, EndResolveInv, StaysInv DEF EndResolve
<1>7. CASE Address
  BY <1>7, AddressInv, StaysInv DEF Address
<1>8. CASE Commit
  BY <1>8, CommitInv, StaysInv DEF Commit
<1>9. CASE Rollback
  BY <1>9, RollbackInv, StaysInv DEF Rollback
<1>10. CASE UNCHANGED vars
  <2>1. page' = page /\ Stays
    BY <1>10 DEF vars, pageVars, Stays
  <2> QED
    BY <2>1, SamePage, StaysInv DEF Inv
<1> QED
  BY <1>1, <1>2, <1>3, <1>4, <1>5, <1>6, <1>7, <1>8, <1>9, <1>10 DEF Next

(* The invariant holds throughout.                                         *)
THEOREM Invariance == Spec => []Inv
<1> QED
  BY InitInv, NextInv, PTL DEF Spec

-----------------------------------------------------------------------------
(* The people of a step are what one configuration says, whatever reloads  *)
(* do while ScheduleTargets.ResolveTargets asks for target after target    *)
(* (escalate/adapters.go:46).                                              *)
THEOREM OneConfiguration == Spec => []OneConfigPerResolution
<1>1. Inv => OneConfigPerResolution
  <2> SUFFICES ASSUME Inv, page.stage = "addressing"
               PROVE  LET Lists(c) == [DOMAIN Targets ->
                                           UNION {Answers(c, t) : t \in Range(Targets)}]
                      IN  /\ IsInjective(page.users)
                          /\ \E c \in Usable : \E list \in Lists(c) :
                                /\ \A i \in DOMAIN Targets : list[i] \in Answers(c, Targets[i])
                                /\ Range(page.users) =
                                        UNION {Range(list[i]) : i \in DOMAIN Targets}
    BY DEF OneConfigPerResolution, Targets
  <2>1. PageInv
    BY DEF Inv
  <2>2. IsList(Targets)
    BY <2>1, AtAStep
  <2>3. DOMAIN Targets = 1..Len(Targets)
    BY <2>2, LenProperties DEF IsList
  <2>4. Asked(Len(Targets))
    BY <2>1 DEF PageInv, Addressing
  <2>5. page.state \in Usable
    BY <2>1, <2>4 DEF PageInv, PageTyped, Asked
  <2> QED
    BY <2>3, <2>4, <2>5 DEF Asked
<1> QED
  BY <1>1, Invariance, PTL

-----------------------------------------------------------------------------
(* What validation guarantees, where it does not let an empty address      *)
(* through (it asks for the key, config/validate.go, and not for its       *)
(* value).                                                                 *)
EveryAddressIsGiven ==
    \A c \in Usable : \A u \in Users(c) :
        \A ch \in DOMAIN c.contacts[u] : c.contacts[u][ch] # ""

(* An incident that met one configuration has passed over only users of    *)
(* overrides whom its step does not reach without them.                    *)
OnlyCoverSkipped ==
    /\ page.stage # "addressing" => page.skipped = {}
    /\ \A c \in Usable : page.from = {c} =>
          \A call \in page.skipped : call[1] \in Cover \ reachableUsers(c, Targets)

(* Whoever one configuration says is to be paged has an address there.     *)
LEMMA CalledHaveAddresses ==
    ASSUME EveryAddressIsGiven, PageInv, page.stage = "addressing",
           NEW c \in Usable, page.from = {c}, NEW call \in page.calls,
           Destination(c, call[1], call[2]) = {}
    PROVE  call[1] \in Cover \ reachableUsers(c, Targets)
<1> DEFINE s == page.steps[page.rung]
           u == call[1]
           ch == call[2]
<1>1. /\ Asked(Len(Targets))
      /\ u \in Range(page.users) /\ ch \in s.channels
  BY DEF PageInv, Addressing
<1>2. validateStep(c, s) /\ IsList(Targets)
  BY AtAStep
<1>3. page.state = c
  BY <1>1 DEF Asked
<1>4. PICK list \in [1..Len(Targets) -> UNION {Answers(c, t) : t \in Range(Targets)}] :
        /\ \A i \in 1..Len(Targets) : list[i] \in Answers(c, Targets[i])
        /\ Range(page.users) = UNION {Range(list[i]) : i \in 1..Len(Targets)}
  BY <1>1, <1>3 DEF Asked
<1>5. PICK i \in 1..Len(Targets) : u \in Range(list[i])
  BY <1>1, <1>4
<1>6. Targets[i] \in Range(s.targets) /\ list[i] \in Answers(c, Targets[i])
  <2>1. DOMAIN Targets = 1..Len(Targets)
    BY <1>2, LenProperties DEF IsList
  <2> QED
    BY <1>4, <2>1 DEF Range, Targets
<1>7. Targets = s.targets
  BY DEF Targets
<1> HIDE DEF s, u, ch
<1>8. u \in reachableUsers(c, s.targets) \/ u \in Cover
  BY <1>2, <1>5, <1>6, WhoeverIsAsked
<1>9. ASSUME u \in reachableUsers(c, s.targets) PROVE FALSE
  <2>1. u \in Users(c) /\ s.channels \subseteq DOMAIN c.contacts[u]
    BY <1>2, <1>9, WhoeverIsReachable
  <2>2. ch \in DOMAIN c.contacts[u] /\ c.contacts[u][ch] # ""
    BY <1>1, <2>1 DEF EveryAddressIsGiven
  <2>3. Destination(c, u, ch) # {}
    BY <2>1, <2>2 DEF Destination
  <2> QED
    BY <2>3 DEF u, ch
<1> QED
  BY <1>7, <1>8, <1>9 DEF u

(* Nobody else is passed over by a step of the system either.              *)
LEMMA OnlyCoverSkippedStep ==
    ASSUME EveryAddressIsGiven, Inv, OnlyCoverSkipped, [Next]_vars
    PROVE  OnlyCoverSkipped'
<1>1. PageInv /\ DOMAIN page = DOMAIN NoPage
  BY DEF Inv, PageInv, PageTyped
<1>2. CASE page' = page
  BY <1>2 DEF OnlyCoverSkipped, Targets
<1>3. ASSUME NEW labels \in Alert, Ingest(labels) PROVE OnlyCoverSkipped'
  <2>1. page'.skipped = {}
    BY <1>3 DEF Ingest, NoPage
  <2> QED
    BY <2>1 DEF OnlyCoverSkipped
<1>4. CASE EndResolve \/ Commit \/ Rollback
  <2>1. page'.skipped = {}
    <3>1. CASE EndResolve
      BY <1>1, <3>1 DEF EndResolve, NoPage
    <3>2. CASE Commit
      <4>1. CASE page.rung < Len(page.steps)
        <5>1. page' = [page EXCEPT !.stage = "due", !.rung = @ + 1, !.state = Absent,
                                   !.users = <<>>, !.pages = {}, !.skipped = {}]
          BY <3>2, <4>1 DEF Commit
        <5> QED
          BY <1>1, <5>1 DEF NoPage
      <4>2. CASE ~(page.rung < Len(page.steps))
        <5>1. page' = NoPage
          BY <3>2, <4>2 DEF Commit
        <5> QED
          BY <5>1 DEF NoPage
      <4> QED
        BY <4>1, <4>2
    <3>3. CASE Rollback
      BY <1>1, <3>3 DEF Rollback, NoPage
    <3> QED
      BY <1>4, <3>1, <3>2, <3>3
  <2> QED
    BY <2>1 DEF OnlyCoverSkipped
<1>5. ASSUME page.skipped = {}, page'.skipped = page.skipped
      PROVE  OnlyCoverSkipped'
  BY <1>5 DEF OnlyCoverSkipped
<1>6. CASE PageDue
  <2> DEFINE c == inForce["policies"]
             p == [page EXCEPT !.from = @ \cup {c}]
  <2>1. /\ page.stage = "grouped"
        /\ \/ page' = [p EXCEPT !.stage = "due", !.steps = c.policies[page.policy]]
           \/ page' = [p EXCEPT !.stage = "stranded"]
    BY <1>6 DEF PageDue
  <2> HIDE DEF c
  <2>2. page'.skipped = page.skipped
    BY <1>1, <2>1 DEF NoPage
  <2> QED
    BY <1>5, <2>1, <2>2 DEF OnlyCoverSkipped
<1>7. CASE BeginStep
  <2> DEFINE c == inForce["targets"]
  <2>1. /\ page.stage = "due"
        /\ page' = [page EXCEPT !.stage = "resolving", !.state = c,
                                !.left = page.steps[page.rung].targets,
                                !.users = <<>>, !.from = @ \cup {c}]
    BY <1>7 DEF BeginStep
  <2> HIDE DEF c
  <2>2. page'.skipped = page.skipped
    BY <1>1, <2>1 DEF NoPage
  <2> QED
    BY <1>5, <2>1, <2>2 DEF OnlyCoverSkipped
<1>8. CASE ResolveTarget
  <2>1. PICK ids : page' = [page EXCEPT !.left = Tail(@), !.users = Add(@, ids)]
    BY <1>8 DEF ResolveTarget
  <2>2. page'.skipped = page.skipped /\ page.stage = "resolving"
    BY <1>1, <1>8, <2>1 DEF NoPage, ResolveTarget
  <2> QED
    BY <1>5, <2>2 DEF OnlyCoverSkipped
<1>9. CASE Address
  <2> DEFINE c == inForce["contacts"]
  <2>1. c \in Usable /\ page.stage = "addressing"
    BY <1>9 DEF Inv, ConfigsLoaded, Holder, Address
  <2>2. PICK call \in page.calls :
          LET dest == Destination(c, call[1], call[2])
              p == [page EXCEPT !.calls = @ \ {call}, !.from = @ \cup {c}]
          IN  page' = IF dest = {} THEN [p EXCEPT !.skipped = @ \cup {call}]
                      ELSE [p EXCEPT !.pages = @ \cup {[user |-> call[1],
                                                        channel |-> call[2],
                                                        dest |-> d] : d \in dest}]
    BY <1>9 DEF Address
  <2> HIDE DEF c
  <2> DEFINE more == {[user |-> call[1], channel |-> call[2], dest |-> d] :
                          d \in Destination(c, call[1], call[2])}
  <2>3. /\ page'.stage = "addressing" /\ page'.from = page.from \cup {c}
        /\ page'.steps = page.steps /\ page'.rung = page.rung
        /\ \/ page'.skipped = page.skipped
           \/ /\ page'.skipped = page.skipped \cup {call}
              /\ Destination(c, call[1], call[2]) = {}
    <3>1. CASE Destination(c, call[1], call[2]) # {}
      <4>1. page' = [[page EXCEPT !.calls = @ \ {call}, !.from = @ \cup {c}]
                          EXCEPT !.pages = @ \cup more]
        BY <2>2, <3>1
      <4> HIDE DEF more
      <4> QED
        BY <1>1, <2>1, <4>1 DEF NoPage
    <3>2. CASE Destination(c, call[1], call[2]) = {}
      <4>1. page' = [[page EXCEPT !.calls = @ \ {call}, !.from = @ \cup {c}]
                          EXCEPT !.skipped = @ \cup {call}]
        BY <2>2, <3>2
      <4> QED
        BY <1>1, <2>1, <3>2, <4>1 DEF NoPage
    <3> QED
      BY <3>1, <3>2
  <2> HIDE DEF more
  <2>4. page.from # {} /\ page.from \subseteq Usable /\ Targets' = Targets
    BY <1>1, <2>1, <2>3 DEF PageInv, PageTyped, FollowsAPolicy, Targets
  <2>5. ASSUME NEW d \in Usable, page'.from = {d}, NEW x \in page'.skipped
        PROVE  x[1] \in Cover \ reachableUsers(d, Targets')
    <3>1. page.from = {d} /\ c = d
      BY <2>3, <2>4, <2>5
    <3>2. CASE x \in page.skipped
      BY <2>4, <3>1, <3>2 DEF OnlyCoverSkipped
    <3>3. CASE x = call /\ Destination(c, call[1], call[2]) = {}
      BY <1>1, <2>1, <2>4, <3>1, <3>3, CalledHaveAddresses
    <3> QED
      BY <2>3, <2>5, <3>2, <3>3
  <2> QED
    BY <2>3, <2>5 DEF OnlyCoverSkipped
<1> QED
  BY <1>2, <1>3, <1>4, <1>6, <1>7, <1>8, <1>9
  DEF Next, vars, pageVars, Watcher, Signal, Edit, StatAtStart, OnSignal, OnTick,
      Rejected, Accepted, Swap

(* Each holder has a validated configuration, and an incident that met one *)
(* of them is not left without its policy and passes over nobody its steps *)
(* find (config/validate.go), given that no address is empty: nobody but   *)
(* the user of an override whom the step does not reach without it.        *)
THEOREM ValidationPages ==
    ASSUME EveryAddressIsGiven
    PROVE  Spec => []ValidatedMeansPaged
<1>1. Init => OnlyCoverSkipped
  <2>1. NoPage.skipped = {}
    BY DEF NoPage
  <2> QED
    BY <2>1 DEF Init, OnlyCoverSkipped
<1>2. Inv /\ OnlyCoverSkipped /\ [Next]_vars => OnlyCoverSkipped'
  BY OnlyCoverSkippedStep
<1>3. Inv /\ OnlyCoverSkipped => ValidatedMeansPaged
  BY DEF Inv, ConfigsLoaded, PageInv, FollowsAPolicy, OnlyCoverSkipped,
    ValidatedMeansPaged, Targets
<1> QED
  BY <1>1, <1>2, <1>3, Invariance, PTL DEF Spec
=============================================================================
