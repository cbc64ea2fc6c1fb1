------------------------------- MODULE Reload -------------------------------
(***************************************************************************)
(* The configuration file while Kerberon runs: the watcher that reads it   *)
(* again (internal/config/reload.go), the four holders a reload swaps one  *)
(* after the other (cmd/kerberon/main.go), and an alert on its way through *)
(* them: a route, a policy, the people of a step, their addresses.         *)
(***************************************************************************)
EXTENDS Naturals, Sequences, Functions

CONSTANTS
    File,    \* what the file may hold; a text that does not parse stands
             \* among them as one that validation rejects
    Absent,  \* no file at all, as while an editor replaces it
    Alert,   \* the labels of the alerts that arrive
    Cover    \* whom an override may put on call: the row names any user, or
             \* somebody the configuration does not know

ASSUME AbsentAssumption == Absent \notin File

IsList(x) == x \in Seq(Range(x))

(* What the file's decoder makes of a file: steps, targets and members are *)
(* lists.                                                                  *)
ASSUME FileAssumption ==
    \A f \in File :
        /\ \A p \in DOMAIN f.policies :
            /\ IsList(f.policies[p])
            /\ \A s \in Range(f.policies[p]) : IsList(s.targets)
        /\ \A t \in DOMAIN f.teams : IsList(f.teams[t])

VARIABLES
    file,     \* the file now
    seen,     \* lastMod and lastSize are the file's
    hup,      \* a SIGHUP waits in its channel
    watcher,  \* what the watcher does next
    current,  \* the configuration last loaded
    inForce,  \* the configuration each holder was built from
    built,    \* the channels the process has, made when it started
    page,     \* an incident on its way to a page, and the open transaction
    outbox,   \* the notifications committed for it
    edited    \* history: an edit was made while the watcher was watching

fileVars == <<file, edited>>
watchVars == <<seen, hup, watcher, current, inForce>>
pageVars == <<page, outbox>>
vars == <<fileVars, watchVars, pageVars, built>>

-----------------------------------------------------------------------------
(* Validation, as far as a page depends on it.                             *)

Users(c) == DOMAIN c.contacts
Step(c) == UNION {Range(c.policies[p]) : p \in DOMAIN c.policies}

validateUsers(c) == Users(c) # {} /\ \A u \in Users(c) : DOMAIN c.contacts[u] # {}

validateTeams(c) ==
    \A t \in DOMAIN c.teams : c.teams[t] # <<>> /\ Range(c.teams[t]) \subseteq Users(c)

validateSchedules(c) ==
    \A s \in DOMAIN c.schedules :
        c.schedules[s] # {} /\ c.schedules[s] \subseteq Users(c)

channelConfigured(c, ch) == ch \in c.channels

(* Everybody a step could page: anyone on a schedule may be on call.       *)
reachableUsers(c, targets) ==
    UNION {CASE t.kind = "user" -> {t.name} \cap Users(c)
             [] t.kind = "team" -> Range(c.teams[t.name])
             [] t.kind = "schedule" -> c.schedules[t.name] : t \in Range(targets)}

KnownTarget(c, t) ==
    \/ t.kind = "user" /\ t.name \in Users(c)
    \/ t.kind = "team" /\ t.name \in DOMAIN c.teams
    \/ t.kind = "schedule" /\ t.name \in DOMAIN c.schedules

(* Mutant: nobody asks whether the people of a step have addresses.        *)
validateStepWithoutContacts(c, s) ==
    /\ s.targets # <<>> /\ \A t \in Range(s.targets) : KnownTarget(c, t)
    /\ s.channels # {} /\ \A ch \in s.channels : channelConfigured(c, ch)

validateStep(c, s) ==
    /\ s.targets # <<>> /\ \A t \in Range(s.targets) : KnownTarget(c, t)
    /\ s.channels # {} /\ \A ch \in s.channels : channelConfigured(c, ch)
    /\ \A u \in reachableUsers(c, s.targets) : s.channels \subseteq DOMAIN c.contacts[u]

validatePolicies(c) ==
    /\ \A p \in DOMAIN c.policies : c.policies[p] # <<>>
    /\ \A s \in Step(c) : validateStep(c, s)

validateRoutes(c) ==
    /\ c.routes # <<>>
    /\ \A r \in Range(c.routes) : DOMAIN r.match # {} /\ r.policy \in DOMAIN c.policies

Validate(c) ==
    /\ validateUsers(c) /\ validateTeams(c) /\ validateSchedules(c)
    /\ validatePolicies(c) /\ validateRoutes(c)

Load(f) == IF f # Absent /\ Validate(f) THEN {f} ELSE {}

(* Schedules are built from what was loaded; validation does not look at   *)
(* the rotation of a restricted layer, and NewLayer refuses one it does not*)
(* know.                                                                   *)
FromConfig(c) == c.rotationsKnown

-----------------------------------------------------------------------------
(* Looking things up.                                                      *)

Matches(criteria, labels) ==
    \A k \in DOMAIN criteria :
        criteria[k] = (IF k \in DOMAIN labels THEN labels[k] ELSE "")

(* The first route that matches, if any does.                              *)
Match(c, labels) ==
    LET hits == {i \in DOMAIN c.routes : Matches(c.routes[i].match, labels)}
    IN  {c.routes[i] : i \in {h \in hits : \A g \in hits : h <= g}}

(* Whom a target may add.  A team or a schedule the configuration does not *)
(* have adds nobody.  Who of a schedule is on call depends on the time     *)
(* (module Schedule): somebody of its layers, the user of an override      *)
(* instead, or nobody.                                                     *)
Answers(c, t) ==
    CASE t.kind = "user" -> {<<t.name>>}
      [] t.kind = "team" -> {IF t.name \in DOMAIN c.teams THEN c.teams[t.name] ELSE <<>>}
      [] t.kind = "schedule" ->
            {<<>>} \cup (IF t.name \in DOMAIN c.schedules
                         THEN {<<u>> : u \in c.schedules[t.name] \cup Cover} ELSE {})

(* add: one after the other, whoever is not listed yet.                    *)
Add(users, ids) ==
    LET after[n \in 0..Len(ids)] ==
            IF n = 0 THEN users
            ELSE IF ids[n] \in Range(after[n - 1]) THEN after[n - 1]
            ELSE Append(after[n - 1], ids[n])
    IN  after[Len(ids)]

(* The address of a user on a channel, if there is one.                    *)
Destination(c, user, ch) ==
    IF user \in Users(c)
    THEN {d \in {c.contacts[user][x] : x \in {ch} \cap DOMAIN c.contacts[user]} : d # ""}
    ELSE {}

-----------------------------------------------------------------------------
(* The watcher.                                                            *)

Holder == {"router", "targets", "contacts", "policies"}

NoPage == [stage |-> "none", policy |-> "", steps |-> <<>>, rung |-> 1, left |-> <<>>,
           state |-> Absent, users |-> <<>>, calls |-> {}, pages |-> {}, skipped |-> {},
           from |-> {}]

(* NewWatcher has loaded the file and not yet read its times; the holders  *)
(* are built before anything uses them.                                    *)
Init ==
    /\ file \in {f \in File : Load(f) # {} /\ FromConfig(f)}
    /\ current = file /\ inForce = [h \in Holder |-> file] /\ built = file.channels
    /\ watcher = "starting" /\ seen = FALSE /\ hup = FALSE
    /\ page = NoPage /\ outbox = {} /\ edited = FALSE

StatAtStart ==
    /\ watcher = "starting"
    /\ watcher' = "waiting"
    /\ seen' = (file # Absent)
    /\ UNCHANGED <<fileVars, hup, current, inForce, pageVars, built>>

OnSignal ==
    /\ watcher = "waiting" /\ hup
    /\ hup' = FALSE
    /\ watcher' = "loading"
    /\ UNCHANGED <<fileVars, seen, current, inForce, pageVars, built>>

OnTick ==
    /\ watcher = "waiting" /\ file # Absent /\ ~seen
    /\ seen' = TRUE
    /\ watcher' = "loading"
    /\ UNCHANGED <<fileVars, hup, current, inForce, pageVars, built>>

Rejected ==
    /\ watcher = "loading" /\ Load(file) = {}
    /\ watcher' = "waiting"
    /\ UNCHANGED <<fileVars, seen, hup, current, inForce, pageVars, built>>

(* Mutant: what was read is used whether or not it is valid.               *)
AcceptedUnchecked ==
    /\ watcher = "loading" /\ file # Absent
    /\ current' = file
    /\ watcher' = IF FromConfig(current') THEN "router" ELSE "waiting"
    /\ UNCHANGED <<fileVars, seen, hup, inForce, pageVars, built>>

(* OnReload keeps the holders as they are when it cannot build schedules.  *)
Accepted ==
    /\ watcher = "loading"
    /\ current' \in Load(file)
    /\ watcher' = IF FromConfig(current') THEN "router" ELSE "waiting"
    /\ UNCHANGED <<fileVars, seen, hup, inForce, pageVars, built>>

(* OnReload: what is swapped after what.                                   *)
After == [router |-> "targets", targets |-> "contacts",
          contacts |-> "policies", policies |-> "waiting"]

(* Mutant: the times of the file are read once the reload is done.         *)
SwapThenStat ==
    /\ watcher \in Holder
    /\ inForce' = [inForce EXCEPT ![watcher] = current]
    /\ watcher' = After[watcher]
    /\ seen' = (seen \/ (watcher' = "waiting" /\ file # Absent))
    /\ UNCHANGED <<fileVars, hup, current, pageVars, built>>

Swap ==
    /\ watcher \in Holder
    /\ inForce' = [inForce EXCEPT ![watcher] = current]
    /\ watcher' = After[watcher]
    /\ UNCHANGED <<fileVars, seen, hup, current, pageVars, built>>

(* The operator: an edit gives the file new times.                         *)
Edit(f) ==
    /\ file' = f
    /\ seen' = FALSE
    /\ edited' = (edited \/ watcher # "starting")
    /\ UNCHANGED <<hup, watcher, current, inForce, pageVars, built>>

Signal ==
    /\ watcher # "starting" /\ ~hup
    /\ hup' = TRUE
    /\ UNCHANGED <<fileVars, seen, watcher, current, inForce, pageVars, built>>

-----------------------------------------------------------------------------
(* An incident, beside the watcher.                                        *)

Stays == UNCHANGED <<fileVars, watchVars, built>>

Ingest(labels) ==
    /\ watcher # "starting" /\ page.stage = "none"
    /\ \E r \in Match(inForce["router"], labels) :
          page' = [NoPage EXCEPT !.stage = "grouped", !.policy = r.policy,
                                 !.from = {inForce["router"]}]
    /\ outbox' = {} /\ Stays

(* OnPageDue: the policy is looked up when group_wait closes.              *)
PageDue ==
    /\ page.stage = "grouped"
    /\ LET c == inForce["policies"]
           p == [page EXCEPT !.from = @ \cup {c}]
       IN  page' = IF page.policy \in DOMAIN c.policies
                   THEN [p EXCEPT !.stage = "due", !.steps = c.policies[page.policy]]
                   ELSE [p EXCEPT !.stage = "stranded"]
    /\ UNCHANGED outbox /\ Stays

(* ResolveTargets reads the holder once, then asks for target after target.*)
BeginStep ==
    /\ page.stage = "due"
    /\ page' = [page EXCEPT !.stage = "resolving", !.state = inForce["targets"],
                            !.left = page.steps[page.rung].targets,
                            !.users = <<>>, !.from = @ \cup {inForce["targets"]}]
    /\ UNCHANGED outbox /\ Stays

(* Mutant: each target is resolved against what is in force by then.       *)
ResolveTargetLive ==
    /\ page.stage = "resolving" /\ page.left # <<>>
    /\ \E ids \in Answers(inForce["targets"], Head(page.left)) :
          page' = [page EXCEPT !.left = Tail(@), !.users = Add(@, ids),
                               !.from = @ \cup {inForce["targets"]}]
    /\ UNCHANGED outbox /\ Stays

ResolveTarget ==
    /\ page.stage = "resolving" /\ page.left # <<>>
    /\ \E ids \in Answers(page.state, Head(page.left)) :
          page' = [page EXCEPT !.left = Tail(@), !.users = Add(@, ids)]
    /\ UNCHANGED outbox /\ Stays

EndResolve ==
    /\ page.stage = "resolving" /\ page.left = <<>>
    /\ page' = [page EXCEPT !.stage = "addressing", !.pages = {}, !.skipped = {},
                            !.calls = Range(page.users) \X page.steps[page.rung].channels]
    /\ UNCHANGED outbox /\ Stays

(* One address after the other, each from what is in force by then; the    *)
(* order is of no matter.  Somebody without one is passed over.            *)
Address ==
    /\ page.stage = "addressing"
    /\ \E call \in page.calls :
          LET c == inForce["contacts"]
              dest == Destination(c, call[1], call[2])
              p == [page EXCEPT !.calls = @ \ {call}, !.from = @ \cup {c}]
          IN  page' = IF dest = {} THEN [p EXCEPT !.skipped = @ \cup {call}]
                      ELSE [p EXCEPT !.pages = @ \cup {[user |-> call[1], channel |-> call[2],
                                                        dest |-> d] : d \in dest}]
    /\ UNCHANGED outbox /\ Stays

(* The transaction ends; the timer of the next rung, if there is one, is   *)
(* part of it.                                                             *)
Commit ==
    /\ page.stage = "addressing" /\ page.calls = {}
    /\ outbox' = outbox \cup page.pages
    /\ page' = IF page.rung < Len(page.steps)
               THEN [page EXCEPT !.stage = "due", !.rung = @ + 1, !.state = Absent,
                                 !.users = <<>>, !.pages = {}, !.skipped = {}]
               ELSE NoPage
    /\ Stays

(* The overrides cannot be read, or a write fails: the step runs again, the*)
(* first one from the lookup of its policy on.                             *)
Rollback ==
    /\ page.stage \in {"resolving", "addressing"}
    /\ page' = [page EXCEPT !.stage = IF page.rung = 1 THEN "grouped" ELSE "due",
                            !.steps = IF page.rung = 1 THEN <<>> ELSE @,
                            !.left = <<>>, !.state = Absent, !.users = <<>>,
                            !.calls = {}, !.pages = {}, !.skipped = {}]
    /\ UNCHANGED outbox /\ Stays

-----------------------------------------------------------------------------
Watcher == StatAtStart \/ OnSignal \/ OnTick \/ Rejected \/ Accepted \/ Swap

Next ==
    \/ Watcher
    \/ \E f \in File \cup {Absent} : Edit(f)
    \/ Signal
    \/ \E labels \in Alert : Ingest(labels)
    \/ PageDue \/ BeginStep \/ ResolveTarget \/ EndResolve \/ Address
    \/ Commit \/ Rollback

Spec == Init /\ [][Next]_vars
FairSpec == Spec /\ WF_vars(Watcher)

-----------------------------------------------------------------------------
(* Properties.                                                             *)

Usable == {f \in File : Load(f) # {} /\ FromConfig(f)}

(* Values of their types.                                                  *)
TypeOK ==
    /\ file \in File \cup {Absent}
    /\ {seen, hup, edited} \subseteq BOOLEAN
    /\ watcher \in {"starting", "waiting", "loading"} \cup Holder
    /\ Load(current) # {} /\ inForce \in [Holder -> Usable]
    /\ page.from \subseteq Usable /\ page.rung \in 1 .. Len(page.steps) + 1
    /\ page.stage \in {"none", "grouped", "due", "resolving", "addressing", "stranded"}

(* A step in the middle of its resolution finishes against the state it    *)
(* started with (adapters.go:46-48), and whoever it reaches in two ways is *)
(* listed once (adapters.go:59): whatever reloads do meanwhile, its people *)
(* are what one configuration says.                                        *)
OneConfigPerResolution ==
    page.stage = "addressing" =>
        LET targets == page.steps[page.rung].targets
            Lists(c) == [DOMAIN targets -> UNION {Answers(c, t) : t \in Range(targets)}]
        IN  /\ IsInjective(page.users)
            /\ \E c \in Usable : \E list \in Lists(c) :
                  /\ \A i \in DOMAIN targets : list[i] \in Answers(c, targets[i])
                  /\ Range(page.users) = UNION {Range(list[i]) : i \in DOMAIN targets}

(* What validation is for: whatever the watcher reads, each holder has a   *)
(* configuration that validation let through, and an incident that met a   *)
(* single one is not left without its policy, and whoever its steps find is*)
(* paged on every channel ("a missing contact at 3am"), but for the user of*)
(* an override, whom validate.go:494-501 does not look at unless the step  *)
(* can reach them without it.                                              *)
ValidatedMeansPaged ==
    /\ inForce \in [Holder -> Usable]
    /\ \A c \in Usable : page.from = {c} =>
            /\ page.stage # "stranded"
            /\ \A call \in page.skipped :
                  call[1] \in Cover \ reachableUsers(c, page.steps[page.rung].targets)

(* A usable configuration written while Kerberon watches, and left, is in  *)
(* force in the end in every holder (README.md:196).                       *)
EditTakesEffect ==
    \A c \in Usable :
        <>[](edited /\ file = c) => <>[](\A h \in Holder : inForce[h] = c)

(* The same of an edit at any time.  NewWatcher reads the file before its  *)
(* times, so an edit in between passes for the one that was loaded.        *)
EveryEditTakesEffect ==
    \A c \in Usable : <>[](file = c) => <>[](\A h \in Holder : inForce[h] = c)

(* main.go:406: "an unconfigured channel here means it is genuinely unused"*)
(* - no page waits for a channel the process did not build.                *)
EveryChannelIsBuilt == \A n \in outbox : n.channel \in built
=============================================================================
