------------------------------ MODULE MCReload ------------------------------
(* Configurations for TLC.  MCNight has other people behind the names of    *)
(* MCDay, a policy more and a user less; MCMail adds a channel; in MCEmpty  *)
(* somebody has an address that is empty.  MCUnreachable is rejected,       *)
(* MCFortnight is valid but unusable.                                       *)
EXTENDS Reload

Team(name) == [kind |-> "team", name |-> name]
User(name) == [kind |-> "user", name |-> name]
OnCall(name) == [kind |-> "schedule", name |-> name]
Ask(targets, channels) == [targets |-> targets, channels |-> channels]
When(match, policy) == [match |-> match, policy |-> policy]

MCDay == [
    contacts |-> [ann |-> [ntfy |-> "a"], cy |-> [ntfy |-> "c"]],
    teams |-> [ops |-> <<"ann">>],
    schedules |-> [primary |-> {"ann", "cy"}],
    policies |-> [gold |-> <<Ask(<<Team("ops"), OnCall("primary")>>, {"ntfy"}),
                             Ask(<<User("cy")>>, {"ntfy"})>>],
    routes |-> <<When([severity |-> "critical"], "gold"), When([app |-> "db"], "gold")>>,
    channels |-> {"ntfy"},
    rotationsKnown |-> TRUE]

MCNight == [MCDay EXCEPT
    !.contacts = [bo |-> [ntfy |-> "b"], cy |-> [ntfy |-> "c2"]],
    !.teams = [ops |-> <<"cy", "bo", "cy">>],
    !.schedules = [primary |-> {"bo"}],
    !.policies = [gold |-> <<Ask(<<OnCall("primary"), Team("ops")>>, {"ntfy"})>>,
                  silver |-> <<Ask(<<User("bo"), Team("ops")>>, {"ntfy"})>>],
    !.routes = <<When([app |-> "db", severity |-> "critical"], "silver"),
                 When([severity |-> "critical"], "gold")>>]

MCMail == [MCDay EXCEPT
    !.contacts = [ann |-> [ntfy |-> "a", email |-> "a@x"], cy |-> [ntfy |-> "c", email |-> "c@x"]],
    !.policies = [gold |-> <<Ask(<<Team("ops")>>, {"ntfy", "email"})>>],
    !.channels = {"ntfy", "email"}]

MCFortnight == [MCNight EXCEPT !.rotationsKnown = FALSE]
MCUnreachable == [MCDay EXCEPT !.contacts = [ann |-> [ntfy |-> "a"], cy |-> [email |-> "c@x"]]]
MCEmpty == [MCDay EXCEPT !.contacts = [ann |-> [ntfy |-> "a"], cy |-> [ntfy |-> ""]]]

MCFiles == {MCDay, MCNight, MCFortnight, MCUnreachable}
MCFilesWithMail == {MCDay, MCMail}
MCFilesWithEmpty == {MCDay, MCEmpty}
MCAlerts == {[severity |-> "critical", app |-> "web"], [severity |-> "critical", app |-> "db"]}
=============================================================================
