------------------------------ MODULE MCOutbox ------------------------------
(* Finite instances of Outbox for TLC.  MCTwoPages share a channel;         *)
(* MCThreePages have one each, and the process does not know the third.     *)
EXTENDS Outbox

MCTwoPages == 1..2
MCOneChannel == [p \in MCTwoPages |-> "ntfy"]

MCThreePages == 1..3
MCThreeChannels == <<"ntfy", "email", "sms">>

MCFirstRung == {1}

MCBackoff == <<1, 2>>
=============================================================================
