----------------------------- MODULE MCAckLink -----------------------------
EXTENDS AckLink

(* The first rung pages both users, the second one of them, the last both.  *)
MCPaged == [n \in Rung |-> IF n = 1 THEN {CHOOSE u \in User : TRUE} ELSE User]
=============================================================================
