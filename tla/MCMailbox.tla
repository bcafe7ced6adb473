----------------------------- MODULE MCMailbox -----------------------------
(* Model values for checking Mailbox: res1 serves R1_FUN1, which has no     *)
(* parameters, and R1_FUN2; res2 serves R1_FUN2 only.                       *)
EXTENDS Mailbox

CONSTANTS RES1, res1, res2, R1_FUN1, R1_FUN2

FunctionsOfMC ==
  [r \in Responsers |-> IF r = res1 THEN {R1_FUN1, R1_FUN2} ELSE {R1_FUN2}]

MaxDeliverMC == [r \in Responsers |-> IF r = res1 THEN 3 ELSE 1]
=============================================================================
