------------------------------ MODULE MCPowerd ------------------------------
(* Instances of Powerd for TLC.                                               *)
EXTENDS Powerd, TLC

Processes == Permutations(Pid)

\* GAMING = 1, APP_TOUCH = 2, WHITELIST_LAUNCH = 3; 2 is followed by 1.
Hints          == 1 .. 3
Follows        == (1 :> 0) @@ (2 :> 1) @@ (3 :> 0)
HintsScreenOff == (1 :> "WAIT_RESTORE") @@ (2 :> "DISABLE") @@ (3 :> "ENABLE")

NoHints   == {}
NoFollows == [h \in {} |-> 0]
=============================================================================
