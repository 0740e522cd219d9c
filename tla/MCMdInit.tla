------------------------------ MODULE MCMdInit ------------------------------
(* Instances of MdInit for TLC. *)
EXTENDS MdInit

BothDaemons == {"md1", "md3"}
AllRequests == Request
StopReset   == {"FORCE_STOP", "RESET"}
NormalMode  == {"normal"}
AllModes    == {"normal", "meta", "factory", "mdmeta"}

Bounds(r, c, f, l) == [request |-> r, crash |-> c, fault |-> f, loss |-> l]

BudgetFaults == Bounds(2, 1, 2, 0)
BudgetLive   == Bounds(2, 1, 0, 0)
BudgetLoss   == Bounds(2, 1, 0, 1)
=============================================================================
