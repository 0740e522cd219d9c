--------------------------- MODULE RestartBarrier ---------------------------
(***************************************************************************)
(* What the MD1/MD3 restart handshake of ccci_mdinit promises, without its  *)
(* mechanism: the two modem daemons restart in lockstep.  A daemon enters   *)
(* its n-th restart, and leaves it only once its peer has entered its own   *)
(* n-th restart.  MdInit implements this module through the two modem       *)
(* status properties (check_to_restart_md_v2).                              *)
(***************************************************************************)
EXTENDS Naturals

CONSTANTS
  Daemon,    \* the daemons
  Peer(_)    \* the daemon that each one restarts with

VARIABLES
  entered,   \* restarts each daemon has entered
  passed     \* restarts each daemon has left to boot its modem

barrierVars == <<entered, passed>>

BarrierInit ==
  /\ entered = [d \in Daemon |-> 0]
  /\ passed = [d \in Daemon |-> 0]

Enter(d) ==
  /\ entered[d] = passed[d]
  /\ entered' = [entered EXCEPT ![d] = @ + 1]
  /\ UNCHANGED passed

Leave(d) ==
  /\ passed[d] < entered[d]
  /\ entered[Peer(d)] >= entered[d]
  /\ passed' = [passed EXCEPT ![d] = @ + 1]
  /\ UNCHANGED entered

BarrierNext == \E d \in Daemon : Enter(d) \/ Leave(d)

BarrierSpec == BarrierInit /\ [][BarrierNext]_barrierVars
=============================================================================
