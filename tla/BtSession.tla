-------------------------------- MODULE BtSession --------------------------------
(***************************************************************************)
(* What the Bluetooth HAL promises to its stacks, without its threads: the *)
(* controller is open for one request at a time, a stack is told of the    *)
(* request it is open for, and a stack that was told of its own request    *)
(* keeps the controller until it leaves or asks again.  Only a stack that  *)
(* asks while another request is still being dealt with may be told of     *)
(* that other request.                                                     *)
(***************************************************************************)
EXTENDS Naturals

CONSTANT MaxInit   \* bound: sessions asked for

VARIABLES
  stack,   \* what the stack knows of its session
  asked,   \* the number of the last request
  served,  \* the request the controller is open for, 0 if it is closed
  told,    \* the request that the last success was about
  alone    \* no other request was being dealt with when the last one came

sessionVars == <<stack, asked, served, told, alone>>

SessionInit == stack = "none" /\ asked = 0 /\ served = 0 /\ told = 0 /\ alone = TRUE

Ask ==
  /\ asked < MaxInit
  /\ asked' = asked + 1
  /\ stack' = "waiting"
  /\ alone' \in BOOLEAN
  /\ UNCHANGED <<served, told>>

Leave ==
  /\ stack # "none"
  /\ stack' \in {"closed", "none"}
  /\ UNCHANGED <<asked, served, told, alone>>

\* The requests that may be open now: the last one if it came alone.
Openable == IF alone THEN {asked} ELSE 1..asked

\* The controller opens for a request, never over another; the stack that
\* waits may be refused in the same step.
Serve ==
  /\ served = 0
  /\ served' \in Openable
  /\ stack' \in {stack} \cup {r \in {"refused"} : stack = "waiting"}
  /\ UNCHANGED <<asked, told, alone>>

\* Success is told about the request that is open, to a stack that waits for
\* it; a stack that came alone is told of its own request only.
Tell ==
  /\ served # 0
  /\ told' = served
  /\ stack' = IF stack = "waiting" THEN "ready" ELSE stack
  /\ stack = "waiting" /\ alone => served = asked
  /\ UNCHANGED <<asked, served, alone>>

\* The controller is closed under a stack only if that stack is gone or has
\* asked for another session.
Withdraw ==
  /\ served # 0
  /\ stack \in {"none", "closed"} \/ served # asked
  /\ served' = 0
  /\ UNCHANGED <<stack, asked, told, alone>>

SessionNext == Ask \/ Leave \/ Serve \/ Tell \/ Withdraw

SessionSpec == SessionInit /\ [][SessionNext]_sessionVars
===============================================================================
