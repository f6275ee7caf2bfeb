---------------------------- MODULE AbstractLock ----------------------------
(***************************************************************************)
(* What the locks of the library promise to their callers, whatever they   *)
(* are built on: a critical section that admits one client at a time until *)
(* the promise is broken in the open (a lease that runs out, a command     *)
(* that fails), and that admits one client at a time again as soon as the  *)
(* section has been empty.                                                 *)
(***************************************************************************)
CONSTANT Clients

VARIABLES inside, \* the clients between a successful Lock and their Unlock
          safe    \* FALSE from the breach until the section is empty again

vars == <<inside, safe>>

Init == inside = {} /\ safe = TRUE

Enter(c) ==
  /\ c \notin inside
  /\ safe => inside = {}
  /\ inside' = inside \cup {c}
  /\ UNCHANGED safe

\* A client that is let in although Redis did not answer.
EnterUnprotected(c) ==
  /\ c \notin inside
  /\ inside' = inside \cup {c}
  /\ safe' = FALSE

Leave(c) ==
  /\ c \in inside
  /\ inside' = inside \ {c}
  /\ safe' \in IF inside' = {} THEN {TRUE} ELSE {safe, FALSE}

\* The section loses its protection while it is occupied.
Breach == inside # {} /\ safe' = FALSE /\ UNCHANGED inside

Next == (\E c \in Clients : Enter(c) \/ EnterUnprotected(c) \/ Leave(c)) \/ Breach

Spec == Init /\ [][Next]_vars
=============================================================================
