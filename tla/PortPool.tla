------------------------------ MODULE PortPool ------------------------------
(***************************************************************************)
(* The pool of port numbers of pool/portspool/ports.go.  GetPort and       *)
(* ReturnPort hold the lock of the pool from beginning to end, so each is  *)
(* one step.  ReturnPort does not know who has a port: a client may give   *)
(* back a port that it gave back before.                                   *)
(***************************************************************************)
EXTENDS Integers, Sequences, FiniteSetsExt, Functions

CONSTANTS PpClients,  \* users of the pool
          PpRanges,   \* pairs <<minPort, maxPort>> that NewPortPool is given
          PpLow,      \* 50000, instead of a negative minPort
          PpHigh,     \* 60005, instead of a maxPort above ...
          PpTop       \* ... 65535

ASSUME PpAssumption == /\ PpLow \in Nat /\ PpHigh \in Nat /\ PpTop \in Nat
                       /\ 0 < PpLow /\ PpLow < PpHigh /\ PpHigh < PpTop
                       /\ PpRanges \subseteq Int \X Int

VARIABLES ppState,     \* "new", "open", or "panic" when there is no such slice
          ppAvailable, \* available
          ppAllocated, \* allocated
          ppHeld,      \* the ports each client works with
          ppHad,       \* the ports each client has given back
          ppTwice      \* history: ReturnPort took a port from one who still used it

portVars == <<ppState, ppAvailable, ppAllocated, ppHeld, ppHad, ppTwice>>

Ports == 0..PpTop
PortRange(min, max) == [i \in 1..(max - min + 1) |-> min + i - 1]

PpTypeOK ==
  /\ ppState \in {"new", "open", "panic"} /\ ppTwice \in BOOLEAN
  /\ ppAvailable \in Seq(Ports) /\ ppAllocated \in Seq(Ports)
  /\ ppHeld \in [PpClients -> SUBSET Ports] /\ ppHad \in [PpClients -> SUBSET Ports]

PpInit ==
  /\ ppState = "new" /\ ppAvailable = << >> /\ ppAllocated = << >>
  /\ ppHeld = [c \in PpClients |-> {}] /\ ppHad = [c \in PpClients |-> {}]
  /\ ppTwice = FALSE

\* The two bounds are swapped into order first and then corrected each on its
\* own; a range that ends before it begins makes a slice of negative length.
NewPortPool(r) ==
  LET lo == IF r[1] > r[2] THEN r[2] ELSE r[1]
      hi == IF r[1] > r[2] THEN r[1] ELSE r[2]
      min == IF lo < 0 THEN PpLow ELSE lo
      max == IF hi > PpTop THEN PpHigh ELSE hi
  IN  /\ ppState = "new"
      /\ IF max - min + 1 < 0 THEN ppState' = "panic" /\ UNCHANGED ppAvailable
         ELSE ppState' = "open" /\ ppAvailable' = PortRange(min, max)
      /\ UNCHANGED <<ppAllocated, ppHeld, ppHad, ppTwice>>

\* An empty pool is an error.
GetPort(c) ==
  /\ ppState = "open" /\ ppAvailable # << >>
  /\ ppAvailable' = Tail(ppAvailable)
  /\ ppAllocated' = Append(ppAllocated, Head(ppAvailable))
  /\ ppHeld' = [ppHeld EXCEPT ![c] = @ \cup {Head(ppAvailable)}]
  /\ ppHad' = [ppHad EXCEPT ![c] = @ \ {Head(ppAvailable)}]
  /\ UNCHANGED <<ppState, ppTwice>>

\* A port that is not allocated is an error; the first entry found goes.
ReturnPort(c, p) ==
  /\ p \in ppHeld[c] \cup ppHad[c]
  /\ \E i \in DOMAIN ppAllocated :
       /\ ppAllocated[i] = p /\ \A j \in 1..(i - 1) : ppAllocated[j] # p
       /\ ppAllocated' = SubSeq(ppAllocated, 1, i - 1) \o SubSeq(ppAllocated, i + 1, Len(ppAllocated))
  /\ ppAvailable' = Append(ppAvailable, p)
  /\ ppHeld' = [ppHeld EXCEPT ![c] = @ \ {p}]
  /\ ppHad' = [ppHad EXCEPT ![c] = @ \cup {p}]
  /\ ppTwice' = (ppTwice \/ p \notin ppHeld[c])
  /\ UNCHANGED ppState

PpNext ==
  \/ \E r \in PpRanges : NewPortPool(r)
  \/ \E c \in PpClients : GetPort(c) \/ \E p \in Ports : ReturnPort(c, p)

PpSpec == PpInit /\ [][PpNext]_portVars

\* The pool never loses and never doubles a port, whoever returns what: every
\* port of its range is once in one of the two lists.  As long as nobody
\* returns a port twice, two clients never have the same one, and exactly the
\* ports in somebody's hands are allocated (ports.go:43-79).
PortsSound ==
  /\ IsInjective(ppAvailable \o ppAllocated)
  /\ ppState = "open" =>
       \E r \in PpRanges : Range(ppAvailable \o ppAllocated) =
         Range(PortRange(IF Min({r[1], r[2]}) < 0 THEN PpLow ELSE Min({r[1], r[2]}),
                         IF Max({r[1], r[2]}) > PpTop THEN PpHigh ELSE Max({r[1], r[2]})))
  /\ ~ppTwice =>
       /\ \A c, d \in PpClients : c # d => ppHeld[c] \cap ppHeld[d] = {}
       /\ Range(ppAllocated) = UNION {ppHeld[c] : c \in PpClients}
=============================================================================
