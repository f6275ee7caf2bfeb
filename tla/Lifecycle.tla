------------------------------ MODULE Lifecycle ------------------------------
(***************************************************************************)
(* Leaving a process, lifecycle/lifecycle.go: goroutines that register     *)
(* closers, signals and calls of Exit, the main goroutine in WaitExit and  *)
(* exit, the closers it starts and the timer that ends the process.        *)
(* Nothing in the code locks preExitRun or the closing of chExit.          *)
(***************************************************************************)
EXTENDS Integers, FiniteSets

CONSTANTS LcClosers, \* closers; each has a goroutine that registers it
          LcExiters  \* goroutines that call Exit

ASSUME LcAssumption == IsFiniteSet(LcClosers)

VARIABLES lcList,   \* preExitRun
          lcAdd,    \* where each AddCloser is
          lcSnap,   \* preExitRun as the AddCloser in progress read it
          lcClose,  \* where each closer's Close is
          lcMain,   \* where the main goroutine is
          lcWg,     \* the wait group of exit
          lcSig,    \* a signal waits in sigChan
          lcCh,     \* chExit is closed
          lcExiter, \* where each Exit is
          lcForced, \* exitTimeout is below a microsecond
          lcExit,   \* how the process ended
          lcRace    \* history: a registration was lost, or came during exit

lifeVars == <<lcList, lcAdd, lcSnap, lcClose, lcMain, lcWg, lcSig, lcCh,
              lcExiter, lcForced, lcExit, lcRace>>

LcTypeOK ==
  /\ lcList \subseteq LcClosers
  /\ lcAdd \in [LcClosers -> {"new", "read", "added"}]
  /\ lcSnap \in [LcClosers -> SUBSET LcClosers]
  /\ lcClose \in [LcClosers -> {"none", "running", "done"}]
  /\ lcMain \in {"run", "waiting", "exit", "counted", "closing", "sleep"}
  /\ lcWg \in 0..Cardinality(LcClosers)
  /\ lcSig \in BOOLEAN /\ lcCh \in BOOLEAN
  /\ lcExiter \in [LcExiters -> {"new", "close", "done"}]
  /\ lcForced \in BOOLEAN /\ lcRace \in BOOLEAN
  /\ lcExit \in {"no", "zero", "timeout", "killed", "panic"}

\* New, with SetTimeout called before the process serves.
LcInit ==
  /\ lcList = {} /\ lcAdd = [c \in LcClosers |-> "new"]
  /\ lcSnap = [c \in LcClosers |-> {}]
  /\ lcClose = [c \in LcClosers |-> "none"]
  /\ lcMain = "run" /\ lcWg = 0 /\ lcSig = FALSE /\ lcCh = FALSE
  /\ lcExiter = [x \in LcExiters |-> "new"]
  /\ lcForced \in BOOLEAN /\ lcExit = "no" /\ lcRace = FALSE

\* AddCloser reads preExitRun ...
AddCloser(c) ==
  /\ lcExit = "no" /\ lcAdd[c] = "new"
  /\ lcAdd' = [lcAdd EXCEPT ![c] = "read"]
  /\ lcSnap' = [lcSnap EXCEPT ![c] = lcList]
  /\ UNCHANGED <<lcList, lcClose, lcMain, lcWg, lcSig, lcCh, lcExiter, lcForced, lcExit, lcRace>>

\* ... and writes it back with its closer: a registration in between is lost.
AddCloserAppend(c) ==
  /\ lcExit = "no" /\ lcAdd[c] = "read"
  /\ lcAdd' = [lcAdd EXCEPT ![c] = "added"]
  /\ lcList' = lcSnap[c] \cup {c}
  /\ lcRace' = (lcRace \/ lcSnap[c] # lcList \/ lcMain = "counted")
  /\ lcSnap' = [lcSnap EXCEPT ![c] = {}]
  /\ UNCHANGED <<lcClose, lcMain, lcWg, lcSig, lcCh, lcExiter, lcForced, lcExit>>

\* Exit: closeCh looks whether the channel is closed ...
Exit(x) ==
  /\ lcExit = "no" /\ lcExiter[x] = "new"
  /\ lcExiter' = [lcExiter EXCEPT ![x] = IF lcCh THEN "done" ELSE "close"]
  /\ UNCHANGED <<lcList, lcAdd, lcSnap, lcClose, lcMain, lcWg, lcSig, lcCh, lcForced, lcExit, lcRace>>

\* ... and closes it; the second of two closes panics.
ExitCloseCh(x) ==
  /\ lcExit = "no" /\ lcExiter[x] = "close"
  /\ lcExiter' = [lcExiter EXCEPT ![x] = "done"]
  /\ IF lcCh THEN lcExit' = "panic" /\ UNCHANGED lcCh
             ELSE lcCh' = TRUE /\ UNCHANGED lcExit
  /\ UNCHANGED <<lcList, lcAdd, lcSnap, lcClose, lcMain, lcWg, lcSig, lcForced, lcRace>>

\* External: a signal of listenSigs.  Before signal.Notify it kills the
\* process; sigChan holds one, and more are dropped.
Signal ==
  /\ lcExit = "no"
  /\ IF lcMain = "run" THEN lcExit' = "killed" /\ UNCHANGED lcSig
                       ELSE lcSig' = TRUE /\ UNCHANGED lcExit
  /\ UNCHANGED <<lcList, lcAdd, lcSnap, lcClose, lcMain, lcWg, lcCh, lcExiter, lcForced, lcRace>>

LcMainGo(from, to) == lcExit = "no" /\ lcMain = from /\ lcMain' = to

WaitExit ==
  /\ LcMainGo("run", "waiting")
  /\ UNCHANGED <<lcList, lcAdd, lcSnap, lcClose, lcWg, lcSig, lcCh, lcExiter, lcForced, lcExit, lcRace>>

\* The select of WaitExit, then exit: a forced exit at once, or the timer
\* goroutine starts and the context is cancelled.
ExitBegin ==
  /\ lcSig \/ lcCh
  /\ LcMainGo("waiting", "exit")
  /\ lcSig' \in IF lcCh THEN {lcSig, FALSE} ELSE {FALSE}
  /\ lcExit' = IF lcForced THEN "zero" ELSE "no"
  /\ UNCHANGED <<lcList, lcAdd, lcSnap, lcClose, lcWg, lcCh, lcExiter, lcForced, lcRace>>

\* wg.Add(len(preExitRun)).
ExitCount ==
  /\ LcMainGo("exit", "counted")
  /\ lcWg' = Cardinality(lcList)
  /\ UNCHANGED <<lcList, lcAdd, lcSnap, lcClose, lcSig, lcCh, lcExiter, lcForced, lcExit, lcRace>>

\* The loop over preExitRun, read again, starts a goroutine for each closer.
ExitStartClosers ==
  /\ LcMainGo("counted", "closing")
  /\ lcClose' = [c \in LcClosers |-> IF c \in lcList THEN "running" ELSE "none"]
  /\ UNCHANGED <<lcList, lcAdd, lcSnap, lcWg, lcSig, lcCh, lcExiter, lcForced, lcExit, lcRace>>

\* A closer returns; wg.Done below zero panics.
CloserDone(c) ==
  /\ lcExit = "no" /\ lcClose[c] = "running"
  /\ lcClose' = [lcClose EXCEPT ![c] = "done"]
  /\ IF lcWg = 0 THEN lcExit' = "panic" /\ UNCHANGED lcWg
                 ELSE lcWg' = lcWg - 1 /\ UNCHANGED lcExit
  /\ UNCHANGED <<lcList, lcAdd, lcSnap, lcMain, lcSig, lcCh, lcExiter, lcForced, lcRace>>

\* wg.Wait.
ExitWait ==
  /\ LcMainGo("closing", "sleep") /\ lcWg = 0
  /\ UNCHANGED <<lcList, lcAdd, lcSnap, lcClose, lcWg, lcSig, lcCh, lcExiter, lcForced, lcExit, lcRace>>

\* After the second's sleep, os.Exit(0).
ExitZero ==
  /\ lcExit = "no" /\ lcMain = "sleep" /\ lcExit' = "zero"
  /\ UNCHANGED <<lcList, lcAdd, lcSnap, lcClose, lcMain, lcWg, lcSig, lcCh, lcExiter, lcForced, lcRace>>

ExitTimerStopped ==
  /\ lcExit = "no" /\ lcMain = "sleep" /\ lcExit' = "timeout"
  /\ UNCHANGED <<lcList, lcAdd, lcSnap, lcClose, lcMain, lcWg, lcSig, lcCh, lcExiter, lcForced, lcRace>>

\* The timer goroutine: os.Exit(1).
ExitTimeout ==
  /\ lcExit = "no" /\ lcMain \in {"exit", "counted", "closing", "sleep"}
  /\ lcExit' = "timeout"
  /\ UNCHANGED <<lcList, lcAdd, lcSnap, lcClose, lcMain, lcWg, lcSig, lcCh, lcExiter, lcForced, lcRace>>

LcMainStep == ExitBegin \/ ExitCount \/ ExitStartClosers \/ ExitWait \/ ExitZero

LcNext ==
  \/ \E c \in LcClosers : AddCloser(c) \/ AddCloserAppend(c) \/ CloserDone(c)
  \/ \E x \in LcExiters : Exit(x) \/ ExitCloseCh(x)
  \/ Signal \/ WaitExit \/ LcMainStep \/ ExitTimeout

\* The main goroutine runs and its timer fires; a closer may hang for ever.
LcFairness == WF_lifeVars(LcMainStep) /\ WF_lifeVars(ExitTimeout)

LcSpec == LcInit /\ [][LcNext]_lifeVars /\ LcFairness

\* A process that ends with code 0, unless a timeout of zero forced it, has run
\* every closer it started to its end, provided no AddCloser overlapped another
\* one or the start of the closers (lifecycle.go:120-147).
ZeroMeansClosed ==
  lcExit = "zero" /\ ~lcForced /\ ~lcRace =>
    \A c \in LcClosers : lcClose[c] # "running"

\* Once a signal or Exit reaches WaitExit the process ends, even when a
\* closer hangs (lifecycle.go:125-131).
ExitHappens == (lcMain = "waiting" /\ (lcSig \/ lcCh)) ~> (lcExit # "no")
=============================================================================
