---------------------------- MODULE MCProcesses -----------------------------
(***************************************************************************)
(* The programs about processes and signals as TLC checks them: those of   *)
(* 3.Linux_Process and 5.IPC_Signal, and the pipe of 9.Pipe.  A behaviour  *)
(* runs one of them and leaves the variables of the others alone.          *)
(***************************************************************************)
EXTENDS Pipe, Processes, SignalLoops

VARIABLE exam

Init == /\ exam \in {"pipe", "family", "loop"}
        /\ PipeInit /\ ProcInit /\ LoopInit

Runs(e) == exam = e /\ UNCHANGED exam

(* The steps of the three parts.                                           *)
PipeRuns(A)   == Runs("pipe") /\ A /\ UNCHANGED <<procVars, loopVars>>
FamilyRuns(A) == Runs("family") /\ A /\ UNCHANGED <<pipeVars, loopVars>>
LoopRuns(A)   == Runs("loop") /\ A /\ UNCHANGED <<pipeVars, procVars>>

Next == PipeRuns(PipeNext) \/ FamilyRuns(ProcNext) \/ LoopRuns(LoopNext)

vars == <<exam, pipeVars, procVars, loopVars>>
Spec == Init /\ [][Next]_vars

(* Every process that can go on is scheduled, time passes, and signals     *)
(* that are pending are delivered.  Signals from outside, input and deaths *)
(* need not come.                                                          *)
FairSpec ==
  /\ Spec
  /\ WF_vars(PipeRuns(PipeMain))
  /\ \A c \in Command : WF_vars(PipeRuns(CommandStep(c)))
  /\ WF_vars(FamilyRuns(ParentStep)) /\ WF_vars(FamilyRuns(ChildSteps))
  /\ WF_vars(FamilyRuns(InitReaps))
  /\ WF_vars(LoopRuns(Handlers)) /\ WF_vars(LoopRuns(LoopMain))
  /\ WF_vars(LoopRuns(AlarmExpires))

-----------------------------------------------------------------------------
(* Type correctness of the three parts.                                    *)
ProcessesTypeOK == PipeTypeOK /\ ProcTypeOK /\ LoopTypeOK

(* The mains that wait, of the pipe and of the programs with a child, do   *)
(* not return before their children have ended and are reaped.             *)
NoneLeftBehind == ReapsBoth /\ ChildEndsFirst

(* No signal counts twice: SIGUSR1s, SIGINTs and seconds are counted at    *)
(* most as often as they came, and of the timer one is always to come.     *)
SignalsOnce == NotMoreThanSent /\ CountsPressed /\ AlarmChain

(* What must end does: wc reads all that ls writes, parents return and     *)
(* zombies go, the timer stops at ten, and a SIGTERM ends its program.     *)
AllEnd == AllCounted /\ ParentReturns /\ ZombieReaped /\ TimerEnds /\ TermEnds
=============================================================================
