----------------------------- MODULE Processes ------------------------------
(***************************************************************************)
(* The programs of one parent and one child: Exam1 (exit status), Exam2    *)
(* (exec), the zombie and the orphan of 3.Linux_Process, and Exam3 of      *)
(* 5.IPC_Signal, whose parent sends SIGUSR1 and at last SIGKILL.           *)
(* Signals may also come from outside and end either process.  init adopts *)
(* the child of a parent that is gone, and reaps it; it is external.       *)
(***************************************************************************)
EXTENDS Integers

CONSTANTS Rounds,   \* lines the orphan prints, 600 in the source
          Signals   \* SIGUSR1s the parent sends, 5 in the source

ASSUME ProcAssumption == Rounds \in Nat /\ Signals \in Nat

Waiting == {"Exam1", "Exam2", "Orphan"}   \* the parent waits at once

VARIABLES prog,      \* the program: one of Waiting, "Zombie" or "Signals"
          parent,    \* where the parent is
          child,     \* where the child is
          ppid,      \* the child's parent, "main" or "init"
          rounds,    \* times the child printed (Orphan), the loop of the parent (Signals)
          status,    \* how the child ended, or "running"
          learned,   \* the status wait() gave to main, or "nothing"
          pending,   \* is a SIGUSR1 pending in the child?
          handled    \* times sigusr1_handler ran

procVars == <<prog, parent, child, ppid, rounds, status, learned, pending, handled>>
signalVars == <<pending, handled>>

ProcInit ==
  /\ prog \in Waiting \cup {"Zombie", "Signals"}
  /\ parent = "fork" /\ child = "none" /\ ppid = "main"
  /\ rounds = 0 /\ status = "running" /\ learned = "nothing"
  /\ pending = FALSE /\ handled = 0

ChildRuns == child \in {"start", "loop", "exec", "handler"}
Alive     == parent \notin {"returned", "killed"}

(* The child ends: a zombie for its parent, whoever that is.               *)
Dies(how) == child' = "zombie" /\ status' = how

(* main ends: its child, if any, goes to init.                             *)
Leaves(how) == parent' = how /\ ppid' = "init"

-----------------------------------------------------------------------------
(* The parent                                                              *)

Fork ==
  /\ parent = "fork"
  /\ \/ /\ child' = "start"
        /\ parent' = CASE prog \in Waiting -> "wait" [] prog = "Zombie" -> "sleep"
                       [] OTHER -> "send"
        /\ UNCHANGED ppid
     \/ Leaves("returned") /\ UNCHANGED child
  /\ UNCHANGED <<prog, rounds, status, learned, signalVars>>

(* sleep(120), while the child may be a zombie.                            *)
Sleep120 ==
  /\ parent = "sleep" /\ parent' = "wait"
  /\ UNCHANGED <<prog, child, ppid, rounds, status, learned, signalVars>>

(* kill(pid, SIGUSR1): one that is already pending takes the new one in; a *)
(* zombie ignores it.                                                      *)
SendUsr1 ==
  /\ parent = "send" /\ rounds < Signals
  /\ rounds' = rounds + 1
  /\ pending' = (pending \/ ChildRuns)
  /\ UNCHANGED <<prog, parent, child, ppid, status, learned, handled>>

(* Slips: SIGUSR1 once more instead of SIGKILL; wait before the kill.      *)
SendNoKill ==
  /\ parent = "send" /\ rounds = Signals /\ parent' = "wait"
  /\ pending' = (pending \/ ChildRuns)
  /\ UNCHANGED <<prog, child, ppid, rounds, status, learned, handled>>
WaitThenKill ==
  /\ parent = "send" /\ rounds = Signals
  /\ child' = IF child = "zombie" THEN "gone" ELSE child
  /\ UNCHANGED <<prog, parent, ppid, rounds, status, learned, signalVars>>

SendKill ==
  /\ parent = "send" /\ rounds = Signals /\ parent' = "wait"
  /\ IF ChildRuns THEN Dies("SIGKILL") ELSE UNCHANGED <<child, status>>
  /\ UNCHANGED <<prog, ppid, rounds, learned, signalVars>>

(* Slip: does not wait (WNOHANG).                                          *)
PollChild ==
  /\ parent = "wait" /\ parent' = "print"
  /\ IF child = "zombie" THEN child' = "gone" /\ learned' = status
                         ELSE UNCHANGED <<child, learned>>
  /\ UNCHANGED <<prog, ppid, rounds, status, signalVars>>

WaitChild ==
  /\ parent = "wait" /\ child = "zombie"
  /\ parent' = "print" /\ child' = "gone" /\ learned' = status
  /\ UNCHANGED <<prog, ppid, rounds, status, signalVars>>

(* Prints what it learned and returns.                                     *)
Return ==
  /\ parent = "print" /\ Leaves("returned")
  /\ UNCHANGED <<prog, child, rounds, status, learned, signalVars>>

-----------------------------------------------------------------------------
(* The child                                                               *)

ExitAtOnce ==
  /\ child = "start" /\ prog \in {"Exam1", "Zombie"}
  /\ Dies(IF prog = "Exam1" THEN "10" ELSE "1")
  /\ UNCHANGED <<prog, parent, ppid, rounds, learned, signalVars>>

(* ls takes the child over and ends with a status of its own; when it      *)
(* cannot be executed, the child goes on and exits with 10.                *)
ExecLs ==
  /\ child = "start" /\ prog = "Exam2"
  /\ \/ child' = "exec" /\ UNCHANGED status
     \/ Dies("10")
  /\ UNCHANGED <<prog, parent, ppid, rounds, learned, signalVars>>
LsEnds ==
  /\ child = "exec" /\ \E s \in {"0", "2"} : Dies(s)
  /\ UNCHANGED <<prog, parent, ppid, rounds, learned, signalVars>>

(* Slip: prints once too often.                                            *)
PrintOnceMore ==
  /\ child = "start" /\ prog = "Orphan"
  /\ IF rounds <= Rounds THEN rounds' = rounds + 1 /\ UNCHANGED <<child, status>>
                         ELSE Dies("1") /\ UNCHANGED rounds
  /\ UNCHANGED <<prog, parent, ppid, learned, signalVars>>

(* Prints its parent and sleeps, Rounds times, then exits.                 *)
PrintParent ==
  /\ child = "start" /\ prog = "Orphan"
  /\ IF rounds < Rounds THEN rounds' = rounds + 1 /\ UNCHANGED <<child, status>>
                        ELSE Dies("1") /\ UNCHANGED rounds
  /\ UNCHANGED <<prog, parent, ppid, learned, signalVars>>

(* Installs sigusr1_handler; then the loop of pause.                       *)
InstallHandler ==
  /\ child = "start" /\ prog = "Signals" /\ child' = "loop"
  /\ UNCHANGED <<prog, parent, ppid, rounds, status, learned, signalVars>>

(* A SIGUSR1 that comes before the handler ends the child.                 *)
Usr1Kills ==
  /\ pending /\ child = "start" /\ Dies("SIGUSR1") /\ pending' = FALSE
  /\ UNCHANGED <<prog, parent, ppid, rounds, learned, handled>>

Handle ==
  /\ pending /\ child = "loop" /\ child' = "handler"
  /\ pending' = FALSE /\ handled' = handled + 1
  /\ UNCHANGED <<prog, parent, ppid, rounds, status, learned>>
HandlerReturns ==
  /\ child = "handler" /\ child' = "loop"
  /\ UNCHANGED <<prog, parent, ppid, rounds, status, learned, signalVars>>

-----------------------------------------------------------------------------
(* Outside                                                                 *)

KilledOutside ==
  \/ /\ Alive /\ parent # "fork" /\ Leaves("killed")
     /\ UNCHANGED <<prog, child, rounds, status, learned, signalVars>>
  \/ /\ ChildRuns /\ Dies("killed")
     /\ UNCHANGED <<prog, parent, ppid, rounds, learned, signalVars>>

InitReaps ==
  /\ child = "zombie" /\ ppid = "init" /\ child' = "gone"
  /\ UNCHANGED <<prog, parent, ppid, rounds, status, learned, signalVars>>

-----------------------------------------------------------------------------
ParentStep == Fork \/ Sleep120 \/ SendUsr1 \/ SendKill \/ WaitChild \/ Return
ChildSteps == \/ ExitAtOnce \/ ExecLs \/ LsEnds \/ PrintParent
              \/ InstallHandler \/ Usr1Kills \/ Handle \/ HandlerReturns
ProcNext   == ParentStep \/ ChildSteps \/ KilledOutside \/ InitReaps

ProcSpec == ProcInit /\ [][ProcNext]_procVars

-----------------------------------------------------------------------------
(* Type correctness; the child has a status once it has ended, and its     *)
(* parent is main until main ends.                                         *)
ProcTypeOK ==
  /\ prog \in Waiting \cup {"Zombie", "Signals"}
  /\ parent \in {"fork", "sleep", "send", "wait", "print", "returned", "killed"}
  /\ child \in {"none", "start", "loop", "exec", "handler", "zombie", "gone"}
  /\ status \in {"running", "0", "1", "2", "10", "SIGUSR1", "SIGKILL", "killed"}
  /\ rounds \in 0 .. (IF prog = "Signals" THEN Signals ELSE Rounds) /\ pending \in BOOLEAN
  /\ status # "running" <=> child \in {"zombie", "gone"}
  /\ ppid = IF Alive THEN "main" ELSE "init"

(* main returns after its child has ended and been reaped: none of the     *)
(* programs leaves a zombie or an orphan unless main is killed.            *)
ChildEndsFirst == parent = "returned" => child \in {"none", "gone"}

StatusIsOwn ==
  parent = "print" =>
    /\ learned = status
    /\ \/ status \in {"killed", "SIGUSR1", "SIGKILL"}
       \/ CASE prog = "Exam1" -> status = "10"
            [] prog = "Exam2" -> status \in {"0", "2", "10"}
            [] prog \in {"Orphan", "Zombie"} -> status = "1"
            [] OTHER -> FALSE

KillHitsChild == parent = "send" => child \notin {"none", "gone"}

(* What main prints is how its child ended, and that is what the code of   *)
(* the child says unless a signal ended it; and every kill of main finds   *)
(* its child, running or a zombie, as its number cannot have been given to *)
(* another process yet.                                                    *)
ChildIsOwn == StatusIsOwn /\ KillHitsChild

(* Each run of the handler stands for a signal of its own.                 *)
NotMoreThanSent == prog = "Signals" => handled + (IF pending THEN 1 ELSE 0) <= rounds

(* Once it has a child, main comes to its end, also when the child only    *)
(* waits for signals.                                                      *)
ParentReturns == Alive /\ parent # "fork" ~> ~Alive

(* A zombie is reaped, by main or, when main is gone, by init.             *)
ZombieReaped == child = "zombie" ~> child = "gone"

(* Not kept.  Exam3_CreateOrphanProcess: the child becomes an orphan.  The *)
(* parent waits for it, so it does not, unless the parent is killed.       *)
OrphanMade == prog = "Orphan" /\ child = "start" ~> ppid = "init" /\ child = "start"

(* Not kept.  5.IPC_Signal/Exam3.c: each signal is handled.  They merge,   *)
(* or come before the handler is installed and end the child.              *)
EachHandled == prog = "Signals" /\ parent = "returned" /\ status = "SIGKILL" =>
                 handled = Signals
=============================================================================
