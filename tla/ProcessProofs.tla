---------------------------- MODULE ProcessProofs ----------------------------
(***************************************************************************)
(* Proofs about the programs that make processes: who keeps which end of   *)
(* the pipe of 9.Pipe, for any number of lines and any pipe, and what the  *)
(* parents of 3.Linux_Process and 5.IPC_Signal learn of their child, for   *)
(* any number of rounds and signals; and how often the programs of         *)
(* 5.IPC_Signal handle what was sent.                                      *)
(***************************************************************************)
EXTENDS MCProcesses, TLAPS

PlaceOf == {"unborn", "pipe", "ls", "wc", "close", "wait_ls", "wait_wc", "redirect", "exec",
            "run", "exited", "done", "failed"}
End == {"tty", "r", "w", "closed"}

(* Neither main nor wc ever has an end of the pipe as its output, so that  *)
(* closing the two descriptors of the pipe is enough.                      *)
PipeInv ==
  /\ place \in [Proc -> PlaceOf] /\ fd \in [Proc -> [Fd -> End]]
  /\ \A f \in {"stdin", "stdout"} : fd["main"][f] \in {"tty", "closed"}
  /\ fd["wc"]["stdout"] \in {"tty", "closed"}
  /\ place["main"] \in {"wait_ls", "wait_wc", "done"} =>
       \A f \in {"pipefd0", "pipefd1"} : fd["main"][f] = "closed"
  /\ place["main"] \in {"wait_wc", "done"} => place["ls"] = "exited"
  /\ place["main"] = "done" => place["wc"] = "exited"

-----------------------------------------------------------------------------
LEMMA PipeStarts == PipeInit => PipeInv
BY DEF PipeInit, PipeInv, Proc, Command, Fd, Tty, AllClosed, PlaceOf, End

LEMMA MainKeepsPipe ==
  ASSUME PipeInv, PipeMain
  PROVE  PipeInv'
<1> USE DEF PipeInv, Proc, Command, Fd, PlaceOf, End, Goes, Exits, AllClosed
<1>1. CASE MakePipe
  BY <1>1 DEF MakePipe
<1>2. CASE CreateProcess("ls", "wc")
  BY <1>2 DEF CreateProcess
<1>3. CASE CreateProcess("wc", "close")
  BY <1>3 DEF CreateProcess
<1>4. CASE CloseEnds
  BY <1>4 DEF CloseEnds
<1>5. CASE WaitFor("ls", "wait_ls", "wait_wc") \/ WaitFor("wc", "wait_wc", "done")
  BY <1>5 DEF WaitFor
<1> QED BY <1>1, <1>2, <1>3, <1>4, <1>5 DEF PipeMain

LEMMA CommandKeepsPipe ==
  ASSUME PipeInv, NEW c \in Command, CommandStep(c)
  PROVE  PipeInv'
<1> USE DEF PipeInv, Proc, Command, Fd, PlaceOf, End, Goes, Exits, AllClosed
<1>1. CASE Redirect(c)
  <2>1. CASE c = "wc"
    BY <1>1, <2>1 DEF Redirect, Moved, InputFd, OutputFd, None
  <2>2. CASE c = "ls"
    BY <1>1, <2>2 DEF Redirect, Moved, InputFd, OutputFd, None
  <2> QED BY <2>1, <2>2
<1>2. CASE ExecCommand(c)
  BY <1>2 DEF ExecCommand
<1>3. CASE c = "ls" /\ Ls
  BY <1>3 DEF Ls
<1>4. CASE c = "wc" /\ Wc
  BY <1>4 DEF Wc
<1> QED BY <1>1, <1>2, <1>3, <1>4 DEF CommandStep

(* What each process has of the pipe, from the call of pipe to the command.*)
PipeEnds ==
  /\ place["main"] \in {"ls", "wc", "close"} =>
       fd["main"]["pipefd0"] = "r" /\ fd["main"]["pipefd1"] = "w"
  /\ place["ls"] = "redirect" => fd["ls"]["pipefd1"] = "w"
  /\ place["ls"] \in {"exec", "run"} => fd["ls"]["stdout"] = "w"
  /\ place["wc"] = "redirect" => fd["wc"]["pipefd0"] = "r"
  /\ place["wc"] \in {"exec", "run"} => fd["wc"]["stdin"] = "r"

PipeCounts == written \in 0 .. Lines /\ piped \in 0 .. Cap /\ counted = written - piped

LEMMA EndsKept ==
  ASSUME PipeInv, PipeEnds, PipeNext
  PROVE  PipeEnds'
<1> USE DEF PipeInv, PipeEnds, Proc, Command, Fd, Goes, Exits, AllClosed
<1>1. CASE MakePipe
  BY <1>1 DEF MakePipe
<1>2. CASE CreateProcess("ls", "wc")
  BY <1>2 DEF CreateProcess
<1>3. CASE CreateProcess("wc", "close")
  BY <1>3 DEF CreateProcess
<1>4. CASE CloseEnds
  BY <1>4 DEF CloseEnds
<1>5. CASE WaitFor("ls", "wait_ls", "wait_wc") \/ WaitFor("wc", "wait_wc", "done")
  BY <1>5 DEF WaitFor
<1>6. CASE Redirect("wc")
  BY <1>6 DEF Redirect, Moved, InputFd, OutputFd, None
<1>7. CASE Redirect("ls")
  BY <1>7 DEF Redirect, Moved, InputFd, OutputFd, None
<1>8. CASE ExecCommand("ls") \/ ExecCommand("wc")
  BY <1>8 DEF ExecCommand
<1>9. CASE Ls
  BY <1>9 DEF Ls
<1>10. CASE Wc
  BY <1>10 DEF Wc
<1> QED
  BY <1>1, <1>2, <1>3, <1>4, <1>5, <1>6, <1>7, <1>8, <1>9, <1>10
     DEF PipeNext, PipeMain, CommandStep

LEMMA CountsKept ==
  ASSUME PipeCounts, PipeNext
  PROVE  PipeCounts'
<1>1. CASE Ls
  <2>1. \/ UNCHANGED <<written, piped, counted>>
        \/ /\ written < Lines /\ piped < Cap
           /\ written' = written + 1 /\ piped' = piped + 1 /\ UNCHANGED counted
    BY <1>1 DEF Ls
  <2> QED BY <2>1, PipeAssumption DEF PipeCounts
<1>2. CASE Wc
  <2>1. \/ UNCHANGED <<written, piped, counted>>
        \/ piped > 0 /\ piped' = piped - 1 /\ counted' = counted + 1 /\ UNCHANGED written
    BY <1>2 DEF Wc
  <2> QED BY <2>1, PipeAssumption DEF PipeCounts
<1>3. CASE ~Ls /\ ~Wc
  <2>1. UNCHANGED <<written, piped, counted>>
    BY <1>3 DEF PipeNext, PipeMain, MakePipe, CreateProcess, CloseEnds, WaitFor, CommandStep,
       Redirect, ExecCommand
  <2> QED BY <2>1 DEF PipeCounts
<1> QED BY <1>1, <1>2, <1>3

LEMMA PipeHolds == PipeSpec => [](PipeInv /\ PipeEnds /\ PipeCounts)
<1>1. PipeInit => PipeEnds /\ PipeCounts
  BY PipeAssumption DEF PipeInit, PipeEnds, PipeCounts, Proc, Command
<1>2. PipeInv /\ PipeEnds /\ PipeCounts /\ [PipeNext]_pipeVars
        => (PipeInv /\ PipeEnds /\ PipeCounts)'
  <2>1. CASE PipeNext
    BY <2>1, MainKeepsPipe, CommandKeepsPipe, EndsKept, CountsKept DEF PipeNext
  <2>2. CASE UNCHANGED pipeVars
    BY <2>2 DEF PipeInv, PipeEnds, PipeCounts, pipeVars
  <2> QED BY <2>1, <2>2
<1> QED BY PipeStarts, <1>1, <1>2, PTL DEF PipeSpec

(* Once main waits, it has no end of the pipe and wc none to write to, and *)
(* it does not return before both commands have ended; however much ls     *)
(* writes, and whichever call fails.                                       *)
THEOREM CommandsKeepTheEnds == PipeSpec => [](EndsWithCommands /\ ReapsBoth)
<1>1. PipeInv => EndsWithCommands /\ ReapsBoth
  BY DEF PipeInv, EndsWithCommands, ReapsBoth, Fd, Command
<1> QED BY PipeHolds, <1>1, PTL

-----------------------------------------------------------------------------
(* How a child of this program may end.                                    *)
OwnStatus ==
  \/ status \in {"killed", "SIGUSR1", "SIGKILL"}
  \/ prog = "Exam1" /\ status = "10"
  \/ prog = "Exam2" /\ status \in {"0", "2", "10"}
  \/ prog \in {"Orphan", "Zombie"} /\ status = "1"

(* Main has a child from fork to wait, and only main takes its zombie, as  *)
(* init is the child's parent only once main has gone.                     *)
ProcInv ==
  /\ prog \in {"Exam1", "Exam2", "Orphan", "Zombie", "Signals"}
  /\ Alive => ppid = "main"
  /\ parent = "fork" => child = "none"
  /\ parent \in {"sleep", "send", "wait"} => child \notin {"none", "gone"}
  /\ parent = "print" => child = "gone" /\ learned = status
  /\ parent = "returned" => child \in {"none", "gone"}
  /\ parent \in {"fork", "sleep", "send", "wait", "print", "returned", "killed"}
  /\ child \in {"none", "start", "loop", "exec", "handler", "zombie", "gone"}
  /\ child = "exec" => prog = "Exam2"
  /\ child \in {"zombie", "gone"} => OwnStatus

LEMMA ProcStarts == ProcInit => ProcInv
BY DEF ProcInit, ProcInv, Waiting, Alive

LEMMA ParentKeeps ==
  ASSUME ProcInv, ParentStep
  PROVE  ProcInv'
<1> USE DEF ProcInv, OwnStatus, Alive, Leaves, Dies, Waiting
<1>1. CASE Fork
  BY <1>1 DEF Fork
<1>2. CASE Sleep120 \/ SendUsr1
  BY <1>2 DEF Sleep120, SendUsr1
<1>3. CASE SendKill
  BY <1>3 DEF SendKill, ChildRuns
<1>4. CASE WaitChild \/ Return
  BY <1>4 DEF WaitChild, Return
<1> QED BY <1>1, <1>2, <1>3, <1>4 DEF ParentStep

LEMMA ChildKeeps ==
  ASSUME ProcInv, ChildSteps \/ KilledOutside \/ InitReaps
  PROVE  ProcInv'
<1> USE DEF ProcInv, OwnStatus, Alive, Leaves, Dies
<1>1. CASE ExitAtOnce \/ ExecLs \/ LsEnds
  BY <1>1 DEF ExitAtOnce, ExecLs, LsEnds
<1>2. CASE PrintParent
  BY <1>2 DEF PrintParent
<1>3. CASE InstallHandler \/ Usr1Kills \/ Handle \/ HandlerReturns
  BY <1>3 DEF InstallHandler, Usr1Kills, Handle, HandlerReturns
<1>4. CASE KilledOutside
  BY <1>4 DEF KilledOutside, ChildRuns
<1>5. CASE InitReaps
  BY <1>5 DEF InitReaps
<1> QED BY <1>1, <1>2, <1>3, <1>4, <1>5 DEF ChildSteps

(* The rest of the types, and how often the handler of Exam3 has run.      *)
ProcCounts ==
  /\ rounds \in 0 .. (IF prog = "Signals" THEN Signals ELSE Rounds)
  /\ pending \in BOOLEAN /\ handled \in Nat
  /\ parent = "send" => prog = "Signals"
  /\ NotMoreThanSent
Ends ==
  /\ status \in {"running", "0", "1", "2", "10", "SIGUSR1", "SIGKILL", "killed"}
  /\ status # "running" <=> child \in {"zombie", "gone"}
  /\ ppid = IF Alive THEN "main" ELSE "init"

LEMMA PlusZero == \A n \in Nat : n + 0 = n
OBVIOUS

LEMMA ProcCountsKept ==
  ASSUME ProcInv, ProcCounts, ProcNext
  PROVE  ProcCounts'
<1>1. prog' = prog
  BY DEF ProcNext, ParentStep, ChildSteps, Fork, Sleep120, SendUsr1, SendKill, WaitChild, Return,
     ExitAtOnce, ExecLs, LsEnds, PrintParent, InstallHandler, Usr1Kills, Handle, HandlerReturns,
     KilledOutside, InitReaps
<1>2. parent' = "send" => prog' = "Signals"
  <2>1. CASE Fork
    BY <1>1, <2>1 DEF Fork, ProcInv, Waiting, Leaves
  <2>2. CASE ~Fork
    <3>1. parent' = parent \/ parent' \in {"wait", "print", "returned", "killed"}
      BY <2>2 DEF ProcNext, ParentStep, ChildSteps, Sleep120, SendUsr1, SendKill, WaitChild,
         Return, ExitAtOnce, ExecLs, LsEnds, PrintParent, InstallHandler, Usr1Kills, Handle,
         HandlerReturns, KilledOutside, InitReaps, Leaves
    <3> QED BY <1>1, <3>1 DEF ProcCounts
  <2> QED BY <2>1, <2>2
<1>3. CASE SendUsr1
  <2>1. /\ prog = "Signals" /\ rounds < Signals /\ rounds' = rounds + 1 /\ handled' = handled
        /\ pending' \in BOOLEAN
    BY <1>3 DEF SendUsr1, ProcCounts, ChildRuns
  <2> QED BY <1>1, <1>2, <2>1, ProcAssumption DEF ProcCounts, NotMoreThanSent
<1>4. CASE PrintParent
  <2>1. /\ prog = "Orphan" /\ UNCHANGED <<pending, handled>>
        /\ rounds' = rounds \/ (rounds < Rounds /\ rounds' = rounds + 1)
    BY <1>4 DEF PrintParent, signalVars
  <2> QED BY <1>1, <1>2, <2>1, ProcAssumption DEF ProcCounts, NotMoreThanSent
<1>5. CASE Usr1Kills \/ Handle
  <2>1. /\ pending /\ pending' = FALSE /\ rounds' = rounds
        /\ handled' = handled \/ handled' = handled + 1
    BY <1>5 DEF Usr1Kills, Handle
  <2>2. rounds \in Nat /\ handled \in Nat /\ handled' \in Nat
    BY <2>1, ProcAssumption DEF ProcCounts
  <2>3. prog = "Signals" => handled' <= rounds'
    BY <2>1, <2>2 DEF ProcCounts, NotMoreThanSent
  <2>4. NotMoreThanSent'
    <3>1. (IF pending' THEN 1 ELSE 0) = 0
      BY <2>1, Zenon
    <3>2. handled' + 0 = handled'
      BY <2>2, PlusZero, Zenon
    <3> QED BY <1>1, <2>1, <2>3, <3>1, <3>2, Zenon DEF NotMoreThanSent
  <2> QED BY <1>1, <1>2, <2>1, <2>2, <2>4 DEF ProcCounts
<1>6. CASE ~SendUsr1 /\ ~PrintParent /\ ~Usr1Kills /\ ~Handle
  <2>1. UNCHANGED <<rounds, pending, handled>>
    BY <1>6 DEF ProcNext, ParentStep, ChildSteps, Fork, Sleep120, SendKill, WaitChild, Return,
       ExitAtOnce, ExecLs, LsEnds, InstallHandler, HandlerReturns, KilledOutside, InitReaps,
       signalVars
  <2> QED BY <1>1, <1>2, <2>1 DEF ProcCounts, NotMoreThanSent
<1> QED BY <1>3, <1>4, <1>5, <1>6

LEMMA EndsKeptToo ==
  ASSUME ProcInv, Ends, ProcNext
  PROVE  Ends'
<1> USE DEF ProcInv, Ends, Alive, Leaves, Dies, ChildRuns
<1>1. CASE Fork
  BY <1>1 DEF Fork, Waiting
<1>2. CASE Sleep120 \/ SendUsr1
  BY <1>2 DEF Sleep120, SendUsr1
<1>3. CASE SendKill
  BY <1>3 DEF SendKill
<1>4. CASE WaitChild \/ Return
  BY <1>4 DEF WaitChild, Return
<1>5. CASE ExitAtOnce \/ ExecLs \/ LsEnds
  BY <1>5 DEF ExitAtOnce, ExecLs, LsEnds
<1>6. CASE PrintParent
  BY <1>6 DEF PrintParent
<1>7. CASE InstallHandler \/ Usr1Kills \/ Handle \/ HandlerReturns
  BY <1>7 DEF InstallHandler, Usr1Kills, Handle, HandlerReturns
<1>8. CASE KilledOutside
  BY <1>8 DEF KilledOutside
<1>9. CASE InitReaps
  BY <1>9 DEF InitReaps
<1> QED
  BY <1>1, <1>2, <1>3, <1>4, <1>5, <1>6, <1>7, <1>8, <1>9 DEF ProcNext, ParentStep, ChildSteps

LEMMA ProcHolds == ProcSpec => [](ProcInv /\ ProcCounts /\ Ends)
<1>1. ProcInit => ProcCounts /\ Ends
  <2>1. ProcInit => ProcCounts
    <3>1. ProcInit => rounds = 0 /\ handled = 0 /\ pending = FALSE /\ parent # "send"
      BY DEF ProcInit
    <3>2. ProcInit => NotMoreThanSent
      BY <3>1 DEF NotMoreThanSent
    <3>3. ProcInit => pending \in BOOLEAN /\ parent # "send"
      BY DEF ProcInit
    <3>4. ProcInit => handled \in Nat /\ rounds \in 0 .. (IF prog = "Signals" THEN Signals ELSE Rounds)
      <4>1. 0 \in 0 .. (IF prog = "Signals" THEN Signals ELSE Rounds)
        BY ProcAssumption
      <4> QED BY <3>1, <4>1
    <3> QED BY <3>2, <3>3, <3>4 DEF ProcCounts
  <2>2. ProcInit => Ends
    BY DEF ProcInit, Ends, Alive
  <2> QED BY <2>1, <2>2
<1>2. ProcInv /\ ProcCounts /\ Ends /\ [ProcNext]_procVars => (ProcInv /\ ProcCounts /\ Ends)'
  <2>1. CASE ProcNext
    BY <2>1, ParentKeeps, ChildKeeps, ProcCountsKept, EndsKeptToo DEF ProcNext
  <2>2. CASE UNCHANGED procVars
    BY <2>2 DEF ProcInv, OwnStatus, Alive, ProcCounts, NotMoreThanSent, Ends, procVars
  <2> QED BY <2>1, <2>2
<1> QED BY ProcStarts, <1>1, <1>2, PTL DEF ProcSpec

(* Main prints how its own child ended, kills only its own child, and does *)
(* not return before the child is reaped, for any number of rounds and     *)
(* signals and whatever is killed from outside.                            *)
THEOREM ParentsKnowTheirChild == ProcSpec => [](ChildIsOwn /\ ChildEndsFirst)
<1>1. ProcInv => ChildIsOwn /\ ChildEndsFirst
  BY DEF ProcInv, OwnStatus, ChildIsOwn, StatusIsOwn, KillHitsChild, ChildEndsFirst
<1> QED BY ProcHolds, <1>1, PTL

-----------------------------------------------------------------------------
(* Which program can be where, and that an alarm is only of Exam2, which   *)
(* has none before it is armed and is in the handler when it has counted   *)
(* to ten.                                                                 *)
LoopPlaces ==
  /\ lpc \in {"install2", "fgets"} => loop = "Exam4"
  /\ lpc = "arm" => loop = "Exam2"
  /\ alarmed \/ in \in {"SIGALRM", "rearmed"} \/ "SIGALRM" \in pend => loop = "Exam2"
  /\ loop = "Exam2" /\ lpc \in {"install", "arm"} =>
       ~alarmed /\ "SIGALRM" \notin pend /\ in = "none"
  /\ counter = 10 => Over \/ in = "SIGALRM"

LoopInv == LoopTypeOK /\ LoopPlaces /\ CountsPressed /\ AlarmChain

LEMMA LoopStarts == LoopInit => LoopInv
<1>1. LoopInit => LoopTypeOK
  <2>1. LoopInit => sends \in 0 .. MaxSignals /\ sigint_count \in 0 .. 3 /\ counter \in 0 .. 10
    BY LoopAssumption DEF LoopInit
  <2>2. LoopInit => pend \subseteq Installed /\ in = "none"
    BY DEF LoopInit
  <2>3. LoopInit => /\ loop \in {"Exam1", "Exam2", "Exam4"} /\ lpc = "install"
                    /\ alarmed \in BOOLEAN /\ eof \in BOOLEAN
    BY DEF LoopInit
  <2> QED BY <2>1, <2>2, <2>3 DEF LoopTypeOK
<1>2. LoopInit => LoopPlaces
  BY DEF LoopInit, LoopPlaces, Over
<1>3. LoopInit => CountsPressed /\ AlarmChain
  BY DEF LoopInit, CountsPressed, AlarmChain, One
<1> QED BY <1>1, <1>2, <1>3 DEF LoopInv

LEMMA SendSignalKeeps ==
  ASSUME LoopInv, NEW s \in {"SIGINT", "SIGTERM"}, SendSignal(s)
  PROVE  LoopInv'
<1> USE LoopAssumption DEF LoopInv, LoopTypeOK, LoopPlaces, CountsPressed, AlarmChain, One, Over,
    Installed, SendSignal, inputVars
<1>1. LoopTypeOK'
  OBVIOUS
<1>2. LoopPlaces'
  OBVIOUS
<1>3. CountsPressed'
  OBVIOUS
<1>4. AlarmChain'
  OBVIOUS
<1> QED BY <1>1, <1>2, <1>3, <1>4

LEMMA AlarmExpiresKeeps ==
  ASSUME LoopInv, AlarmExpires
  PROVE  LoopInv'
<1> USE LoopAssumption DEF LoopInv, LoopTypeOK, LoopPlaces, CountsPressed, AlarmChain, One, Over,
    Installed, AlarmExpires, inputVars
<1>1. LoopTypeOK'
  OBVIOUS
<1>2. LoopPlaces'
  OBVIOUS
<1>3. CountsPressed'
  OBVIOUS
<1>4. AlarmChain'
  OBVIOUS
<1> QED BY <1>1, <1>2, <1>3, <1>4

LEMMA InputKeeps ==
  ASSUME LoopInv, Input
  PROVE  LoopInv'
BY DEF LoopInv, LoopTypeOK, LoopPlaces, CountsPressed, AlarmChain, One, Over, Installed, Input,
   countVars

LEMMA HandlersKeep ==
  ASSUME LoopInv, Handlers
  PROVE  LoopInv'
<1> USE LoopAssumption DEF LoopInv, LoopTypeOK, LoopPlaces, CountsPressed, AlarmChain, One, Over,
    Installed, countVars, inputVars
<1>1. CASE SigHandler1
  BY <1>1 DEF SigHandler1
<1>2. CASE SigHandler1Ends
  BY <1>2 DEF SigHandler1Ends
<1>3. CASE TimerHandler
  BY <1>3 DEF TimerHandler
<1>4. CASE TimerRearm
  <2>1. LoopTypeOK'
    BY <1>4 DEF TimerRearm
  <2>2. LoopPlaces'
    BY <1>4 DEF TimerRearm
  <2>3. CountsPressed'
    BY <1>4 DEF TimerRearm
  <2>4. AlarmChain'
    BY <1>4 DEF TimerRearm
  <2> QED BY <2>1, <2>2, <2>3, <2>4
<1>5. CASE TimerReturns
  BY <1>5 DEF TimerReturns
<1>6. CASE HandleSigint
  BY <1>6 DEF HandleSigint
<1>7. CASE HandleSigterm
  BY <1>7 DEF HandleSigterm
<1> QED BY <1>1, <1>2, <1>3, <1>4, <1>5, <1>6, <1>7 DEF Handlers

LEMMA LoopMainKeeps ==
  ASSUME LoopInv, LoopMain
  PROVE  LoopInv'
<1> USE LoopAssumption DEF LoopInv, LoopTypeOK, LoopPlaces, CountsPressed, AlarmChain, One, Over,
    Installed, countVars, inputVars, MainGoes
<1>1. CASE Install
  BY <1>1 DEF Install
<1>2. CASE Arm
  BY <1>2 DEF Arm
<1>3. CASE Select
  BY <1>3 DEF Select
<1>4. CASE Echo
  BY <1>4 DEF Echo
<1> QED BY <1>1, <1>2, <1>3, <1>4 DEF LoopMain

LEMMA LoopHolds == LoopSpec => []LoopInv
<1>1. LoopInv /\ [LoopNext]_loopVars => LoopInv'
  <2>1. LoopInv /\ UNCHANGED loopVars => LoopInv'
    BY DEF LoopInv, LoopTypeOK, LoopPlaces, CountsPressed, AlarmChain, One, Over, Installed,
       loopVars, countVars, inputVars
  <2> QED
    BY <2>1, SendSignalKeeps, AlarmExpiresKeeps, InputKeeps, HandlersKeep, LoopMainKeeps
       DEF LoopNext
<1> QED BY LoopStarts, <1>1, PTL DEF LoopSpec

-----------------------------------------------------------------------------
(* Each step of the programs is of one of the three.                       *)
LEMMA ProcessesAreThree == Spec => PipeSpec /\ ProcSpec /\ LoopSpec
<1>1. Init => PipeInit /\ ProcInit /\ LoopInit
  BY DEF Init
<1>2. [Next]_vars => [PipeNext]_pipeVars /\ [ProcNext]_procVars /\ [LoopNext]_loopVars
  BY DEF Next, vars, PipeRuns, FamilyRuns, LoopRuns
<1> QED BY <1>1, <1>2, PTL DEF Spec, PipeSpec, ProcSpec, LoopSpec

(* What the pipe holds and what wc has counted is what ls has written;     *)
(* which end each process has; and the types of the other programs.        *)
THEOREM ProcessesAreTyped == Spec => []ProcessesTypeOK
<1>1. PipeInv /\ PipeEnds /\ PipeCounts => PipeTypeOK
  BY DEF PipeInv, PipeEnds, PipeCounts, PipeTypeOK, PlaceOf, End
<1>2. ProcInv /\ ProcCounts /\ Ends => ProcTypeOK
  BY DEF ProcInv, ProcCounts, Ends, ProcTypeOK, Waiting
<1>3. LoopInv => LoopTypeOK
  BY DEF LoopInv
<1> QED
  BY ProcessesAreThree, PipeHolds, ProcHolds, LoopHolds, <1>1, <1>2, <1>3, PTL
     DEF ProcessesTypeOK

(* No main that waits, of the pipe or of a program with a child, returns   *)
(* before its children have ended and are reaped.                          *)
THEOREM NobodyIsLeft == Spec => []NoneLeftBehind
BY ProcessesAreThree, CommandsKeepTheEnds, ParentsKnowTheirChild, PTL DEF NoneLeftBehind

(* The handlers run at most as often as signals came, Exam1 ends at the    *)
(* third, and of the next second of the timer there is always just one.    *)
THEOREM SignalsCountOnce == Spec => []SignalsOnce
<1>1. ProcCounts => NotMoreThanSent
  BY DEF ProcCounts
<1>2. LoopInv => CountsPressed /\ AlarmChain
  BY DEF LoopInv
<1> QED
  BY ProcessesAreThree, ProcHolds, LoopHolds, <1>1, <1>2, PTL DEF SignalsOnce
=============================================================================
