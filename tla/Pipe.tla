-------------------------------- MODULE Pipe --------------------------------
(***************************************************************************)
(* "ls -l | wc -l" as 9.Pipe builds it: main makes a pipe, forks a child   *)
(* for each command, closes its own ends and waits for the children in     *)
(* turn.  What matters is which descriptor of which process stands for     *)
(* which end of the pipe, so every process has its descriptor table; what  *)
(* ls writes is counted in lines.                                          *)
(***************************************************************************)
EXTENDS Integers

CONSTANTS Lines,   \* what ls writes
          Cap      \* lines that fit into the pipe

ASSUME PipeAssumption == Lines \in Nat \ {0} /\ Cap \in Nat \ {0}

Command == {"ls", "wc"}
Proc  == Command \cup {"main"}
Fd    == {"stdin", "stdout", "pipefd0", "pipefd1"}
None  == "-1"

VARIABLES place,    \* process -> where it is
          fd,       \* process -> descriptor -> "tty", "r" or "w" (an end of
                    \* the pipe) or "closed"
          written,  \* lines that ls has written
          piped,    \* lines in the pipe
          counted   \* lines that wc has read

pipeVars == <<place, fd, written, piped, counted>>

AllClosed == [f \in Fd |-> "closed"]
Tty    == [f \in Fd |-> IF f \in {"stdin", "stdout"} THEN "tty" ELSE "closed"]

PipeInit ==
  /\ place = [p \in Proc |-> IF p = "main" THEN "pipe" ELSE "unborn"]
  /\ fd = [p \in Proc |-> IF p = "main" THEN Tty ELSE AllClosed]
  /\ written = 0 /\ piped = 0 /\ counted = 0

Goes(p, from, to) == place[p] = from /\ place' = [place EXCEPT ![p] = to]
Exits(p, from, to) == Goes(p, from, to) /\ fd' = [fd EXCEPT ![p] = AllClosed]
HasOpen(end) == \E p \in Proc, f \in Fd : fd[p][f] = end

-----------------------------------------------------------------------------
(* main                                                                    *)

MakePipe ==
  /\ \/ /\ Goes("main", "pipe", "ls")
        /\ fd' = [fd EXCEPT !["main"]["pipefd0"] = "r", !["main"]["pipefd1"] = "w"]
     \/ Exits("main", "pipe", "failed")
  /\ UNCHANGED <<written, piped, counted>>

(* The parent's side of create_process: the child gets all descriptors.    *)
CreateProcess(c, next) ==
  /\ \/ /\ place["main"] = c
        /\ place' = [place EXCEPT !["main"] = next, ![c] = "redirect"]
        /\ fd' = [fd EXCEPT ![c] = fd["main"]]
     \/ Exits("main", c, "failed")
  /\ UNCHANGED <<written, piped, counted>>

(* Slip: the write end stays open.                                         *)
CloseReadEndOnly ==
  /\ Goes("main", "close", "wait_ls")
  /\ fd' = [fd EXCEPT !["main"]["pipefd0"] = "closed"]
  /\ UNCHANGED <<written, piped, counted>>

CloseEnds ==
  /\ Goes("main", "close", "wait_ls")
  /\ fd' = [fd EXCEPT !["main"]["pipefd0"] = "closed", !["main"]["pipefd1"] = "closed"]
  /\ UNCHANGED <<written, piped, counted>>

WaitFor(c, here, next) ==
  /\ place[c] = "exited"
  /\ Goes("main", here, next) /\ UNCHANGED <<fd, written, piped, counted>>

-----------------------------------------------------------------------------
(* The children                                                            *)

InputFd(c)  == IF c = "wc" THEN "pipefd0" ELSE None
OutputFd(c) == IF c = "ls" THEN "pipefd1" ELSE None

(* dup2(from, to); close(from), unless from is -1.                         *)
Moved(t, from, to) ==
  IF from = None THEN t ELSE [t EXCEPT ![to] = t[from], ![from] = "closed"]

(* The child's side of create_process: only the descriptors it was given   *)
(* are moved; the other end of the pipe stays open in the child.           *)
Redirect(c) ==
  /\ Goes(c, "redirect", "exec")
  /\ fd' = [fd EXCEPT ![c] = Moved(Moved(@, InputFd(c), "stdin"), OutputFd(c), "stdout")]
  /\ UNCHANGED <<written, piped, counted>>

ExecCommand(c) ==
  /\ \/ Goes(c, "exec", "run") /\ UNCHANGED fd
     \/ Exits(c, "exec", "exited")
  /\ UNCHANGED <<written, piped, counted>>

(* ls blocks when the pipe is full, dies of SIGPIPE when nobody has the    *)
(* read end, and exits when all is written.                                *)
Ls ==
  \/ /\ place["ls"] = "run" /\ written < Lines /\ fd["ls"]["stdout"] = "w"
     /\ HasOpen("r") /\ piped < Cap
     /\ written' = written + 1 /\ piped' = piped + 1
     /\ UNCHANGED <<place, fd, counted>>
  \/ /\ written = Lines \/ ~HasOpen("r")
     /\ Exits("ls", "run", "exited")
     /\ UNCHANGED <<written, piped, counted>>

(* wc reads until end of file: an empty pipe whose write end nobody has.   *)
Wc ==
  /\ place["wc"] = "run" /\ fd["wc"]["stdin"] = "r"
  /\ piped > 0 \/ ~HasOpen("w")
  /\ IF piped > 0
       THEN piped' = piped - 1 /\ counted' = counted + 1 /\ UNCHANGED <<place, fd>>
       ELSE Exits("wc", "run", "exited") /\ UNCHANGED <<piped, counted>>
  /\ UNCHANGED written

-----------------------------------------------------------------------------
PipeMain == \/ MakePipe
        \/ CreateProcess("ls", "wc") \/ CreateProcess("wc", "close")
        \/ CloseEnds
        \/ WaitFor("ls", "wait_ls", "wait_wc") \/ WaitFor("wc", "wait_wc", "done")
CommandStep(c) == Redirect(c) \/ ExecCommand(c) \/ IF c = "ls" THEN Ls ELSE Wc

PipeNext == PipeMain \/ \E c \in Command : CommandStep(c)

PipeSpec == PipeInit /\ [][PipeNext]_pipeVars

-----------------------------------------------------------------------------
(* Type correctness; the pipe holds at most Cap lines and loses none; a    *)
(* command that runs has its end of the pipe in place.                     *)
PipeTypeOK ==
  /\ place \in [Proc -> {"unborn", "pipe", "ls", "wc", "close", "wait_ls", "wait_wc",
                      "redirect", "exec", "run", "exited", "done", "failed"}]
  /\ fd \in [Proc -> [Fd -> {"tty", "r", "w", "closed"}]]
  /\ written \in 0 .. Lines /\ piped \in 0 .. Cap /\ counted = written - piped
  /\ place["ls"] = "run" => fd["ls"]["stdout"] = "w"
  /\ place["wc"] = "run" => fd["wc"]["stdin"] = "r"

(* main does not end before both children it waits for have ended.         *)
ReapsBoth == place["main"] = "done" => \A c \in Command : place[c] = "exited"

(* No process but the two commands keeps an end of the pipe open while the *)
(* commands are waited for, and only ls writes to the pipe.                *)
EndsWithCommands ==
  place["main"] \in {"wait_ls", "wait_wc", "done"} =>
    /\ \A f \in Fd : fd["main"][f] \notin {"r", "w"}
    /\ fd["wc"]["stdout"] # "w"

(* Once both commands run, every line that ls writes reaches wc, however   *)
(* small the pipe is.                                                      *)
AllCounted == place["ls"] = "run" /\ place["wc"] = "run" ~> counted = Lines

(* main.c: "Doi tien trinh con ket thuc", wait for the children to end:    *)
(* when main waits, the children end and main goes on.                     *)
WaitEnds == place["main"] = "wait_ls" ~> place["main"] = "done"
=============================================================================
