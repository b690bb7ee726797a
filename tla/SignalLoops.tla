---------------------------- MODULE SignalLoops -----------------------------
(***************************************************************************)
(* The programs of 5.IPC_Signal that loop for ever and live by their       *)
(* signal handlers: Exam1 counts SIGINTs in a busy loop, Exam2 counts the  *)
(* seconds of an alarm around pause, Exam4 echoes its input around select. *)
(* A signal is blocked while its own handler runs; of a kind at most one   *)
(* is pending.  Input comes in pieces, a piece being what one fgets takes: *)
(* a line, or a part of a line longer than buffer.  stdio may take several *)
(* pieces from the kernel at once, which a pipe and a long line give it.   *)
(***************************************************************************)
EXTENDS Integers

CONSTANTS MaxSignals,  \* bound: SIGINTs and SIGTERMs sent
          MaxPieces    \* bound: pieces of input

ASSUME LoopAssumption == MaxSignals \in Nat /\ MaxPieces \in Nat

VARIABLES loop,          \* the program: "Exam1", "Exam2" or "Exam4"
          lpc,           \* where main is
          in,            \* the handler that runs, or "none"
          pend,          \* pending signals
          sends,         \* history: signals sent by people
          sigint_count,  \* of Exam1
          counter,       \* of Exam2
          alarmed,       \* is an alarm set?
          eof,           \* has the input ended?
          kernel, buffered, echoed   \* pieces in the kernel, in stdio, printed

inputVars == <<eof, kernel, buffered, echoed>>
countVars == <<sends, sigint_count, counter, alarmed>>
loopVars  == <<loop, lpc, in, pend, countVars, inputVars>>

LoopInit ==
  /\ loop \in {"Exam1", "Exam2", "Exam4"} /\ lpc = "install" /\ in = "none"
  /\ pend = {} /\ sends = 0 /\ sigint_count = 0 /\ counter = 0 /\ alarmed = FALSE
  /\ eof = FALSE /\ kernel = 0 /\ buffered = 0 /\ echoed = 0

Over == lpc \in {"exited", "killed"}

(* The signals whose handlers are installed.                               *)
Installed ==
  CASE lpc = "install" -> {}
    [] loop = "Exam1"  -> {"SIGINT"}
    [] loop = "Exam2"  -> {"SIGALRM"}
    [] OTHER -> IF lpc = "install2" THEN {"SIGINT"} ELSE {"SIGINT", "SIGTERM"}

-----------------------------------------------------------------------------
(* Outside: Ctrl+C and kill, the clock, the input                          *)

SendSignal(s) ==
  /\ ~Over /\ sends < MaxSignals /\ sends' = sends + 1
  /\ IF s \in Installed THEN pend' = pend \cup {s} /\ UNCHANGED lpc
                        ELSE lpc' = "killed" /\ UNCHANGED pend
  /\ UNCHANGED <<loop, in, sigint_count, counter, alarmed, inputVars>>

AlarmExpires ==
  /\ ~Over /\ alarmed /\ alarmed' = FALSE
  /\ pend' = pend \cup {"SIGALRM"}
  /\ UNCHANGED <<loop, lpc, in, sends, sigint_count, counter, inputVars>>

Input ==
  /\ loop = "Exam4" /\ ~Over /\ ~eof
  /\ \/ kernel + buffered + echoed < MaxPieces /\ kernel' = kernel + 1 /\ UNCHANGED eof
     \/ eof' = TRUE /\ UNCHANGED kernel
  /\ UNCHANGED <<loop, lpc, in, pend, countVars, buffered, echoed>>

-----------------------------------------------------------------------------
(* The handlers; main stands still while one runs                          *)

SigHandler1 ==
  /\ ~Over /\ loop = "Exam1" /\ in = "none" /\ "SIGINT" \in pend
  /\ pend' = pend \ {"SIGINT"}
  /\ sigint_count' = sigint_count + 1
  /\ in' = "SIGINT"
  /\ UNCHANGED <<loop, lpc, sends, counter, alarmed, inputVars>>

(* _exit at the third, else back to main.                                  *)
SigHandler1Ends ==
  /\ ~Over /\ loop = "Exam1" /\ in = "SIGINT" /\ in' = "none"
  /\ lpc' = IF sigint_count >= 3 THEN "exited" ELSE lpc
  /\ UNCHANGED <<loop, pend, countVars, inputVars>>

TimerHandler ==
  /\ ~Over /\ in = "none" /\ "SIGALRM" \in pend
  /\ pend' = pend \ {"SIGALRM"}
  /\ counter' = counter + 1 /\ in' = "SIGALRM"
  /\ UNCHANGED <<loop, lpc, sends, sigint_count, alarmed, inputVars>>

(* Slip: the alarm is not set again.                                       *)
TimerNotRearmed ==
  /\ ~Over /\ in = "SIGALRM"
  /\ IF counter >= 10 THEN lpc' = "exited" /\ in' = "none" /\ UNCHANGED alarmed
                      ELSE in' = "rearmed" /\ UNCHANGED <<lpc, alarmed>>
  /\ UNCHANGED <<loop, pend, sends, sigint_count, counter, inputVars>>

TimerRearm ==
  /\ ~Over /\ in = "SIGALRM"
  /\ IF counter >= 10 THEN lpc' = "exited" /\ in' = "none" /\ UNCHANGED alarmed
                      ELSE in' = "rearmed" /\ alarmed' = TRUE /\ UNCHANGED lpc
  /\ UNCHANGED <<loop, pend, sends, sigint_count, counter, inputVars>>

TimerReturns ==
  /\ ~Over /\ in = "rearmed" /\ in' = "none"
  /\ UNCHANGED <<loop, lpc, pend, countVars, inputVars>>

(* handle_sigint of Exam4; a select that waits is interrupted and main     *)
(* calls it again.                                                         *)
HandleSigint ==
  /\ ~Over /\ loop = "Exam4"
  /\ \/ in = "none" /\ "SIGINT" \in pend /\ pend' = pend \ {"SIGINT"} /\ in' = "SIGINT"
     \/ in = "SIGINT" /\ in' = "none" /\ UNCHANGED pend
  /\ UNCHANGED <<loop, lpc, countVars, inputVars>>

(* Exits, also from within handle_sigint.                                  *)
HandleSigterm ==
  /\ ~Over /\ loop = "Exam4" /\ "SIGTERM" \in pend
  /\ pend' = pend \ {"SIGTERM"} /\ lpc' = "exited" /\ in' = "none"
  /\ UNCHANGED <<loop, countVars, inputVars>>

-----------------------------------------------------------------------------
(* main                                                                    *)

MainGoes(from, to) == in = "none" /\ lpc = from /\ lpc' = to

Install ==
  /\ \/ MainGoes("install", CASE loop = "Exam1" -> "idle" [] loop = "Exam2" -> "arm"
                              [] OTHER -> "install2")
     \/ MainGoes("install2", "idle")
  /\ UNCHANGED <<loop, in, pend, countVars, inputVars>>

Arm ==
  /\ MainGoes("arm", "idle") /\ alarmed' = TRUE
  /\ UNCHANGED <<loop, in, pend, sends, sigint_count, counter, inputVars>>

(* select looks at the kernel alone, not at what stdio holds.              *)
Select ==
  /\ loop = "Exam4"
  /\ kernel > 0 \/ eof
  /\ MainGoes("idle", "fgets")
  /\ UNCHANGED <<loop, in, pend, countVars, inputVars>>

(* fgets takes a piece from stdio, which reads some from the kernel when   *)
(* it has none; at the end of the input fgets gives NULL.                  *)
Echo ==
  /\ MainGoes("fgets", "idle")
  /\ \/ /\ buffered > 0 /\ buffered' = buffered - 1
        /\ echoed' = echoed + 1 /\ UNCHANGED kernel
     \/ /\ buffered = 0 /\ echoed' = echoed + 1
        /\ \E n \in 1 .. kernel : kernel' = kernel - n /\ buffered' = buffered + n - 1
     \/ buffered = 0 /\ kernel = 0 /\ UNCHANGED <<kernel, buffered, echoed>>
  /\ UNCHANGED <<loop, in, pend, countVars, eof>>

-----------------------------------------------------------------------------
Handlers == \/ SigHandler1 \/ SigHandler1Ends \/ TimerHandler \/ TimerRearm
            \/ TimerReturns \/ HandleSigint \/ HandleSigterm
LoopMain == Install \/ Arm \/ Select \/ Echo
LoopNext == \/ Handlers \/ LoopMain \/ AlarmExpires \/ Input
            \/ \E s \in {"SIGINT", "SIGTERM"} : SendSignal(s)

LoopSpec == LoopInit /\ [][LoopNext]_loopVars

-----------------------------------------------------------------------------
(* Type correctness; only signals with a handler wait, and a handler runs  *)
(* only in a program that has installed it.                                *)
LoopTypeOK ==
  /\ loop \in {"Exam1", "Exam2", "Exam4"}
  /\ lpc \in {"install", "install2", "arm", "idle", "fgets", "exited", "killed"}
  /\ sigint_count \in 0 .. 3 /\ counter \in 0 .. 10
  /\ alarmed \in BOOLEAN /\ eof \in BOOLEAN /\ sends \in 0 .. MaxSignals
  /\ ~Over => pend \subseteq Installed
  /\ in \in {"none", "SIGINT", "SIGALRM", "rearmed"}
  /\ in = "SIGINT" /\ ~Over => "SIGINT" \in Installed

One(b) == IF b THEN 1 ELSE 0

(* Exam1 ends at the third SIGINT it handles; none is handled twice, so it *)
(* takes at least three.                                                   *)
CountsPressed ==
  loop = "Exam1" =>
    /\ sigint_count + One("SIGINT" \in pend) <= sends
    /\ lpc = "exited" => sigint_count = 3
    /\ sigint_count = 3 => lpc = "exited" \/ in = "SIGINT" \/ lpc = "killed"

(* While Exam2 runs, the next second is always under way exactly once: the *)
(* alarm is set, or its signal is pending, or the handler is about to set  *)
(* it again.                                                               *)
AlarmChain ==
  loop = "Exam2" /\ lpc = "idle" =>
    One(alarmed) + One("SIGALRM" \in pend) + One(in = "SIGALRM") = 1

(* Exam2 counts to ten and ends, unless it is ended before.                *)
TimerEnds == loop = "Exam2" /\ lpc = "idle" ~> Over

(* A SIGTERM ends Exam4 wherever it is.                                    *)
TermEnds == "SIGTERM" \in pend ~> Over

(* Not kept: what is typed is printed.  Pieces that stdio has taken wait   *)
(* there while select waits for the kernel to have more.                   *)
TypedIsEchoed == kernel + buffered > 0 ~> (kernel + buffered = 0 \/ Over)

(* Not kept: three SIGINTs end Exam1.  Those that come while the handler   *)
(* runs, or while one is pending, merge.                                   *)
ThreeEnd == loop = "Exam1" /\ lpc = "idle" /\ sends >= 3 ~> Over

(* Not kept: Exam4 ends with its input.  It spins between select, which    *)
(* reports the end of file as input, and fgets, which gives NULL.          *)
EndsWithInput == eof ~> Over
=============================================================================
