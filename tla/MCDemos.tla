------------------------------- MODULE MCDemos -------------------------------
(***************************************************************************)
(* The shared memory programs, the socket programs and the string          *)
(* functions as TLC checks them: a behaviour is of one of them, exam says  *)
(* which, and leaves the variables of the others alone.  The reference     *)
(* writer shares no name with the other shared memory programs.            *)
(***************************************************************************)
EXTENDS SharedProduct, Datagrams, Streams, StrUtils

VARIABLE exam

(* What is not run has one initial state.                                  *)
Init ==
  /\ exam \in {"memory", "reference", "datagrams", "streams", "strings"}
  /\ ShmInit
  /\ DgInit /\ (exam = "datagrams" \/ family = "AF_INET")
  /\ StInit /\ (exam = "streams" \/ domain = "AF_INET")
  /\ \/ exam = "strings" /\ StrInit
     \/ exam # "strings" /\ StrStart("str_reverse", 0, [k \in {0} |-> NUL])

Runs(e) == exam = e /\ UNCHANGED exam

(* The steps of the four.                                                  *)
MemoryRuns(e, A) == Runs(e) /\ A /\ UNCHANGED <<dgVars, stVars, strVars>>
DatagramsRuns(A) == Runs("datagrams") /\ A /\ UNCHANGED <<shmVars, stVars, strVars>>
StreamsRuns(A)   == Runs("streams") /\ A /\ UNCHANGED <<shmVars, dgVars, strVars>>
StringsRuns(A)   == Runs("strings") /\ A /\ UNCHANGED <<shmVars, dgVars, stVars>>

Next == \/ MemoryRuns("memory", SharedNext) \/ MemoryRuns("reference", RefNext)
        \/ DatagramsRuns(DgNext) \/ StreamsRuns(StNext) \/ StringsRuns(StrNext)

vars == <<exam, shmVars, dgVars, stVars, strVars>>

Spec == Init /\ [][Next]_vars

(* A process that can go on is scheduled, and a datagram under way comes   *)
(* to its end, there or not.  Nobody need start a program or kill one.     *)
FairSpec ==
  /\ Spec
  /\ WF_vars(DatagramsRuns(Network))
  /\ \A c \in DgClient : WF_vars(DatagramsRuns(ClientStep(c)))
  /\ \A s \in DgServer : WF_vars(DatagramsRuns(ServerStep(s)))
  /\ \A c \in StClient : WF_vars(StreamsRuns(StClientStep(c)))
  /\ \A s \in StServer : WF_vars(StreamsRuns(StServerStep(s)))

-----------------------------------------------------------------------------
(* Type correctness of the four; no index leaves its string.               *)
DemosTypeOK == ShmTypeOK /\ DgTypeOK /\ StTypeOK /\ StrTypeOK

(* The socket file that an earlier program left is in nobody's way: a      *)
(* bind fails only when another process bound the file after the unlink.   *)
BindsUnlessRaced == DgBindsUnlessRaced /\ StBindsUnlessRaced

(* No client waits for ever: over datagrams unless something was lost or   *)
(* taken away, over streams whatever happens to its server.                *)
NobodyWaits == AnsweredUnlessMishap /\ NoneWaitsForever
=============================================================================
