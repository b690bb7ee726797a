----------------------------- MODULE MCThreads ------------------------------
(***************************************************************************)
(* The programs of 4.Linux_Thread as TLC checks them: a behaviour runs one *)
(* of them, exam says which, and leaves the variables of the others alone. *)
(***************************************************************************)
EXTENDS CondHandoff, Counter, RWLock

VARIABLE exam

Init == /\ exam \in {"counter", "handoff", "rwlock"}
        /\ CounterInit /\ CondInit /\ RWInit

Runs(e) == exam = e /\ UNCHANGED exam

(* The steps of the three programs.                                        *)
CounterRuns(A) == Runs("counter") /\ A /\ UNCHANGED <<condVars, rwVars>>
HandoffRuns(A) == Runs("handoff") /\ A /\ UNCHANGED <<counterVars, rwVars>>
RWLockRuns(A)  == Runs("rwlock") /\ A /\ UNCHANGED <<counterVars, condVars>>

Next == CounterRuns(CounterNext) \/ HandoffRuns(CondNext) \/ RWLockRuns(RWNext)

vars == <<exam, counterVars, condVars, rwVars>>
Spec == Init /\ [][Next]_vars

(* Each thread that can go on is scheduled; one that waits for a mutex     *)
(* gets it in the end.  Spurious wakeups need not come.                    *)
FairSpec ==
  /\ Spec
  /\ WF_vars(CounterRuns(CounterMain))
  /\ \A t \in Thread : WF_vars(CounterRuns(PrintId(t) \/ Adder(t)))
  /\ WF_vars(HandoffRuns(Producer /\ UNCHANGED unasked))
  /\ WF_vars(HandoffRuns(Consumer /\ UNCHANGED unasked))
  /\ \A r \in Reader : WF_vars(RWLockRuns(ReaderStep(r)))
  /\ \A w \in Writer : WF_vars(RWLockRuns(WriterStep(w)))

-----------------------------------------------------------------------------
(* Type correctness of the three, with who holds which lock.               *)
ThreadsTypeOK == CounterTypeOK /\ CondTypeOK /\ RWTypeOK

(* Both mains that join get through it: of Exam1 and Exam2 once all their  *)
(* threads are created, of Exam3 unless an unasked wakeup came.            *)
AllJoined == JoinsEnd /\ JoinEnds
=============================================================================
