------------------------------ MODULE Counter -------------------------------
(***************************************************************************)
(* The two programs of 4.Linux_Thread whose main creates threads, joins    *)
(* them and says so: the threads of Exam1 only print, those of Exam2 add   *)
(* INCREMENT_PER_THREAD to shared_counter with lock1 held.  An increment   *)
(* is a load and a store.  A return from main ends the threads as well.    *)
(***************************************************************************)
EXTENDS Integers

CONSTANTS NumThreads,  \* NUM_THREADS of Exam2, 3 in the source; Exam1 has 2
          Increment    \* INCREMENT_PER_THREAD, 1000000 in the source

ASSUME CounterAssumption == NumThreads \in Nat /\ NumThreads >= 2 /\ Increment \in Nat

Free == 0   \* nobody holds lock1; threads count from 1

Thread == 1 .. NumThreads

VARIABLES program,         \* "Exam1" or "Exam2"
          mpc,             \* where main is
          i,               \* main's loop counter: threads created, then joined
          tpc,             \* thread -> where it is
          added,           \* thread -> its own loop counter
          loaded,          \* thread -> the value it loaded
          lock1, shared_counter,
          printed          \* what main printed, or -1

counterVars == <<program, mpc, i, tpc, added, loaded, lock1, shared_counter, printed>>
threadVars  == <<tpc, added, loaded, lock1, shared_counter>>

CounterInit ==
  /\ program \in {"Exam1", "Exam2"}
  /\ mpc = "create" /\ i = 0
  /\ tpc = [t \in Thread |-> "unborn"]
  /\ added = [t \in Thread |-> 0] /\ loaded = [t \in Thread |-> 0]
  /\ lock1 = Free /\ shared_counter = 0 /\ printed = -1

Wanted  == IF program = "Exam1" THEN 2 ELSE NumThreads
Running == mpc \in {"create", "join"}

-----------------------------------------------------------------------------
(* main                                                                    *)

CreateThread ==
  /\ mpc = "create" /\ i < Wanted
  /\ \/ /\ i' = i + 1
        /\ tpc' = [tpc EXCEPT ![i + 1] = IF program = "Exam1" THEN "print" ELSE "lock"]
        /\ UNCHANGED mpc
     \/ mpc' = "failed" /\ UNCHANGED <<i, tpc>>
  /\ UNCHANGED <<program, added, loaded, lock1, shared_counter, printed>>

AllCreated ==
  /\ mpc = "create" /\ i = Wanted
  /\ mpc' = "join" /\ i' = 0
  /\ UNCHANGED <<program, threadVars, printed>>

JoinThread ==
  /\ mpc = "join" /\ i < Wanted /\ tpc[i + 1] = "ended"
  /\ i' = i + 1
  /\ UNCHANGED <<program, mpc, threadVars, printed>>

(* "all threads finished!"                                                 *)
AllFinished ==
  /\ mpc = "join" /\ i = Wanted
  /\ mpc' = "done"
  /\ printed' = IF program = "Exam2" THEN shared_counter ELSE printed
  /\ UNCHANGED <<program, i, threadVars>>

-----------------------------------------------------------------------------
(* The threads                                                             *)

Moves(t, from, to) == Running /\ tpc[t] = from /\ tpc' = [tpc EXCEPT ![t] = to]

(* thr_handler1 and thr_handler2.                                          *)
PrintId(t) ==
  /\ Moves(t, "print", "ended")
  /\ UNCHANGED <<program, mpc, i, added, loaded, lock1, shared_counter, printed>>

(* Slip: lock1 is not waited for.                                          *)
EnterUnlocked(t) ==
  /\ Moves(t, "lock", "load") /\ lock1' = t
  /\ UNCHANGED <<program, mpc, i, added, loaded, shared_counter, printed>>

EnterLocked(t) ==
  /\ lock1 = Free /\ lock1' = t
  /\ Moves(t, "lock", "load")
  /\ UNCHANGED <<program, mpc, i, added, loaded, shared_counter, printed>>

LoadCounter(t) ==
  /\ added[t] < Increment
  /\ Moves(t, "load", "store")
  /\ loaded' = [loaded EXCEPT ![t] = shared_counter]
  /\ UNCHANGED <<program, mpc, i, added, lock1, shared_counter, printed>>

StoreCounter(t) ==
  /\ Moves(t, "store", "load")
  /\ shared_counter' = loaded[t] + 1
  /\ added' = [added EXCEPT ![t] = @ + 1]
  /\ UNCHANGED <<program, mpc, i, loaded, lock1, printed>>

UnlockAndExit(t) ==
  /\ added[t] = Increment /\ lock1' = Free
  /\ Moves(t, "load", "ended")
  /\ UNCHANGED <<program, mpc, i, added, loaded, shared_counter, printed>>

-----------------------------------------------------------------------------
CounterMain   == CreateThread \/ AllCreated \/ JoinThread \/ AllFinished
Adder(t)      == EnterLocked(t) \/ LoadCounter(t) \/ StoreCounter(t) \/ UnlockAndExit(t)
CounterNext   == CounterMain \/ \E t \in Thread : PrintId(t) \/ Adder(t)
CounterSpec   == CounterInit /\ [][CounterNext]_counterVars

-----------------------------------------------------------------------------
(* Type correctness; lock1 is held by the one thread in its loop.          *)
CounterTypeOK ==
  /\ program \in {"Exam1", "Exam2"}
  /\ mpc \in {"create", "join", "done", "failed"} /\ i \in 0 .. Wanted
  /\ tpc \in [Thread -> {"unborn", "print", "lock", "load", "store", "ended"}]
  /\ added \in [Thread -> 0 .. Increment] /\ loaded \in [Thread -> Nat]
  /\ lock1 \in Thread \cup {Free} /\ shared_counter \in Nat /\ printed \in Nat \cup {-1}
  /\ \A t \in Thread : tpc[t] \in {"load", "store"} <=> lock1 = t

PrintedRight ==
  program = "Exam2" /\ mpc = "done" => printed = NumThreads * Increment
FinishedMeansAll ==
  mpc = "done" => \A t \in 1 .. Wanted : tpc[t] = "ended" /\ lock1 = Free

(* Exam2_Report:22, the result is right and stable: if main of Exam2 comes *)
(* to print the counter, no increment of any thread was lost; and all      *)
(* threads have ended by then, none cut off by the return from main.       *)
CountRight == PrintedRight /\ FinishedMeansAll

(* Once all threads are created, main gets through its joins.              *)
JoinsEnd == mpc = "join" ~> mpc = "done"

(* Exam1_Report:7: main waits for both threads.  It does not when the      *)
(* second cannot be created: the return cuts the first one off.            *)
MainWaits == ~Running => \A t \in Thread : tpc[t] \in {"unborn", "ended"}
=============================================================================
