---------------------------- MODULE ThreadProofs ----------------------------
(***************************************************************************)
(* The programs of 4.Linux_Thread, for any number of threads, rounds and   *)
(* increments: Exam2 loses no increment, the consumer of Exam3 prints only *)
(* new values, and a writer of Exam4 prints its own.                       *)
(***************************************************************************)
EXTENDS MCThreads, FiniteSets, FiniteSetTheorems, TLAPS

-----------------------------------------------------------------------------
(* Exam2: the increments that are done, each with its thread and number.   *)
Done == {p \in Thread \X (0 .. Increment - 1) : p[2] < added[p[1]]}

(* What a thread of each program may do, and what has happened by then.    *)
Threads ==
  \A t \in Thread :
    /\ program = "Exam1" => tpc[t] \in {"unborn", "print", "ended"}
    /\ program = "Exam2" => tpc[t] # "print"
    /\ mpc = "create" /\ t > i => tpc[t] = "unborn"
    /\ mpc = "join" /\ t <= i => tpc[t] = "ended"
    /\ mpc = "done" /\ t <= Wanted => tpc[t] = "ended"
    /\ tpc[t] = "store" => loaded[t] = shared_counter /\ added[t] < Increment
    /\ tpc[t] = "ended" /\ program = "Exam2" => added[t] = Increment

(* The inductive invariant: the counter counts the increments done.        *)
CounterInv ==
  /\ CounterTypeOK /\ Threads
  /\ shared_counter = Cardinality(Done)
  /\ program = "Exam2" /\ mpc = "done" => printed = shared_counter

-----------------------------------------------------------------------------
(* All increments there are to do.                                         *)
LEMMA AllIncrements ==
  LET All == Thread \X (0 .. Increment - 1)
  IN IsFiniteSet(All) /\ Cardinality(All) = NumThreads * Increment
<1>1. IsFiniteSet(Thread) /\ Cardinality(Thread) = NumThreads
  BY FS_Interval, CounterAssumption DEF Thread
<1>2. IsFiniteSet(0 .. Increment - 1) /\ Cardinality(0 .. Increment - 1) = Increment
  BY FS_Interval, CounterAssumption
<1> QED
  BY <1>1, <1>2, FS_Product

LEMMA DoneFinite == IsFiniteSet(Done) /\ Cardinality(Done) \in Nat
BY AllIncrements, FS_Subset, FS_CardinalityType DEF Done

(* A step that leaves the counter and the counts of the threads alone.     *)
LEMMA SameDone ==
  ASSUME UNCHANGED added
  PROVE  Done' = Done
BY DEF Done

(* A store of a loaded value that is up to date counts one more.           *)
LEMMA StoreCounts ==
  ASSUME CounterInv, NEW t \in Thread, StoreCounter(t)
  PROVE  shared_counter' = shared_counter + 1 /\ shared_counter' = Cardinality(Done')
<1>1. /\ tpc[t] = "store" /\ added \in [Thread -> 0 .. Increment]
      /\ added' = [added EXCEPT ![t] = @ + 1] /\ shared_counter' = loaded[t] + 1
      /\ loaded[t] = shared_counter /\ added[t] < Increment /\ Increment \in Nat
  BY CounterAssumption DEF CounterInv, CounterTypeOK, Threads, StoreCounter, Moves
<1>2. Done' = Done \cup {<<t, added[t]>>} /\ <<t, added[t]>> \notin Done
  BY <1>1 DEF Done
<1>3. Cardinality(Done') = Cardinality(Done) + 1
  BY <1>2, DoneFinite, FS_AddElement
<1> QED
  BY <1>1, <1>3 DEF CounterInv

(* When all threads of Exam2 have ended, all is counted.                   *)
LEMMA AllDone ==
  ASSUME CounterInv, program = "Exam2", \A t \in Thread : tpc[t] = "ended"
  PROVE  shared_counter = NumThreads * Increment
<1>1. Done = Thread \X (0 .. Increment - 1)
  BY CounterAssumption DEF CounterInv, Threads, Done
<1> QED
  BY <1>1, AllIncrements DEF CounterInv

-----------------------------------------------------------------------------
LEMMA CounterStarts == CounterInit => CounterInv
<1> SUFFICES ASSUME CounterInit PROVE CounterInv
  OBVIOUS
<1> USE CounterAssumption DEF CounterInit
<1>1. CounterTypeOK
  BY DEF CounterTypeOK, Wanted, Thread, Free
<1>2. Threads
  BY DEF Threads, Thread
<1>3. Done = {}
  BY DEF Done
<1> QED
  BY <1>1, <1>2, <1>3, FS_EmptySet DEF CounterInv

(* Where a thread is decides whether it has lock1.                         *)
LockHeld == \A t \in Thread : tpc[t] \in {"load", "store"} <=> lock1 = t

LEMMA CounterKeepsLock ==
  ASSUME CounterInv, [CounterNext]_counterVars
  PROVE  LockHeld'
<1>1. /\ LockHeld /\ tpc \in [Thread -> {"unborn", "print", "lock", "load", "store", "ended"}]
      /\ i \in Nat /\ NumThreads \in Nat /\ 0 \notin Thread
      /\ mpc = "create" => \A t \in Thread : t > i => tpc[t] = "unborn"
  BY CounterAssumption DEF CounterInv, CounterTypeOK, LockHeld, Threads, Wanted, Thread
<1>2. CASE CreateThread
  <2>1. i + 1 > i
    BY <1>1
  <2> QED
    BY <1>1, <1>2, <2>1 DEF CreateThread, LockHeld
<1>3. CASE AllCreated \/ JoinThread \/ AllFinished \/ UNCHANGED counterVars
  BY <1>1, <1>3 DEF AllCreated, JoinThread, AllFinished, counterVars, threadVars, LockHeld
<1>4. ASSUME NEW t \in Thread, PrintId(t) \/ LoadCounter(t) \/ StoreCounter(t)
      PROVE  LockHeld'
  BY <1>1, <1>4 DEF PrintId, LoadCounter, StoreCounter, Moves, LockHeld
<1>5. ASSUME NEW t \in Thread, EnterLocked(t)
      PROVE  LockHeld'
  BY <1>1, <1>5 DEF EnterLocked, Moves, LockHeld, Free
<1>6. ASSUME NEW t \in Thread, UnlockAndExit(t)
      PROVE  LockHeld'
  BY <1>1, <1>6 DEF UnlockAndExit, Moves, LockHeld, Free
<1> QED
  BY <1>2, <1>3, <1>4, <1>5, <1>6 DEF CounterNext, CounterMain, Adder

LEMMA WantedFits == CounterTypeOK => Wanted \in Nat /\ i \in Nat /\ Wanted <= NumThreads
BY CounterAssumption DEF CounterTypeOK, Wanted

LEMMA CounterKeepsType ==
  ASSUME CounterInv, [CounterNext]_counterVars
  PROVE  CounterTypeOK'
<1> USE CounterAssumption DEF CounterInv, CounterTypeOK, Thread, Wanted, Free, threadVars
<1>1. LockHeld'
  BY CounterKeepsLock
<1>2. CASE CreateThread
  <2>1. CASE mpc' = "failed" /\ UNCHANGED <<i, tpc>>
    BY <1>1, <1>2, <2>1 DEF CreateThread, LockHeld
  <2>2. CASE i' = i + 1 /\ UNCHANGED mpc
    <3>1. i + 1 \in Thread /\ i + 1 \in 0 .. Wanted' /\ i + 1 \in Nat
      BY <1>2, WantedFits DEF CreateThread
    <3>2. tpc' \in [Thread -> {"unborn", "print", "lock", "load", "store", "ended"}]
      BY <1>2, <2>2, <3>1 DEF CreateThread
    <3> QED
      BY <1>1, <1>2, <2>2, <3>1, <3>2 DEF CreateThread, LockHeld
  <2> QED
    BY <1>2, <2>1, <2>2 DEF CreateThread
<1>3. CASE AllCreated \/ JoinThread \/ AllFinished
  <2>1. UNCHANGED <<program, threadVars>>
    BY <1>3 DEF AllCreated, JoinThread, AllFinished
  <2>2. i' \in 0 .. Wanted' /\ mpc' \in {"create", "join", "done", "failed"}
    <3>1. CASE AllCreated
      BY <3>1, WantedFits DEF AllCreated
    <3>2. CASE JoinThread
      BY <3>2, WantedFits DEF JoinThread
    <3>3. CASE AllFinished
      BY <3>3, WantedFits DEF AllFinished
    <3> QED
      BY <1>3, <3>1, <3>2, <3>3
  <2>3. printed' \in Nat \cup {-1}
    BY <1>3 DEF AllCreated, JoinThread, AllFinished
  <2> QED
    BY <2>1, <2>2, <2>3
<1>4. ASSUME NEW t \in Thread, PrintId(t) \/ EnterLocked(t) \/ UnlockAndExit(t)
      PROVE  CounterTypeOK'
  BY <1>1, <1>4 DEF PrintId, EnterLocked, UnlockAndExit, Moves, LockHeld
<1>5. ASSUME NEW t \in Thread, LoadCounter(t) \/ StoreCounter(t)
      PROVE  CounterTypeOK'
  <2>1. CASE LoadCounter(t)
    BY <1>1, <2>1 DEF LoadCounter, Moves, LockHeld
  <2>2. CASE StoreCounter(t)
    <3>1. added[t] + 1 \in 0 .. Increment
      BY <2>2 DEF StoreCounter, Moves, Threads
    <3>2. added' \in [Thread -> 0 .. Increment]
      BY <2>2, <3>1 DEF StoreCounter
    <3> QED
      BY <1>1, <2>2, <3>2, SMTT(30) DEF StoreCounter, Moves, LockHeld
  <2> QED
    BY <1>5, <2>1, <2>2
<1>6. CASE UNCHANGED counterVars
  BY <1>6 DEF counterVars
<1> QED
  BY <1>2, <1>3, <1>4, <1>5, <1>6 DEF CounterNext, CounterMain, Adder

LEMMA CounterKeepsThreads ==
  ASSUME CounterInv, [CounterNext]_counterVars
  PROVE  Threads'
<1> USE CounterAssumption DEF CounterInv, CounterTypeOK, Threads, Thread, Wanted, Free, threadVars
<1>1. CASE CreateThread
  <2>1. CASE mpc' = "failed" /\ UNCHANGED <<i, tpc>>
    BY <1>1, <2>1 DEF CreateThread
  <2>2. CASE i' = i + 1 /\ UNCHANGED mpc
    <3>1. i \in Nat /\ i + 1 \in Thread
      BY <1>1, WantedFits DEF CreateThread
    <3>2. \A t \in Thread : t # i + 1 => tpc'[t] = tpc[t] /\ (t > i + 1 => t > i)
      BY <1>1, <2>2, <3>1 DEF CreateThread
    <3>3. tpc'[i + 1] = IF program = "Exam1" THEN "print" ELSE "lock"
      BY <1>1, <2>2, <3>1 DEF CreateThread
    <3>4. mpc' = "create" /\ UNCHANGED <<program, added, loaded, shared_counter>>
      BY <1>1, <2>2 DEF CreateThread
    <3> SUFFICES ASSUME NEW t \in Thread PROVE Threads!(t)'
      BY DEF Threads
    <3>5. program \in {"Exam1", "Exam2"} /\ (t > i => tpc[t] = "unborn")
      BY <1>1 DEF CreateThread
    <3>6. CASE t = i + 1
      BY <2>2, <3>1, <3>3, <3>4, <3>5, <3>6
    <3>7. CASE t # i + 1
      BY <2>2, <3>1, <3>2, <3>4, <3>5, <3>7
    <3> QED
      BY <3>6, <3>7
  <2> QED
    BY <1>1, <2>1, <2>2 DEF CreateThread
<1>2. CASE AllCreated
  BY <1>2 DEF AllCreated
<1>3. CASE JoinThread
  <2>1. \A t \in Thread : t <= i + 1 => t <= i \/ t = i + 1
    BY WantedFits
  <2> QED
    BY <1>3, <2>1 DEF JoinThread
<1>4. CASE AllFinished
  BY <1>4 DEF AllFinished
<1>5. ASSUME NEW t \in Thread, PrintId(t) \/ EnterLocked(t) \/ UnlockAndExit(t)
      PROVE  Threads'
  BY <1>5 DEF PrintId, EnterLocked, UnlockAndExit, Moves, Running
<1>6. ASSUME NEW t \in Thread, LoadCounter(t)
      PROVE  Threads'
  BY <1>6 DEF LoadCounter, Moves, Running
<1>7. ASSUME NEW t \in Thread, StoreCounter(t)
      PROVE  Threads'
  BY <1>7 DEF StoreCounter, Moves, Running
<1>8. CASE UNCHANGED counterVars
  BY <1>8 DEF counterVars
<1> QED
  BY <1>1, <1>2, <1>3, <1>4, <1>5, <1>6, <1>7, <1>8 DEF CounterNext, CounterMain, Adder

LEMMA CounterKeeps ==
  ASSUME CounterInv, [CounterNext]_counterVars
  PROVE  CounterInv'
<1>1. CounterTypeOK' /\ Threads'
  BY CounterKeepsType, CounterKeepsThreads
<1>2. CASE \E t \in Thread : StoreCounter(t)
  <2>1. PICK t \in Thread : StoreCounter(t)
    BY <1>2
  <2>2. mpc # "done" /\ mpc' = mpc
    BY <2>1 DEF StoreCounter, Moves, Running
  <2> QED
    BY <1>1, <2>1, <2>2, StoreCounts DEF CounterInv
<1>3. CASE ~\E t \in Thread : StoreCounter(t)
  <2>1. UNCHANGED <<added, shared_counter>>
    BY <1>3 DEF CounterNext, CounterMain, CreateThread, AllCreated, JoinThread, AllFinished,
                threadVars, PrintId, Adder, EnterLocked, LoadCounter, UnlockAndExit, counterVars
  <2>2. (program = "Exam2" /\ mpc = "done" => printed = shared_counter)'
    BY <1>3 DEF CounterInv, CounterNext, CounterMain, CreateThread, AllCreated, JoinThread,
                AllFinished, threadVars, PrintId, Adder, EnterLocked, LoadCounter,
                UnlockAndExit, counterVars
  <2>3. shared_counter' = Cardinality(Done')
    BY <2>1, SameDone DEF CounterInv
  <2> QED
    BY <1>1, <2>2, <2>3 DEF CounterInv
<1> QED
  BY <1>2, <1>3

(* What a reader of the output may rely on.                                *)
LEMMA InvCountsRight == CounterInv => CountRight
<1> SUFFICES ASSUME CounterInv, mpc = "done" PROVE CountRight
  BY DEF CountRight, PrintedRight, FinishedMeansAll
<1>1. \A t \in 1 .. Wanted : t \in Thread /\ tpc[t] = "ended"
  BY CounterAssumption DEF CounterInv, CounterTypeOK, Threads, Thread, Wanted
<1>2. lock1 = Free
  BY <1>1 DEF CounterInv, CounterTypeOK, Threads, Thread, Wanted
<1>3. PrintedRight
  BY <1>1, AllDone DEF PrintedRight, CounterInv, Wanted, Thread
<1> QED
  BY <1>1, <1>2, <1>3 DEF CountRight, FinishedMeansAll

LEMMA CounterHolds == CounterSpec => []CounterInv
<1>1. CounterInv /\ [CounterNext]_counterVars => CounterInv'
  BY CounterKeeps
<1> QED
  BY CounterStarts, <1>1, PTL DEF CounterSpec

(* Exam2 prints NumThreads * Increment, and the threads of either program  *)
(* have ended when main says so, for any number of threads and increments. *)
THEOREM CounterIsRight == CounterSpec => []CountRight
BY CounterHolds, InvCountsRight, PTL

-----------------------------------------------------------------------------
(* Exam3: where producer and consumer are decides what they may touch.     *)
Handed ==
  /\ sleeper => cpc = "wait"
  /\ cpc = "create" => ppc = "unborn"
  /\ ppc \in {"produce", "signal", "unlock"} => sent < Threshold
  /\ cpc \in {"wait", "read"} => got < Threshold
  /\ data = sent + (IF ppc \in {"signal", "unlock"} THEN 1 ELSE 0)
  /\ ppc = "signal" => data_ready = 1
  /\ value <= sent

(* The consumer was woken up and has not read yet.                         *)
Woken == cpc = "read" \/ (cpc = "wait" /\ ~sleeper)

(* A wakeup stands for a signal of its own, with a value not printed yet.  *)
WokenRight ==
  Woken => /\ got < sent + unasked + (IF ppc = "unlock" THEN 1 ELSE 0)
           /\ unasked = 0 => data_ready = 1 /\ data > value

CondInv == CondTypeOK /\ Handed /\ WokenRight /\ NeverAhead

LEMMA CondStarts == CondInit => CondInv
<1>1. CondInit => sleeper \in BOOLEAN /\ ~sleeper
  BY DEF CondInit
<1> QED
  BY <1>1, CondAssumption DEF CondInit, CondInv, CondTypeOK, Handed, Woken, WokenRight, NeverAhead, Nobody

LEMMA ProducerKeeps ==
  ASSUME CondInv, Producer, UNCHANGED unasked
  PROVE  CondInv'
<1> USE CondAssumption DEF CondInv, CondTypeOK, Handed, Woken, WokenRight, NeverAhead,
        Nobody, consumerVars
<1>1. CASE ProducerLock
  BY <1>1 DEF ProducerLock, Acquire
<1>2. CASE Produce
  BY <1>2 DEF Produce
<1>3. CASE Signal
  <2>1. sleeper' \in BOOLEAN /\ ~sleeper'
    BY <1>3 DEF Signal
  <2> QED
    BY <1>3, <2>1 DEF Signal
<1>4. CASE ProducerUnlock
  BY <1>4 DEF ProducerUnlock, Release
<1>5. CASE ProducerExit
  BY <1>5 DEF ProducerExit
<1> QED
  BY <1>1, <1>2, <1>3, <1>4, <1>5 DEF Producer

LEMMA ConsumerKeeps ==
  ASSUME CondInv, Consumer, UNCHANGED unasked
  PROVE  CondInv'
<1> USE CondAssumption DEF CondInv, CondTypeOK, Handed, Woken, WokenRight, NeverAhead,
        Nobody, producerVars
<1>1. CASE Create
  BY <1>1 DEF Create
<1>2. CASE ConsumerLock
  BY <1>2 DEF ConsumerLock, Acquire
<1>3. CASE Wait
  BY <1>3 DEF Wait, Release
<1>4. CASE Wake
  BY <1>4 DEF Wake, Acquire
<1>5. CASE Consume
  BY <1>5 DEF Consume
<1>6. CASE Join
  BY <1>6 DEF Join
<1> QED
  BY <1>1, <1>2, <1>3, <1>4, <1>5, <1>6 DEF Consumer

LEMMA WakeUnaskedKeeps ==
  ASSUME CondInv, WakeUnasked
  PROVE  CondInv'
<1>1. sleeper' \in BOOLEAN /\ ~sleeper'
  BY DEF WakeUnasked
<1> QED
  BY <1>1, CondAssumption DEF CondInv, CondTypeOK, Handed, Woken, WokenRight, NeverAhead,
     Nobody, WakeUnasked, producerVars, consumerVars

LEMMA CondIdles ==
  ASSUME CondInv, UNCHANGED condVars
  PROVE  CondInv'
BY DEF CondInv, CondTypeOK, Handed, Woken, WokenRight, NeverAhead, condVars, producerVars,
   consumerVars

LEMMA CondHolds == CondSpec => []CondInv
<1>1. CondInv /\ [CondNext]_condVars => CondInv'
  BY ProducerKeeps, ConsumerKeeps, WakeUnaskedKeeps, CondIdles DEF CondNext
<1> QED
  BY CondStarts, <1>1, PTL DEF CondSpec

(* The consumer of Exam3 prints no value twice and none that is not ready, *)
(* unless it was woken up unasked, for any number of rounds.               *)
THEOREM HandoffIsRight == CondSpec => []SignalPerValue
<1>1. CondInv => SignalPerValue
  BY DEF CondInv, WokenRight, Woken, SignalPerValue, NewValueRead
<1> QED
  BY CondHolds, <1>1, PTL

-----------------------------------------------------------------------------
(* Exam4: where a writer has the lock.                                     *)
Writing(w) == at[w] \in {"load", "store", "print", "hold"}

(* The data does not change between a writer's load and its store.         *)
RWInv ==
  /\ RWTypeOK /\ WriterPrintsOwn
  /\ at \in [Reader \cup Writer -> {"unborn", "asleep", "rdwait", "read", "rdunlock",
                                    "load", "store", "print", "hold"}]
  /\ \A w \in Writer : \A v \in Writer : Writing(w) /\ Writing(v) => w = v
  /\ \A w \in Writer : at[w] \in {"load", "store"} => shared_data < MaxWrites
  /\ \A w \in Writer : at[w] = "store" => seen[w] = shared_data

LEMMA RWStarts == RWInit => RWInv
BY RWAssumption DEF RWInit, RWInv, RWTypeOK, WriterPrintsOwn, Reader, Writer, Writing,
   WriterIn, ReaderIn

LEMMA MakeThreadKeeps ==
  ASSUME RWInv, MakeThread
  PROVE  RWInv'
<1> USE RWAssumption DEF RWInv, RWTypeOK, WriterPrintsOwn, Reader, Writer, Writing, WriterIn,
        ReaderIn
<1>1. UNCHANGED <<shared_data, seen>>
  BY DEF MakeThread
<1>2. CASE alive' = FALSE /\ UNCHANGED <<made, at>>
  <2>1. alive' \in BOOLEAN
    BY <1>2
  <2> QED
    BY <1>1, <1>2, <2>1
<1>3. CASE made' = made + 1 /\ at' = [at EXCEPT ![made + 1] = "asleep"] /\ UNCHANGED alive
  <2>1. made + 1 \in Reader \cup Writer /\ made + 1 \in 0 .. NumReaders + NumWriters
    BY DEF MakeThread
  <2>2. \A t \in Reader \cup Writer : at'[t] = IF t = made + 1 THEN "asleep" ELSE at[t]
    BY <1>3, <2>1
  <2>3. at' \in [Reader \cup Writer -> {"unborn", "asleep", "rdwait", "read", "rdunlock",
                                       "load", "store", "print", "hold"}]
    BY <1>3, <2>1
  <2>4. \A t \in Reader \cup Writer : t > made + 1 <=> t > made /\ t # made + 1
    OBVIOUS
  <2>5. \A t \in Reader \cup Writer : at'[t] = "unborn" <=> t > made + 1
    BY <2>2, <2>4
  <2> QED
    BY <1>1, <1>3, <2>1, <2>2, <2>3, <2>5
<1> QED
  BY <1>2, <1>3 DEF MakeThread

LEMMA ReaderKeeps ==
  ASSUME RWInv, NEW r \in Reader, ReaderStep(r)
  PROVE  RWInv'
<1> USE RWAssumption DEF RWInv, RWTypeOK, WriterPrintsOwn, Reader, Writer, Writing,
        WriterIn, ReaderIn, Steps
<1>1. CASE RdLock(r)
  BY <1>1 DEF RdLock
<1>2. CASE PrintData(r)
  BY <1>2 DEF PrintData
<1>3. CASE RdUnlock(r)
  BY <1>3 DEF RdUnlock
<1> QED
  BY <1>1, <1>2, <1>3 DEF ReaderStep

LEMMA WriterKeeps ==
  ASSUME RWInv, NEW w \in Writer, WriterStep(w)
  PROVE  RWInv'
<1> USE RWAssumption DEF RWInv, RWTypeOK, WriterPrintsOwn, Reader, Writer, Writing,
        WriterIn, ReaderIn, Steps
<1>1. CASE WrLock(w)
  BY <1>1 DEF WrLock
<1>2. CASE LoadData(w)
  BY <1>2 DEF LoadData
<1>3. CASE StoreData(w)
  BY <1>3 DEF StoreData
<1>4. CASE Hold(w)
  BY <1>4 DEF Hold
<1>5. CASE WrUnlock(w)
  BY <1>5 DEF WrUnlock
<1> QED
  BY <1>1, <1>2, <1>3, <1>4, <1>5 DEF WriterStep

LEMMA RWIdles ==
  ASSUME RWInv, UNCHANGED rwVars
  PROVE  RWInv'
BY DEF RWInv, RWTypeOK, WriterPrintsOwn, Writing, WriterIn, ReaderIn, rwVars

LEMMA RWHolds == RWSpec => []RWInv
<1>1. RWInv /\ [RWNext]_rwVars => RWInv'
  BY MakeThreadKeeps, ReaderKeeps, WriterKeeps, RWIdles DEF RWNext
<1> QED
  BY RWStarts, <1>1, PTL DEF RWSpec

(* While a writer of Exam4 prints the data it is what it has written, for  *)
(* any number of readers and writers.                                      *)
THEOREM WriterIsAlone == RWSpec => []WriterPrintsOwn
BY RWHolds, PTL DEF RWInv

-----------------------------------------------------------------------------
(* Each step of 4.Linux_Thread is of one of the three programs.            *)
LEMMA ThreadsAreThree == Spec => CounterSpec /\ CondSpec /\ RWSpec
<1>1. Init => CounterInit /\ CondInit /\ RWInit
  BY DEF Init
<1>2. [Next]_vars => [CounterNext]_counterVars /\ [CondNext]_condVars /\ [RWNext]_rwVars
  BY DEF Next, vars, CounterRuns, HandoffRuns, RWLockRuns
<1> QED BY <1>1, <1>2, PTL DEF Spec, CounterSpec, CondSpec, RWSpec

(* The types of all three, and with them who holds lock1, the mutex of the *)
(* hand-over and the lock of readers and writers.                          *)
THEOREM ThreadsAreTyped == Spec => []ThreadsTypeOK
<1>1. CounterInv /\ CondInv /\ RWInv => ThreadsTypeOK
  BY DEF CounterInv, CondInv, RWInv, ThreadsTypeOK
<1> QED
  BY ThreadsAreThree, CounterHolds, CondHolds, RWHolds, <1>1, PTL
=============================================================================
