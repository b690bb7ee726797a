------------------------------- MODULE RWLock -------------------------------
(***************************************************************************)
(* The readers and writers of 4.Linux_Thread/Exam4.c.  main creates the    *)
(* readers, then the writers, and joins threads that never end.  The lock  *)
(* is the read-write lock of the C library with its default kind: a reader *)
(* waits only for a writer that holds the lock, and an unlock by a writer  *)
(* lets in all the readers that wait.                                      *)
(***************************************************************************)
EXTENDS Integers

CONSTANTS NumReaders, NumWriters,  \* NUM_READERS and NUM_WRITERS, 5 and 2
          MaxWrites                \* bound: times the lock is taken to write

ASSUME RWAssumption == NumReaders \in Nat /\ NumWriters \in Nat /\ MaxWrites \in Nat

Reader == 1 .. NumReaders
Writer == NumReaders + 1 .. NumReaders + NumWriters

VARIABLES made,         \* threads created so far, by their number
          alive,        \* the process runs
          at,           \* thread -> where it is
          shared_data,
          seen          \* reader -> what it printed; writer -> what it loaded

rwVars == <<made, alive, at, shared_data, seen>>

RWInit ==
  /\ made = 0 /\ alive = TRUE
  /\ at = [t \in Reader \cup Writer |-> "unborn"]
  /\ shared_data = 0 /\ seen = [t \in Reader \cup Writer |-> 0]

WriterIn == \E w \in Writer : at[w] \in {"load", "store", "print", "hold"}
ReaderIn == \E r \in Reader : at[r] \in {"read", "rdunlock"}

Steps(t, from, to) == alive /\ at[t] = from /\ at' = [at EXCEPT ![t] = to]

-----------------------------------------------------------------------------
(* main; a thread that cannot be created ends the process (exit).          *)
MakeThread ==
  /\ alive /\ made < NumReaders + NumWriters
  /\ \/ /\ made' = made + 1
        /\ at' = [at EXCEPT ![made + 1] = "asleep"]
        /\ UNCHANGED alive
     \/ alive' = FALSE /\ UNCHANGED <<made, at>>
  /\ UNCHANGED <<shared_data, seen>>

-----------------------------------------------------------------------------
(* reader                                                                  *)

RdLock(r) ==
  /\ Steps(r, "asleep", IF WriterIn THEN "rdwait" ELSE "read")
  /\ UNCHANGED <<made, alive, shared_data, seen>>

PrintData(r) ==
  /\ Steps(r, "read", "rdunlock")
  /\ seen' = [seen EXCEPT ![r] = shared_data]
  /\ UNCHANGED <<made, alive, shared_data>>

RdUnlock(r) ==
  /\ Steps(r, "rdunlock", "asleep")
  /\ UNCHANGED <<made, alive, shared_data, seen>>

-----------------------------------------------------------------------------
(* writer                                                                  *)

(* Slips: the lock is taken while others write, or while others read.      *)
WrLockShared(w) ==
  /\ ~ReaderIn /\ shared_data < MaxWrites
  /\ Steps(w, "asleep", "load")
  /\ UNCHANGED <<made, alive, shared_data, seen>>
WrLockBesideReaders(w) ==
  /\ ~WriterIn /\ shared_data < MaxWrites
  /\ Steps(w, "asleep", "load")
  /\ UNCHANGED <<made, alive, shared_data, seen>>

WrLock(w) ==
  /\ ~WriterIn /\ ~ReaderIn /\ shared_data < MaxWrites
  /\ Steps(w, "asleep", "load")
  /\ UNCHANGED <<made, alive, shared_data, seen>>

(* shared_data++.                                                          *)
LoadData(w) ==
  /\ Steps(w, "load", "store")
  /\ seen' = [seen EXCEPT ![w] = shared_data]
  /\ UNCHANGED <<made, alive, shared_data>>
StoreData(w) ==
  /\ Steps(w, "store", "print")
  /\ shared_data' = seen[w] + 1
  /\ UNCHANGED <<made, alive, seen>>

(* Prints shared_data and keeps the lock for five seconds.                 *)
Hold(w) ==
  /\ Steps(w, "print", "hold")
  /\ UNCHANGED <<made, alive, shared_data, seen>>

(* Slip: the waiting readers are not let in.                               *)
WrUnlockAlone(w) ==
  /\ Steps(w, "hold", "asleep")
  /\ UNCHANGED <<made, alive, shared_data, seen>>

WrUnlock(w) ==
  /\ alive /\ at[w] = "hold"
  /\ at' = [t \in DOMAIN at |-> CASE t = w -> "asleep"
                                  [] at[t] = "rdwait" -> "read"
                                  [] OTHER -> at[t]]
  /\ UNCHANGED <<made, alive, shared_data, seen>>

-----------------------------------------------------------------------------
ReaderStep(r) == RdLock(r) \/ PrintData(r) \/ RdUnlock(r)
WriterStep(w) == WrLock(w) \/ LoadData(w) \/ StoreData(w) \/ Hold(w) \/ WrUnlock(w)

RWNext == \/ MakeThread
          \/ \E r \in Reader : ReaderStep(r)
          \/ \E w \in Writer : WriterStep(w)

RWSpec == RWInit /\ [][RWNext]_rwVars

-----------------------------------------------------------------------------
(* Type correctness; threads start in order; one writer or some readers    *)
(* hold the lock, and a reader waits only for a writer.                    *)
RWTypeOK ==
  /\ made \in 0 .. NumReaders + NumWriters /\ alive \in BOOLEAN
  /\ \A r \in Reader : at[r] \in {"unborn", "asleep", "rdwait", "read", "rdunlock"}
  /\ \A w \in Writer : at[w] \in {"unborn", "asleep", "load", "store", "print", "hold"}
  /\ \A t \in Reader \cup Writer : at[t] = "unborn" <=> t > made
  /\ shared_data \in 0 .. MaxWrites /\ seen \in [Reader \cup Writer -> 0 .. MaxWrites]
  /\ ~(WriterIn /\ ReaderIn)
  /\ \A r \in Reader : at[r] = "rdwait" => WriterIn

(* Exam4_Report:18: while a writer holds the lock nobody else writes, so   *)
(* the value it prints is its own: one more than what it found.            *)
WriterPrintsOwn ==
  \A w \in Writer : at[w] \in {"print", "hold"} => shared_data = seen[w] + 1

(* A reader that waits is let in, however often the writers come back.     *)
ReaderServed ==
  \A r \in Reader : at[r] = "rdwait" ~> (at[r] = "read" \/ ~alive)

(* A writer gets the lock again and again.  It does not: readers that      *)
(* overlap for ever keep it out.                                           *)
WriterServed ==
  \A w \in Writer : at[w] = "asleep" ~>
    (at[w] = "load" \/ ~alive \/ shared_data = MaxWrites)
=============================================================================
