---------------------------- MODULE CondHandoff -----------------------------
(***************************************************************************)
(* The producer and consumer of 4.Linux_Thread/Exam3.c: the producer       *)
(* thread sets data and data_ready under the mutex and signals a condition *)
(* variable, Threshold times; the consumer, the main thread, waits for the *)
(* condition that many times without testing data_ready, and keeps the     *)
(* mutex in between.  Values are numbered in the order of production.      *)
(***************************************************************************)
EXTENDS Integers

CONSTANTS Threshold,   \* THRESHOLD, 10 in the source
          MaxUnasked   \* bound: times pthread_cond_wait wakes up unasked

ASSUME CondAssumption == Threshold \in Nat \ {0} /\ MaxUnasked \in Nat

Nobody == "nobody"

VARIABLES lock,        \* who holds the mutex
          sleeper,     \* is the consumer asleep in pthread_cond_wait?
          ppc, cpc,    \* where producer and consumer are
          sent, got,   \* their loop counters i
          data, data_ready,
          value,       \* the data that the consumer printed last
          unasked      \* history: wakeups without a signal

producerVars == <<ppc, sent, data>>
consumerVars == <<cpc, got, value>>
condVars == <<lock, sleeper, producerVars, consumerVars, data_ready, unasked>>

CondInit ==
  /\ lock = Nobody /\ sleeper = FALSE
  /\ ppc = "unborn" /\ cpc = "create"
  /\ sent = 0 /\ got = 0
  /\ data = 0 /\ data_ready = 0 /\ value = 0 /\ unasked = 0

Acquire(t) == lock = Nobody /\ lock' = t
Release(t) == lock = t /\ lock' = Nobody

-----------------------------------------------------------------------------
(* handle_th1                                                              *)

ProducerLock ==
  /\ ppc = "loop" /\ sent < Threshold
  /\ Acquire("producer") /\ ppc' = "produce"
  /\ UNCHANGED <<sleeper, sent, data, consumerVars, data_ready>>

(* Slip: the flag is not set.                                              *)
ProduceNoFlag ==
  /\ ppc = "produce" /\ ppc' = "signal"
  /\ data' = sent + 1
  /\ UNCHANGED <<lock, sleeper, sent, consumerVars, data_ready>>

Produce ==
  /\ ppc = "produce" /\ ppc' = "signal"
  /\ data' = sent + 1 /\ data_ready' = 1
  /\ UNCHANGED <<lock, sleeper, sent, consumerVars>>

(* A signal that finds nobody asleep is gone.                              *)
Signal ==
  /\ ppc = "signal" /\ ppc' = "unlock"
  /\ sleeper' = FALSE
  /\ UNCHANGED <<lock, sent, data, consumerVars, data_ready>>

ProducerUnlock ==
  /\ ppc = "unlock"
  /\ Release("producer") /\ sent' = sent + 1
  /\ ppc' = "loop"
  /\ UNCHANGED <<sleeper, data, consumerVars, data_ready>>

ProducerExit ==
  /\ ppc = "loop" /\ sent = Threshold /\ ppc' = "exited"
  /\ UNCHANGED <<lock, sleeper, sent, data, consumerVars, data_ready>>

-----------------------------------------------------------------------------
(* main                                                                    *)

Create ==
  /\ cpc = "create"
  /\ \/ cpc' = "lock" /\ ppc' = "loop"
     \/ cpc' = "failed" /\ UNCHANGED ppc
  /\ UNCHANGED <<lock, sleeper, sent, data, got, value, data_ready>>

ConsumerLock ==
  /\ cpc = "lock"
  /\ Acquire("consumer") /\ cpc' = "loop"
  /\ UNCHANGED <<sleeper, producerVars, got, value, data_ready>>

(* Slip: the wait is skipped.                                              *)
WaitAwake ==
  /\ cpc = "loop" /\ got < Threshold
  /\ Release("consumer") /\ cpc' = "wait"
  /\ UNCHANGED <<sleeper, producerVars, got, value, data_ready>>
(* pthread_cond_wait gives up the mutex and sleeps in one step, and gets   *)
(* the mutex back before it returns.                                       *)
Wait ==
  /\ cpc = "loop" /\ got < Threshold
  /\ Release("consumer") /\ sleeper' = TRUE /\ cpc' = "wait"
  /\ UNCHANGED <<producerVars, got, value, data_ready>>

(* A spurious wakeup, which POSIX allows.                                  *)
WakeUnasked ==
  /\ unasked < MaxUnasked /\ unasked' = unasked + 1
  /\ sleeper /\ sleeper' = FALSE
  /\ UNCHANGED <<lock, producerVars, consumerVars, data_ready>>

Wake ==
  /\ cpc = "wait" /\ ~sleeper
  /\ Acquire("consumer") /\ cpc' = "read"
  /\ UNCHANGED <<sleeper, producerVars, got, value, data_ready>>

(* Prints data, clears the flag and sleeps a second, with the mutex.       *)
Consume ==
  /\ cpc = "read" /\ cpc' = "loop"
  /\ value' = data /\ data_ready' = 0 /\ got' = got + 1
  /\ UNCHANGED <<lock, sleeper, producerVars>>

(* pthread_join, with the mutex still held.                                *)
Join ==
  /\ cpc = "loop" /\ got = Threshold /\ ppc = "exited"
  /\ cpc' = "done"
  /\ UNCHANGED <<lock, sleeper, producerVars, got, value, data_ready>>

-----------------------------------------------------------------------------
Producer == ProducerLock \/ Produce \/ Signal \/ ProducerUnlock \/ ProducerExit
Consumer == Create \/ ConsumerLock \/ Wait \/ Wake \/ Consume \/ Join

CondNext == \/ (Producer \/ Consumer) /\ UNCHANGED unasked
        \/ WakeUnasked

CondSpec == CondInit /\ [][CondNext]_condVars

-----------------------------------------------------------------------------
(* Type correctness, and the mutex is held exactly where the code says.    *)
CondTypeOK ==
  /\ lock \in {Nobody, "producer", "consumer"} /\ sleeper \in BOOLEAN
  /\ ppc \in {"unborn", "loop", "produce", "signal", "unlock", "exited"}
  /\ cpc \in {"create", "lock", "loop", "wait", "read", "done", "failed"}
  /\ sent \in 0 .. Threshold /\ got \in 0 .. Threshold
  /\ data \in 0 .. Threshold /\ value \in 0 .. Threshold /\ data_ready \in 0 .. 1
  /\ unasked \in 0 .. MaxUnasked
  /\ lock = "producer" <=> ppc \in {"produce", "signal", "unlock"}
  /\ lock = "consumer" <=> cpc \in {"loop", "read", "done"}

NewValueRead == cpc = "read" /\ unasked = 0 => data_ready = 1 /\ data > value

NeverAhead   == got <= sent + unasked + (IF ppc = "unlock" THEN 1 ELSE 0)

(* Unless it was woken up unasked, the consumer never prints a value twice,*)
(* nor one that is not ready; and each value printed stands for a signal   *)
(* or an unasked wakeup of its own, never for the same signal twice.       *)
SignalPerValue == NewValueRead /\ NeverAhead

(* The consumer joins the producer with the mutex held.  That ends, unless *)
(* an unasked wakeup brought it there while the producer needs the mutex.  *)
JoinEnds == cpc = "loop" /\ got = Threshold /\ unasked = 0 ~> cpc = "done"

(* Exam3.c:45: "ready in advance when pthread_cond_signal is called":      *)
(* the consumer waits before the signal comes.                             *)
ReadyInAdvance == ppc = "signal" => cpc = "wait" /\ sleeper
=============================================================================
