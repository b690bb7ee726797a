------------------------------ MODULE TaskQueue ------------------------------
(***************************************************************************)
(* The task queue of 8.IPC_Message_Queues: workers that create, serve and  *)
(* remove the POSIX message queue "/my_task_queue" (task_worker.c) and     *)
(* dispatchers that each send one task with a priority to it               *)
(* (task_dispatcher.c).  A queue that is unlinked lives on for those who   *)
(* have it open, so the name may stand for several queues in turn.  A task *)
(* is named by the dispatcher that sends it; printing is left out.         *)
(***************************************************************************)
EXTENDS Integers, Sequences, FiniteSets, SequencesExt

CONSTANTS Worker, Dispatcher,   \* runs of the two programs
          NoTask,
          MaxMsg,               \* MAX_MESSAGES, 10 in the source
          MaxQueue,             \* bound: queues one run may create
          Arg,                  \* priorities given on a command line
          UintSpan,             \* values of an unsigned int, 2^32
          PrioMax,              \* the kernel's MQ_PRIO_MAX, 32768
          ReceiveFails          \* may mq_receive fail other than by a signal?

ASSUME TaskQueueAssumption ==
  /\ MaxMsg \in Nat \ {0} /\ MaxQueue \in Nat \ {0}
  /\ UintSpan \in Nat \ {0} /\ PrioMax \in 1 .. UintSpan
  /\ Arg \subseteq Nat /\ NoTask \notin Dispatcher
  /\ IsFiniteSet(Worker) /\ IsFiniteSet(Dispatcher) /\ ReceiveFails \in BOOLEAN

Queue   == 1 .. MaxQueue
NoQueue == 0

VARIABLES
  name,       \* the queue that QUEUE_NAME stands for, or NoQueue
  nqueue,     \* queues created so far
  msgs,       \* queue -> its tasks in the order they will be received
  wpc,        \* worker -> where it is
  wq,         \* worker -> the queue it has open (mqdes)
  task,       \* worker -> the task it has received
  buf,        \* worker -> what malloc() gave it: "none" yet, "buffer" or "NULL"
  terminate,  \* worker -> the flag its signal handler sets
  dpc,        \* dispatcher -> where it is
  dq,         \* dispatcher -> the queue it has open
  arg,        \* dispatcher -> priority it was given (prio_ul)
  done        \* history: tasks processed, of the dispatchers' last runs

queueVars  == <<name, nqueue, msgs>>
workerVars == <<wpc, wq, task, buf, terminate, done>>
dispVars   == <<dpc, dq, arg>>
vars == <<queueVars, workerVars, dispVars>>

Prio(d) == arg[d] % UintSpan      \* (unsigned int)prio_ul

Init ==
  /\ name = NoQueue /\ nqueue = 0 /\ msgs = [q \in Queue |-> <<>>]
  /\ wpc = [w \in Worker |-> "off"] /\ wq = [w \in Worker |-> NoQueue]
  /\ task = [w \in Worker |-> NoTask] /\ buf = [w \in Worker |-> "none"]
  /\ terminate = [w \in Worker |-> FALSE]
  /\ dpc = [d \in Dispatcher |-> "off"] /\ dq = [d \in Dispatcher |-> NoQueue]
  /\ arg = [d \in Dispatcher |-> 0]
  /\ done = {}

WorkerGoes(w, from, to) == wpc[w] = from /\ wpc' = [wpc EXCEPT ![w] = to]
DispGoes(d, from, to)   == dpc[d] = from /\ dpc' = [dpc EXCEPT ![d] = to]

-----------------------------------------------------------------------------
(* The kernel's queues.                                                    *)

(* In order of priority, and of arrival among equals.                      *)
Insert(s, d) ==
  InsertAt(s, 1 + Cardinality({i \in DOMAIN s : Prio(s[i]) >= Prio(d)}), d)

Waiting(q) == {w \in Worker : wpc[w] = "waiting" /\ wq[w] = q}

(* Slips: the limit is not kept; a waiter is not woken; the task handed    *)
(* over is also queued.                                                    *)
DeliverOverfull(d, q) ==
  /\ msgs' = [msgs EXCEPT ![q] = Insert(@, d)]
  /\ UNCHANGED <<wpc, task>>
DeliverAsleep(d, q) ==
  /\ Len(msgs[q]) < MaxMsg
  /\ msgs' = [msgs EXCEPT ![q] = Insert(@, d)]
  /\ UNCHANGED <<wpc, task>>
DeliverTwice(d, q) ==
  \/ Waiting(q) = {} /\ DeliverAsleep(d, q)
  \/ \E w \in Waiting(q) : /\ WorkerGoes(w, "waiting", "work")
                           /\ task' = [task EXCEPT ![w] = d]
                           /\ msgs' = [msgs EXCEPT ![q] = Insert(@, d)]

(* A task goes straight to a worker that waits, if there is one.           *)
Deliver(d, q) ==
  \/ \E w \in Waiting(q) :
       /\ WorkerGoes(w, "waiting", "work")
       /\ task' = [task EXCEPT ![w] = d]
       /\ UNCHANGED msgs
  \/ /\ Waiting(q) = {} /\ Len(msgs[q]) < MaxMsg
     /\ msgs' = [msgs EXCEPT ![q] = Insert(@, d)]
     /\ UNCHANGED <<wpc, task>>

-----------------------------------------------------------------------------
(* task_dispatcher                                                         *)

(* The argument check; an argument that is no number ends the program.     *)
Dispatch(d, a) ==
  /\ DispGoes(d, "off", "open")
  /\ arg' = [arg EXCEPT ![d] = a]
  /\ UNCHANGED <<dq, queueVars, workerVars>>

DispatcherOpen(d) ==
  /\ IF name = NoQueue
       THEN DispGoes(d, "open", "failed") /\ UNCHANGED dq
       ELSE DispGoes(d, "open", "check") /\ dq' = [dq EXCEPT ![d] = name]
  /\ UNCHANGED <<arg, queueVars, workerVars>>

(* The task may be longer than mq_msgsize.                                 *)
DispatcherCheck(d) ==
  /\ DispGoes(d, "check", "send") \/ DispGoes(d, "check", "failed")
  /\ UNCHANGED <<dq, arg, queueVars, workerVars>>

(* mq_send: refuses a priority out of range, blocks while the queue is full*)
DispatcherSend(d) ==
  \/ /\ Prio(d) >= PrioMax
     /\ DispGoes(d, "send", "failed")
     /\ UNCHANGED <<dq, arg, queueVars, workerVars>>
  \/ /\ Prio(d) < PrioMax
     /\ DispGoes(d, "send", "sent")
     /\ Deliver(d, dq[d])
     /\ UNCHANGED <<dq, arg, name, nqueue, wq, buf, terminate, done>>

(* The dispatcher is run again, which a user may do without end.  Its name *)
(* stands for the new task once the last one is in no queue or hand.       *)
Again(d) ==
  /\ DispGoes(d, "sent", "off") \/ DispGoes(d, "failed", "off")
  /\ \A q \in Queue : \A i \in DOMAIN msgs[q] : msgs[q][i] # d
  /\ \A w \in Worker : task[w] # d
  /\ dq' = [dq EXCEPT ![d] = NoQueue] /\ arg' = [arg EXCEPT ![d] = 0]
  /\ done' = done \ {d}
  /\ UNCHANGED <<queueVars, wpc, wq, task, buf, terminate>>

(* Ctrl+C in the dispatcher's terminal                                     *)
DispatcherKilled(d) ==
  /\ dpc[d] \in {"open", "check", "send"} /\ DispGoes(d, dpc[d], "failed")
  /\ UNCHANGED <<dq, arg, queueVars, workerVars>>

-----------------------------------------------------------------------------
(* task_worker                                                             *)

WorkerStart(w) ==           \* up to sigaction()
  /\ WorkerGoes(w, "off", "open")
  /\ UNCHANGED <<wq, task, buf, terminate, done, queueVars, dispVars>>

(* mq_open(O_CREAT): the queue of that name, or a new one.                 *)
WorkerOpen(w) ==
  /\ WorkerGoes(w, "open", "alloc")
  /\ \/ /\ name # NoQueue
        /\ wq' = [wq EXCEPT ![w] = name] /\ UNCHANGED <<name, nqueue>>
     \/ /\ name = NoQueue /\ nqueue < MaxQueue
        /\ nqueue' = nqueue + 1 /\ name' = nqueue'
        /\ wq' = [wq EXCEPT ![w] = nqueue']
  /\ UNCHANGED <<msgs, task, buf, terminate, done, dispVars>>

(* mq_open fails: the worker ends and leaves any queue alone.              *)
WorkerOpenFails(w) ==
  /\ WorkerGoes(w, "open", "exited")
  /\ UNCHANGED <<wq, task, buf, terminate, done, queueVars, dispVars>>

(* malloc; if it fails the worker closes and unlinks as when it exits.     *)
WorkerAlloc(w) ==
  /\ \/ WorkerGoes(w, "alloc", "loop") /\ buf' = [buf EXCEPT ![w] = "buffer"]
     \/ WorkerGoes(w, "alloc", "close") /\ buf' = [buf EXCEPT ![w] = "NULL"]
  /\ UNCHANGED <<wq, task, terminate, done, queueVars, dispVars>>

WorkerCheck(w) ==           \* while (!terminate)
  /\ WorkerGoes(w, "loop", IF terminate[w] THEN "close" ELSE "receive")
  /\ UNCHANGED <<wq, task, buf, terminate, done, queueVars, dispVars>>

(* mq_receive: the first task, or wait for one.                            *)
WorkerReceive(w) ==
  /\ LET q == wq[w]
     IN  \/ /\ WorkerGoes(w, "receive", "work")
            /\ msgs[q] # <<>>
            /\ task' = [task EXCEPT ![w] = Head(msgs[q])]
            /\ msgs' = [msgs EXCEPT ![q] = Tail(@)]
         \/ /\ WorkerGoes(w, "receive", "waiting")
            /\ msgs[q] = <<>>
            /\ UNCHANGED <<task, msgs>>
  /\ UNCHANGED <<name, nqueue, wq, buf, terminate, done, dispVars>>

(* Slip: any error of mq_receive ends the loop.                            *)
RetryEnds(w) ==
  /\ ReceiveFails /\ WorkerGoes(w, "receive", "close")
  /\ UNCHANGED <<wq, task, buf, terminate, done, queueVars, dispVars>>

(* Another error than EINTR: it is reported and, after a second, retried.  *)
WorkerRetry(w) ==
  /\ ReceiveFails /\ WorkerGoes(w, "receive", "loop")
  /\ UNCHANGED <<wq, task, buf, terminate, done, queueVars, dispVars>>

(* Slip: one task is processed, and the worker goes.                       *)
ProcessOne(w) ==
  /\ WorkerGoes(w, "work", "close")
  /\ done' = done \cup {task[w]} /\ task' = [task EXCEPT ![w] = NoTask]
  /\ UNCHANGED <<wq, buf, terminate, queueVars, dispVars>>

WorkerProcess(w) ==
  /\ WorkerGoes(w, "work", "loop")
  /\ done' = done \cup {task[w]} /\ task' = [task EXCEPT ![w] = NoTask]
  /\ UNCHANGED <<wq, buf, terminate, queueVars, dispVars>>

WorkerClose(w) ==
  /\ WorkerGoes(w, "close", "unlink")
  /\ wq' = [wq EXCEPT ![w] = NoQueue]
  /\ UNCHANGED <<task, buf, terminate, done, queueVars, dispVars>>

WorkerUnlink(w) ==
  /\ WorkerGoes(w, "unlink", "exited")
  /\ name' = NoQueue
  /\ UNCHANGED <<nqueue, msgs, wq, task, buf, terminate, done, dispVars>>

(* SIGINT: sets the flag, and makes a waiting mq_receive return EINTR, on  *)
(* which the loop ends.                                                    *)
Interrupt(w) ==
  /\ wpc[w] \notin {"off", "exited", "killed"}
  /\ terminate' = [terminate EXCEPT ![w] = TRUE]
  /\ wpc' = [wpc EXCEPT ![w] = IF @ = "waiting" THEN "close" ELSE @]
  /\ UNCHANGED <<wq, task, buf, done, queueVars, dispVars>>

(* Any other death: the queue and its tasks stay for the next worker.      *)
WorkerKilled(w) ==
  /\ wpc[w] \notin {"off", "exited", "killed"}
  /\ wpc' = [wpc EXCEPT ![w] = "killed"]
  /\ wq' = [wq EXCEPT ![w] = NoQueue]
  /\ UNCHANGED <<task, buf, terminate, done, queueVars, dispVars>>

-----------------------------------------------------------------------------
DispatcherStep(d) == DispatcherOpen(d) \/ DispatcherCheck(d) \/ DispatcherSend(d)
WorkerStep(w) == \/ WorkerOpen(w) \/ WorkerAlloc(w) \/ WorkerCheck(w)
                 \/ WorkerReceive(w) \/ WorkerProcess(w)
                 \/ WorkerClose(w) \/ WorkerUnlink(w)

Ended == /\ \A w \in Worker : wpc[w] \in {"exited", "killed"}
         /\ \A d \in Dispatcher : dpc[d] \in {"sent", "failed"}
         /\ UNCHANGED vars

Next == \/ \E d \in Dispatcher : \/ \E a \in Arg : Dispatch(d, a)
                                 \/ DispatcherStep(d) \/ DispatcherKilled(d)
                                 \/ Again(d)
        \/ \E w \in Worker : \/ WorkerStart(w) \/ WorkerStep(w)
                             \/ WorkerOpenFails(w) \/ WorkerRetry(w)
                             \/ Interrupt(w) \/ WorkerKilled(w)
        \/ Ended

Spec == Init /\ [][Next]_vars

(* Started programs go on; users and their signals owe nothing.  mq_receive*)
(* gives the place it frees to a sender that is blocked, so no sender is   *)
(* passed over for ever by others that come later.                         *)
Fairness == /\ \A d \in Dispatcher : /\ WF_vars(DispatcherStep(d))
                                     /\ SF_vars(DispatcherSend(d))
            /\ \A w \in Worker : WF_vars(WorkerStep(w))
FairSpec == Spec /\ Fairness
=============================================================================
