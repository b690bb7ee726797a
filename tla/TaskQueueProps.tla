--------------------------- MODULE TaskQueueProps ---------------------------
(***************************************************************************)
(* What the dispatchers and workers of TaskQueue keep true, what they      *)
(* eventually do, and what the README and comments promise beyond that.    *)
(***************************************************************************)
EXTENDS TaskQueue

WorkerPlace == {"off", "open", "alloc", "loop", "receive", "waiting", "work",
                "close", "unlink", "exited", "killed"}
DispPlace   == {"off", "open", "check", "send", "sent", "failed"}

(* Type correctness; no queue holds more than MAX_MESSAGES tasks.           *)
TypeOK ==
  /\ name \in Queue \cup {NoQueue} /\ nqueue \in 0 .. MaxQueue
  /\ msgs \in [Queue -> Seq(Dispatcher)] /\ \A q \in Queue : Len(msgs[q]) <= MaxMsg
  /\ wpc \in [Worker -> WorkerPlace] /\ wq \in [Worker -> Queue \cup {NoQueue}]
  /\ task \in [Worker -> Dispatcher \cup {NoTask}]
  /\ buf \in [Worker -> {"none", "buffer", "NULL"}] /\ terminate \in [Worker -> BOOLEAN]
  /\ dpc \in [Dispatcher -> DispPlace] /\ dq \in [Dispatcher -> Queue \cup {NoQueue}]
  /\ arg \in [Dispatcher -> Nat]
  /\ done \subseteq Dispatcher

Queued(d, q) == \E i \in DOMAIN msgs[q] : msgs[q][i] = d
Open(q)      == \E w \in Worker : wq[w] = q
Serving(w)   == wpc[w] \in {"loop", "receive", "waiting", "work"} /\ ~terminate[w]

(* A task that was sent is in one place: once in one queue, with one       *)
(* worker, or processed; a task that was not sent is nowhere.              *)
TaskOnce ==
  \A d \in Dispatcher :
    Cardinality({p \in Queue \X (1 .. MaxMsg) : p[2] \in DOMAIN msgs[p[1]]
                                                /\ msgs[p[1]][p[2]] = d})
      + Cardinality({w \in Worker : task[w] = d}) + (IF d \in done THEN 1 ELSE 0)
    = IF dpc[d] = "sent" THEN 1 ELSE 0

(* Stopped: told to end, killed, or left without a buffer by malloc.       *)
Quits(w)   == terminate[w] \/ buf[w] = "NULL"
Stopped(w) == Quits(w) \/ wpc[w] = "killed"

(* No task is lost but by a worker's end.  A task that was sent is         *)
(* processed, with the worker that received it, or in a queue that the     *)
(* name still leads to, unless a worker that was told to end, or found no  *)
(* memory, has removed a queue: other errors remove none.                  *)
LostOnlyByExit ==
  \A d \in Dispatcher :
    dpc[d] = "sent" =>
      \/ d \in done
      \/ \E w \in Worker : task[w] = d /\ wpc[w] \in {"work", "killed"}
      \/ \E q \in Queue :
           Queued(d, q) /\ (q = name \/ \E w \in Worker : wpc[w] = "exited" /\ Quits(w))

(* Where a worker that nothing stops has opened a queue, a task stays in   *)
(* the queue for ever only if tasks of higher priority pass it for ever.   *)
(* This holds also for the tasks that a killed worker left.                *)
TaskServed ==
  \A d \in Dispatcher, w \in Worker, q \in Queue :
    <>(wq[w] = q) /\ <>[](Queued(d, q) /\ ~Stopped(w))
      => []<>(\E e \in Dispatcher : Queued(e, q) /\ Prio(e) > Prio(d))

(* No dispatcher waits for ever for room in a full queue that some worker  *)
(* serves, however many others come to send.                               *)
SenderProceeds ==
  \A d \in Dispatcher :
    ~<>[](dpc[d] = "send" /\ \E w \in Worker : wq[w] = dq[d] /\ Serving(w))

-----------------------------------------------------------------------------
(* What the documents promise, and the code does not keep.                 *)

(* README: "Press Ctrl + C in the worker to exit".                         *)
InterruptExits ==
  \A w \in Worker : terminate[w] ~> wpc[w] \in {"exited", "killed"}

(* README: the worker "receives and processes tasks from the message       *)
(* queue": a task that was sent can be reached by a worker.                *)
TaskReachable ==
  \A d \in Dispatcher, q \in Queue : Queued(d, q) => q = name \/ Open(q)

(* task_worker.c: the worker is the owner of the queue, so it unlinks it:  *)
(* no other worker is serving the queue that goes.                         *)
UnlinkedByOwner ==
  \A w, v \in Worker : wpc[w] = "unlink" /\ name # NoQueue => wq[v] # name

(* README: tasks are sent "with a given priority".                         *)
PriorityAsGiven == \A d \in Dispatcher : dpc[d] = "sent" => Prio(d) = arg[d]
=============================================================================
