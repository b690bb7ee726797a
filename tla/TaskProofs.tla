----------------------------- MODULE TaskProofs -----------------------------
(***************************************************************************)
(* Proofs about the task queue, for any number of workers, dispatchers,    *)
(* queues and priorities: a task that was sent is in one place until it is *)
(* processed, and only a worker that ends takes it out of reach.           *)
(***************************************************************************)
EXTENDS TaskQueueProps, FiniteSetTheorems, TLAPS

(* Who is in the middle of something has the queue open.                   *)
HaveQueue ==
  /\ \A w \in Worker : wpc[w] \in {"alloc", "loop", "receive", "waiting", "work"} => wq[w] \in Queue
  /\ \A d \in Dispatcher : dpc[d] \in {"check", "send"} => dq[d] \in Queue

(* A worker has a task while it works on it, and when it was killed then.  *)
HaveTask ==
  \A w \in Worker : /\ wpc[w] = "work" => task[w] # NoTask
                    /\ task[w] # NoTask => wpc[w] \in {"work", "killed"}

(* Only tasks that were sent are anywhere, and each of them is in one      *)
(* queue, with one worker, or processed.                                   *)
Held(d) == \E w \in Worker : task[w] = d
OnePlace ==
  /\ \A q, r \in Queue : \A i \in DOMAIN msgs[q], j \in DOMAIN msgs[r] :
       msgs[q][i] = msgs[r][j] => q = r /\ i = j
  /\ \A v, w \in Worker : task[v] = task[w] /\ task[v] # NoTask => v = w
  /\ \A q \in Queue : \A i \in DOMAIN msgs[q] : msgs[q][i] \notin done /\ ~Held(msgs[q][i])
  /\ \A w \in Worker : task[w] \notin done
AllSent ==
  \A d \in Dispatcher :
    dpc[d] = "sent" <=> (\E q \in Queue : Queued(d, q)) \/ Held(d) \/ d \in done

TaskInv == TypeOK /\ HaveQueue /\ HaveTask /\ OnePlace /\ AllSent

-----------------------------------------------------------------------------
(* Inserting into a sequence.                                              *)
LEMMA InsertFacts ==
  ASSUME NEW s \in Seq(Dispatcher), NEW e \in Dispatcher, NEW k \in 1 .. Len(s) + 1
  PROVE  /\ InsertAt(s, k, e) \in Seq(Dispatcher) /\ Len(InsertAt(s, k, e)) = Len(s) + 1
         /\ \A j \in 1 .. Len(s) + 1 :
              InsertAt(s, k, e)[j] = IF j < k THEN s[j] ELSE IF j = k THEN e ELSE s[j - 1]
<1> DEFINE a == SubSeq(s, 1, k - 1)
           b == SubSeq(s, k, Len(s))
           c == a \o <<e>>
<1>1. /\ a \in Seq(Dispatcher) /\ Len(a) = k - 1
      /\ \A j \in 1 .. k - 1 : a[j] = s[j]
  OBVIOUS
<1>2. /\ b \in Seq(Dispatcher) /\ Len(b) = Len(s) - k + 1
      /\ \A j \in 1 .. Len(s) - k + 1 : b[j] = s[k + j - 1]
  OBVIOUS
<1>3. /\ c \in Seq(Dispatcher) /\ Len(c) = k
      /\ \A j \in 1 .. k - 1 : c[j] = s[j]
      /\ c[k] = e
  <2> HIDE DEF a
  <2> QED BY <1>1
<1>4. InsertAt(s, k, e) = c \o b
  BY DEF InsertAt
<1> HIDE DEF a, b, c
<1>5. /\ c \o b \in Seq(Dispatcher) /\ Len(c \o b) = Len(s) + 1
      /\ \A j \in 1 .. Len(s) + 1 : (c \o b)[j] = IF j <= k THEN c[j] ELSE b[j - k]
  BY <1>2, <1>3
<1>6. \A j \in 1 .. Len(s) + 1 : j > k => b[j - k] = s[j - 1]
  BY <1>2
<1> QED BY <1>3, <1>4, <1>5, <1>6

(* The kernel inserts at some place of the queue.                          *)
LEMMA InsertPlace ==
  ASSUME TypeOK, NEW q \in Queue, NEW d \in Dispatcher
  PROVE  \E k \in 1 .. Len(msgs[q]) + 1 : Insert(msgs[q], d) = InsertAt(msgs[q], k, d)
<1>1. PICK s : s = msgs[q]
  OBVIOUS
<1>2. s \in Seq(Dispatcher) /\ DOMAIN s = 1 .. Len(s) /\ Len(s) \in Nat
  BY <1>1 DEF TypeOK
<1>3. PICK D : D = {i \in DOMAIN s : Prio(s[i]) >= Prio(d)}
  OBVIOUS
<1>4. IsFiniteSet(1 .. Len(s)) /\ Cardinality(1 .. Len(s)) = Len(s)
  BY <1>2, FS_Interval
<1>5. D \in SUBSET (1 .. Len(s))
  BY <1>2, <1>3
<1>6. IsFiniteSet(D) /\ Cardinality(D) <= Cardinality(1 .. Len(s))
  BY <1>4, <1>5, FS_Subset, ZenonT(30)
<1>7. Cardinality(D) \in Nat
  BY <1>6, FS_CardinalityType
<1>8. Insert(s, d) = InsertAt(s, 1 + Cardinality(D), d)
  BY <1>3 DEF Insert
<1>9. 1 + Cardinality(D) \in 1 .. Len(s) + 1
  BY <1>2, <1>4, <1>6, <1>7
<1> QED BY <1>1, <1>8, <1>9

-----------------------------------------------------------------------------
LEMMA TaskStarts == Init => TaskInv
<1> SUFFICES ASSUME Init PROVE TaskInv
  OBVIOUS
<1> USE TaskQueueAssumption DEF Init
<1>1. \A q \in Queue : msgs[q] = <<>> /\ DOMAIN msgs[q] = {}
  OBVIOUS
<1>2. terminate \in [Worker -> BOOLEAN]
  OBVIOUS
<1>3. msgs \in [Queue -> Seq(Dispatcher)] /\ \A q \in Queue : Len(msgs[q]) <= MaxMsg
  OBVIOUS
<1>4. TypeOK
  BY <1>2, <1>3 DEF TypeOK, WorkerPlace, DispPlace
<1>5. HaveQueue /\ HaveTask
  BY DEF HaveQueue, HaveTask
<1>6. OnePlace
  BY <1>1 DEF OnePlace, Held
<1>7. AllSent
  BY <1>1 DEF AllSent, Held, Queued
<1> QED BY <1>4, <1>5, <1>6, <1>7 DEF TaskInv

(* What leaves the tasks where they are and sends none.                    *)
LEMMA QuietKeeps ==
  ASSUME TaskInv, UNCHANGED <<msgs, task, done>>,
         \A d \in Dispatcher : dpc'[d] = "sent" <=> dpc[d] = "sent"
  PROVE  OnePlace' /\ AllSent'
BY DEF TaskInv, OnePlace, AllSent, Held, Queued

(* The steps of a dispatcher but for the sending.                          *)
LEMMA DispatcherKeeps ==
  ASSUME TaskInv, NEW d \in Dispatcher,
         \/ \E a \in Arg : Dispatch(d, a)
         \/ DispatcherOpen(d) \/ DispatcherCheck(d) \/ DispatcherKilled(d)
         \/ DispatcherSend(d) /\ UNCHANGED workerVars /\ dpc'[d] # "sent"
  PROVE  TaskInv'
<1> USE DEF DispGoes, queueVars, workerVars
<1>1. /\ UNCHANGED <<queueVars, workerVars>>
      /\ dpc \in [Dispatcher -> DispPlace] /\ dq \in [Dispatcher -> Queue \cup {NoQueue}]
      /\ arg \in [Dispatcher -> Nat] /\ name \in Queue \cup {NoQueue}
  BY DEF TaskInv, TypeOK, Dispatch, DispatcherOpen, DispatcherCheck, DispatcherKilled, DispatcherSend
<1>2. /\ dpc[d] # "sent"
      /\ \E l \in DispPlace \ {"sent"} : dpc' = [dpc EXCEPT ![d] = l]
      /\ dq' \in [Dispatcher -> Queue \cup {NoQueue}]
      /\ dpc'[d] \in {"check", "send"} => dq'[d] \in Queue
      /\ \A e \in Dispatcher : e # d => dq'[e] = dq[e] /\ arg'[e] = arg[e]
  BY <1>1 DEF TaskInv, HaveQueue, DispPlace, Dispatch, DispatcherOpen, DispatcherCheck,
     DispatcherKilled, DispatcherSend
<1>3. arg' \in [Dispatcher -> Nat]
  BY <1>1, TaskQueueAssumption DEF Dispatch, DispatcherOpen, DispatcherCheck, DispatcherKilled,
     DispatcherSend
<1>4. TypeOK'
  BY <1>1, <1>2, <1>3 DEF TaskInv, TypeOK
<1>5. HaveQueue' /\ HaveTask'
  BY <1>1, <1>2 DEF TaskInv, HaveQueue, HaveTask
<1>6. OnePlace' /\ AllSent'
  BY <1>1, <1>2, QuietKeeps
<1> QED BY <1>4, <1>5, <1>6 DEF TaskInv

(* mq_receive without a task waits, on an empty queue.                     *)
LEMMA ReceivesNothing ==
  ASSUME TaskInv, NEW w \in Worker, WorkerReceive(w), UNCHANGED task
  PROVE  /\ wpc[w] = "receive" /\ wpc' = [wpc EXCEPT ![w] = "waiting"]
         /\ wpc'[w] = "waiting" /\ msgs[wq[w]] = <<>> /\ UNCHANGED <<wq, msgs>>
<1>1. /\ task \in [Worker -> Dispatcher \cup {NoTask}] /\ msgs \in [Queue -> Seq(Dispatcher)]
      /\ wpc \in [Worker -> WorkerPlace]
  BY DEF TaskInv, TypeOK
<1>2. wpc[w] = "receive" /\ wq[w] \in Queue
  BY DEF TaskInv, HaveQueue, WorkerReceive, WorkerGoes
<1>3. task[w] = NoTask
  BY <1>2 DEF TaskInv, HaveTask
<1>4. msgs[wq[w]] # <<>> => Head(msgs[wq[w]]) \in Dispatcher
  BY <1>1, <1>2
<1>5. ~\E x : x \in Dispatcher /\ x = NoTask
  BY TaskQueueAssumption
<1> QED BY <1>1, <1>2, <1>3, <1>4, <1>5 DEF WorkerReceive, WorkerGoes

(* The steps of a worker that move no task.                                *)
LEMMA WorkerKeeps ==
  ASSUME TaskInv, NEW w \in Worker,
         \/ WorkerStart(w) \/ WorkerOpen(w) \/ WorkerOpenFails(w) \/ WorkerAlloc(w)
         \/ WorkerCheck(w) \/ WorkerRetry(w) \/ WorkerClose(w) \/ WorkerUnlink(w)
         \/ Interrupt(w) \/ WorkerKilled(w)
         \/ WorkerReceive(w) /\ UNCHANGED task
  PROVE  TaskInv'
<1> USE DEF WorkerGoes, queueVars, dispVars
<1>1. /\ UNCHANGED <<msgs, task, done, dispVars>>
      /\ wpc \in [Worker -> WorkerPlace] /\ wq \in [Worker -> Queue \cup {NoQueue}]
      /\ name \in Queue \cup {NoQueue} /\ nqueue \in 0 .. MaxQueue
  <2>1. ASSUME WorkerReceive(w), UNCHANGED task PROVE UNCHANGED msgs
    BY <2>1, ReceivesNothing
  <2> QED
    BY <2>1 DEF TaskInv, TypeOK, WorkerStart, WorkerOpen, WorkerOpenFails, WorkerAlloc, WorkerCheck,
       WorkerRetry, WorkerClose, WorkerUnlink, Interrupt, WorkerKilled, WorkerReceive
<1>2. \E l \in WorkerPlace : wpc' = [wpc EXCEPT ![w] = l]
  <2>1. CASE Interrupt(w)
    BY <1>1, <2>1 DEF Interrupt, WorkerPlace
  <2>2. CASE WorkerCheck(w)
    BY <1>1, <2>2 DEF WorkerCheck, WorkerPlace
  <2> QED
    BY <1>1, <2>1, <2>2 DEF WorkerPlace, WorkerStart, WorkerOpen, WorkerOpenFails, WorkerAlloc,
       WorkerRetry, WorkerClose, WorkerUnlink, WorkerKilled, WorkerReceive
<1>3. /\ name' \in Queue \cup {NoQueue} /\ nqueue' \in 0 .. MaxQueue
      /\ wq' \in [Worker -> Queue \cup {NoQueue}]
      /\ \A v \in Worker : v # w => wq'[v] = wq[v]
  BY <1>1, TaskQueueAssumption DEF Queue, NoQueue, WorkerStart, WorkerOpen, WorkerOpenFails, WorkerAlloc,
     WorkerCheck, WorkerRetry, WorkerClose, WorkerUnlink, Interrupt, WorkerKilled, WorkerReceive
<1>4. terminate' \in [Worker -> BOOLEAN] /\ buf' \in [Worker -> {"none", "buffer", "NULL"}]
  <2>1. terminate \in [Worker -> BOOLEAN] /\ buf \in [Worker -> {"none", "buffer", "NULL"}]
    BY DEF TaskInv, TypeOK
  <2>2. terminate' = terminate \/ terminate' = [terminate EXCEPT ![w] = TRUE]
    BY DEF WorkerStart, WorkerOpen, WorkerOpenFails, WorkerAlloc,
       WorkerCheck, WorkerRetry, WorkerClose, WorkerUnlink, Interrupt, WorkerKilled, WorkerReceive
  <2>3. \/ buf' = buf
        \/ buf' = [buf EXCEPT ![w] = "buffer"] \/ buf' = [buf EXCEPT ![w] = "NULL"]
    BY DEF WorkerStart, WorkerOpen, WorkerOpenFails, WorkerAlloc,
       WorkerCheck, WorkerRetry, WorkerClose, WorkerUnlink, Interrupt, WorkerKilled, WorkerReceive
  <2> QED BY <2>1, <2>2, <2>3
<1>5. TypeOK'
  BY <1>1, <1>2, <1>3, <1>4 DEF TaskInv, TypeOK
<1>6. /\ wpc'[w] \in {"alloc", "loop", "receive", "waiting", "work"} => wq'[w] \in Queue
      /\ wpc[w] = "work" => wpc'[w] \in {"work", "killed"}
      /\ wpc'[w] = "work" => wpc[w] = "work"
      /\ wpc[w] = "killed" => wpc'[w] = "killed"
  <2> USE <1>1, TaskQueueAssumption DEF TaskInv, HaveQueue, Queue, NoQueue
  <2>1. CASE WorkerStart(w) \/ WorkerOpen(w) \/ WorkerOpenFails(w)
    BY <2>1 DEF WorkerStart, WorkerOpen, WorkerOpenFails
  <2>2. CASE WorkerAlloc(w) \/ WorkerRetry(w) \/ WorkerClose(w) \/ WorkerUnlink(w)
    BY <2>2 DEF WorkerAlloc, WorkerRetry, WorkerClose, WorkerUnlink
  <2>3. CASE WorkerCheck(w)
    BY <2>3 DEF WorkerCheck
  <2>4. CASE Interrupt(w)
    BY <2>4 DEF Interrupt
  <2>5. CASE WorkerKilled(w)
    BY <2>5 DEF WorkerKilled
  <2>6. ASSUME WorkerReceive(w), UNCHANGED task
        PROVE  wpc[w] = "receive" /\ wpc'[w] = "waiting" /\ wq' = wq
    BY <2>6, ReceivesNothing
  <2> QED
    BY <2>1, <2>2, <2>3, <2>4, <2>5, <2>6
<1>7. HaveQueue' /\ HaveTask'
  BY <1>1, <1>2, <1>3, <1>6 DEF TaskInv, HaveQueue, HaveTask
<1>8. OnePlace' /\ AllSent'
  BY <1>1, QuietKeeps
<1> QED BY <1>5, <1>7, <1>8 DEF TaskInv

(* A task that is not sent is nowhere.                                     *)
LEMMA NotSent ==
  ASSUME TaskInv, NEW d \in Dispatcher, dpc[d] # "sent"
  PROVE  /\ d \notin done /\ d # NoTask /\ \A w \in Worker : task[w] # d
         /\ \A q \in Queue : \A i \in DOMAIN msgs[q] : msgs[q][i] # d
BY TaskQueueAssumption DEF TaskInv, AllSent, Held, Queued

(* mq_send to a worker that waits.                                         *)
LEMMA HandOverKeeps ==
  ASSUME TaskInv, NEW d \in Dispatcher, NEW w \in Worker, DispGoes(d, "send", "sent"),
         WorkerGoes(w, "waiting", "work"), task' = [task EXCEPT ![w] = d],
         UNCHANGED <<msgs, dq, arg, name, nqueue, wq, buf, terminate, done>>
  PROVE  TaskInv'
<1> USE DEF DispGoes, WorkerGoes
<1>1. /\ dpc[d] = "send" /\ wpc[w] = "waiting" /\ TypeOK /\ task[w] = NoTask
      /\ d \notin done /\ d # NoTask /\ \A v \in Worker : task[v] # d
      /\ \A q \in Queue : \A i \in DOMAIN msgs[q] : msgs[q][i] # d
  BY NotSent DEF TaskInv, HaveTask
<1>2. TypeOK'
  BY <1>1 DEF TypeOK, WorkerPlace, DispPlace
<1>3. HaveQueue' /\ HaveTask'
  BY <1>1 DEF TaskInv, TypeOK, HaveQueue, HaveTask
<1>5. OnePlace'
  BY <1>1 DEF TaskInv, TypeOK, OnePlace, Held
<1>6. \A e \in Dispatcher : Held(e)' <=> Held(e) \/ e = d
  <2>1. task'[w] = d /\ \A v \in Worker : v # w => task'[v] = task[v]
    BY <1>1 DEF TypeOK
  <2>2. \A e \in Dispatcher : task[w] # e
    BY <1>1, TaskQueueAssumption
  <2> QED BY <2>1, <2>2 DEF Held
<1>7. AllSent'
  BY <1>1, <1>6 DEF TaskInv, TypeOK, AllSent, Queued
<1> QED BY <1>2, <1>3, <1>5, <1>7 DEF TaskInv

(* mq_send into the queue.                                                 *)
LEMMA EnqueueKeeps ==
  ASSUME TaskInv, NEW d \in Dispatcher, NEW q \in Queue, DispGoes(d, "send", "sent"),
         Waiting(q) = {}, Len(msgs[q]) < MaxMsg,
         msgs' = [msgs EXCEPT ![q] = Insert(@, d)],
         UNCHANGED <<wpc, task, dq, arg, name, nqueue, wq, buf, terminate, done>>
  PROVE  TaskInv'
<1> USE DEF DispGoes
<1>1. /\ dpc[d] = "send" /\ TypeOK
      /\ d \notin done /\ d # NoTask /\ \A v \in Worker : task[v] # d
      /\ \A r \in Queue : \A i \in DOMAIN msgs[r] : msgs[r][i] # d
  BY NotSent DEF TaskInv
<1>2. PICK s : s = msgs[q]
  OBVIOUS
<1>3. s \in Seq(Dispatcher) /\ DOMAIN s = 1 .. Len(s) /\ Len(s) \in Nat
  BY <1>1, <1>2 DEF TypeOK
<1>4. PICK k \in 1 .. Len(s) + 1 : Insert(s, d) = InsertAt(s, k, d)
  BY <1>1, <1>2, InsertPlace DEF TaskInv
<1>5. PICK t : t = Insert(s, d)
  OBVIOUS
<1>6. /\ t \in Seq(Dispatcher) /\ Len(t) = Len(s) + 1 /\ DOMAIN t = 1 .. Len(s) + 1
      /\ \A j \in 1 .. Len(s) + 1 : t[j] = IF j < k THEN s[j] ELSE IF j = k THEN d ELSE s[j - 1]
  <2>1. /\ t \in Seq(Dispatcher) /\ Len(t) = Len(s) + 1
        /\ \A j \in 1 .. Len(s) + 1 : t[j] = IF j < k THEN s[j] ELSE IF j = k THEN d ELSE s[j - 1]
    <3>1. t = InsertAt(s, k, d)
      BY <1>4, <1>5
    <3>2. /\ InsertAt(s, k, d) \in Seq(Dispatcher) /\ Len(InsertAt(s, k, d)) = Len(s) + 1
          /\ \A j \in 1 .. Len(s) + 1 :
               InsertAt(s, k, d)[j] = IF j < k THEN s[j] ELSE IF j = k THEN d ELSE s[j - 1]
      <4> DEFINE F(r, e, n, x) ==
                   /\ x \in Seq(Dispatcher) /\ Len(x) = Len(r) + 1
                   /\ \A j \in 1 .. Len(r) + 1 :
                        x[j] = IF j < n THEN r[j] ELSE IF j = n THEN e ELSE r[j - 1]
      <4>1. \A r \in Seq(Dispatcher), e \in Dispatcher : \A n \in 1 .. Len(r) + 1 :
              F(r, e, n, InsertAt(r, n, e))
        BY InsertFacts
      <4> HIDE DEF F
      <4>2. F(s, d, k, InsertAt(s, k, d))
        BY <1>3, <4>1
      <4> QED BY <4>2 DEF F
    <3> QED BY <3>1, <3>2
  <2> QED BY <2>1, <1>3
<1>7. msgs' = [msgs EXCEPT ![q] = t] /\ msgs \in [Queue -> Seq(Dispatcher)]
  BY <1>1, <1>2, <1>5 DEF TypeOK
<1>8. msgs'[q] = t /\ \A r \in Queue : r # q => msgs'[r] = msgs[r]
  BY <1>7
<1>9. TypeOK'
  <2>1. msgs' \in [Queue -> Seq(Dispatcher)]
    BY <1>6, <1>7
  <2>2. \A r \in Queue : Len(msgs'[r]) <= MaxMsg
    BY <1>1, <1>2, <1>3, <1>6, <1>8, TaskQueueAssumption DEF TypeOK
  <2> QED BY <1>1, <2>1, <2>2 DEF TypeOK, DispPlace
<1>10. HaveQueue' /\ HaveTask'
  BY <1>1, <1>8 DEF TaskInv, TypeOK, HaveQueue, HaveTask, Waiting
<1>11. \A j \in DOMAIN t : j # k => \E i \in DOMAIN s : t[j] = s[i] /\ i = IF j < k THEN j ELSE j - 1
  BY <1>3, <1>6
<1>12. t[k] = d /\ k \in DOMAIN t
  BY <1>3, <1>6
<1>13. \A i \in DOMAIN s : \E j \in DOMAIN t : t[j] = s[i]
  <2> TAKE i \in DOMAIN s
  <2>1. CASE i < k
    <3>1. i \in 1 .. Len(s) + 1 /\ i \in DOMAIN t
      BY <1>3, <1>6
    <3>2. t[i] = s[i]
      BY <3>1, <2>1, <1>6
    <3> QED BY <3>1, <3>2
  <2>2. CASE ~(i < k)
    <3>1. PICK j : j = i + 1
      OBVIOUS
    <3>2. j \in 1 .. Len(s) + 1 /\ ~(j < k) /\ j # k /\ j - 1 = i
      BY <2>2, <3>1, <1>3
    <3>3. j \in DOMAIN t /\ t[j] = s[i]
      BY <3>2, <1>6
    <3> QED BY <3>3
  <2> QED BY <2>1, <2>2
<1>14. \A r \in Queue, e \in Dispatcher : Queued(e, r)' <=> Queued(e, r) \/ (e = d /\ r = q)
  BY <1>2, <1>8, <1>11, <1>12, <1>13 DEF Queued
<1>15. AllSent'
  BY <1>1, <1>14 DEF TaskInv, TypeOK, AllSent, Held
<1>17. OnePlace'
  <2>1. \A i, j \in DOMAIN s : s[i] = s[j] => i = j
    BY <1>2 DEF TaskInv, OnePlace
  <2>2. \A i \in DOMAIN s : s[i] # d
    BY <1>1, <1>2
  <2>3. ASSUME NEW i \in DOMAIN t, NEW j \in DOMAIN t, t[i] = t[j] PROVE i = j
    BY <2>1, <2>2, <2>3, <1>3, <1>6, <1>11, <1>12
  <2>4. ASSUME NEW i \in DOMAIN t, NEW r \in Queue, r # q, NEW j \in DOMAIN msgs[r]
        PROVE  t[i] # msgs[r][j]
    BY <2>4, <1>1, <1>2, <1>11, <1>12 DEF TaskInv, OnePlace
  <2>5. \A i \in DOMAIN t : t[i] \notin done /\ ~Held(t[i])
    BY <1>1, <1>2, <1>11, <1>12 DEF TaskInv, OnePlace, Held
  <2>6. \A r, u \in Queue : \A i \in DOMAIN msgs'[r], j \in DOMAIN msgs'[u] :
          msgs'[r][i] = msgs'[u][j] => r = u /\ i = j
    BY <1>8, <2>3, <2>4 DEF TaskInv, OnePlace
  <2>7. \A r \in Queue : \A i \in DOMAIN msgs'[r] : msgs'[r][i] \notin done /\ ~Held(msgs'[r][i])
    BY <1>8, <2>5 DEF TaskInv, OnePlace
  <2> QED BY <2>6, <2>7 DEF TaskInv, OnePlace, Held
<1> QED BY <1>9, <1>10, <1>15, <1>17 DEF TaskInv

(* mq_receive, when there is a task.                                       *)
LEMMA ReceiveKeeps ==
  ASSUME TaskInv, NEW w \in Worker, WorkerReceive(w), task' # task
  PROVE  TaskInv'
<1> USE DEF WorkerGoes, dispVars
<1>1. PICK q : q = wq[w]
  OBVIOUS
<1>2. PICK s : s = msgs[q]
  OBVIOUS
<1>3. /\ WorkerGoes(w, "receive", "work") /\ s # <<>>
      /\ task' = [task EXCEPT ![w] = Head(s)] /\ msgs' = [msgs EXCEPT ![q] = Tail(s)]
      /\ UNCHANGED <<name, nqueue, wq, buf, terminate, done, dispVars>>
  BY <1>1, <1>2 DEF WorkerReceive
<1>4. TypeOK /\ q \in Queue /\ task[w] = NoTask
  BY <1>1, <1>3 DEF TaskInv, HaveQueue, HaveTask
<1>5. s \in Seq(Dispatcher) /\ DOMAIN s = 1 .. Len(s) /\ Len(s) \in Nat \ {0} /\ Len(s) <= MaxMsg
  BY <1>2, <1>3, <1>4 DEF TypeOK
<1>6. PICK t : t = Tail(s)
  OBVIOUS
<1>7. /\ t \in Seq(Dispatcher) /\ Len(t) = Len(s) - 1 /\ DOMAIN t = 1 .. Len(s) - 1
      /\ \A i \in 1 .. Len(s) - 1 : t[i] = s[i + 1]
  BY <1>3, <1>5, <1>6
<1>8. PICK d \in Dispatcher : d = Head(s) /\ d = s[1]
  BY <1>3, <1>5
<1>9. msgs'[q] = t /\ \A r \in Queue : r # q => msgs'[r] = msgs[r]
  BY <1>3, <1>4, <1>6 DEF TypeOK
<1>10. task'[w] = d /\ \A v \in Worker : v # w => task'[v] = task[v]
  BY <1>3, <1>4, <1>8 DEF TypeOK
<1>11. d # NoTask /\ d \notin done /\ \A v \in Worker : task[v] # d
  BY <1>2, <1>4, <1>5, <1>8, TaskQueueAssumption DEF TaskInv, OnePlace, Held
<1>12. TypeOK'
  <2>1. msgs' \in [Queue -> Seq(Dispatcher)]
    BY <1>3, <1>4, <1>6, <1>7 DEF TypeOK
  <2>2. \A r \in Queue : Len(msgs'[r]) <= MaxMsg
    <3>1. Len(t) <= MaxMsg
      BY <1>5, <1>7, TaskQueueAssumption
    <3> QED BY <1>4, <1>9, <3>1 DEF TypeOK
  <2>3. task' \in [Worker -> Dispatcher \cup {NoTask}] /\ wpc' \in [Worker -> WorkerPlace]
    BY <1>3, <1>4, <1>8 DEF TypeOK, WorkerPlace
  <2> QED BY <1>3, <1>4, <2>1, <2>2, <2>3 DEF TypeOK
<1>13. HaveQueue' /\ HaveTask'
  BY <1>1, <1>3, <1>4, <1>10, <1>11 DEF TaskInv, TypeOK, HaveQueue, HaveTask
<1>15. \A i \in DOMAIN t : i + 1 \in DOMAIN s /\ t[i] = s[i + 1] /\ s[i + 1] # d
  <2>1. \A i, j \in DOMAIN s : s[i] = s[j] => i = j
    BY <1>2, <1>4 DEF TaskInv, OnePlace
  <2>2. ASSUME NEW i \in DOMAIN t PROVE i + 1 \in DOMAIN s /\ t[i] = s[i + 1] /\ i + 1 # 1 /\ 1 \in DOMAIN s
    BY <1>5, <1>7
  <2> QED BY <1>8, <2>1, <2>2
<1>16. \A i \in DOMAIN s : s[i] = d \/ \E j \in DOMAIN t : t[j] = s[i]
  <2> TAKE i \in DOMAIN s
  <2>1. CASE i = 1
    BY <2>1, <1>8
  <2>2. CASE i # 1
    <3>1. PICK j : j = i - 1
      OBVIOUS
    <3>2. j \in 1 .. Len(s) - 1 /\ j + 1 = i
      BY <2>2, <3>1, <1>5
    <3> QED BY <3>2, <1>7
  <2> QED BY <2>1, <2>2
<1>17. /\ \A r \in Queue, e \in Dispatcher : Queued(e, r)' <=> Queued(e, r) /\ e # d
       /\ \A r \in Queue : Queued(d, r) => r = q
  <2>1. \A e \in Dispatcher : Queued(e, q)' <=> Queued(e, q) /\ e # d
    BY <1>2, <1>9, <1>15, <1>16 DEF Queued
  <2>2. ASSUME NEW r \in Queue, r # q PROVE ~Queued(d, r)
    BY <2>2, <1>2, <1>4, <1>5, <1>8 DEF TaskInv, OnePlace, Queued
  <2> QED BY <1>9, <2>1, <2>2 DEF Queued
<1>18. \A e \in Dispatcher : Held(e)' <=> Held(e) \/ e = d
  <2>1. \A e \in Dispatcher : task[w] # e
    BY <1>4, TaskQueueAssumption
  <2> QED BY <2>1, <1>10 DEF Held
<1>19. Queued(d, q)
  BY <1>2, <1>5, <1>8 DEF Queued
<1>20. AllSent'
  BY <1>3, <1>4, <1>17, <1>18, <1>19 DEF TaskInv, AllSent
<1>21. OnePlace'
  <2>1. ASSUME NEW i \in DOMAIN t, NEW j \in DOMAIN t, t[i] = t[j] PROVE i = j
    <3>1. i + 1 = j + 1 /\ i \in Int /\ j \in Int
      BY <2>1, <1>2, <1>4, <1>7, <1>15 DEF TaskInv, OnePlace
    <3> QED BY <3>1
  <2>2. ASSUME NEW i \in DOMAIN t, NEW r \in Queue, r # q, NEW j \in DOMAIN msgs[r]
        PROVE  t[i] # msgs[r][j]
    BY <2>2, <1>2, <1>4, <1>15 DEF TaskInv, OnePlace
  <2>3. \A r, u \in Queue : \A i \in DOMAIN msgs'[r], j \in DOMAIN msgs'[u] :
          msgs'[r][i] = msgs'[u][j] => r = u /\ i = j
    BY <1>9, <2>1, <2>2 DEF TaskInv, OnePlace
  <2>4. \A r \in Queue : \A i \in DOMAIN msgs'[r] :
          msgs'[r][i] \notin done /\ ~Held(msgs'[r][i]) /\ msgs'[r][i] # d
    <3>1. ASSUME NEW r \in Queue, r # q, NEW i \in DOMAIN msgs[r] PROVE msgs[r][i] # d
      BY <3>1, <1>2, <1>4, <1>5, <1>8 DEF TaskInv, OnePlace
    <3> QED BY <1>2, <1>4, <1>9, <1>15, <3>1 DEF TaskInv, OnePlace
  <2>5. \A r \in Queue : \A i \in DOMAIN msgs'[r] : \A v \in Worker : task'[v] # msgs'[r][i]
    BY <1>10, <2>4 DEF Held
  <2>6. \A u, v \in Worker : task'[u] = task'[v] /\ task'[u] # NoTask => u = v
    BY <1>10, <1>11 DEF TaskInv, OnePlace
  <2>7. \A v \in Worker : task'[v] \notin done
    BY <1>10, <1>11 DEF TaskInv, OnePlace
  <2> QED BY <1>3, <2>3, <2>4, <2>5, <2>6, <2>7 DEF OnePlace, Held
<1> QED BY <1>12, <1>13, <1>20, <1>21 DEF TaskInv

(* The worker has processed its task.                                      *)
LEMMA ProcessKeeps ==
  ASSUME TaskInv, NEW w \in Worker, WorkerProcess(w)
  PROVE  TaskInv'
<1> USE DEF WorkerGoes, queueVars, dispVars, WorkerProcess
<1>1. TypeOK /\ wpc[w] = "work" /\ task[w] # NoTask /\ task[w] \in Dispatcher
  BY DEF TaskInv, HaveTask, TypeOK
<1>2. PICK d \in Dispatcher : d = task[w]
  BY <1>1
<1>3. task'[w] = NoTask /\ \A v \in Worker : v # w => task'[v] = task[v]
  BY <1>1 DEF TypeOK
<1>4. done' = done \cup {d}
  BY <1>2
<1>5. TypeOK'
  BY <1>1, <1>2, <1>4 DEF TypeOK, WorkerPlace
<1>6. HaveQueue' /\ HaveTask'
  BY <1>1, <1>3 DEF TaskInv, TypeOK, HaveQueue, HaveTask
<1>7. \A v \in Worker : v # w => task[v] # d
  BY <1>1, <1>2 DEF TaskInv, OnePlace
<1>8. \A q \in Queue : \A i \in DOMAIN msgs[q] : msgs[q][i] # d
  BY <1>2 DEF TaskInv, OnePlace, Held
<1>9. \A e \in Dispatcher : Held(e)' <=> Held(e) /\ e # d
  BY <1>1, <1>2, <1>3, <1>7, TaskQueueAssumption DEF Held
<1>10. AllSent'
  <2>1. Held(d)
    BY <1>2 DEF Held
  <2> QED BY <1>4, <1>9, <2>1 DEF TaskInv, AllSent, Queued
<1>11. OnePlace'
  <2>1. \A q \in Queue : \A i \in DOMAIN msgs[q] : msgs[q][i] # NoTask
    BY <1>1, TaskQueueAssumption DEF TypeOK
  <2>2. \A q \in Queue : \A i \in DOMAIN msgs[q] : \A v \in Worker : task'[v] # msgs[q][i]
    BY <1>3, <2>1 DEF TaskInv, OnePlace, Held
  <2>3. \A v \in Worker : task'[v] \notin done'
    BY <1>1, <1>3, <1>4, <1>7, TaskQueueAssumption DEF TaskInv, TypeOK, OnePlace
  <2> QED BY <1>3, <1>4, <1>8, <2>2, <2>3 DEF TaskInv, OnePlace, Held
<1> QED BY <1>5, <1>6, <1>10, <1>11 DEF TaskInv

(* The dispatcher is run again, when its last task is nowhere but processed.*)
LEMMA AgainKeeps ==
  ASSUME TaskInv, NEW d \in Dispatcher, Again(d)
  PROVE  TaskInv'
<1> USE DEF DispGoes, queueVars, Again
<1>1. TypeOK'
  BY DEF TaskInv, TypeOK, DispPlace
<1>2. HaveQueue' /\ HaveTask'
  BY DEF TaskInv, TypeOK, HaveQueue, HaveTask
<1>3. OnePlace'
  BY DEF TaskInv, OnePlace, Held
<1>4. \A e \in Dispatcher : e # d => dpc'[e] = dpc[e] /\ (e \in done' <=> e \in done)
  BY DEF TaskInv, TypeOK
<1>5. dpc'[d] # "sent" /\ d \notin done' /\ ~Held(d)' /\ \A q \in Queue : ~Queued(d, q)'
  BY DEF TaskInv, TypeOK, Held, Queued
<1>6. AllSent'
  BY <1>4, <1>5 DEF TaskInv, AllSent, Held, Queued
<1> QED BY <1>1, <1>2, <1>3, <1>6 DEF TaskInv

-----------------------------------------------------------------------------
LEMMA SendKeeps ==
  ASSUME TaskInv, NEW d \in Dispatcher, DispatcherSend(d)
  PROVE  TaskInv'
<1>1. CASE UNCHANGED workerVars /\ dpc'[d] # "sent"
  BY <1>1, DispatcherKeeps
<1>2. CASE ~(UNCHANGED workerVars /\ dpc'[d] # "sent")
  <2>1. /\ DispGoes(d, "send", "sent") /\ Deliver(d, dq[d])
        /\ UNCHANGED <<dq, arg, name, nqueue, wq, buf, terminate, done>>
    BY <1>2 DEF DispatcherSend, DispGoes, TaskInv, TypeOK
  <2>2. dq[d] \in Queue
    BY <2>1 DEF DispGoes, TaskInv, HaveQueue
  <2>3. CASE Waiting(dq[d]) = {}
    BY <2>1, <2>2, <2>3, EnqueueKeeps DEF Deliver
  <2>4. CASE Waiting(dq[d]) # {}
    <3>1. PICK w \in Worker : /\ WorkerGoes(w, "waiting", "work")
                              /\ task' = [task EXCEPT ![w] = d] /\ UNCHANGED msgs
      BY <2>1, <2>4 DEF Deliver, Waiting
    <3> QED BY <2>1, <3>1, HandOverKeeps
  <2> QED BY <2>3, <2>4
<1> QED BY <1>1, <1>2

LEMMA TaskKeeps ==
  ASSUME TaskInv, [Next]_vars
  PROVE  TaskInv'
<1>1. ASSUME NEW d \in Dispatcher, \/ \E a \in Arg : Dispatch(d, a)
                                   \/ DispatcherOpen(d) \/ DispatcherCheck(d) \/ DispatcherKilled(d)
      PROVE  TaskInv'
  BY <1>1, DispatcherKeeps
<1>2. ASSUME NEW d \in Dispatcher, Again(d) PROVE TaskInv'
  BY <1>2, AgainKeeps
<1>3. ASSUME NEW d \in Dispatcher, DispatcherSend(d) PROVE TaskInv'
  BY <1>3, SendKeeps
<1>4. ASSUME NEW w \in Worker,
             \/ WorkerStart(w) \/ WorkerOpen(w) \/ WorkerOpenFails(w) \/ WorkerAlloc(w)
             \/ WorkerCheck(w) \/ WorkerRetry(w) \/ WorkerClose(w) \/ WorkerUnlink(w)
             \/ Interrupt(w) \/ WorkerKilled(w)
      PROVE  TaskInv'
  BY <1>4, WorkerKeeps
<1>5. ASSUME NEW w \in Worker, WorkerReceive(w) PROVE TaskInv'
  BY <1>5, ReceiveKeeps, WorkerKeeps
<1>6. ASSUME NEW w \in Worker, WorkerProcess(w) PROVE TaskInv'
  BY <1>6, ProcessKeeps
<1>7. CASE UNCHANGED vars
  <2>1. UNCHANGED <<msgs, task, done, dpc, arg, wpc, wq, dq, name, nqueue, buf, terminate>>
    BY <1>7 DEF vars, queueVars, workerVars, dispVars
  <2>2. TypeOK' /\ HaveQueue' /\ HaveTask'
    BY <2>1 DEF TaskInv, TypeOK, HaveQueue, HaveTask
  <2>3. OnePlace' /\ AllSent'
    BY <2>1, QuietKeeps
  <2> QED BY <2>2, <2>3 DEF TaskInv
<1> QED BY <1>1, <1>2, <1>3, <1>4, <1>5, <1>6, <1>7 DEF Next, DispatcherStep, WorkerStep, Ended

(* One place means counted once.                                           *)
LEMMA CountedOnce == TaskInv => TaskOnce
<1> SUFFICES ASSUME TaskInv, NEW d \in Dispatcher
             PROVE  LET A == {p \in Queue \X (1 .. MaxMsg) : p[2] \in DOMAIN msgs[p[1]]
                                                           /\ msgs[p[1]][p[2]] = d}
                        B == {w \in Worker : task[w] = d}
                    IN  Cardinality(A) + Cardinality(B) + (IF d \in done THEN 1 ELSE 0)
                          = IF dpc[d] = "sent" THEN 1 ELSE 0
  BY DEF TaskOnce
<1> DEFINE A == {p \in Queue \X (1 .. MaxMsg) : p[2] \in DOMAIN msgs[p[1]] /\ msgs[p[1]][p[2]] = d}
           B == {w \in Worker : task[w] = d}
<1>1. /\ A = {} <=> ~\E q \in Queue : Queued(d, q)
      /\ A # {} => \E p : A = {p}
  <2>1. \A q \in Queue : /\ DOMAIN msgs[q] = 1 .. Len(msgs[q]) /\ Len(msgs[q]) \in Nat
                         /\ Len(msgs[q]) <= MaxMsg /\ MaxMsg \in Nat
    BY TaskQueueAssumption DEF TaskInv, TypeOK
  <2>2. \A q \in Queue : \A i \in DOMAIN msgs[q] : i \in 1 .. MaxMsg
    BY <2>1
  <2>3. \A q \in Queue : \A i \in DOMAIN msgs[q] : msgs[q][i] = d => <<q, i>> \in A
    BY <2>2
  <2>4. A = {} <=> ~\E q \in Queue : Queued(d, q)
    <3>1. ASSUME NEW p \in A PROVE p[1] \in Queue /\ Queued(d, p[1])
      BY DEF Queued
    <3>2. ASSUME NEW q \in Queue, Queued(d, q) PROVE A # {}
      BY <2>3, <3>2 DEF Queued
    <3> HIDE DEF A
    <3> QED BY <3>1, <3>2
  <2>5. ASSUME NEW p \in A, NEW r \in A PROVE p = r
    <3>1. p[1] = r[1] /\ p[2] = r[2]
      BY DEF TaskInv, OnePlace
    <3> QED BY <3>1
  <2> HIDE DEF A
  <2>6. ASSUME A # {} PROVE \E p : A = {p}
    <3>1. PICK p : p \in A
      BY <2>6
    <3> QED BY <2>5, <3>1
  <2> QED BY <2>4, <2>6
<1>2. /\ B = {} <=> ~Held(d)
      /\ B # {} => \E w : B = {w}
  <2>1. d # NoTask
    BY TaskQueueAssumption
  <2>2. \A v, w \in B : v = w
    BY <2>1 DEF TaskInv, OnePlace
  <2> QED BY <2>2 DEF Held
<1>3. /\ d \in done => A = {} /\ B = {}
      /\ B # {} => A = {}
  BY <1>1, <1>2 DEF TaskInv, OnePlace, Held, Queued
<1>4. dpc[d] = "sent" <=> A # {} \/ B # {} \/ d \in done
  BY <1>1, <1>2 DEF TaskInv, AllSent
<1> HIDE DEF A, B
<1>5. /\ A = {} => Cardinality(A) = 0
      /\ A # {} => Cardinality(A) = 1
      /\ B = {} => Cardinality(B) = 0
      /\ B # {} => Cardinality(B) = 1
  BY <1>1, <1>2, FS_EmptySet, FS_Singleton
<1>6. Cardinality(A) + Cardinality(B) + (IF d \in done THEN 1 ELSE 0)
        = IF dpc[d] = "sent" THEN 1 ELSE 0
  BY <1>3, <1>4, <1>5
<1> QED BY <1>6 DEF A, B

-----------------------------------------------------------------------------
(* Why a task can be out of reach.  Queues that are not created yet are    *)
(* empty and nobody's; a queue without the name was removed by a worker    *)
(* that had reason to end; and only such a worker is on its way to remove. *)
QueuesKnown ==
  /\ name <= nqueue
  /\ \A w \in Worker : wq[w] <= nqueue
  /\ \A d \in Dispatcher : dq[d] <= nqueue
  /\ \A q \in Queue : q > nqueue => msgs[q] = <<>>
QuitterGone    == \E w \in Worker : wpc[w] = "exited" /\ Quits(w)
RemovedByQuitter == \A q \in 1 .. nqueue : q # name => QuitterGone
OnlyQuittersEnd  == \A w \in Worker : wpc[w] \in {"close", "unlink"} => Quits(w)

LossInv == TaskInv /\ QueuesKnown /\ RemovedByQuitter /\ OnlyQuittersEnd

LEMMA LossStarts == Init => LossInv
<1> SUFFICES ASSUME Init PROVE LossInv
  OBVIOUS
<1>1. TaskInv
  BY TaskStarts
<1>2. QueuesKnown
  BY DEF Init, QueuesKnown, NoQueue
<1>3. RemovedByQuitter /\ OnlyQuittersEnd
  BY DEF Init, RemovedByQuitter, OnlyQuittersEnd
<1> QED BY <1>1, <1>2, <1>3 DEF LossInv

(* The numbers of queues, as the types bound them.                         *)
LEMMA QueueNumbers ==
  ASSUME TaskInv
  PROVE  /\ nqueue \in Nat /\ name \in Nat /\ MaxQueue \in Nat
         /\ \A w \in Worker : wq[w] \in Nat
         /\ \A d \in Dispatcher : dq[d] \in Nat
         /\ \A q \in Queue : q \in Nat \ {0}
BY TaskQueueAssumption DEF TaskInv, TypeOK, Queue, NoQueue

(* A worker that quit and is gone stays so, and what sends nothing, takes  *)
(* the name from nobody and creates nothing keeps all three.               *)
LEMMA DispatcherLoss ==
  ASSUME LossInv, NEW d \in Dispatcher,
         \/ \E a \in Arg : Dispatch(d, a)
         \/ DispatcherOpen(d) \/ DispatcherCheck(d) \/ DispatcherKilled(d) \/ Again(d)
         \/ DispatcherSend(d)
  PROVE  (QueuesKnown /\ RemovedByQuitter /\ OnlyQuittersEnd)'
<1> USE DEF DispGoes
<1>1. UNCHANGED <<name, nqueue, wq, buf, terminate>>
  BY DEF Dispatch, DispatcherOpen, DispatcherCheck, DispatcherKilled, Again, DispatcherSend,
     queueVars, workerVars
<1>2. \A e \in Dispatcher : dq'[e] <= nqueue
  <2>1. dq' = dq \/ dq' = [dq EXCEPT ![d] = name] \/ dq' = [dq EXCEPT ![d] = NoQueue]
    BY DEF Dispatch, DispatcherOpen, DispatcherCheck, DispatcherKilled, Again, DispatcherSend
  <2>2. /\ dq \in [Dispatcher -> Queue \cup {NoQueue}]
        /\ name <= nqueue /\ NoQueue <= nqueue /\ \A e \in Dispatcher : dq[e] <= nqueue
    <3>1. nqueue \in Nat
      BY QueueNumbers DEF LossInv
    <3> QED BY <3>1 DEF LossInv, TaskInv, TypeOK, QueuesKnown, NoQueue
  <2>3. \A e \in Dispatcher : dq'[e] \in {dq[e], name, NoQueue}
    BY <2>1, <2>2
  <2> QED BY <2>2, <2>3
<1>3. /\ \A w \in Worker : /\ wpc[w] = "exited" => wpc'[w] = "exited"
                           /\ wpc'[w] \in {"close", "unlink"} => wpc[w] = wpc'[w]
      /\ \A q \in Queue : q > nqueue => msgs'[q] = <<>>
  <2>1. CASE wpc' = wpc /\ msgs' = msgs
    BY <2>1 DEF LossInv, QueuesKnown
  <2>2. CASE ~(wpc' = wpc /\ msgs' = msgs)
    <3>1. DispGoes(d, "send", "sent") /\ Deliver(d, dq[d])
      BY <2>2 DEF Dispatch, DispatcherOpen, DispatcherCheck, DispatcherKilled, Again, DispatcherSend,
         queueVars, workerVars
    <3>2. dq[d] \in Queue /\ dq[d] <= nqueue
      BY <3>1 DEF LossInv, TaskInv, HaveQueue, QueuesKnown
    <3>3. CASE Waiting(dq[d]) # {} /\ UNCHANGED msgs
      BY <3>1, <3>3 DEF Deliver, Waiting, WorkerGoes, LossInv, TaskInv, TypeOK, QueuesKnown
    <3>4. CASE wpc' = wpc /\ msgs' = [msgs EXCEPT ![dq[d]] = Insert(@, d)]
      <4>1. \A q \in Queue : q # dq[d] => msgs'[q] = msgs[q]
        BY <3>4 DEF LossInv, TaskInv, TypeOK
      <4>2. \A q \in Queue : q > nqueue => q # dq[d]
        BY <3>2, QueueNumbers DEF LossInv
      <4> QED BY <3>4, <4>1, <4>2 DEF LossInv, QueuesKnown
    <3> QED BY <3>1, <3>3, <3>4 DEF Deliver, Waiting
  <2> QED BY <2>1, <2>2
<1>4. QueuesKnown'
  BY <1>1, <1>2, <1>3 DEF LossInv, QueuesKnown
<1>5. RemovedByQuitter'
  BY <1>1, <1>3 DEF LossInv, RemovedByQuitter, QuitterGone, Quits
<1>6. OnlyQuittersEnd'
  BY <1>1, <1>3 DEF LossInv, OnlyQuittersEnd, Quits
<1> QED BY <1>4, <1>5, <1>6

LEMMA WorkerLoss ==
  ASSUME LossInv, NEW w \in Worker,
         \/ WorkerStart(w) \/ WorkerStep(w) \/ WorkerOpenFails(w) \/ WorkerRetry(w)
         \/ Interrupt(w) \/ WorkerKilled(w)
  PROVE  (QueuesKnown /\ RemovedByQuitter /\ OnlyQuittersEnd)'
<1> USE DEF WorkerGoes, queueVars, dispVars
<1>1. /\ wpc \in [Worker -> WorkerPlace] /\ wq \in [Worker -> Queue \cup {NoQueue}]
      /\ terminate \in [Worker -> BOOLEAN] /\ msgs \in [Queue -> Seq(Dispatcher)]
      /\ buf \in [Worker -> {"none", "buffer", "NULL"}]
  BY DEF LossInv, TaskInv, TypeOK
<1>2. /\ wpc[w] # "exited"
      /\ \A v \in Worker : v # w => /\ wpc'[v] = wpc[v] /\ buf'[v] = buf[v]
                                    /\ terminate'[v] = terminate[v] /\ wq'[v] = wq[v]
  BY <1>1 DEF WorkerStart, WorkerStep, WorkerOpen, WorkerOpenFails, WorkerAlloc, WorkerCheck, WorkerReceive,
     WorkerRetry, WorkerProcess, WorkerClose, WorkerUnlink, Interrupt, WorkerKilled
<1>3. Quits(w) => Quits(w)' \/ wpc[w] = "alloc"
  BY <1>1 DEF Quits, WorkerStart, WorkerStep, WorkerOpen, WorkerOpenFails, WorkerAlloc, WorkerCheck,
     WorkerReceive, WorkerRetry, WorkerProcess, WorkerClose, WorkerUnlink, Interrupt, WorkerKilled
<1>4. QuitterGone => QuitterGone'
  BY <1>2 DEF QuitterGone, Quits
<1>5. wpc'[w] \in {"close", "unlink"} => Quits(w)'
  <2>1. CASE wpc[w] \in {"close", "unlink"}
    BY <1>3, <2>1 DEF LossInv, OnlyQuittersEnd
  <2>2. CASE wpc[w] \notin {"close", "unlink"}
    BY <1>1, <2>2 DEF Quits, WorkerStart, WorkerStep, WorkerOpen, WorkerOpenFails, WorkerAlloc, WorkerCheck,
     WorkerReceive, WorkerRetry, WorkerProcess, WorkerClose, WorkerUnlink, Interrupt, WorkerKilled
  <2> QED BY <2>1, <2>2
<1>6. OnlyQuittersEnd'
  BY <1>2, <1>5 DEF LossInv, OnlyQuittersEnd, Quits
<1>7. /\ \A q \in Queue : q > nqueue => msgs'[q] = <<>>
      /\ UNCHANGED dq
  <2>1. CASE msgs' = msgs
    BY <2>1 DEF LossInv, QueuesKnown, WorkerStart, WorkerStep, WorkerOpen, WorkerOpenFails, WorkerAlloc,
       WorkerCheck, WorkerReceive, WorkerRetry, WorkerProcess, WorkerClose, WorkerUnlink, Interrupt, WorkerKilled
  <2>2. CASE msgs' # msgs
    <3>1. msgs[wq[w]] # <<>> /\ msgs' = [msgs EXCEPT ![wq[w]] = Tail(@)] /\ UNCHANGED dq
      BY <2>2 DEF WorkerStart, WorkerStep, WorkerOpen, WorkerOpenFails, WorkerAlloc,
         WorkerCheck, WorkerReceive, WorkerRetry, WorkerProcess, WorkerClose, WorkerUnlink, Interrupt, WorkerKilled
    <3> QED BY <1>1, <3>1 DEF LossInv, QueuesKnown
  <2> QED BY <2>1, <2>2
<1>8. QueuesKnown' /\ RemovedByQuitter'
  <2>1. CASE WorkerOpen(w) /\ name = NoQueue
    <3>1. /\ nqueue' = nqueue + 1 /\ name' = nqueue' /\ wq' = [wq EXCEPT ![w] = nqueue']
          /\ UNCHANGED <<msgs, dq>>
      BY <2>1 DEF WorkerOpen
    <3>2. QueuesKnown'
      BY <1>1, <3>1, QueueNumbers DEF LossInv, QueuesKnown
    <3>3. \A q \in 1 .. nqueue : QuitterGone
      BY <2>1, QueueNumbers DEF LossInv, RemovedByQuitter, NoQueue
    <3>4. RemovedByQuitter'
      BY <1>4, <3>1, <3>3, QueueNumbers DEF LossInv, RemovedByQuitter
    <3> QED BY <3>2, <3>4
  <2>2. CASE WorkerOpen(w) /\ name # NoQueue
    <3>1. UNCHANGED <<nqueue, name, dq, msgs>> /\ wq' = [wq EXCEPT ![w] = name]
      BY <2>2 DEF WorkerOpen
    <3> QED BY <1>1, <1>4, <3>1 DEF LossInv, QueuesKnown, RemovedByQuitter
  <2>3. CASE WorkerUnlink(w)
    <3>1. UNCHANGED <<nqueue, wq, dq, msgs, terminate, buf>> /\ name' = NoQueue /\ wpc'[w] = "exited"
      BY <1>1, <2>3 DEF WorkerUnlink
    <3>2. Quits(w)
      BY <2>3 DEF WorkerUnlink, LossInv, OnlyQuittersEnd
    <3>3. QuitterGone'
      BY <3>1, <3>2 DEF QuitterGone, Quits
    <3> QED BY <3>1, <3>3, QueueNumbers DEF LossInv, QueuesKnown, RemovedByQuitter, NoQueue
  <2>4. CASE ~WorkerOpen(w) /\ ~WorkerUnlink(w)
    <3>1. /\ UNCHANGED <<name, nqueue>>
          /\ wq' = wq \/ wq' = [wq EXCEPT ![w] = NoQueue]
      BY <2>4 DEF WorkerStart, WorkerStep, WorkerOpenFails, WorkerAlloc, WorkerCheck,
         WorkerReceive, WorkerRetry, WorkerProcess, WorkerClose, Interrupt, WorkerKilled
    <3>2. \A v \in Worker : wq'[v] <= nqueue
      <4>1. NoQueue <= nqueue /\ \A v \in Worker : wq[v] <= nqueue
        BY QueueNumbers DEF LossInv, QueuesKnown, NoQueue
      <4>2. \A v \in Worker : wq'[v] \in {wq[v], NoQueue}
        BY <1>1, <3>1
      <4> QED BY <4>1, <4>2
    <3> QED BY <1>4, <1>7, <3>1, <3>2 DEF LossInv, QueuesKnown, RemovedByQuitter
  <2> QED BY <2>1, <2>2, <2>3, <2>4
<1> QED BY <1>6, <1>8

LEMMA LossKeeps ==
  ASSUME LossInv, [Next]_vars
  PROVE  LossInv'
<1>1. TaskInv'
  BY TaskKeeps DEF LossInv
<1>2. CASE UNCHANGED vars
  <2>1. UNCHANGED <<msgs, wpc, wq, dq, name, nqueue, buf, terminate>>
    BY <1>2 DEF vars, queueVars, workerVars, dispVars
  <2> QED
    BY <1>1, <2>1 DEF LossInv, QueuesKnown, RemovedByQuitter, QuitterGone, OnlyQuittersEnd, Quits
<1>3. CASE ~UNCHANGED vars
  BY <1>1, <1>3, DispatcherLoss, WorkerLoss DEF LossInv, Next, DispatcherStep, Ended
<1> QED BY <1>2, <1>3

(* A queue with a task was created, so it has the name or was removed.     *)
LEMMA LostToQuitters == LossInv => LostOnlyByExit
<1> SUFFICES ASSUME LossInv, NEW d \in Dispatcher, dpc[d] = "sent"
             PROVE  \/ d \in done
                    \/ \E w \in Worker : task[w] = d /\ wpc[w] \in {"work", "killed"}
                    \/ \E q \in Queue : Queued(d, q) /\ (q = name \/ QuitterGone)
  BY DEF LostOnlyByExit, QuitterGone
<1>1. CASE Held(d)
  BY <1>1, TaskQueueAssumption DEF Held, LossInv, TaskInv, HaveTask
<1>2. ASSUME NEW q \in Queue, Queued(d, q) PROVE q = name \/ QuitterGone
  <2>1. msgs[q] # <<>>
    BY <1>2 DEF Queued
  <2>2. q \in 1 .. nqueue
    BY <2>1, QueueNumbers DEF LossInv, QueuesKnown
  <2> QED BY <2>2 DEF LossInv, RemovedByQuitter
<1>3. (\E q \in Queue : Queued(d, q)) \/ Held(d) \/ d \in done
  BY DEF LossInv, TaskInv, AllSent
<1> QED BY <1>1, <1>2, <1>3

-----------------------------------------------------------------------------
(* The inductive invariant holds in every reachable state.                 *)
THEOREM TasksAreSafe == Spec => []TaskInv
<1>1. TaskInv /\ [Next]_vars => TaskInv'
  BY TaskKeeps
<1> QED BY TaskStarts, <1>1, PTL DEF Spec

(* Type correctness; no queue ever holds more than MAX_MESSAGES tasks.     *)
THEOREM QueueTypes == Spec => []TypeOK
<1>1. TaskInv => TypeOK
  BY DEF TaskInv
<1> QED BY TasksAreSafe, <1>1, PTL

(* A task that mq_send took is in one queue, with one worker or processed, *)
(* and never in two of these, whoever is interrupted or killed.            *)
THEOREM TaskInOnePlace == Spec => []TaskOnce
BY TasksAreSafe, CountedOnce, PTL

(* A task is out of reach only after a worker that was told to end, or     *)
(* found no memory, removed a queue; also mq_receive failing takes none    *)
(* away.                                                                   *)
THEOREM OnlyExitsLose == Spec => []LostOnlyByExit
<1>1. LossInv /\ [Next]_vars => LossInv'
  BY LossKeeps
<1> QED BY LossStarts, <1>1, LostToQuitters, PTL DEF Spec
=============================================================================
