# TLA+ models of EmbeddedLinux

The repository collects the programs of a course on Linux system programming.
Most are single-lesson examples; `7.Mid_Project` is a complete multi-threaded
program, and a handful of the others have behaviour that only shows when several
threads, processes or signals meet. This directory holds TLA+ models of them,
TLC configurations that check the models on small instances, and TLAPS proofs
that hold for instances of any size.

Contents: [inventory](#1-the-system) · [the modules](#2-the-modules) ·
[the runs](#3-the-runs) · [fairness](#4-fairness) · [the proofs](#5-the-proofs) ·
[disagreements found](#6-where-code-and-documents-disagree) ·
[not modelled](#7-what-is-left-out) · [plan](#8-plan)

## 1. The system

| Component | State | Operations | What is hard | What makes it correct |
|---|---|---|---|---|
| **P2P chat** (`7.Mid_Project`) | table `conns[MAX_CONN]`, `next_conn_id`, `conns_mutex`; descriptors and TCP connections in the kernel | connect, list, send, terminate, exit; accept; receive | the command thread, the accept thread and one receiver per connection share the table, partly without the mutex; slots and descriptor numbers are reused; two threads remove the same connection | a slot owns its descriptor, a removal closes only its own, nothing that has an ID is lost, receivers and joins end |
| **Task queue** (`8.IPC_Message_Queues`) | POSIX queue under a name, `terminate` flag of each worker | dispatcher: open, send; worker: open or create, receive, unlink | signals at any point, several workers on one name, a queue that is unlinked while others have it open, a full queue | each task in one place, lost only with a worker that was told to end, passed over only for higher priority |
| **Character device** (`Kernel_Buổi 13…`, examples 02–05) | what is registered with the kernel; buffer, size and offsets of example 05 | load, unload; open, read, write, release | every step of loading may fail; the device can be used before loading is over; two files share buffer and size without a lock; unsigned lengths | all that was registered is given back, in reverse order; writes stay in the buffer, reads in what was written |
| **Pipe of two commands** (`9.Pipe`) | descriptor tables of three processes, the pipe | pipe, create_process (fork, dup2, close, exec), wait | who still holds which end | all lines arrive, the wait ends |
| **Condition variable hand-over** (`4.Linux_Thread/Exam3.c`) | mutex, condition, `data`, `data_ready` | produce and signal; wait and print | signals are lost when nobody waits; the mutex is held while joining | no stale value, both threads end |
| **Thread creation, shared counter** (`Exam1_CreateThread.c`, `Exam2.c`) | `shared_counter`, `lock1`; main's loop counter | create, increment, join | an increment is a load and a store; a return from main ends its threads | no increment is lost, main prints after all threads |
| **Readers and writers** (`Exam4.c`) | rwlock, `shared_data` | read; write and print | which side the lock prefers | exclusion, no reader starves |
| **Parent and child** (`3.Linux_Process`, `5.IPC_Signal/Exam3.c`) | the two processes, the child's status, a pending SIGUSR1 | fork, exec, sleep, kill, wait, exit; the handler | order of the ends, a signal before the handler is there, kills from outside | the child's own status is printed, no zombie stays |
| **Signal loops** (`5.IPC_Signal/Exam1`, `2`, `4`) | counters in handlers, the alarm, stdio's buffer | handlers, alarm, pause, select, fgets | pending signals merge, handlers interrupt anything | nothing counts twice, exactly one alarm under way |
| **Shared memory** (`10.IPC_Shared_Memory`) | names, objects and their sizes | create, size, write, unlink; open, read; the reference writer | no synchronisation at all | a finished product is read whole, no SIGBUS once sized |
| **Datagram sockets** (`6.IPC_Socket`) | sockets, ports, socket files, datagrams under way | bind, send, receive, answer, close | loss, doubling, reordering; ports are used again; all Unix clients share one file | no client that is up loses its answer to another |
| **Stream sockets** (`6.IPC_Socket`) | listening sockets, backlogs, connections | bind, accept, read, write, close | either side ends at any time, or resets; stale files, TIME_WAIT | nothing read means the server ended, nobody waits for ever |
| **GPIO modules** (`Buổi 16`) | line 27: who requested it, its level | load and unload of two drivers | both drive the same line, and free it by number | the line is low and free when both are gone |
| **String utilities** (`1.General_Knowledge`) | none | reverse, trim, to int | empty strings, spaces only, the range of int | equal to a reference definition, no index outside the array |
| File status (`2.…`), hello modules (`Buổi 15`, `Buổi 13/01`) | none of their own | a sequence of calls | nothing | – |

The components are separate programs; nothing but the kernel connects them. The
interactions are inside them: in the chat, function calls from three kinds of
threads into `connection.c`; in the task queue, the shared memory and the sockets,
a name or an address under which one program finds another; in the
character device, the file operations the kernel calls and the module's load
and unload; in the thread programs, variables and locks; in the process programs,
inherited descriptors, signals and exit statuses.

`PROJECT.json` lists each component with its status, and each hazard at its
line with the properties that cover it.

## 2. The modules

### Chat

| Module | Models |
|---|---|
| `ChatTable` | `connection.c`: the table, its mutex and its helpers, as operators on `conns`, `next_conn_id`, `conns_mutex` |
| `ChatNet` | the kernel: descriptor numbers (the lowest free one is handed out), TCP connections with inbox, shutdown and end of file, and the remote peers; external |
| `Chat` | `main.c`, `command.c`, `server.c`: all threads as one state machine over the two |
| `ConnLedger` | the abstract specification: each connection is opened, listed, taken off, closed, each once and in this order |
| `ChatProps` | the properties, the refinement mapping to `ConnLedger`, the inductive invariant, fairness |
| `ChatProofs`, `ChatDialProofs` | the theorems on the chat's properties |
| `LedgerProofs` | the theorem that the chat implements `ConnLedger` |
| `MCChat` | the module TLC runs |

*State.* `conns`, `next_conn_id` and `conns_mutex` are the variables of the same
names (slots count from 0 as in C; `NoSlot`, the index −1, also stands for the local `idx`
before it is set). `pc`, `idx`, `fd`, `id`, `sock` are what each thread keeps
in locals; `dest` is `serv_addr` of `cmd_connect`. `fdt` and `socks` are the
kernel's. `reg` is a history variable: the ID each connection entered the table
with. `proc` says how the process stands: running, exited, failed
(`handle_error`), killed (SIGPIPE) or crashed (use of a wild index or thread ID).

*Steps.* One step is a stretch of code with at most one access to something that
threads share, so all unlocked reads are separate steps. Three merges are made:
taking the mutex with the first access under it, and releasing it with the last;
a search of the table (`find_index_by_id`, `exists_connection_with_addr`) is
one access; and a system call on a slot's descriptor, as in `MainSend` and
`MainShutdown`, is one step with the load of `conns[idx].sock_fd` that gives it its argument.
The last two are abstractions: in C the loop reads slot after slot, and a descriptor may be
closed, and its number given out again, between the load and the call. A fault that needs a
slot to change in the middle of one search, or in that gap, is not seen.
`AddReserve`/`AddFill` are the two halves of `add_new_connection`, because the
slot is active before its fields are written and the unlocked searches see that.
A `thread_id` is named after the connection its receiver was made for.

*Failures.* With `MayFail`, `accept`, `connect` and `pthread_create` fail at
will. A peer connects, sends, closes or resets at any time. A `send` on a
connection that was reset or shut down may or must raise SIGPIPE, which ends the
program.

### Task queue

`TaskQueue` has the two programs as processes: workers
(`WorkerStart … WorkerUnlink`), dispatchers (`Dispatch … DispatcherSend`) and the
kernel's queues. A queue that is unlinked stays for those who have it open, so
`name` stands for several queues in turn. `mq_receive` is two steps where it
waits; `mq_send` hands a task straight to a waiting worker, as Linux does. SIGINT
(`Interrupt`) may come anywhere; `WorkerKilled` and `DispatcherKilled` are deaths
without clean-up. `WorkerOpenFails` and, with `ReceiveFails`, `WorkerRetry` are the
error paths of `mq_open` and of an `mq_receive` that fails other than by a signal; `buf`
is what `malloc` gave the worker, and without a buffer it closes and unlinks. Priorities are
unsigned long on the command line and unsigned int in `mq_send` (`Prio`, modulo `UintSpan`).
A dispatcher is a task and the program that sends it; once the task is processed, the program
may be run again with the same priority (`Again`), so tasks come without end though their names
are few. `TaskQueueProps` states the properties, `TaskProofs` proves the safety properties.

### Character device

`ChrdevLife` describes each example by three lists read off the code: the steps of
`chdev_init`, what the label each step jumps to releases, and what `chdev_exit`
releases. The actions run these lists one step at a time, with failures
(`Fail`, and `FailUnseen` where the code tests for NULL but gets an `ERR_PTR`), while
programs open, use and close the device and `rmmod` respects the reference
count. The kernel is taken to be 6.4 or later, where `class_create` has one argument as in the
sources. There `class_destroy` does nothing for an `ERR_PTR` class, and `device_create` with one
fails, unseen again; but `device_destroy` with one faults (`ReleaseFaults`): the `insmod` or
`rmmod` that called it dies, and the module stays with what it has not released (`mod` = "oops").
A file can be opened once the device is there and `cdev_add` is done, also while `chdev_init` is
still at work or unwinds, as 05 does after its `kmalloc` failed.

`ChrdevBuf` is example 05's `m_open`, `m_read`, `m_write`, `m_release`: a call is split where
the code reads `m_dev.size`, copies, and sets it. `call` is what a program's call in progress
computed. `own` says whether it works at the file's offset, as `read()` and `write()` do, or at
one that the program gives, as `pread()` and `pwrite()` do: nothing in the module forbids the
second. Offsets may so lie anywhere below `Half` (2^63), and `size - *offset` and `PAGE_SIZE -
*offset` wrap at `Span`, twice that. The kernel's part is what it refuses: a call that would end
beyond the largest offset (`Asks`), and the copy of more than `CopyMax` bytes from a program
(`WriteCopy`). A read that leaves the buffer returns what lies there, fails, or ends the
program; the model goes on after each of the three.

`GpioLine` has the calls of the two GPIO drivers on the one line they share: `GpioFree`
and `GpiodPut` free it whoever has it, as the library does. `DeviceProofs` holds the
theorems on all three.

### Threads, processes, sockets and strings

These programs are small, so several share a TLC module. Each program keeps its own
component module with its own variables and specification (`CounterSpec`,
`CondSpec`, …, which the theorems are about); the `MC` module composes them with a
variable `exam` that says which program a behaviour is of. The programs never
run together, so the composition adds no interleaving and the state counts add up.

| TLC module | Components | Models |
|---|---|---|
| `MCThreads` | `Counter` | `Exam1_CreateThread.c` and `Exam2.c`: creation, the threads, join; a `pthread_create` that fails ends main, and with it the threads |
| | `CondHandoff` | `Exam3.c`: the mutex, one sleeper of the condition, and spurious wakeups as POSIX allows them |
| | `RWLock` | `Exam4.c`: the lock of the C library with its default kind, which lets readers in while other readers hold it |
| `MCProcesses` | `Pipe` | `9.Pipe`: the descriptor tables of main, `ls` and `wc`; `create_process` is `CreateProcess` (parent) and `Redirect`, `ExecCommand` (child) |
| | `Processes` | the four programs of `3.Linux_Process` and `5.IPC_Signal/Exam3.c`, told apart by `prog`: one parent, one child, `init` |
| | `SignalLoops` | `5.IPC_Signal/Exam1`, `Exam2`, `Exam4`: at most one pending signal of a kind, a handler blocks its own signal, stdio may read ahead of `fgets` |
| `MCDemos` | `SharedProduct` | producers, consumers and the reference writer; a product is stored and loaded part by part, in any order |
| | `Datagrams` | clients and servers of both families; IPv4 loses, doubles and reorders, and delivers to whoever has the port when a datagram comes: `SendHello` gets its port from the kernel, any that is free, so also one that a client had before (`udpPort`, `HasPort`). Unix delivers to whoever has bound the file |
| | `Streams` | clients and servers of both families; `Hangup` is what the end of a process does to its connections; `Reset` is the RST that may follow it when a killed client's host gives up waiting, in the backlog or later, which turns the server's `write` into SIGPIPE (`WriteHello`) |
| | `StrUtils` | `str_reverse`, `str_trim`, `str_to_int`, a turn of a loop a step, on an array of exactly the string's length; `Peek` lets a read beyond it return anything |
| `MCDevice` | `ChrdevLife`, `ChrdevBuf`, `GpioLine` | the kernel modules, above |

The proofs of these are in `ThreadProofs`, `ProcessProofs` and `DemoProofs`, one for each of the
first three TLC modules, and cover all their components.

Definitions called *Slip* in a comment are faulty variants of the definition that
follows; they are used only to see that a property notices the fault.

## 3. The runs

Runs that pass:

| Run | Checks | Instance, and why it is enough |
|---|---|---|
| `chat_Safety` | `TypeOK`, `ActiveOwnsFd`, `CloseHitsOwn`, `RegisteredNeverLost`, `ListSnapshot`, `NoDupOutbound`, `IInv`, and `LedgerSpec` (refinement of `ConnLedger`) | 2 slots, 2 connections, dialled or accepted, every call may fail. Both threads add at once, every pair of threads meets on a slot, and the second connection may get the slot and the descriptor number of the first, which is what a late remover would need. The theorems of section 5 say the same of any size. 674 000 states, 1 minute |
| `chat_Live` | `EndedRemoved` | 1 slot, 2 accepted connections with one unread message each: a connection that is ended by its peer, by `terminate` or by `exit` while its receiver has input to read, and a second one that takes its slot or finds the table full. 383 000 states, 2 minutes |
| `tasks_Safety` | `TypeOK`, `TaskOnce`, `LostOnlyByExit` | 2 workers, 3 dispatchers, a queue of two places, so that it fills up while tasks of different priority wait; two queues in turn; a legal, a refused and a cut priority (`UintSpan` = 4); failing `mq_receive`. Symmetric in workers and in dispatchers. 931 000 states, 1 minute |
| `tasks_Live` | `TaskServed`, `SenderProceeds` | one queue of two places, 3 dispatchers that send again and again with a low or a high priority, 2 workers, one of which is never stopped (`Few`, in `MCTaskQueue`). So a low task can be overtaken for ever, a full queue can have two dispatchers before it, and the worker can find what a killed one left. `Few` keeps either the third dispatcher or the second worker out: no promise is made for a worker that is stopped, and workers are alike, so the one that is not may be `First`; to combine all five would only add more of the same. No symmetry, no failing `mq_receive`. 52 000 states, 1.5 minutes |
| `device_All` | `DeviceTypeOK`, `GivesBackAll`, `ReleasedInOrder`, `FilesServed`, `NoJunkRead`, `WithinArea`, `LineGivenBack` | any two of the four examples one after the other with two programs, so that a load meets what another left; two programs interleaved on a buffer of 3 bytes (`Area`), with lengths 0, 1, 2 and 4, so below and beyond it, and offsets 0, 2 and 5 given by `pread` and `pwrite`, of which the last is beyond the buffer; `CopyMax` 4 and `Half` 8, so that every wrapped length (9 and more) is beyond both, as with the kernel's 2^31 and 2^63; both GPIO drivers at any point of each other. 1 638 000 states, 1.5 minutes |
| `threads_All` | `ThreadsTypeOK`, `CountRight`, `SignalPerValue`, `WriterPrintsOwn`, `AllJoined`, `ReaderServed` | three threads of three increments; the 10 rounds of the source with up to two spurious wakeups (`SignalPerValue` promises new values only as long as there was none, and one value for each wakeup always); three readers, so that two can overlap for ever, and two writers. 35 000 states |
| `procs_All` | `ProcessesTypeOK`, `NoneLeftBehind`, `EndsWithCommands`, `ChildIsOwn`, `SignalsOnce`, `AllEnd` | 7 lines through a pipe of 3, so `ls` blocks and resumes; two rounds of the orphan and the five SIGUSR1s of the source; five signals and four pieces of input for the loops, more than the three SIGINTs that end Exam1. 24 400 states |
| `demos_All` | `DemosTypeOK`, `ProductRight`, `OwnAnswer`, `BindsUnlessRaced`, `StreamsHold`, `StringsRight`, `NobodyWaits` | two producers and two reference writers that meet in each other's objects, one consumer, a product of two parts; two clients and two servers of either kind; two ports for the IPv4 clients, which the second may share with the first that is gone, or not; a backlog of one so that a client has to wait, and to be reset there; every string of up to four of `" "`, `-`, `1`, `9`, `x`, with an `int` of 6 and a `long` of 9 bits (`IntMax` = 31, `LongMax` = 255) so that both ranges are left. 139 000 states, 1.5 minutes |

Properties of a bundle are conjunctions of those of its components, which the
component modules define one by one and comment.

The runs `chat_TerminatesNamed`, `chat_ExitClosesAll`, `tasks_InterruptExits` and
`pipe_WaitEnds` end in a counterexample; see section 6.

The bounds, all named in guards: `MaxConn`, `MaxSock` (connections that ever exist), `MaxInbox`
(unread messages per connection; datagrams that wait at a socket), `MaxMsg`, `MaxQueue` (queues
created), `MaxLoad` (runs of insmod), `Area`, `Half`, `CopyMax`, `Size` and `Offset` (buffer,
range of an offset and half that of a length, largest copy, lengths and offsets passed to a
call), `DgPort`, `NumThreads`, `Increment`, `Threshold`, `MaxUnasked` (spurious wakeups),
`NumReaders`, `NumWriters`, `MaxWrites`, `Lines`, `Cap`, `Rounds`, `Signals`, `MaxSignals`,
`MaxPieces` (pieces of input), `MaxObj` (memory objects), `MaxDoubled` (datagrams that arrive
twice), `Backlog`, `MaxLen`, `IntMax`, `LongMax`. IDs and priorities need no more values than
there are connections and tasks.

Deadlock is checked except in `threads_*`, `procs_*`, `pipe_*` and `demos_All`, whose programs
end, and, as section 6 shows, may hang, and in `tasks_Live`, where `Few` leaves out the signal that
would wake a worker for which no task is left. In `Chat` and `TaskQueue` a program that has ended
takes explicit idle steps (`Stopped`, `Ended`); the kernel modules can always be loaded again
or used.

## 4. Fairness

- Chat: weak fairness for the command thread and the accept thread, strong
  fairness for each receiver. A receiver that ends must take the mutex, which the two
  others take and release again and again (`list` in a loop, say), so that being
  able to go on comes and goes; the mutex of the C library is not strictly fair, but
  it does not pass a thread over for ever. Commands, peers and failures have no
  fairness: users and peers owe nothing.
- Task queue: weak fairness for each started program, and strong fairness for the send of each
  dispatcher. A full queue has room again each time a worker receives, and another dispatcher
  may take that place first; but Linux hands a place that gets free to a sender that sleeps in
  `mq_send`, in turn, so none is passed over for ever. Starting, running again, signals and
  kills have none. `tasks_Live` has no failing `mq_receive` (`ReceiveFails` = FALSE), since one
  that fails for ever serves nobody.
- Threads: weak fairness for main and each thread, the waits for a mutex included;
  `AllJoined` needs no more, as no thread of these programs takes a mutex again and again
  while another waits (`Exam2` takes it once per thread, `Exam3` has two threads). Spurious
  wakeups have none. A reader of `Exam4` needs only weak fairness too: readers never keep each
  other out, so once a writer unlocks it stays able to go on until the next write.
- Processes and signal loops: weak fairness for parent and child, each command of the pipe,
  `init`, the clock and the delivery of pending signals. Signals from people, input and deaths
  from outside have none.
- Datagrams and streams: weak fairness for each process that was started and for the
  network, which need not deliver but does not keep a datagram under way for ever.
- The kernel modules, shared memory and strings claim no liveness.

## 5. The proofs

All theorems hold for every value of the constants and any interleaving, failures
and kills included.

| Theorem | Module | Statement |
|---|---|---|
| `ChatInvariant` | `ChatProofs` | `Spec => []IInv` |
| `ChatTypes` | `ChatProofs` | `Spec => []TypeOK` |
| `ActiveSlotsOwnTheirFd` | `ChatProofs` | `Spec => []ActiveOwnsFd` |
| `ClosesOnlyItsOwn` | `ChatProofs` | `Spec => []CloseHitsOwn` |
| `NoConnectionIsLost` | `ChatProofs` | `Spec => []RegisteredNeverLost` |
| `ListIsConsistent` | `ChatProofs` | `Spec => []ListSnapshot` |
| `NothingDialledTwice` | `ChatDialProofs` | `Spec => []NoDupOutbound` |
| `KeepsTheLedger` | `LedgerProofs` | `Spec => LedgerSpec` |
| `QueueTypes` | `TaskProofs` | `Spec => []TypeOK` |
| `TaskInOnePlace` | `TaskProofs` | `Spec => []TaskOnce` |
| `TasksAreSafe` | `TaskProofs` | `Spec => []TaskInv` |
| `OnlyExitsLose` | `TaskProofs` | `Spec => []LostOnlyByExit` |
| `CallsStayWithin` | `DeviceProofs` | `BufSpec => []WithinArea` |
| `NothingLeaks` | `DeviceProofs` | `BufSpec => []NoJunkRead` |
| `LineIsFree` | `DeviceProofs` | `GpioSpec => []LineGivenBack` |
| `LoadsGiveBack` | `DeviceProofs` | `LifeSpec => []GivesBackAll` |
| `LoadsReleaseInOrder` | `DeviceProofs` | `LifeSpec => []ReleasedInOrder` |
| `OpenFilesAreServed` | `DeviceProofs` | `LifeSpec => []FilesServed` |
| `DeviceIsTyped` | `DeviceProofs` | `Spec => []DeviceTypeOK` |
| `CounterIsRight` | `ThreadProofs` | `CounterSpec => []CountRight` |
| `HandoffIsRight` | `ThreadProofs` | `CondSpec => []SignalPerValue` |
| `WriterIsAlone` | `ThreadProofs` | `RWSpec => []WriterPrintsOwn` |
| `ThreadsAreTyped` | `ThreadProofs` | `Spec => []ThreadsTypeOK` |
| `CommandsKeepTheEnds` | `ProcessProofs` | `PipeSpec => [](EndsWithCommands /\ ReapsBoth)` |
| `ParentsKnowTheirChild` | `ProcessProofs` | `ProcSpec => [](ChildIsOwn /\ ChildEndsFirst)` |
| `NobodyIsLeft` | `ProcessProofs` | `Spec => []NoneLeftBehind` |
| `SignalsCountOnce` | `ProcessProofs` | `Spec => []SignalsOnce` |
| `ProcessesAreTyped` | `ProcessProofs` | `Spec => []ProcessesTypeOK` |
| `ProductIsRight` | `DemoProofs` | `ShmSpec => []ProductRight` |
| `AnswersReachTheirClients` | `DemoProofs` | `DgSpec => []OwnAnswer` |
| `BindFailsOnlyRaced` | `DemoProofs` | `Spec => []BindsUnlessRaced` |
| `StreamsAreKept` | `DemoProofs` | `Spec => []StreamsHold` |
| `StringsAreRight` | `DemoProofs` | `StrSpec => [](StrTypeOK /\ StringsRight)` |
| `DemosAreTyped` | `DemoProofs` | `Spec => []DemosTypeOK` |

`Spec` is the specification of the TLC module that the proof module extends. Where that composes
several programs, a lemma (`ThreadsAreThree`, `DeviceIsThree`, `ProcessesAreThree`, `EachRuns`)
says that a behaviour of the composition is one of each component, so a component's theorem
carries over; the theorems with a component's own specification are stated before it.

### The chat

They rest on the named assumptions of `ChatTable`, `ChatNet` and `Chat` (positive
bounds, distinct names of threads, the mutex and connections) and on nothing else.

The argument. None of the safety properties is inductive: what protects a
slot is not visible in the table. `IInv` is `TypeOK`, `Placed` and `Coherent`:

- `Placed` says which threads may stand where, and with which kind of index.
- `HalfChanged`: a slot that is reserved but not filled, or deactivated but not
  closed, is under the mutex, as is the whole table while `list` reads it. So two
  half-changed slots never coexist.
- `AddedByOne`: between `connect`/`accept` and `pthread_create` a connection belongs
  to one thread, its receiver does not exist, and until it is filled in its
  descriptor is open and in no slot.
- `UnbornUnknown`, `OneFdEach`: a connection has at most one descriptor, none before
  it exists.
- `IdsFresh`: IDs already given are below `next_conn_id` and distinct.
- `OwnersOwn`: a slot that is filled or being closed owns its descriptor, no two
  slots own the same, and each open descriptor that has an ID has an owner.

The stale indices that `terminate`, `exit` and receivers carry around need no
invariant: `remove_connection_by_index` tests `active` under the mutex, so with a
stale index it either does nothing or closes the slot's *present* connection
properly. That is why the proofs succeed and `TerminatesNamed` still fails.

`NoDupOutbound` needs one more fact, `DialledOnce`: while Main is between the duplicate
check and the filling in of its slot, no filled slot has the address it dials. Other
threads keep it, because they only take slots off or fill in addresses nobody dials
(`FillsNothing`, `FillKeeps`); it would fail if a second thread executed `connect`.

`KeepsTheLedger` maps a connection to its standing (`Standing`, in `ChatProps`). `LedgerStill`
is what a step must keep for the ledger to stutter: descriptors, IDs, and which slot is filled
with which descriptor. Five kinds of step break it, and each moves one connection by one action
of the ledger: a descriptor is handed out (`ConnectOpens`, `AcceptOpens`: Open), a reserved slot
is filled (`FillEnters`), a slot is deactivated (`RemoveLeaves`), and its descriptor is closed
(`RemoveCloses`). All others are still. That a removal closes the connection it took off, and
that filling a slot moves no other connection, is where `OwnersOwn` is needed (`OwnersDiffer`).

`chat_Safety` checks `IInv` itself with TLC, so the invariant proved is one that
holds in the reachable states of an instance. The proof has a lemma per action, and under it
a step per conjunct the action can disturb; frame lemmas (`SlotsKept`, `Quiet`)
carry the rest.

### The task queue

The assumptions are those of `TaskQueue` (positive bounds, finite sets, a `NoTask` that is
no task). `TaskInv` strengthens `TypeOK` and `TaskOnce` by

- `HaveQueue`, `HaveTask`: who is in the middle of something has its queue open, and a worker
  has a task exactly while it works or was killed doing so;
- `OnePlace`, `AllSent`: a task is in no two places, and it is somewhere exactly when its
  dispatcher has returned from `mq_send`. `TaskOnce`, which counts, follows (`CountedOnce`).

`LostOnlyByExit` needs to know why a queue may have no name. `LossInv` adds

- `OnlyQuittersEnd`: only a worker that was told to end, or that `malloc` left without a buffer,
  closes and unlinks; in particular none does because `mq_receive` failed;
- `RemovedByQuitter`: a queue that was made and is not the one the name leads to was removed by
  such a worker, which has exited. As workers unlink the *name*, it may have been another's queue;
- `QueuesKnown`: a queue that was not made yet is empty and nobody has it open.

### The small programs

Each has an inductive invariant beside its theorem:

- `BufInv`: `Calls`: a call is in progress only on an open file, a read ends where an offset may
  be, and a write whose length did not wrap ends in the buffer; `Alone`: the offset of a program
  that has the device for itself, and never used `pwrite`, is within `size`, and so is the end
  of its read; and the buffer is either wholly cleared (`Cleared`) or nothing was written yet
  (`Fresh`: `size` is 0 and every file at its start), which is why `read` gets no junk.
  `ToWriteFits` shows that a write's length either ends in the buffer or has wrapped to more
  than `CopyMax`, which the kernel does not copy. Assumed is only that the buffer is no larger
  than the kernel's largest copy, and that no larger than half the range of a `size_t`. With
  `pread`, or two files, reads do leave the buffer (section 6).
- `GpioInv`: the line is high only for a loaded driver that set it, and `gpio-driver.c` has it
  only while that module is loaded; its release cannot fault.
- `LifeInv`: for 03 and 04, `TodoRight` pairs the steps that are left with what may be held:
  while loading (`Loading`) exactly what the steps before took, while it unwinds or unloads
  (`Unloading`) no more than the steps left will release. So nothing is held when nothing is
  left; a module that faults has steps left for ever, and is never gone. A load that unwinds
  holds no cdev. `FilesRight`: a file is open only on the present load, which is live, or has
  its cdev and so only steps left that cannot fail.
- `CounterInv`: the counter is the *number of increments made*, the cardinality of the set of
  pairs (thread, its count) done; with all threads ended that set is all pairs, and its size
  the product. Only the holder of `lock1` is between load and store.
- `CondInv`: a wakeup stands for a signal of its own, with a value not printed yet, unless it
  was spurious; the bound allows one more print for each spurious wakeup there was.
- `RWInv`: no two writers hold the lock, and what a writer loaded is still there when it stores.
- `PipeInv`: main's standard streams and `wc`'s standard output are never ends of the pipe, and
  main has closed its two other descriptors before it waits. `PipeEnds` adds which end each
  command has at each point, so that a `dup2` never takes a closed descriptor, and `PipeCounts`
  that what was written is counted or in the pipe.
- `ProcInv`: from fork to wait the child exists, because only `init` could reap it and `init`
  has it only when main is gone; so every kill and every status is of that child. `ProcCounts`
  bounds what the SIGUSR1 handler counted, with the pending one, by what was sent.
- `LoopInv`: a counter, the handler that is running and the pending set together stand for no
  more signals than came; outside the handler and the re-arming exactly one alarm is set or
  pending (`LoopPlaces` says where an alarm can be at all).
- `ShmInv`: what a consumer found in its object is still there, and what it has loaded of that
  it has seen; the name stands only for a producer that has not come to its `shm_unlink`, or
  never will.
- `DgInv`, for IPv4: `Ported`: a client that is up has a port, and no two of them the same;
  `Addressed`: a datagram to the server is a request that came from the port of the client it
  names; every other, in the network, in an inbox or in a server's hand, is addressed to that
  port. So it can come to another client only when that one has the port, and then the one that
  asked is gone. (That a client gets only its own answer is `OwnAnswerInet`, and for the Unix
  family `OwnAnswerUnix`; both fail.) `DgTypes` adds, for the Unix family, `FileFree`: between
  its unlink and its bind a process finds no file, or another bound it meanwhile.
- `StInv`: `BacklogRight`: a client waits in one backlog, once, connected and not served;
  `ServesRight`: who is served is connected to that server, and over IPv4 the hello is written
  before the connection is closed; `LostWithServer`: a connection closed with nothing written to
  it, and a client that read nothing, have a server that is over. A server that serves on closes
  only after it wrote, and one that cannot write to a connection that was reset is ended by
  that, which is why the two can never be confused.
- `StrInv`: what lies outside `i .. j` is done and what lies inside is not (`Mirrored`, for
  `str_reverse`), or is spaces (`Trimmed`, for `str_trim`); all indices stay in the array.

`str_to_int` is one step, but computes a recursive function, `Value`. What it computes is proved by
least counterexample (`Least`, from the well-foundedness of `<` on the naturals), which needs no
operator parameter: a least length at which the sum of the digits is no number, or is not
determined, has a predecessor (`SumsExist`, `ValueIsSum`, `ValueIsNat`). `NumberTaken` and
`NoNumberLeft` relate where `strtol` stops to `IsNumber`, and `ToIntKeeps` says that the cut
to an `int` changes no number that fits, for any `IntMax`.

They assume what the modules name: positive or natural bounds and disjoint sets of processes.

### Only model-checked

Every invariant, the action property and the refinement that a passing run checks has its theorem
above. The rest is liveness, `EndedRemoved`, `TaskServed`, `SenderProceeds`, `AllJoined`,
`ReaderServed`, `AllEnd` and `NobodyWaits`: it rests on fairness and so on ENABLED, which the
prover does not handle, and stays with TLC. So do the counterexamples of section 6.

## 6. Where code and documents disagree

Each of the first four is a run that ends in a counterexample; `PROJECT.json` quotes
the line of the document.

| Run | What happens |
|---|---|
| `chat_TerminatesNamed` | `terminate` keeps the index it looked up while it joins a thread, and closes another connection that took the slot meanwhile |
| `chat_ExitClosesAll` | a connection accepted during `exit`, into a slot the scan has passed, stays open |
| `tasks_InterruptExits` | a SIGINT between the test of `terminate` and `mq_receive` is forgotten, the worker waits on |
| `pipe_WaitEnds` | `wc` inherits the write end of its own input, so it never sees end of file, and main never returns |

The others are stated, each with the document it quotes, at the end of the
module named, and are broken as well; putting one into the cfg of the component's run
as `INVARIANT`, or as `PROPERTY` where it is temporal, prints the behaviour.

| Definition | Module | What happens |
|---|---|---|
| `SendsToNamed` | `ChatProps` | `send` writes to another connection that took the slot after the lookup |
| `ExitEnds` | `ChatProps` | `exit` joins the receiver of a connection that it has not shut down, because it was accepted after the first loop (with the cfg of `chat_Live`) |
| `AddReturnsOwnId` | `ChatProps` | the ID is read after the unlock and may be another's (needs 1 slot and 3 connections) |
| `ReceiverHasIndex` | `ChatProps` | with a full table `connect` starts a receiver with index -1 (needs `MaxConn` = 1) |
| `ReceiverHearsItsPeer` | `ChatProps` | a receiver that starts late serves another connection (needs 1 slot and 3 connections) |
| `TaskReachable` | `TaskQueueProps` | an exiting worker removes the queue with its tasks; `LostOnlyByExit` is what is kept: nothing else does |
| `UnlinkedByOwner` | `TaskQueueProps` | an exiting worker removes the queue another one serves |
| `PriorityAsGiven` | `TaskQueueProps` | a priority of 2^32 or more is cut to 32 bits |
| `NumberGivenBack` | `ChrdevLife` | 02 unregisters a number it did not allocate |
| `BufferedGivesBackAll` | `ChrdevLife` | 05 leaves its cdev (`kmalloc` fails) or its buffer (unload) behind |
| `EveryModuleGoes` | `ChrdevLife` | without a class, `device_destroy` faults on the way out of 03, 04 and 05, and the module stays for ever |
| `LoadedIsComplete` | `ChrdevLife` | 03 loads without class or device, as `ERR_PTR` is not NULL |
| `BufferReady` | `ChrdevLife` | 05 can be used before its buffer exists, and while it unwinds because there is none |
| `CopiesInside` | `ChrdevBuf` | with one `pread` beyond `size`, or with two files, `size - offset` wraps and a read is not cut |
| `NoJunkPread` | `ChrdevBuf` | a `pread` whose length wrapped copies bytes that `kmalloc` left uninitialised |
| `HighWhileLoaded` | `GpioLine` | the exit of one driver sets the line low under the other |
| `MainWaits` | `Counter` | when the second thread cannot be created, main returns and cuts the first one off |
| `WriterServed` | `RWLock` | readers that overlap for ever keep writers out |
| `OrphanMade` | `Processes` | the parent of the orphan example waits for its child, which so is no orphan |
| `EachHandled` | `Processes` | SIGUSR1s merge, or end a child that has no handler yet |
| `ThreeEnd` | `SignalLoops` | three SIGINTs may merge and do not end Exam1 |
| `TypedIsEchoed` | `SignalLoops` | input that stdio has read ahead waits while `select` sees nothing |
| `EndsWithInput` | `SignalLoops` | at end of file Exam4 spins |
| `ReadsComplete` | `SharedProduct` | a consumer shows a product before or while it is written |
| `OnlyOwnRemoved` | `SharedProduct` | a producer removes the name of an object another still fills |
| `WriterRemoves` | `SharedProduct` | the reference writer leaves its segment |
| `OwnAnswerInet` | `Datagrams` | an answer to a client that was killed, or one that came twice, goes to the next client that gets its port, for its own |
| `OwnAnswerUnix` | `Datagrams` | the Unix clients share one file, and the last to bind it gets the answer to another's request |
| `PathOfListener` | `Streams` | a server that starts or ends removes the file of one that runs |
| `PortFree` | `Streams` | without SO_REUSEADDR a restarted IPv4 server cannot bind |
| `ServerSurvives` | `Streams` | a client that vanished ends its server by SIGPIPE: the Unix one at once, the IPv4 one when the connection was reset before it is served |
| `ErrorsFound` | `StrUtils` | `str_to_int` takes the empty string and numbers too large for an `int` |
| `ReadyInAdvance` | `CondHandoff` | the first signal may come before the consumer waits, which then waits for one too many |

## 7. What is left out

- Chat: `help`, `myip`, `myport` and the detection of the local address (they share nothing); a
  `send` that blocks on a full socket buffer; the overflow of `next_conn_id` after 2^31
  connections; texts. The order of threads' memory accesses is taken as sequential.
- Task queue: the queue's attributes, which `mq_open` ignores for an existing queue, and the
  reasons for which `mq_open` and `mq_receive` fail; that they fail is modelled.
- Character device: contents of the buffer beyond who wrote a byte; `unlocked_ioctl` and the
  like, which the examples do not have (nor `llseek`, so that the kernel refuses to seek);
  module references other than those of open files.
- Threads and processes: what is printed beyond a number or a status; the order of memory
  accesses is taken as sequential, and `Exam2`'s million increments as a few.
- Signal loops: the busy loop's own work; `printf` in handlers, which is not async-signal-safe,
  has no modelled consequence.
- Sockets: senders other than these programs; a server's port outside the ports that clients get
  (`DgPort` has neither the server's nor any that a program asked for); a client's calls that
  fail before it is connected or bound are a client that does not start; partial reads and
  writes of a hello; contents other than whose hello it is.
- String functions: a NULL argument, at which each returns at once.
- `filestat.c`, one pass of system calls over one file, and the hello modules, which only print:
  sequences of library calls with no state that could go wrong between them.
- The binaries under `8.IPC_Message_Queues/posix_message_queues`, and build files.

## 8. Plan

Modelled in this order: the chat, because it is the only component where threads,
kernel and peers meet; then the components whose clean-up or ordering is hard (task queue,
character device); the two small programs that hang; then processes, signals, threads, shared
memory, sockets, strings and the GPIO line. What is left of the sources has no state of its own
(section 7).

Everything that the runs check and the prover can reach is proved. What would still tell more:

1. What liveness rests on, as invariants: in the task queue, a sender that is blocked has a full
   queue before it; in the stream programs, who waits in `read` is served or in the backlog of a
   server that is not over.
2. The statements of section 6 under the condition that makes them true: a single worker on a name
   keeps its tasks until it ends; an `exit` during which nobody connects closes every connection.
3. Hazards that no property covers (`PROJECT.json`), where the code is changed to meet them.
