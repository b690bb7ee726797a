-------------------------------- MODULE Chat --------------------------------
(***************************************************************************)
(* The P2P chat of 7.Mid_Project: the thread that reads commands (main.c,  *)
(* command.c), the thread that accepts peers and the receiver thread of    *)
(* each connection (server.c), sharing the table of ChatTable over the     *)
(* kernel of ChatNet.  A step is a stretch of code with at most one access *)
(* to what threads share; taking the mutex is merged with the first access *)
(* under it, releasing it with the last; a search of the table is one      *)
(* access.  Steps that only print are left out, and so is a command that   *)
(* is refused without any effect.                                          *)
(***************************************************************************)
EXTENDS ChatNet

CONSTANTS Main, Accept,  \* the two permanent threads
          SelfAddr,      \* local_ip:listen_port, an address of Addr
          MayFail        \* do accept(), connect(), pthread_create() ever fail?

ASSUME ChatAssumption ==
  /\ Main # Accept /\ Unlocked \notin {Main, Accept} \cup Sock
  /\ Main \notin Sock /\ Accept \notin Sock
  /\ SelfAddr \in Addr
  /\ MayFail \in BOOLEAN

Threads == {Main, Accept} \cup Sock   \* thread k \in Sock: receiver created for k

VARIABLES
  proc,   \* how the process stands
  pc,     \* thread -> where it is
  idx,    \* thread -> its slot: idx, free_slot_index, i
  fd,     \* thread -> its descriptor: new_socket_fd, client_fd, sock_fd
  id,     \* thread -> its connection ID
  sock,   \* thread -> connection it adds, receives from, or whose thread it joins
  dest,   \* serv_addr of cmd_connect
  reg     \* history: connection -> ID it entered the table with, or 0

locals == <<idx, fd, id, sock>>
vars == <<tableVars, netVars, proc, pc, locals, dest, reg>>

ProcState == {"running", "exited", "failed", "killed", "crashed"}
Labels == {"prompt", "connect", "send", "bye", "shutdown", "tid", "join",
           "scan", "list", "eof", "accept", "add", "fill", "ret", "find",
           "create", "remove", "close", "none", "start", "recv", "wait",
           "done", "joined"}
NoId  == -1
Home(t) == IF t = Main THEN "prompt" ELSE IF t = Accept THEN "accept" ELSE "done"

At(t, l)   == pc[t] = l
Goto(t, l) == pc' = [pc EXCEPT ![t] = l]
Return(t)  == /\ Goto(t, Home(t))
              /\ idx'  = [idx  EXCEPT ![t] = NoSlot]
              /\ fd'   = [fd   EXCEPT ![t] = NoFd]
              /\ id'   = [id   EXCEPT ![t] = NoId]
              /\ sock' = [sock EXCEPT ![t] = NoSock]
Die(how)   == proc' = how /\ UNCHANGED <<tableVars, netVars, pc, locals, dest, reg>>

Init ==
  /\ TableInit /\ NetInit
  /\ proc = "running"
  /\ pc   = [t \in Threads |-> IF t \in Sock THEN "none" ELSE Home(t)]
  /\ idx  = [t \in Threads |-> NoSlot]
  /\ fd   = [t \in Threads |-> NoFd]
  /\ id   = [t \in Threads |-> NoId]
  /\ sock = [t \in Threads |-> NoSock]
  /\ dest = SelfAddr
  /\ reg = [k \in Sock |-> 0]

-----------------------------------------------------------------------------
(* Adding a connection: cmd_connect on Main, accept_thread_fn on Accept.   *)

AddReserve(t) ==
  /\ At(t, "add") /\ conns_mutex = Unlocked
  /\ \/ \E s \in Slots :
          /\ FirstFree(s) /\ Reserve(s) /\ Lock(t)
          /\ Goto(t, "fill") /\ idx' = [idx EXCEPT ![t] = s]
     \/ /\ TableFull /\ Goto(t, "find")     \* return -1: id[t] is NoId
        /\ UNCHANGED <<conns, conns_mutex, idx>>
  /\ UNCHANGED <<next_conn_id, netVars, proc, fd, id, sock, dest, reg>>

AddFill(t) ==
  /\ At(t, "fill")
  /\ Fill(idx[t], fd[t], IF t = Main THEN dest ELSE InAddr)
  /\ conns_mutex' = Unlocked
  /\ reg' = [reg EXCEPT ![sock[t]] = next_conn_id]
  /\ Goto(t, "ret")
  /\ UNCHANGED <<netVars, proc, locals, dest>>

(* return conns[free_slot_index].id, after the unlock                      *)
AddReturn(t) ==
  /\ At(t, "ret")
  /\ Goto(t, "find") /\ id' = [id EXCEPT ![t] = conns[idx[t]].id]
  /\ UNCHANGED <<tableVars, netVars, proc, idx, fd, sock, dest, reg>>

(* find_index_by_id(id); only the accept thread checks the result, and     *)
(* drops the connection, its descriptor still open.                        *)
FindNew(t) ==
  /\ At(t, "find")
  /\ \E s \in Slots \cup {NoSlot} :
       /\ IsIndexOf(id[t], s)
       /\ \/ t = Accept /\ s = NoSlot /\ Return(t)
          \/ /\ ~(t = Accept /\ s = NoSlot)
             /\ Goto(t, "create") /\ idx' = [idx EXCEPT ![t] = s]
             /\ UNCHANGED <<fd, id, sock>>
  /\ UNCHANGED <<tableVars, netVars, proc, dest, reg>>

(* pthread_create(&conns[idx].thread_id, ..., recv_thread_fn, &idx)        *)
Starts(t, k, i) ==       \* t is done with the command, thread k starts on slot i
  /\ pc'   = [pc   EXCEPT ![t] = Home(t), ![k] = "start"]
  /\ idx'  = [idx  EXCEPT ![t] = NoSlot, ![k] = i]
  /\ fd'   = [fd   EXCEPT ![t] = NoFd]
  /\ id'   = [id   EXCEPT ![t] = NoId]
  /\ sock' = [sock EXCEPT ![t] = NoSock]

Spawn(t) ==
  /\ At(t, "create") /\ idx[t] \in Slots
  /\ conns' = [conns EXCEPT ![idx[t]].thread_id = sock[t]]
  /\ Starts(t, sock[t], idx[t])
  /\ UNCHANGED <<next_conn_id, conns_mutex, netVars, proc, dest, reg>>

(* With idx = -1 the write to conns[-1] is outside the array: it goes      *)
(* unnoticed, or the program crashes.                                      *)
SpawnOutside(t) ==
  /\ At(t, "create") /\ idx[t] = NoSlot
  /\ \/ /\ Starts(t, sock[t], NoSlot)
        /\ UNCHANGED <<tableVars, netVars, proc, dest, reg>>
     \/ Die("crashed")

(* A pthread_create that fails may have written thread_id all the same.    *)
SpawnFails(t) ==
  /\ MayFail /\ At(t, "create")
  /\ \/ UNCHANGED conns
     \/ /\ idx[t] \in Slots
        /\ conns' = [conns EXCEPT ![idx[t]].thread_id = sock[t]]
  /\ Return(t)
  /\ UNCHANGED <<next_conn_id, conns_mutex, netVars, proc, dest, reg>>

(* remove_connection_by_index(idx) between lock and unlock, called by a    *)
(* receiver that ends, by cmd_terminate and by cleanup_all, the only one   *)
(* of these in which Main works on no ID.                                  *)
AfterRemove(t) ==
  \/ t = Main /\ id[t] = NoId /\ Goto(t, "scan") /\ UNCHANGED locals
  \/ ~(t = Main /\ id[t] = NoId) /\ Return(t)

Remove(t) ==
  /\ At(t, "remove") /\ conns_mutex = Unlocked
  /\ \/ /\ Removable(idx[t]) /\ Deactivate(idx[t])
        /\ Lock(t) /\ Goto(t, "close") /\ UNCHANGED locals
     \/ /\ ~Removable(idx[t]) /\ AfterRemove(t)
        /\ UNCHANGED <<conns, conns_mutex>>
  /\ UNCHANGED <<next_conn_id, netVars, proc, dest, reg>>

RemoveClose(t) ==
  /\ At(t, "close")
  /\ fdt' = [fdt EXCEPT ![conns[idx[t]].sock_fd] = NoSock]
  /\ conns_mutex' = Unlocked
  /\ AfterRemove(t)
  /\ UNCHANGED <<conns, next_conn_id, socks, nsock, proc, dest, reg>>

-----------------------------------------------------------------------------
(* The thread of main(): one command at a time.                            *)

(* connect: the checks, then socket() and connect() (MainDial).            *)
MainConnect(a) ==
  /\ At(Main, "prompt") /\ nsock < MaxSock
  /\ a # SelfAddr /\ ~ExistsWithAddr(a)
  /\ \E f \in Fd :
       /\ LowestFree(f) /\ OpenSocket(f)
       /\ fd' = [fd EXCEPT ![Main] = f]
  /\ Goto(Main, "connect") /\ dest' = a
  /\ sock' = [sock EXCEPT ![Main] = nsock + 1]
  /\ UNCHANGED <<tableVars, proc, idx, id, reg>>

MainDial ==
  /\ At(Main, "connect")
  /\ \/ /\ Connected(sock[Main]) /\ Goto(Main, "add")
        /\ UNCHANGED <<tableVars, fdt, nsock, proc, locals, dest, reg>>
     \/ MayFail /\ Die("failed")

(* send and terminate start with find_index_by_id; an ID that is not found *)
(* ends the command.  atoi() makes 0 of a word that is no number.          *)
MainLookup(i, l) ==
  /\ At(Main, "prompt") /\ l \in {"send", "bye"}
  /\ \E s \in Slots :
       /\ IsIndexOf(i, s)
       /\ idx' = [idx EXCEPT ![Main] = s]
  /\ Goto(Main, l) /\ id' = [id EXCEPT ![Main] = i]
  /\ UNCHANGED <<tableVars, netVars, proc, fd, sock, dest, reg>>

(* send(conns[idx].sock_fd, ...): the message, or "/peer_exit"             *)
MainSend ==
  /\ At(Main, "send") \/ At(Main, "bye")
  /\ LET k == SockOf(conns[idx[Main]].sock_fd)
     IN  \/ MaySigpipe(k) /\ Die("killed")
         \/ /\ ~MustSigpipe(k)
            /\ \/ At(Main, "send") /\ Return(Main)
               \/ At(Main, "bye") /\ Goto(Main, "shutdown") /\ UNCHANGED locals
            /\ UNCHANGED <<tableVars, netVars, proc, dest, reg>>

MainShutdown ==
  /\ At(Main, "shutdown")
  /\ ShutAll({SockOf(conns[idx[Main]].sock_fd)})
  /\ Goto(Main, "tid")
  /\ UNCHANGED <<tableVars, fdt, nsock, proc, locals, dest, reg>>

MainReadTid ==
  /\ At(Main, "tid")
  /\ Goto(Main, "join")
  /\ sock' = [sock EXCEPT ![Main] = conns[idx[Main]].thread_id]
  /\ UNCHANGED <<tableVars, netVars, proc, idx, fd, id, dest, reg>>

(* pthread_join: waits for the thread to end.  A thread_id that was never  *)
(* written is a null pointer; one already joined, or of a thread that was  *)
(* not created, may return at once, crash or stand for another thread that *)
(* was given the same pthread_t.                                           *)
MainJoin ==
  /\ At(Main, "join")
  /\ LET k == sock[Main]
     IN  \/ /\ k \in Sock /\ At(k, "done")
            /\ pc' = [pc EXCEPT ![Main] = "remove", ![k] = "joined"]
            /\ UNCHANGED <<tableVars, netVars, proc, locals, dest, reg>>
         \/ /\ k \in Sock /\ pc[k] \in {"none", "joined"}
            /\ \/ Goto(Main, "remove") /\ UNCHANGED sock
               \/ \E j \in Sock :
                    /\ pc[j] \notin {"none", "joined"}
                    /\ sock' = [sock EXCEPT ![Main] = j] /\ UNCHANGED pc
            /\ UNCHANGED <<tableVars, netVars, proc, idx, fd, id, dest, reg>>
         \/ /\ k \in Sock => pc[k] \in {"none", "joined"}
            /\ Die("crashed")

MainList ==
  /\ At(Main, "prompt") /\ Lock(Main) /\ Goto(Main, "list")
  /\ UNCHANGED <<conns, next_conn_id, netVars, proc, locals, dest, reg>>

MainListEnd ==
  /\ At(Main, "list") /\ conns_mutex' = Unlocked /\ Return(Main)
  /\ UNCHANGED <<conns, next_conn_id, netVars, proc, dest, reg>>

(* exit: cleanup_all says goodbye to every active connection and shuts it  *)
(* down under the mutex, then joins and removes slot by slot without it.   *)
MainExit ==
  /\ At(Main, "prompt") /\ conns_mutex = Unlocked
  /\ LET live == {SockOf(conns[s].sock_fd) : s \in {r \in Slots : IsActive(r)}}
     IN  \/ (\E k \in live : MaySigpipe(k)) /\ Die("killed")
         \/ /\ \A k \in live : ~MustSigpipe(k)
            /\ ShutAll(live) /\ Goto(Main, "scan")
            /\ UNCHANGED <<tableVars, fdt, nsock, proc, locals, dest, reg>>

MainScan ==
  /\ At(Main, "scan")
  /\ LET s == idx[Main] + 1
     IN  \/ /\ s \in Slots
            /\ idx' = [idx EXCEPT ![Main] = s]
            /\ Goto(Main, IF IsActive(s) THEN "tid" ELSE "scan")
            /\ UNCHANGED <<tableVars, netVars, proc, fd, id, sock, dest, reg>>
         \/ s \notin Slots /\ Die("exited")

(* getline() at end of file: the loop continues for ever.                  *)
MainEof ==
  /\ At(Main, "prompt") \/ At(Main, "eof")
  /\ Goto(Main, "eof")
  /\ UNCHANGED <<tableVars, netVars, proc, locals, dest, reg>>

-----------------------------------------------------------------------------
(* accept_thread_fn                                                        *)
AcceptPeer ==
  /\ At(Accept, "accept")
  /\ \E k \in Sock, f \in Fd :
       /\ socks[k].peer = "backlog"
       /\ \A j \in Sock : j < k => socks[j].peer # "backlog"
       /\ LowestFree(f) /\ Accepted(f, k)
       /\ fd' = [fd EXCEPT ![Accept] = f]
       /\ sock' = [sock EXCEPT ![Accept] = k]
  /\ Goto(Accept, "add")
  /\ UNCHANGED <<tableVars, nsock, proc, idx, id, dest, reg>>

AcceptFails == MayFail /\ At(Accept, "accept") /\ Die("failed")

-----------------------------------------------------------------------------
(* recv_thread_fn                                                          *)

(* int sock_fd = conns[idx].sock_fd, without the mutex; conns[-1] holds    *)
(* whatever lies before the array.                                         *)
RecvStart(k) ==
  /\ At(k, "start")
  /\ \E f \in Fd \cup {NoFd} :
       /\ idx[k] \in Slots => f = conns[idx[k]].sock_fd
       /\ fd' = [fd EXCEPT ![k] = f]
  /\ Goto(k, "recv")
  /\ UNCHANGED <<tableVars, netVars, proc, idx, id, sock, dest, reg>>

(* recv() resolves the descriptor once and then waits on the connection.   *)
RecvCall(k) ==
  /\ At(k, "recv")
  /\ LET q == SockOf(fd[k])
     IN  /\ sock' = [sock EXCEPT ![k] = q]
         /\ Goto(k, IF q = NoSock THEN "remove" ELSE "wait")
  /\ UNCHANGED <<tableVars, netVars, proc, idx, fd, id, dest, reg>>

(* The stream keeps no message boundaries: recv() returns what one or more *)
(* sends left, and only exactly "/peer_exit" is taken for the goodbye.     *)
RecvData(k) ==
  /\ At(k, "wait")
  /\ LET q == sock[k]
     IN  \E n \in 1 .. Len(socks[q].inbox) :
           /\ socks' = [socks EXCEPT ![q].inbox = SubSeq(@, n + 1, Len(@))]
           /\ Goto(k, IF n = 1 /\ socks[q].inbox[1] = "exit" THEN "remove"
                                                             ELSE "recv")
  /\ UNCHANGED <<tableVars, fdt, nsock, proc, locals, dest, reg>>

(* Slip: the thread ends and leaves its slot.                              *)
RecvEndForgets(k) ==
  /\ At(k, "wait") /\ AtEnd(sock[k]) /\ Goto(k, "done")
  /\ UNCHANGED <<tableVars, netVars, proc, locals, dest, reg>>

RecvEnd(k) ==
  /\ At(k, "wait") /\ AtEnd(sock[k]) /\ Goto(k, "remove")
  /\ UNCHANGED <<tableVars, netVars, proc, locals, dest, reg>>

-----------------------------------------------------------------------------
Adder(t)   == AddReserve(t) \/ AddFill(t) \/ AddReturn(t) \/ FindNew(t)
                \/ Spawn(t) \/ SpawnOutside(t) \/ SpawnFails(t)
Command    == \/ \E a \in Addr : MainConnect(a)
              \/ \E i \in 0 .. MaxSock, l \in {"send", "bye"} : MainLookup(i, l)
              \/ MainList \/ MainExit \/ MainEof
MainStep   == \/ Adder(Main) \/ Remove(Main) \/ RemoveClose(Main)
              \/ MainDial \/ MainSend \/ MainShutdown \/ MainReadTid
              \/ MainJoin \/ MainListEnd \/ MainScan
AcceptStep == Adder(Accept) \/ AcceptPeer
RecvStep(k) == \/ RecvStart(k) \/ RecvCall(k) \/ RecvData(k) \/ RecvEnd(k)
               \/ Remove(k) \/ RemoveClose(k)
Peers      == /\ \/ PeerConnect
                 \/ \E k \in Sock : \/ \E m \in Message : PeerSend(k, m)
                                    \/ PeerClose(k) \/ PeerReset(k)
              /\ UNCHANGED <<tableVars, proc, pc, locals, dest, reg>>
Stopped    == proc # "running" /\ UNCHANGED vars

Next == \/ /\ proc = "running"
           /\ \/ Command \/ MainStep \/ AcceptStep \/ AcceptFails
              \/ (\E k \in Sock : RecvStep(k)) \/ Peers
        \/ Stopped

Spec == Init /\ [][Next]_vars
=============================================================================
