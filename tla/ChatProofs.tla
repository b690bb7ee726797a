------------------------------ MODULE ChatProofs ------------------------------
(***************************************************************************)
(* Theorems about the P2P chat, for any table size, number of connections, *)
(* addresses and inbox bound.  TypeStep and CoherentStep show that a step  *)
(* keeps the invariant IInv of ChatProps, one step of the proof per action;*)
(* the safety properties follow from IInv.                                 *)
(***************************************************************************)
EXTENDS ChatProps, TLAPS

(* The constants' kinds: threads, mutex, sockets and "none" values differ. *)
LEMMA Kinds ==
  /\ Main \in Threads /\ Accept \in Threads /\ Sock \subseteq Threads
  /\ Main # Accept /\ Main \notin Sock /\ Accept \notin Sock /\ Unlocked \notin Threads
  /\ NoSock \notin Sock /\ NoSlot \notin Slots /\ NoFd \notin Fd
  /\ Slots \subseteq Int /\ Sock \subseteq Nat /\ Fd \subseteq Nat
BY TableAssumption, ChatAssumption
   DEF Threads, Sock, Slots, Fd, NoSock, NoSlot, NoFd

(* The pieces of the table's and the kernel's functions keep the types.    *)
LEMMA TableTypes ==
  ASSUME conns \in [Slots -> Connection], next_conn_id \in Nat, NEW s \in Slots
  PROVE  /\ Reserve(s) => conns' \in [Slots -> Connection]
         /\ Deactivate(s) => conns' \in [Slots -> Connection]
         /\ \A f \in Fd \cup {NoFd}, a \in Addr \cup {InAddr} :
              Fill(s, f, a) => conns' \in [Slots -> Connection]
<1>1. ASSUME NEW f \in Fd \cup {NoFd}, NEW a \in Addr \cup {InAddr}, Fill(s, f, a)
      PROVE  conns' \in [Slots -> Connection]
  <2>1. [conns EXCEPT ![s].sock_fd = f, ![s].addr = a, ![s].id = next_conn_id]
          \in [Slots -> Connection]
    BY ZenonT(40) DEF Connection
  <2> QED
    BY <1>1, <2>1 DEF Fill
<1>2. Reserve(s) => conns' \in [Slots -> Connection]
  BY DEF Reserve, Connection
<1>3. Deactivate(s) => conns' \in [Slots -> Connection]
  BY DEF Deactivate, Connection
<1> QED
  BY <1>1, <1>2, <1>3

(* Replacing one inbox keeps the type of the connections.                  *)
LEMMA InboxType ==
  ASSUME socks \in [Sock -> Socket], NEW k \in Sock, NEW b \in Seq(Message)
  PROVE  [socks EXCEPT ![k].inbox = b] \in [Sock -> Socket]
BY DEF Socket

(* Changing how one peer stands keeps the type of the connections.         *)
LEMMA PeerType ==
  ASSUME socks \in [Sock -> Socket], NEW k \in Sock, NEW p \in PeerState
  PROVE  [socks EXCEPT ![k].peer = p] \in [Sock -> Socket]
BY DEF Socket

(* pthread_create's write of thread_id keeps the type of the table.        *)
LEMMA ThreadIdType ==
  ASSUME conns \in [Slots -> Connection], NEW s \in Slots, NEW k \in Sock
  PROVE  [conns EXCEPT ![s].thread_id = k] \in [Slots -> Connection]
BY DEF Connection

(* accept, socket, connect and shutdown keep the type of the connections.  *)
LEMMA SocketTypes ==
  ASSUME socks \in [Sock -> Socket], nsock \in Nat
  PROVE  /\ \A S : ShutAll(S) => socks' \in [Sock -> Socket]
         /\ \A f \in Fd, k \in Sock : Accepted(f, k) => socks' \in [Sock -> Socket]
         /\ \A f \in Fd : OpenSocket(f) => socks' \in [Sock -> Socket]
         /\ \A k \in Sock : Connected(k) => socks' \in [Sock -> Socket]
<1>1. ASSUME NEW k \in Sock, NEW p \in PeerState
      PROVE  [socks EXCEPT ![k].peer = p] \in [Sock -> Socket]
  BY DEF Socket
<1>2. ASSUME NEW S, ShutAll(S) PROVE socks' \in [Sock -> Socket]
  <2>1. \A k \in Sock : [socks[k] EXCEPT !.ours = "shut"] \in Socket
    BY DEF Socket
  <2> QED
    BY <1>2, <2>1 DEF ShutAll
<1>3. ASSUME NEW f \in Fd, NEW k \in Sock, Accepted(f, k) PROVE socks' \in [Sock -> Socket]
  BY <1>1, <1>3 DEF Accepted, PeerState
<1>4. ASSUME NEW f \in Fd, OpenSocket(f) PROVE socks' \in [Sock -> Socket]
  <2>1. [socks EXCEPT ![nsock + 1].peer = "dialing"] \in [Sock -> Socket]
    BY DEF Socket, PeerState
  <2> QED
    BY <1>4, <2>1 DEF OpenSocket
<1>5. ASSUME NEW k \in Sock, Connected(k) PROVE socks' \in [Sock -> Socket]
  BY <1>1, <1>5 DEF Connected, PeerState
<1> QED
  BY <1>2, <1>3, <1>4, <1>5

(* The program starts with every variable of its type.                     *)
LEMMA TypeInit == Init => TypeOK /\ Placed
BY Kinds, TableAssumption, ChatAssumption, NetAssumption
   DEF Init, TableInit, NetInit, TypeOK, Placed, Adding, Home, At, Labels, ProcState,
       Connection, Socket, PeerState, NoSlot, NoFd, NoId, NoSock, Slots, Fd, Sock

(* Every step keeps the types, and threads at labels with fitting slots.   *)
LEMMA TypeStep == TypeOK /\ Placed /\ [Next]_vars => TypeOK' /\ Placed'
<1> SUFFICES ASSUME TypeOK, Placed, [Next]_vars PROVE TypeOK' /\ Placed'
  OBVIOUS
<1> USE Kinds DEF At, Goto, Return, Home, TypeOK, Labels, tableVars, netVars, locals
<1>1. ASSUME NEW t \in {Main, Accept}, AddReserve(t) PROVE TypeOK' /\ Placed'
  <2>0. conns' \in [Slots -> Connection]
    BY <1>1, TableTypes DEF AddReserve
  <2>1. TypeOK'
    BY <2>0, <1>1 DEF AddReserve, Lock, Placed, Adding
  <2>2. Placed'
    BY <1>1 DEF AddReserve, Lock, Placed, Adding
  <2> QED BY <2>1, <2>2
<1>2. ASSUME NEW t \in {Main, Accept}, AddFill(t) PROVE TypeOK' /\ Placed'
  <2>0. conns' \in [Slots -> Connection]
    BY <1>2, TableTypes DEF AddFill, Placed
  <2>1. TypeOK'
    BY <2>0, <1>2 DEF AddFill, Fill, Placed, Adding
  <2>2. Placed'
    BY <1>2 DEF AddFill, Fill, Placed, Adding
  <2> QED BY <2>1, <2>2
<1>3. ASSUME NEW t \in {Main, Accept}, AddReturn(t) PROVE TypeOK' /\ Placed'
  <2>1. TypeOK'
    BY <1>3 DEF AddReturn, Connection, Placed, Adding
  <2>2. Placed'
    BY <1>3 DEF AddReturn, Connection, Placed, Adding
  <2> QED BY <2>1, <2>2
<1>4. ASSUME NEW t \in {Main, Accept}, FindNew(t) PROVE TypeOK' /\ Placed'
  <2>1. TypeOK'
    BY <1>4 DEF FindNew, Placed, Adding
  <2>2. Placed'
    BY <1>4 DEF FindNew, Placed, Adding
  <2> QED BY <2>1, <2>2
<1>5. ASSUME NEW t \in {Main, Accept}, Spawn(t) PROVE TypeOK' /\ Placed'
  <2>1. TypeOK'
    <3>1. sock[t] \in Sock /\ idx[t] \in Slots
      BY <1>5 DEF Spawn, Placed, Adding
    <3>2. [conns EXCEPT ![idx[t]].thread_id = sock[t]] \in [Slots -> Connection]
      BY <3>1, ThreadIdType
    <3>3. conns' \in [Slots -> Connection]
      BY <1>5, <3>2 DEF Spawn
    <3> QED
      BY <1>5, <3>1, <3>3 DEF Spawn, Starts
  <2>2. Placed'
    BY <1>5 DEF Spawn, Starts, Connection, Placed, Adding
  <2> QED BY <2>1, <2>2
<1>6. ASSUME NEW t \in {Main, Accept}, SpawnOutside(t) PROVE TypeOK' /\ Placed'
  <2>1. TypeOK'
    BY <1>6 DEF SpawnOutside, Starts, Die, ProcState, Placed, Adding
  <2>2. Placed'
    BY <1>6 DEF SpawnOutside, Starts, Die, ProcState, Placed, Adding
  <2> QED BY <2>1, <2>2
<1>7. ASSUME NEW t \in {Main, Accept}, SpawnFails(t) PROVE TypeOK' /\ Placed'
  <2>1. TypeOK'
    <3>1. conns' \in [Slots -> Connection]
      <4>1. sock[t] \in Sock
        BY <1>7 DEF SpawnFails, Placed, Adding
      <4> QED
        BY <4>1, <1>7, ThreadIdType, SMTT(30) DEF SpawnFails
    <3> QED
      BY <1>7, <3>1 DEF SpawnFails
  <2>2. Placed'
    BY <1>7 DEF SpawnFails, Placed, Adding
  <2> QED BY <2>1, <2>2
<1>8. ASSUME NEW t \in Threads, Remove(t) PROVE TypeOK' /\ Placed'
  <2>0. conns' \in [Slots -> Connection]
    BY <1>8, TableTypes DEF Remove, Removable
  <2>1. TypeOK'
    BY <2>0, <1>8 DEF Remove, Removable, Lock, AfterRemove, Placed, Adding
  <2>2. Placed'
    BY <1>8 DEF Remove, Removable, Lock, AfterRemove, Placed, Adding
  <2> QED BY <2>1, <2>2
<1>9. ASSUME NEW t \in Threads, RemoveClose(t) PROVE TypeOK' /\ Placed'
  <2>1. TypeOK'
    <3>1. fdt' \in [Fd -> Sock \cup {NoSock}]
      BY <1>9 DEF RemoveClose
    <3>2. UNCHANGED locals \/ Return(t)
      BY <1>9 DEF RemoveClose, AfterRemove
    <3>3. pc' \in [Threads -> Labels]
      BY <1>9 DEF RemoveClose, AfterRemove
    <3> QED
      BY <1>9, <3>1, <3>2, <3>3 DEF RemoveClose
  <2>2. Placed'
    BY <1>9 DEF RemoveClose, AfterRemove, Placed, Adding
  <2> QED BY <2>1, <2>2
<1>10. ASSUME NEW a \in Addr, MainConnect(a) PROVE TypeOK' /\ Placed'
  <2>0. socks' \in [Sock -> Socket]
    BY <1>10, SocketTypes DEF MainConnect
  <2>3. nsock + 1 \in Sock
    BY <1>10, TableAssumption DEF MainConnect, Sock
  <2>1. TypeOK'
    BY <2>0, <1>10, <2>3, TableAssumption DEF MainConnect, OpenSocket, Sock
  <2>2. Placed'
    BY <1>10, <2>3 DEF MainConnect, Placed, Adding
  <2> QED BY <2>1, <2>2
<1>11. ASSUME MainDial PROVE TypeOK' /\ Placed'
  <2>0. socks' \in [Sock -> Socket]
    <3>1. sock[Main] \in Sock
      BY <1>11 DEF MainDial, Placed, Adding
    <3>2. Connected(sock[Main]) => socks' \in [Sock -> Socket]
      <4>1. "open" \in PeerState
        BY DEF PeerState
      <4>2. [socks EXCEPT ![sock[Main]].peer = "open"] \in [Sock -> Socket]
        BY <3>1, <4>1, PeerType
      <4> QED
        BY <4>2 DEF Connected
    <3> QED
      BY <1>11, <3>2 DEF MainDial, Die
  <2>1. TypeOK'
    BY <2>0, <1>11 DEF MainDial, Connected, Die, ProcState, PeerState, Placed, Adding
  <2>2. Placed'
    BY <1>11 DEF MainDial, Connected, Die, ProcState, PeerState, Placed, Adding
  <2> QED BY <2>1, <2>2
<1>12. ASSUME NEW i \in Nat, NEW l \in Labels, MainLookup(i, l) PROVE TypeOK' /\ Placed'
  <2>1. TypeOK'
    BY <1>12 DEF MainLookup, Placed, Adding
  <2>2. Placed'
    BY <1>12 DEF MainLookup, Placed, Adding
  <2> QED BY <2>1, <2>2
<1>13. ASSUME MainSend PROVE TypeOK' /\ Placed'
  <2>1. TypeOK'
    BY <1>13 DEF MainSend, Die, ProcState, Placed, Adding
  <2>2. Placed'
    BY <1>13 DEF MainSend, Die, ProcState, Placed, Adding
  <2> QED BY <2>1, <2>2
<1>14. ASSUME MainShutdown PROVE TypeOK' /\ Placed'
  <2>0. socks' \in [Sock -> Socket]
    BY <1>14, SocketTypes DEF MainShutdown
  <2>1. TypeOK'
    BY <2>0, <1>14 DEF MainShutdown, Placed, Adding
  <2>2. Placed'
    BY <1>14 DEF MainShutdown, Placed, Adding
  <2> QED BY <2>1, <2>2
<1>15. ASSUME MainReadTid PROVE TypeOK' /\ Placed'
  <2>1. TypeOK'
    BY <1>15 DEF MainReadTid, Connection, Placed, Adding
  <2>2. Placed'
    BY <1>15 DEF MainReadTid, Connection, Placed, Adding
  <2> QED BY <2>1, <2>2
<1>16. ASSUME MainJoin PROVE TypeOK' /\ Placed'
  <2>1. TypeOK'
    BY <1>16 DEF MainJoin, Die, ProcState, Placed, Adding
  <2>2. Placed'
    BY <1>16 DEF MainJoin, Die, ProcState, Placed, Adding
  <2> QED BY <2>1, <2>2
<1>17. ASSUME MainList PROVE TypeOK' /\ Placed'
  <2>1. TypeOK'
    BY <1>17 DEF MainList, Lock, Placed, Adding
  <2>2. Placed'
    BY <1>17 DEF MainList, Lock, Placed, Adding
  <2> QED BY <2>1, <2>2
<1>18. ASSUME MainListEnd PROVE TypeOK' /\ Placed'
  <2>1. TypeOK'
    BY <1>18 DEF MainListEnd, Placed, Adding
  <2>2. Placed'
    BY <1>18 DEF MainListEnd, Placed, Adding
  <2> QED BY <2>1, <2>2
<1>19. ASSUME MainExit PROVE TypeOK' /\ Placed'
  <2>0. socks' \in [Sock -> Socket]
    BY <1>19, SocketTypes DEF MainExit, Die
  <2>1. TypeOK'
    BY <2>0, <1>19 DEF MainExit, Die, ProcState, Placed, Adding
  <2>2. Placed'
    BY <1>19 DEF MainExit, Die, ProcState, Placed, Adding
  <2> QED BY <2>1, <2>2
<1>20. ASSUME MainScan PROVE TypeOK' /\ Placed'
  <2>1. TypeOK'
    BY <1>20 DEF MainScan, Die, ProcState, Placed, Adding
  <2>2. Placed'
    BY <1>20 DEF MainScan, Die, ProcState, Placed, Adding
  <2> QED BY <2>1, <2>2
<1>21. ASSUME MainEof PROVE TypeOK' /\ Placed'
  <2>1. TypeOK'
    BY <1>21 DEF MainEof, Placed, Adding
  <2>2. Placed'
    BY <1>21 DEF MainEof, Placed, Adding
  <2> QED BY <2>1, <2>2
<1>22. ASSUME AcceptPeer PROVE TypeOK' /\ Placed'
  <2>0. socks' \in [Sock -> Socket]
    BY <1>22, SocketTypes DEF AcceptPeer
  <2>1. TypeOK'
    BY <2>0, <1>22 DEF AcceptPeer, Accepted, PeerState, Placed, Adding
  <2>2. Placed'
    BY <1>22 DEF AcceptPeer, Accepted, PeerState, Placed, Adding
  <2> QED BY <2>1, <2>2
<1>23. ASSUME AcceptFails PROVE TypeOK' /\ Placed'
  <2>1. TypeOK'
    BY <1>23 DEF AcceptFails, Die, ProcState, Placed, Adding
  <2>2. Placed'
    BY <1>23 DEF AcceptFails, Die, ProcState, Placed, Adding
  <2> QED BY <2>1, <2>2
<1>24. ASSUME NEW k \in Sock, RecvStart(k) PROVE TypeOK' /\ Placed'
  <2>1. TypeOK'
    BY <1>24 DEF RecvStart, Connection, Placed, Adding
  <2>2. Placed'
    BY <1>24 DEF RecvStart, Connection, Placed, Adding
  <2> QED BY <2>1, <2>2
<1>25. ASSUME NEW k \in Sock, RecvCall(k) PROVE TypeOK' /\ Placed'
  <2>1. TypeOK'
    BY <1>25 DEF RecvCall, SockOf, Placed, Adding
  <2>2. Placed'
    BY <1>25 DEF RecvCall, SockOf, Placed, Adding
  <2> QED BY <2>1, <2>2
<1>26. ASSUME NEW k \in Sock, RecvData(k) PROVE TypeOK' /\ Placed'
  <2>0. socks' \in [Sock -> Socket]
    <3>1. sock[k] \in Sock /\ socks[sock[k]].inbox \in Seq(Message)
      BY <1>26 DEF RecvData, Placed, Socket
    <3>2. PICK n \in 1 .. Len(socks[sock[k]].inbox) :
            socks' = [socks EXCEPT ![sock[k]].inbox = SubSeq(@, n + 1, Len(@))]
      BY <1>26 DEF RecvData
    <3>3. SubSeq(socks[sock[k]].inbox, n + 1, Len(socks[sock[k]].inbox)) \in Seq(Message)
      BY <3>1, <3>2, SMTT(30)
    <3>4. ASSUME NEW b \in Seq(Message)
          PROVE  [socks EXCEPT ![sock[k]].inbox = b] \in [Sock -> Socket]
      BY <3>1, InboxType
    <3> QED
      BY <3>2, <3>3, <3>4
  <2>1. TypeOK'
    BY <2>0, <1>26, SMTT(30) DEF RecvData
  <2>2. Placed'
    BY <1>26 DEF RecvData, Placed, Adding
  <2> QED BY <2>1, <2>2
<1>27. ASSUME NEW k \in Sock, RecvEnd(k) PROVE TypeOK' /\ Placed'
  <2>1. TypeOK'
    BY <1>27 DEF RecvEnd, Placed, Adding
  <2>2. Placed'
    BY <1>27 DEF RecvEnd, Placed, Adding
  <2> QED BY <2>1, <2>2
<1>28. ASSUME Peers PROVE TypeOK' /\ Placed'
  <2>1. socks' \in [Sock -> Socket] /\ nsock' \in 0 .. MaxSock
    <3>1. ASSUME PeerConnect PROVE socks' \in [Sock -> Socket] /\ nsock' \in 0 .. MaxSock
      <4>1. nsock + 1 \in Sock /\ nsock + 1 \in 0 .. MaxSock /\ "backlog" \in PeerState
        BY <3>1, TableAssumption DEF PeerConnect, Sock, PeerState
      <4> QED
        BY <3>1, <4>1, PeerType DEF PeerConnect
    <3>2. ASSUME NEW k \in Sock, NEW m \in Message, PeerSend(k, m)
          PROVE  socks' \in [Sock -> Socket] /\ nsock' \in 0 .. MaxSock
      <4>1. Append(socks[k].inbox, m) \in Seq(Message)
        BY DEF Socket
      <4> QED
        BY <3>2, <4>1, InboxType DEF PeerSend
    <3>3. ASSUME NEW k \in Sock, PeerClose(k) \/ PeerReset(k)
          PROVE  socks' \in [Sock -> Socket] /\ nsock' \in 0 .. MaxSock
      <4>1. "closed" \in PeerState /\ "reset" \in PeerState
        BY DEF PeerState
      <4> QED
        BY <3>3, <4>1, PeerType DEF PeerClose, PeerReset
    <3> QED
      BY <1>28, <3>1, <3>2, <3>3 DEF Peers
  <2>2. TypeOK'
    BY <1>28, <2>1 DEF Peers, PeerConnect, PeerSend, PeerClose, PeerReset
  <2>3. Placed'
    BY <1>28 DEF Peers, Placed, Adding
  <2> QED BY <2>2, <2>3
<1>29. ASSUME UNCHANGED vars PROVE TypeOK' /\ Placed'
  BY <1>29 DEF vars, Placed, Adding
<1>30. CASE Command
  BY <1>10, <1>12, <1>17, <1>19, <1>21, <1>30 DEF Command, Labels
<1>31. CASE MainStep
  BY <1>1, <1>2, <1>3, <1>4, <1>5, <1>6, <1>7, <1>8, <1>9, <1>11, <1>13, <1>14,
     <1>15, <1>16, <1>18, <1>20, <1>31, Zenon DEF MainStep, Adder
<1>32. CASE AcceptStep \/ AcceptFails
  BY <1>1, <1>2, <1>3, <1>4, <1>5, <1>6, <1>7, <1>22, <1>23, <1>32, Zenon DEF AcceptStep, Adder
<1>33. ASSUME NEW k \in Sock, RecvStep(k) PROVE TypeOK' /\ Placed'
  BY <1>8, <1>9, <1>24, <1>25, <1>26, <1>27, <1>33 DEF RecvStep
<1> QED
  BY <1>28, <1>29, <1>30, <1>31, <1>32, <1>33 DEF Next, Stopped

(* A step that neither changes the table (thread_id apart), the descriptors*)
(* or the peers' birth, nor takes a thread into or out of a label that the invariant     *)
(* knows more about than that it is being added.                           *)
Special == {"none", "fill", "close", "list"}
QuietAt(t) ==
  \/ pc'[t] = pc[t] /\ idx'[t] = idx[t] /\ fd'[t] = fd[t] /\ sock'[t] = sock[t]
  \/ /\ pc[t] \notin Special /\ pc'[t] \notin Special
     /\ Adding(t)' => Adding(t) /\ sock'[t] = sock[t]
     /\ Transit(t)' => Transit(t) /\ fd'[t] = fd[t]
SlotsKept == \A r \in Slots : /\ conns'[r].active = conns[r].active
                              /\ conns'[r].id = conns[r].id
                              /\ conns'[r].sock_fd = conns[r].sock_fd
Quiet ==
  /\ SlotsKept /\ UNCHANGED <<next_conn_id, conns_mutex, fdt, nsock, reg>>
  /\ \A k \in Sock : \/ socks'[k].peer = socks[k].peer
                     \/ ~Unborn(k) /\ ~Unborn(k)'
  /\ \A t \in Threads : QuietAt(t)

(* A quiet step keeps the invariant.                                       *)
LEMMA QuietStep ==
  ASSUME TypeOK, TypeOK', Placed, Coherent, Quiet
  PROVE  Coherent'
<1> USE Kinds DEF At, Special, QuietAt, SlotsKept
<1>1. HalfChanged'
  <2>1. \A r \in Slots : IsActive(r)' <=> IsActive(r)
    BY DEF Quiet, IsActive
  <2>2. ASSUME NEW t \in Threads
        PROVE  /\ pc'[t] \in {"fill", "close", "list"} => conns_mutex' = t
               /\ pc'[t] \in {"fill", "close"} => idx'[t] = idx[t] /\ pc'[t] = pc[t]
    <3>1. QuietAt(t)
      BY DEF Quiet
    <3> QED
      BY <3>1 DEF Coherent, Quiet, HalfChanged
  <2> QED
    BY <2>1, <2>2 DEF Coherent, HalfChanged, Placed
<1>2. AddedByOne'
  <2>1. \A t \in Threads : Adding(t)' => Adding(t) /\ sock'[t] = sock[t]
    BY DEF Quiet, Adding
  <2>2. \A t \in Threads : Transit(t)' => Transit(t) /\ fd'[t] = fd[t]
    BY DEF Quiet, Transit
  <2>3. \A k \in Sock : Unborn(k)' => Unborn(k)
    BY DEF Quiet, Unborn
  <2>4. \A k \in Sock : pc[k] = "none" => pc'[k] = "none"
    BY DEF Quiet
  <2>5. ASSUME NEW t \in Threads, Adding(t)'
        PROVE  /\ ~Unborn(sock[t])' /\ pc'[sock[t]] = "none" /\ sock'[t] = sock[t]
               /\ \A u \in Threads : Adding(u)' /\ sock'[u] = sock[t] => u = t
               /\ Transit(t)' => /\ fd'[t] \in Fd /\ fdt[fd'[t]] = sock[t]
                                 /\ reg[sock[t]] = 0
    <3>1. Adding(t) /\ sock'[t] = sock[t] /\ sock[t] \in Sock
      BY <2>1, <2>5 DEF Placed
    <3>2. ~Unborn(sock[t])' /\ pc'[sock[t]] = "none"
      BY <3>1, <2>3, <2>4 DEF Coherent, AddedByOne, Unborn
    <3>3. \A u \in Threads : Adding(u)' /\ sock'[u] = sock[t] => u = t
      BY <3>1, <2>1 DEF Coherent, AddedByOne
    <3>4. Transit(t)' => fd'[t] \in Fd /\ fdt[fd'[t]] = sock[t] /\ reg[sock[t]] = 0
      BY <3>1, <2>2 DEF Coherent, AddedByOne
    <3> QED
      BY <3>1, <3>2, <3>3, <3>4
  <2> QED
    BY <2>5 DEF AddedByOne, Quiet
<1>3. UnbornUnknown'
  <2>1. \A k \in Sock : Unborn(k)' => Unborn(k)
    BY DEF Quiet, Unborn
  <2>2. \A k \in Sock : pc[k] = "none" => pc'[k] = "none"
    BY DEF Quiet
  <2>3. \A k \in Sock : k > nsock => socks'[k].peer = "none"
    BY DEF Quiet, Coherent, UnbornUnknown, Unborn
  <2> QED
    BY <2>1, <2>2, <2>3 DEF Coherent, UnbornUnknown, Quiet
<1>4. OneFdEach' /\ IdsFresh'
  BY DEF Coherent, OneFdEach, IdsFresh, Quiet
<1>5. OwnersOwn'
  <2>1. \A t \in Threads : /\ (pc'[t] = "fill" <=> pc[t] = "fill")
                          /\ (pc'[t] = "close" <=> pc[t] = "close")
                          /\ pc[t] \in {"fill", "close"} => idx'[t] = idx[t]
    <3>1. ASSUME NEW t \in Threads
          PROVE  /\ (pc'[t] = "fill" <=> pc[t] = "fill")
                 /\ (pc'[t] = "close" <=> pc[t] = "close")
                 /\ pc[t] \in {"fill", "close"} => idx'[t] = idx[t]
      <4>1. QuietAt(t)
        BY DEF Quiet
      <4> QED
        BY <4>1
    <3> QED
      BY <3>1
  <2>2. \A r \in Slots : Owned(r)' <=> Owned(r)
    BY <2>1 DEF Owned, Filled, IsActive, Quiet
  <2> QED
    BY <2>2 DEF Coherent, OwnersOwn, Quiet, ConnAt, SockOf
<1> QED
  BY <1>1, <1>2, <1>3, <1>4, <1>5 DEF Coherent

(* Which slots are owned depends on these alone.                           *)
LEMMA OwnedKept ==
  ASSUME NEW r \in Slots, IsActive(r)' <=> IsActive(r),
         \A u \in Threads : (pc'[u] = "fill" /\ idx'[u] = r) <=> (pc[u] = "fill" /\ idx[u] = r),
         \A u \in Threads : (pc'[u] = "close" /\ idx'[u] = r) <=> (pc[u] = "close" /\ idx[u] = r)
  PROVE  Owned(r)' <=> Owned(r)
BY DEF Owned, Filled, At

(* Who holds the mutex is alone at the labels that need it.                *)
LEMMA LockedOut ==
  ASSUME HalfChanged, NEW t, conns_mutex = t, NEW u \in Threads, u # t
  PROVE  pc[u] \notin {"fill", "close", "list"}
BY DEF HalfChanged

(* An owned slot's descriptor is open and names a registered connection.   *)
LEMMA OwnedFd ==
  ASSUME TypeOK, OwnersOwn, NEW r \in Slots, Owned(r)
  PROVE  /\ conns[r].sock_fd \in Fd /\ ConnAt(r) = fdt[conns[r].sock_fd]
         /\ ConnAt(r) \in Sock /\ reg[ConnAt(r)] = conns[r].id /\ conns[r].id # 0
<1>1. ConnAt(r) # NoSock /\ reg[ConnAt(r)] = conns[r].id /\ conns[r].id # 0
  BY DEF OwnersOwn
<1>2. conns[r].sock_fd \in Fd /\ ConnAt(r) = fdt[conns[r].sock_fd]
  BY <1>1 DEF ConnAt, SockOf
<1>3. ConnAt(r) \in Sock
  BY <1>1, <1>2 DEF TypeOK
<1> QED
  BY <1>1, <1>2, <1>3

(* Handing an added connection to its receiver keeps the invariant.        *)
LEMMA StartsCoherent ==
  ASSUME TypeOK, Placed, Coherent, NEW t \in {Main, Accept}, NEW i, pc[t] = "create",
         Starts(t, sock[t], i), UNCHANGED <<next_conn_id, conns_mutex, netVars, reg>>,
         \A r \in Slots : /\ conns'[r].active = conns[r].active /\ conns'[r].id = conns[r].id
                         /\ conns'[r].sock_fd = conns[r].sock_fd
  PROVE  Coherent'
<1> DEFINE k == sock[t]
<1> USE Kinds DEF At, Home, netVars
<1>1. /\ HalfChanged /\ AddedByOne /\ UnbornUnknown /\ OneFdEach /\ IdsFresh /\ OwnersOwn
  BY DEF Coherent
<1>2. k \in Sock /\ k # t /\ pc[k] = "none" /\ ~Unborn(k) /\ Adding(t)
  BY <1>1 DEF Placed, Adding, AddedByOne
<1>3. /\ pc'[t] \in {"prompt", "accept"} /\ pc'[k] = "start"
      /\ \A u \in Threads : u # t /\ u # k =>
           /\ pc'[u] = pc[u] /\ idx'[u] = idx[u] /\ fd'[u] = fd[u] /\ sock'[u] = sock[u]
  <2>0. t \in Threads /\ k \in Threads /\ pc \in [Threads -> Labels]
        /\ pc' = [pc EXCEPT ![t] = Home(t), ![k] = "start"]
    BY <1>2 DEF Starts, TypeOK
  <2>1. /\ pc'[t] = Home(t) /\ pc'[k] = "start"
        /\ \A u \in Threads : u # t /\ u # k => pc'[u] = pc[u]
    BY <2>0, <1>2, Zenon
  <2>3. \A u \in Threads : u # t /\ u # k => idx'[u] = idx[u]
    BY <1>2 DEF Starts, TypeOK
  <2>2. \A u \in Threads : u # t => fd'[u] = fd[u] /\ sock'[u] = sock[u]
    BY <1>2 DEF Starts, TypeOK
  <2> QED
    BY <2>1, <2>2, <2>3
<1>4. HalfChanged'
  BY <1>1, <1>3 DEF HalfChanged, IsActive, Placed
<1>5. AddedByOne'
  <2>1. ASSUME NEW u \in Threads, Adding(u)'
        PROVE  /\ Adding(u) /\ u # t /\ u # k /\ sock'[u] = sock[u] /\ fd'[u] = fd[u]
               /\ pc'[u] = pc[u] /\ sock[u] \in Sock /\ sock[u] # k
    BY <2>1, <1>1, <1>2, <1>3 DEF Adding, AddedByOne, Placed
  <2>2. ASSUME NEW u \in Threads, Adding(u)' PROVE pc'[sock[u]] = "none"
    <3>1. pc[sock[u]] = "none" /\ sock[u] \in Threads /\ sock[u] # t
      BY <2>1, <2>2, <1>1 DEF AddedByOne
    <3> QED
      BY <2>1, <2>2, <3>1, <1>3
  <2> QED
    BY <2>1, <2>2, <1>1 DEF AddedByOne, Transit, Unborn
<1>6. UnbornUnknown' /\ OneFdEach' /\ IdsFresh'
  BY <1>1, <1>2, <1>3 DEF UnbornUnknown, Unborn, OneFdEach, IdsFresh
<1>7. ASSUME NEW r \in Slots PROVE Owned(r)' <=> Owned(r)
  BY <1>2, <1>3, OwnedKept DEF IsActive
<1>8. OwnersOwn'
  BY <1>1, <1>7 DEF OwnersOwn, ConnAt, SockOf
<1> QED
  BY <1>4, <1>5, <1>6, <1>8 DEF Coherent

(* A connection that was Unborn gets a descriptor that was free, in the    *)
(* hands of the thread that will add it.                                   *)
LEMMA BornCoherent ==
  ASSUME TypeOK, Placed, Coherent, NEW t \in {Main, Accept}, NEW k \in Sock, NEW f \in Fd,
         Unborn(k), fdt[f] = NoSock, pc[t] \in {"prompt", "accept"},
         NEW l \in {"connect", "add"}, pc' = [pc EXCEPT ![t] = l],
         fd' = [fd EXCEPT ![t] = f], sock' = [sock EXCEPT ![t] = k],
         fdt' = [fdt EXCEPT ![f] = k], UNCHANGED <<tableVars, idx, reg>>,
         \A j \in Sock : j # k => socks'[j] = socks[j],
         socks'[k].peer \notin {"none", "backlog"},
         \A j \in Sock : j > nsock' => j > nsock /\ j # k
  PROVE  Coherent'
<1> USE Kinds DEF At, tableVars
<1>1. /\ HalfChanged /\ AddedByOne /\ UnbornUnknown /\ OneFdEach /\ IdsFresh /\ OwnersOwn
  BY DEF Coherent
<1>2. reg[k] = 0 /\ pc[k] = "none" /\ (\A g \in Fd : fdt[g] # k) /\ k # t /\ k \in Threads
  BY <1>1 DEF UnbornUnknown
<1>3. /\ pc'[t] = l /\ fd'[t] = f /\ sock'[t] = k
      /\ \A u \in Threads : u # t => pc'[u] = pc[u] /\ fd'[u] = fd[u] /\ sock'[u] = sock[u]
      /\ fdt'[f] = k /\ \A g \in Fd : g # f => fdt'[g] = fdt[g]
  BY DEF TypeOK
<1>4. HalfChanged'
  BY <1>1, <1>3 DEF HalfChanged, IsActive
<1>5. AddedByOne'
  <2>1. ASSUME NEW u \in Threads, u # t, Adding(u)'
        PROVE  /\ Adding(u) /\ sock[u] \in Sock /\ sock[u] # k /\ pc[sock[u]] = "none"
               /\ ~Unborn(sock[u]) /\ socks'[sock[u]] = socks[sock[u]]
    <3>1. Adding(u)
      BY <2>1, <1>3 DEF Adding
    <3>2. sock[u] \in Sock /\ pc[sock[u]] = "none" /\ ~Unborn(sock[u])
      BY <3>1, <1>1 DEF AddedByOne, Placed
    <3> QED
      BY <3>1, <3>2
  <2>2. ASSUME NEW u \in Threads, u # t, Adding(u)'
        PROVE  /\ ~Unborn(sock[u])' /\ pc'[sock[u]] = "none"
               /\ \A v \in Threads : Adding(v)' /\ sock'[v] = sock[u] => v = u
               /\ Transit(u)' => fd[u] \in Fd /\ fdt'[fd[u]] = sock[u] /\ reg'[sock[u]] = 0
    <3>1. ~Unborn(sock[u])' /\ pc'[sock[u]] = "none"
      BY <2>1, <2>2, <1>3 DEF Unborn
    <3>2. \A v \in Threads : Adding(v)' /\ sock'[v] = sock[u] => v = u
      BY <2>1, <2>2, <1>1, <1>3 DEF AddedByOne
    <3>3. Transit(u)' => fd[u] \in Fd /\ fdt'[fd[u]] = sock[u] /\ reg'[sock[u]] = 0
      BY <2>1, <2>2, <1>1, <1>3 DEF AddedByOne, Transit
    <3> QED
      BY <3>1, <3>2, <3>3
  <2>3. /\ ~Unborn(k)' /\ pc'[k] = "none" /\ reg'[k] = 0
        /\ \A v \in Threads : Adding(v)' /\ sock'[v] = k => v = t
    BY <2>1, <1>2, <1>3 DEF Unborn
  <2> QED
    BY <2>2, <2>3, <1>3 DEF AddedByOne
<1>6. UnbornUnknown'
  <2>1. \A j \in Sock : Unborn(j)' => Unborn(j) /\ j # k
    BY DEF Unborn
  <2>2. \A j \in Sock : pc[j] = "none" => pc'[j] = "none"
    BY <1>3
  <2> QED
    BY <2>1, <2>2, <1>1, <1>3 DEF UnbornUnknown
<1>7. OneFdEach' /\ IdsFresh'
  <2>1. ASSUME NEW g \in Fd, NEW h \in Fd, fdt'[g] = fdt'[h], fdt'[g] # NoSock PROVE g = h
    BY <2>1, <1>1, <1>2, <1>3 DEF OneFdEach
  <2> QED
    BY <2>1, <1>1 DEF OneFdEach, IdsFresh
<1>8. OwnersOwn'
  <2>1. ASSUME NEW r \in Slots PROVE Owned(r)' <=> Owned(r)
    BY <1>3, OwnedKept DEF IsActive
  <2>2. ASSUME NEW r \in Slots, Owned(r) PROVE ConnAt(r)' = ConnAt(r)
    BY <2>2, <1>1, <1>3 DEF OwnersOwn, ConnAt, SockOf
  <2> QED
    BY <2>1, <2>2, <1>1, <1>2, <1>3 DEF OwnersOwn
<1> QED
  BY <1>4, <1>5, <1>6, <1>7, <1>8 DEF Coherent

(* Every step keeps what relates slots, descriptors, IDs and threads.      *)
LEMMA CoherentStep ==
  ASSUME TypeOK, Placed, Coherent, [Next]_vars
  PROVE  Coherent'
<1>a. TypeOK' /\ Placed'
  BY TypeStep
<1> USE Kinds DEF At, Goto, Return, Home, tableVars, netVars, locals
<1>b. ASSUME Quiet PROVE Coherent'
  BY <1>a, <1>b, QuietStep
<1>c. /\ HalfChanged /\ AddedByOne /\ UnbornUnknown /\ OneFdEach /\ IdsFresh /\ OwnersOwn
  BY DEF Coherent
<1>d. UNCHANGED conns => SlotsKept
  BY DEF SlotsKept
<1>1. ASSUME NEW t \in {Main, Accept}, AddReserve(t) PROVE Coherent'
  <2>1. ASSUME TableFull, Goto(t, "find"), UNCHANGED <<conns, conns_mutex, idx>> PROVE Coherent'
    <3>1. Quiet
      BY <1>1, <1>a, <2>1, <1>d DEF AddReserve, Quiet, QuietAt, Special, Adding, Transit, Unborn, TypeOK, Placed
    <3> QED
      BY <3>1, <1>b
  <2>2. ASSUME NEW s \in Slots, FirstFree(s), Reserve(s), Lock(t), Goto(t, "fill"),
               idx' = [idx EXCEPT ![t] = s], pc[t] = "add",
               UNCHANGED <<next_conn_id, netVars, fd, sock, reg>>
        PROVE  Coherent'
    <3>1. /\ \A r \in Slots : /\ r # s => conns'[r] = conns[r]
                            /\ conns'[r].id = conns[r].id /\ conns'[r].sock_fd = conns[r].sock_fd
          /\ conns[s].active # 1 /\ conns'[s].active = 1
      BY <2>2 DEF TypeOK, Reserve, FirstFree, IsActive, Connection
    <3>2. /\ conns_mutex' = t /\ \A u \in Threads : pc[u] \notin {"fill", "close", "list"}
      BY <2>2, <1>c, LockedOut DEF Lock, HalfChanged
    <3>3. /\ pc'[t] = "fill" /\ idx'[t] = s
          /\ \A u \in Threads : u # t => pc'[u] = pc[u] /\ idx'[u] = idx[u]
      BY <2>2 DEF TypeOK
    <3>4. HalfChanged'
      BY <3>1, <3>2, <3>3 DEF HalfChanged, IsActive
    <3>5. AddedByOne'
      BY <2>2, <1>c, <1>a, <3>3 DEF AddedByOne, Adding, Transit, Unborn, Placed, TypeOK
    <3>6. UnbornUnknown' /\ OneFdEach' /\ IdsFresh'
      BY <2>2, <1>c, <3>3 DEF UnbornUnknown, Unborn, OneFdEach, IdsFresh
    <3>7. \A r \in Slots : Owned(r)' <=> Owned(r)
      <4>1. ~Owned(s) /\ ~Owned(s)'
        BY <3>1, <3>2, <3>3 DEF Owned, Filled, IsActive
      <4>2. ASSUME NEW r \in Slots, r # s PROVE Owned(r)' <=> Owned(r)
        BY <4>2, <3>1, <3>2, <3>3, OwnedKept DEF IsActive
      <4> QED
        BY <4>1, <4>2
    <3>8. OwnersOwn'
      BY <2>2, <1>c, <3>1, <3>7 DEF OwnersOwn, ConnAt, SockOf
    <3> QED
      BY <3>4, <3>5, <3>6, <3>8 DEF Coherent
  <2> QED
    BY <1>1, <2>1, <2>2 DEF AddReserve
<1>2. ASSUME NEW t \in {Main, Accept}, AddFill(t) PROVE Coherent'
  <2>0. PICK s \in Slots, k \in Sock, f \in Fd : s = idx[t] /\ k = sock[t] /\ f = fd[t]
    BY <1>2, <1>c DEF AddFill, Placed, Adding, Transit, AddedByOne
  <2>1. /\ s = idx[t] /\ k = sock[t] /\ f = fd[t] /\ s \in Slots /\ k \in Sock /\ pc[t] = "fill" /\ t \in Threads
        /\ f \in Fd /\ fdt[f] = k /\ reg[k] = 0 /\ ~Unborn(k)
    BY <1>2, <2>0, <1>c DEF AddFill, Placed, Adding, Transit, AddedByOne
  <2>2. /\ conns'[s].sock_fd = f /\ conns'[s].id = next_conn_id /\ conns'[s].active = conns[s].active
        /\ \A r \in Slots : r # s => conns'[r] = conns[r]
    BY <1>2, <2>1 DEF AddFill, Fill, TypeOK, Connection
  <2>3. /\ reg'[k] = next_conn_id /\ \A j \in Sock : j # k => reg'[j] = reg[j]
        /\ next_conn_id' = next_conn_id + 1 /\ next_conn_id # 0
    BY <1>2, <2>1 DEF AddFill, Fill, TypeOK
  <2>4. /\ pc'[t] = "ret" /\ \A u \in Threads : u # t => pc'[u] = pc[u]
        /\ UNCHANGED <<fdt, socks, nsock, idx, sock, fd>>
    BY <1>2, <2>1 DEF AddFill, TypeOK
  <2>5. conns[s].active = 1 /\ \A u \in Threads : u # t => pc[u] \notin {"fill", "close", "list"}
    BY <2>1, <1>c, LockedOut DEF HalfChanged, IsActive
  <2>6. HalfChanged'
    BY <2>4, <2>5 DEF HalfChanged
  <2>7. AddedByOne'
    <3>1. ASSUME NEW u \in Threads, Adding(u)'
          PROVE  /\ Adding(u) /\ sock[u] \in Sock
                 /\ Transit(u)' => Transit(u) /\ u # t
      BY <3>1, <2>1, <2>4 DEF Adding, Transit, Placed
    <3>2. Adding(t)
      BY <2>1 DEF Adding
    <3>3. ASSUME NEW u \in Threads, Adding(u)'
          PROVE  /\ pc'[sock[u]] = "none"
                 /\ Transit(u)' => sock[u] # k /\ reg'[sock[u]] = 0
      <4>1. pc[sock[u]] = "none" /\ (u # t => sock[u] # k) /\ (Transit(u) => reg[sock[u]] = 0)
        BY <3>1, <3>2, <3>3, <2>1, <1>c DEF AddedByOne
      <4>2. sock[u] \in Threads /\ sock[u] # t
        BY <3>1, <3>3
      <4> QED
        BY <3>1, <3>3, <4>1, <4>2, <2>3, <2>4
    <3> QED
      BY <3>1, <3>3, <2>4, <1>c DEF AddedByOne, Unborn
  <2>8. UnbornUnknown' /\ OneFdEach'
    BY <2>1, <2>3, <2>4, <1>c DEF UnbornUnknown, Unborn, OneFdEach
  <2>9. IdsFresh'
    BY <2>1, <2>3, <1>c DEF IdsFresh, TypeOK
  <2>10. OwnersOwn'
    <3>1. ~Owned(s) /\ Owned(s)'
      BY <2>1, <2>2, <2>4, <2>5 DEF Owned, Filled, IsActive
    <3>2. ASSUME NEW r \in Slots, r # s PROVE Owned(r)' <=> Owned(r)
      BY <3>2, <2>1, <2>2, <2>4, OwnedKept DEF IsActive
    <3>3. ASSUME NEW r \in Slots, r # s, Owned(r)
          PROVE  /\ conns'[r] = conns[r] /\ conns[r].sock_fd # f
                 /\ ConnAt(r)' = ConnAt(r) /\ ConnAt(r) \in Sock /\ ConnAt(r) # k
      <4>1. /\ conns[r].sock_fd \in Fd /\ ConnAt(r) = fdt[conns[r].sock_fd]
            /\ ConnAt(r) \in Sock /\ reg[ConnAt(r)] # 0
        BY <3>3, <1>c, OwnedFd
      <4>2. ConnAt(r) # k /\ conns[r].sock_fd # f
        BY <4>1, <2>1
      <4> QED
        BY <4>1, <4>2, <3>3, <2>2, <2>4 DEF ConnAt, SockOf
    <3>4. \A r \in Slots : Owned(r)' => /\ conns'[r].id # 0 /\ ConnAt(r)' # NoSock
                                     /\ reg'[ConnAt(r)'] = conns'[r].id
      <4>1. ConnAt(s)' = k
        BY <2>1, <2>2, <2>4 DEF ConnAt, SockOf
      <4>2. ASSUME NEW r \in Slots, r # s, Owned(r)
            PROVE  /\ conns'[r].id # 0 /\ ConnAt(r)' # NoSock
                   /\ reg'[ConnAt(r)'] = conns'[r].id
        <5>1. /\ conns'[r] = conns[r] /\ ConnAt(r)' = ConnAt(r)
              /\ ConnAt(r) \in Sock /\ ConnAt(r) # k
          BY <4>2, <3>3
        <5>2. reg[ConnAt(r)] = conns[r].id /\ conns[r].id # 0
          BY <4>2, <1>c, OwnedFd
        <5>3. reg'[ConnAt(r)] = reg[ConnAt(r)]
          BY <5>1, <2>3
        <5> QED
          BY <5>1, <5>2, <5>3
      <4> QED
        BY <4>1, <4>2, <3>2, <2>1, <2>2, <2>3
    <3>5. \A q, r \in Slots :
            Owned(q)' /\ Owned(r)' /\ conns'[q].sock_fd = conns'[r].sock_fd => q = r
      BY <3>2, <3>3, <2>2, <1>c DEF OwnersOwn
    <3>6. ASSUME NEW g \in Fd, fdt'[g] # NoSock, reg'[fdt'[g]] # 0
          PROVE  \E r \in Slots : Owned(r)' /\ conns'[r].sock_fd = g
      <4>1. CASE g = f
        <5>1. Owned(s)' /\ conns'[s].sock_fd = g
          BY <4>1, <3>1, <2>2
        <5> QED
          BY <5>1, <2>1
      <4>2. CASE g # f
        <5>1. fdt[g] \in Sock /\ fdt[g] # k /\ reg[fdt[g]] # 0
          <6>1. fdt[g] \in Sock /\ fdt[g] # k
            BY <4>2, <3>6, <2>1, <2>4, <1>c DEF OneFdEach, TypeOK
          <6> QED
            BY <6>1, <3>6, <2>3, <2>4
        <5>2. PICK r \in Slots : Owned(r) /\ conns[r].sock_fd = g
          BY <5>1, <1>c DEF OwnersOwn
        <5> QED
          BY <5>2, <3>1, <3>2, <3>3
      <4> QED
        BY <4>1, <4>2
    <3> QED
      BY <3>4, <3>5, <3>6 DEF OwnersOwn
  <2> QED
    BY <2>6, <2>7, <2>8, <2>9, <2>10 DEF Coherent
<1>3. ASSUME NEW t \in {Main, Accept}, AddReturn(t) PROVE Coherent'
  <2>1. Quiet
    BY <1>3, <1>a, <1>d DEF AddReturn, Quiet, QuietAt, Special, Adding, Transit, Unborn, TypeOK, Placed
  <2> QED BY <2>1, <1>b
<1>4. ASSUME NEW t \in {Main, Accept}, FindNew(t) PROVE Coherent'
  <2>1. Quiet
    BY <1>4, <1>a, <1>d DEF FindNew, Quiet, QuietAt, Special, Adding, Transit, Unborn, TypeOK, Placed
  <2> QED BY <2>1, <1>b
<1>5. ASSUME NEW t \in {Main, Accept}, Spawn(t) PROVE Coherent'
  <2>1. /\ pc[t] = "create" /\ Starts(t, sock[t], idx[t])
        /\ UNCHANGED <<next_conn_id, conns_mutex, netVars, reg>>
    BY <1>5 DEF Spawn
  <2>2. \A r \in Slots : /\ conns'[r].active = conns[r].active /\ conns'[r].id = conns[r].id
                        /\ conns'[r].sock_fd = conns[r].sock_fd
    BY <1>5 DEF Spawn, TypeOK, Connection
  <2> QED
    BY <2>1, <2>2, StartsCoherent
<1>6. ASSUME NEW t \in {Main, Accept}, SpawnOutside(t) PROVE Coherent'
  <2>1. CASE Starts(t, sock[t], NoSlot) /\ UNCHANGED <<tableVars, netVars, proc, dest, reg>>
    <3>1. pc[t] = "create"
      BY <1>6 DEF SpawnOutside
    <3> QED
      BY <2>1, <3>1, StartsCoherent
  <2>2. CASE Die("crashed")
    <3>1. Quiet
      BY <2>2, <1>d DEF Die, Quiet, QuietAt, Special, Adding, Transit, Unborn, TypeOK, Placed
    <3> QED
      BY <3>1, <1>b
  <2> QED
    BY <1>6, <2>1, <2>2 DEF SpawnOutside
<1>7. ASSUME NEW t \in {Main, Accept}, SpawnFails(t) PROVE Coherent'
  <2>0. SlotsKept
    <3>1. sock[t] \in Sock
      BY <1>7 DEF SpawnFails, Placed, Adding
    <3>2. CASE UNCHANGED conns
      BY <3>2, <1>d
    <3>3. CASE idx[t] \in Slots /\ conns' = [conns EXCEPT ![idx[t]].thread_id = sock[t]]
      BY <3>3 DEF SlotsKept, TypeOK, Connection
    <3> QED
      BY <1>7, <3>2, <3>3 DEF SpawnFails
  <2>1. Quiet
    BY <1>7, <2>0, <1>a DEF SpawnFails, Quiet, QuietAt, Special, Adding, Transit, Unborn, TypeOK, Placed
  <2> QED BY <2>1, <1>b
<1>8. ASSUME NEW t \in Threads, Remove(t) PROVE Coherent'
  <2>1. ASSUME AfterRemove(t), UNCHANGED <<conns, conns_mutex>> PROVE Coherent'
    <3>1. Quiet
      BY <1>8, <1>a, <2>1, <1>d DEF Remove, AfterRemove, Quiet, QuietAt, Special, Adding, Transit, Unborn, TypeOK, Placed
    <3> QED
      BY <3>1, <1>b
  <2>2. ASSUME Removable(idx[t]), Deactivate(idx[t]), Lock(t), Goto(t, "close"), UNCHANGED locals
        PROVE  Coherent'
    <3> DEFINE s == idx[t]
    <3>1. /\ s \in Slots /\ conns[s].active = 1 /\ conns'[s].active = 0
          /\ \A r \in Slots : /\ r # s => conns'[r] = conns[r]
                            /\ conns'[r].id = conns[r].id /\ conns'[r].sock_fd = conns[r].sock_fd
      BY <2>2 DEF TypeOK, Removable, Deactivate, IsActive, Connection
    <3>2. conns_mutex' = t /\ \A u \in Threads : pc[u] \notin {"fill", "close", "list"}
      BY <2>2, <1>c DEF Lock, HalfChanged
    <3>3. /\ pc'[t] = "close" /\ pc[t] = "remove" /\ \A u \in Threads : u # t => pc'[u] = pc[u]
          /\ UNCHANGED <<next_conn_id, fdt, socks, nsock, reg, idx, fd, sock>>
      BY <1>8, <2>2 DEF TypeOK, Remove
    <3>4. HalfChanged'
      BY <3>1, <3>2, <3>3 DEF HalfChanged, IsActive
    <3>5. AddedByOne'
      BY <1>c, <3>3 DEF AddedByOne, Adding, Transit, Unborn, Placed
    <3>6. UnbornUnknown' /\ OneFdEach' /\ IdsFresh'
      BY <1>c, <3>3 DEF UnbornUnknown, Unborn, OneFdEach, IdsFresh
    <3>7. ASSUME NEW r \in Slots PROVE Owned(r)' <=> Owned(r)
      <4>1. CASE r = s
        BY <4>1, <3>1, <3>2, <3>3 DEF Owned, Filled, IsActive
      <4>2. CASE r # s
        BY <4>2, <3>1, <3>2, <3>3, OwnedKept DEF IsActive
      <4> QED
        BY <4>1, <4>2
    <3>8. OwnersOwn'
      <4>1. \A r \in Slots : ConnAt(r)' = ConnAt(r) /\ conns'[r].id = conns[r].id
                           /\ conns'[r].sock_fd = conns[r].sock_fd
        BY <3>1, <3>3 DEF ConnAt, SockOf
      <4> QED
        BY <1>c, <3>3, <3>7, <4>1 DEF OwnersOwn
    <3> QED
      BY <3>4, <3>5, <3>6, <3>8 DEF Coherent
  <2> QED
    BY <1>8, <2>1, <2>2 DEF Remove
<1>9. ASSUME NEW t \in Threads, RemoveClose(t) PROVE Coherent'
  <2>0. PICK s \in Slots, f \in Fd : s = idx[t] /\ f = conns[s].sock_fd /\ Owned(s)
    <3>1. idx[t] \in Slots /\ Owned(idx[t])
      BY <1>9, <1>c DEF RemoveClose, Placed, Owned
    <3> QED
      BY <3>1, <1>c, OwnedFd
  <2>1. s = idx[t] /\ f = conns[s].sock_fd /\ pc[t] = "close" /\ s \in Slots /\ conns[s].active # 1 /\ Owned(s)
    BY <1>9, <2>0, <1>c DEF RemoveClose, HalfChanged, IsActive
  <2>2. f \in Fd /\ fdt[f] \in Sock /\ reg[fdt[f]] # 0
    BY <2>1, <1>c, OwnedFd
  <2>3. fdt'[f] = NoSock /\ \A g \in Fd : g # f => fdt'[g] = fdt[g]
    BY <1>9, <2>1, <2>2 DEF RemoveClose, TypeOK
  <2>4. /\ pc'[t] \in {"scan", "prompt", "accept", "done"}
        /\ \A u \in Threads : u # t => /\ pc'[u] = pc[u] /\ idx'[u] = idx[u]
                                    /\ fd'[u] = fd[u] /\ sock'[u] = sock[u]
        /\ UNCHANGED <<conns, next_conn_id, socks, nsock, reg>>
    BY <1>9 DEF RemoveClose, AfterRemove, TypeOK
  <2>5. \A u \in Threads : u # t => pc[u] \notin {"fill", "close", "list"}
    BY <2>1, <1>c, LockedOut DEF HalfChanged
  <2>6. HalfChanged'
    BY <2>4, <2>5 DEF HalfChanged
  <2>7. AddedByOne'
    <3>1. ASSUME NEW u \in Threads, Adding(u)'
          PROVE  /\ Adding(u) /\ u # t /\ sock'[u] = sock[u] /\ fd'[u] = fd[u]
                 /\ pc'[u] = pc[u] /\ sock[u] \in Sock
      BY <3>1, <2>4 DEF Adding, Placed
    <3>2. ASSUME NEW u \in Threads, Adding(u)'
          PROVE  pc'[sock[u]] = "none" /\ (Transit(u) => fdt'[fd[u]] = sock[u])
      <4>1. /\ pc[sock[u]] = "none" /\ sock[u] \in Threads
            /\ Transit(u) => fd[u] \in Fd /\ fdt[fd[u]] = sock[u] /\ reg[sock[u]] = 0
        BY <3>1, <3>2, <1>c DEF AddedByOne
      <4>2. pc'[sock[u]] = "none"
        BY <4>1, <2>1, <2>4
      <4>3. Transit(u) => fd[u] # f
        BY <4>1, <2>2
      <4> QED
        BY <4>1, <4>2, <4>3, <2>3
    <3> QED
      BY <3>1, <3>2, <2>4, <1>c DEF AddedByOne, Transit, Unborn
  <2>8. UnbornUnknown' /\ OneFdEach' /\ IdsFresh'
    <3>1. \A u \in Threads : pc[u] = "none" => pc'[u] = "none"
      BY <2>1, <2>4
    <3>2. \A g \in Fd : fdt'[g] # NoSock => fdt'[g] = fdt[g]
      BY <2>3
    <3> QED
      <4>1. UnbornUnknown'
        BY <3>1, <3>2, <2>4, <1>c DEF UnbornUnknown, Unborn, TypeOK
      <4>2. OneFdEach' /\ IdsFresh'
        BY <3>2, <2>4, <1>c DEF OneFdEach, IdsFresh
      <4> QED
        BY <4>1, <4>2
  <2>9. OwnersOwn'
    <3>1. ~Owned(s)'
      <4>1. ~IsActive(s)' /\ \A u \in Threads : pc'[u] # "close"
        BY <2>1, <2>4, <2>5 DEF IsActive
      <4> QED
        BY <4>1 DEF Owned, Filled
    <3>2. ASSUME NEW r \in Slots, r # s PROVE Owned(r)' <=> Owned(r)
      BY <3>2, <2>1, <2>4, <2>5, OwnedKept DEF IsActive
    <3>3. ASSUME NEW r \in Slots, Owned(r)' PROVE ConnAt(r)' = ConnAt(r) /\ Owned(r) /\ r # s
      <4>1. r # s /\ Owned(r)
        BY <3>1, <3>2, <3>3
      <4>2. conns[r].sock_fd \in Fd /\ conns[r].sock_fd # f
        BY <4>1, <2>1, <1>c, OwnedFd DEF OwnersOwn
      <4> QED
        BY <4>1, <4>2, <2>3, <2>4 DEF ConnAt, SockOf
    <3>4. ASSUME NEW g \in Fd, fdt'[g] # NoSock, reg'[fdt'[g]] # 0
          PROVE  \E r \in Slots : Owned(r)' /\ conns'[r].sock_fd = g
      <4>1. g # f /\ fdt[g] # NoSock /\ reg[fdt[g]] # 0
        BY <3>4, <2>2, <2>3, <2>4
      <4>2. PICK r \in Slots : Owned(r) /\ conns[r].sock_fd = g
        BY <4>1, <1>c DEF OwnersOwn
      <4> QED
        BY <4>1, <4>2, <3>2, <2>1, <2>4
    <3> QED
      BY <3>3, <3>4, <2>4, <1>c DEF OwnersOwn
  <2> QED
    BY <2>6, <2>7, <2>8, <2>9 DEF Coherent
<1>10. ASSUME NEW a \in Addr, MainConnect(a) PROVE Coherent'
  <2>1. PICK f \in Fd : LowestFree(f) /\ OpenSocket(f) /\ fd' = [fd EXCEPT ![Main] = f]
    BY <1>10 DEF MainConnect
  <2> DEFINE k == nsock + 1
  <2>2. k \in Sock /\ Unborn(k)
    BY <1>10, <1>c, TableAssumption DEF MainConnect, TypeOK, Sock, UnbornUnknown, Unborn
  <2>3. /\ fdt[f] = NoSock /\ fdt' = [fdt EXCEPT ![f] = k] /\ sock' = [sock EXCEPT ![Main] = k]
        /\ pc[Main] \in {"prompt", "accept"} /\ pc' = [pc EXCEPT ![Main] = "connect"]
        /\ UNCHANGED <<tableVars, idx, reg>>
    BY <1>10, <2>1 DEF MainConnect, LowestFree, OpenSocket
  <2>4. /\ \A j \in Sock : j # k => socks'[j] = socks[j]
        /\ socks'[k].peer \notin {"none", "backlog"}
        /\ \A j \in Sock : j > nsock' => j > nsock /\ j # k
    BY <2>1, <2>2 DEF OpenSocket, TypeOK, Socket
  <2> QED
    BY <2>1, <2>2, <2>3, <2>4, BornCoherent
<1>11. ASSUME MainDial PROVE Coherent'
  <2>1. ASSUME Connected(sock[Main]), Goto(Main, "add"), UNCHANGED <<fdt, nsock, locals>>
        PROVE  Quiet
    <3>1. pc[Main] = "connect" /\ sock[Main] \in Sock /\ ~Unborn(sock[Main])
      BY <1>11, <1>c DEF MainDial, Placed, Adding, AddedByOne
    <3>2. \A k \in Sock : \/ socks'[k].peer = socks[k].peer
                          \/ ~Unborn(k) /\ ~Unborn(k)'
      BY <2>1, <3>1 DEF Connected, Unborn, TypeOK, Socket
    <3>3. \A t \in Threads : QuietAt(t)
      BY <2>1, <3>1 DEF QuietAt, Special, Adding, Transit, TypeOK
    <3> QED
      BY <1>11, <2>1, <3>2, <3>3, <1>d DEF MainDial, Quiet, Die
  <2>2. Die("failed") => Quiet
    BY <1>d DEF Die, Quiet, QuietAt
  <2> QED
    BY <1>11, <1>b, <2>1, <2>2 DEF MainDial
<1>12. ASSUME NEW i \in Nat, NEW l \in Labels, MainLookup(i, l) PROVE Coherent'
  <2>1. Quiet
    BY <1>12, <1>a, <1>d DEF MainLookup, Quiet, QuietAt, Special, Adding, Transit, Unborn, TypeOK, Placed
  <2> QED BY <2>1, <1>b
<1>13. ASSUME MainSend PROVE Coherent'
  <2>1. Quiet
    BY <1>13, <1>a, <1>d DEF MainSend, Die, Quiet, QuietAt, Special, Adding, Transit, Unborn, TypeOK, Placed
  <2> QED BY <2>1, <1>b
<1>14. ASSUME MainShutdown PROVE Coherent'
  <2>1. Quiet
    BY <1>14, <1>a, <1>d DEF MainShutdown, ShutAll, Quiet, QuietAt, Special, Adding, Transit, Unborn, TypeOK, Placed
  <2> QED BY <2>1, <1>b
<1>15. ASSUME MainReadTid PROVE Coherent'
  <2>1. Quiet
    BY <1>15, <1>a, <1>d DEF MainReadTid, Quiet, QuietAt, Special, Adding, Transit, Unborn, TypeOK, Placed
  <2> QED BY <2>1, <1>b
<1>16. ASSUME MainJoin PROVE Coherent'
  <2>1. Quiet
    BY <1>16, <1>a, <1>d DEF MainJoin, Die, Quiet, QuietAt, Special, Adding, Transit, Unborn, TypeOK, Placed
  <2> QED BY <2>1, <1>b
<1>17. ASSUME MainList PROVE Coherent'
  <2>1. conns_mutex' = Main /\ \A u \in Threads : pc[u] \notin {"fill", "close", "list"}
    BY <1>17, <1>c DEF MainList, Lock, HalfChanged
  <2>2. /\ pc[Main] = "prompt" /\ pc'[Main] = "list"
        /\ \A u \in Threads : u # Main => pc'[u] = pc[u]
        /\ UNCHANGED <<conns, next_conn_id, fdt, socks, nsock, reg, idx, fd, sock>>
    BY <1>17 DEF MainList, TypeOK
  <2>3. HalfChanged'
    BY <2>1, <2>2 DEF HalfChanged
  <2>4. AddedByOne'
    BY <1>c, <2>2 DEF AddedByOne, Adding, Transit, Unborn, Placed
  <2>5. UnbornUnknown' /\ OneFdEach' /\ IdsFresh'
    BY <1>c, <2>2 DEF UnbornUnknown, Unborn, OneFdEach, IdsFresh
  <2>6. ASSUME NEW r \in Slots PROVE Owned(r)' <=> Owned(r)
    BY <2>2, OwnedKept DEF IsActive
  <2>7. OwnersOwn'
    BY <1>c, <2>2, <2>6 DEF OwnersOwn, ConnAt, SockOf
  <2> QED
    BY <2>3, <2>4, <2>5, <2>7 DEF Coherent
<1>18. ASSUME MainListEnd PROVE Coherent'
  <2>1. /\ pc[Main] = "list" /\ conns_mutex = Main
        /\ \A u \in Threads : u # Main => pc[u] \notin {"fill", "close", "list"}
    BY <1>18, <1>c, LockedOut DEF MainListEnd, HalfChanged
  <2>2. /\ pc'[Main] = "prompt"
        /\ \A u \in Threads : u # Main => /\ pc'[u] = pc[u] /\ idx'[u] = idx[u]
                                       /\ fd'[u] = fd[u] /\ sock'[u] = sock[u]
        /\ UNCHANGED <<conns, next_conn_id, fdt, socks, nsock, reg>>
    BY <1>18 DEF MainListEnd, TypeOK
  <2>3. HalfChanged'
    BY <2>1, <2>2 DEF HalfChanged
  <2>4. AddedByOne'
    <3>1. ASSUME NEW u \in Threads, Adding(u)'
          PROVE  /\ Adding(u) /\ u # Main /\ sock[u] \in Sock /\ sock[u] # Main
                 /\ Transit(u)' => Transit(u)
      BY <3>1, <2>2 DEF Adding, Transit, Placed
    <3>2. ASSUME NEW u \in Threads, Adding(u)'
          PROVE  /\ ~Unborn(sock[u])' /\ pc'[sock[u]] = "none"
                 /\ Transit(u)' => /\ fd[u] \in Fd /\ fdt[fd[u]] = sock[u] /\ reg[sock[u]] = 0
      BY <3>1, <3>2, <2>2, <1>c DEF AddedByOne, Unborn
    <3>3. ASSUME NEW u \in Threads, Adding(u)', NEW v \in Threads, Adding(v)', sock'[v] = sock'[u]
          PROVE  v = u
      <4>1. Adding(u) /\ Adding(v) /\ sock[v] = sock[u]
        BY <3>1, <3>3, <2>2
      <4> QED
        BY <4>1, <1>c DEF AddedByOne
    <3> QED
      BY <3>1, <3>2, <3>3, <2>2 DEF AddedByOne
  <2>5. UnbornUnknown' /\ OneFdEach' /\ IdsFresh'
    BY <1>c, <2>2 DEF UnbornUnknown, Unborn, OneFdEach, IdsFresh
  <2>6. ASSUME NEW r \in Slots PROVE Owned(r)' <=> Owned(r)
    BY <2>1, <2>2, OwnedKept DEF IsActive
  <2>7. OwnersOwn'
    BY <1>c, <2>2, <2>6 DEF OwnersOwn, ConnAt, SockOf
  <2> QED
    BY <2>3, <2>4, <2>5, <2>7 DEF Coherent
<1>19. ASSUME MainExit PROVE Coherent'
  <2>1. ASSUME NEW S, ShutAll(S), Goto(Main, "scan"), UNCHANGED <<fdt, nsock, locals>>
        PROVE  Quiet
    <3>1. pc[Main] = "prompt" /\ UNCHANGED <<tableVars, reg>>
      BY <1>19 DEF MainExit, Die
    <3>2. \A k \in Sock : socks'[k].peer = socks[k].peer
      BY <2>1 DEF ShutAll, TypeOK, Socket
    <3>3. \A t \in Threads : QuietAt(t)
      BY <2>1, <3>1 DEF QuietAt, Special, Adding, Transit, TypeOK
    <3> QED
      BY <2>1, <3>1, <3>2, <3>3, <1>d DEF Quiet
  <2>2. Die("killed") => Quiet
    BY <1>d DEF Die, Quiet, QuietAt
  <2> QED
    BY <1>19, <1>b, <2>1, <2>2 DEF MainExit
<1>20. ASSUME MainScan PROVE Coherent'
  <2>1. Quiet
    BY <1>20, <1>a, <1>d DEF MainScan, Die, Quiet, QuietAt, Special, Adding, Transit, Unborn, TypeOK, Placed
  <2> QED BY <2>1, <1>b
<1>21. ASSUME MainEof PROVE Coherent'
  <2>1. Quiet
    BY <1>21, <1>a, <1>d DEF MainEof, Quiet, QuietAt, Special, Adding, Transit, Unborn, TypeOK, Placed
  <2> QED BY <2>1, <1>b
<1>22. ASSUME AcceptPeer PROVE Coherent'
  <2>1. PICK k \in Sock, f \in Fd :
          /\ socks[k].peer = "backlog" /\ LowestFree(f) /\ Accepted(f, k)
          /\ fd' = [fd EXCEPT ![Accept] = f] /\ sock' = [sock EXCEPT ![Accept] = k]
    BY <1>22 DEF AcceptPeer
  <2>2. Unborn(k) /\ k <= nsock
    BY <2>1, <1>c DEF UnbornUnknown, Unborn, TypeOK
  <2>3. /\ fdt[f] = NoSock /\ fdt' = [fdt EXCEPT ![f] = k]
        /\ pc[Accept] \in {"prompt", "accept"} /\ pc' = [pc EXCEPT ![Accept] = "add"]
        /\ UNCHANGED <<tableVars, idx, reg, nsock>>
    BY <1>22, <2>1 DEF AcceptPeer, LowestFree, Accepted
  <2>4. /\ \A j \in Sock : j # k => socks'[j] = socks[j]
        /\ socks'[k].peer \notin {"none", "backlog"}
        /\ \A j \in Sock : j > nsock' => j > nsock /\ j # k
    BY <2>1, <2>2, <2>3 DEF Accepted, TypeOK, Socket
  <2> QED
    BY <2>1, <2>2, <2>3, <2>4, BornCoherent
<1>23. ASSUME AcceptFails PROVE Coherent'
  <2>1. Quiet
    BY <1>23, <1>a, <1>d DEF AcceptFails, Die, Quiet, QuietAt, Special, Adding, Transit, Unborn, TypeOK, Placed
  <2> QED BY <2>1, <1>b
<1>24. ASSUME NEW k \in Sock, RecvStart(k) PROVE Coherent'
  <2>1. Quiet
    BY <1>24, <1>a, <1>d DEF RecvStart, Quiet, QuietAt, Special, Adding, Transit, Unborn, TypeOK, Placed
  <2> QED BY <2>1, <1>b
<1>25. ASSUME NEW k \in Sock, RecvCall(k) PROVE Coherent'
  <2>1. Quiet
    BY <1>25, <1>a, <1>d DEF RecvCall, Quiet, QuietAt, Special, Adding, Transit, Unborn, TypeOK, Placed
  <2> QED BY <2>1, <1>b
<1>26. ASSUME NEW k \in Sock, RecvData(k) PROVE Coherent'
  <2>1. Quiet
    BY <1>26, <1>a, <1>d DEF RecvData, Quiet, QuietAt, Special, Adding, Transit, Unborn, TypeOK, Placed
  <2> QED BY <2>1, <1>b
<1>27. ASSUME NEW k \in Sock, RecvEnd(k) PROVE Coherent'
  <2>1. Quiet
    BY <1>27, <1>a, <1>d DEF RecvEnd, Quiet, QuietAt, Special, Adding, Transit, Unborn, TypeOK, Placed
  <2> QED BY <2>1, <1>b
<1>28. ASSUME Peers PROVE Coherent'
  <2>1. UNCHANGED <<tableVars, fdt, pc, locals, reg>>
    BY <1>28 DEF Peers, PeerConnect, PeerSend, PeerClose, PeerReset
  <2>2. CASE PeerConnect
    <3> DEFINE k == nsock + 1
    <3>1. k \in Sock /\ Unborn(k)
      BY <2>2, <1>c, TableAssumption DEF PeerConnect, TypeOK, Sock, UnbornUnknown, Unborn
    <3>2. /\ nsock' = nsock + 1 /\ socks'[k].peer = "backlog"
          /\ \A j \in Sock : j # k => socks'[j] = socks[j]
      BY <2>2, <3>1 DEF PeerConnect, TypeOK, Socket
    <3>3. \A j \in Sock : Unborn(j)' <=> Unborn(j)
      BY <3>1, <3>2 DEF Unborn
    <3>4. HalfChanged' /\ OneFdEach' /\ IdsFresh'
      BY <2>1, <1>c DEF HalfChanged, IsActive, OneFdEach, IdsFresh
    <3>5. AddedByOne'
      BY <2>1, <3>3, <1>c DEF AddedByOne, Adding, Transit, Placed
    <3>6. UnbornUnknown'
      BY <2>1, <3>2, <3>3, <1>c DEF UnbornUnknown, TypeOK
    <3>7. ASSUME NEW r \in Slots PROVE Owned(r)' <=> Owned(r)
      BY <2>1, OwnedKept DEF IsActive
    <3>8. OwnersOwn'
      BY <1>c, <2>1, <3>7 DEF OwnersOwn, ConnAt, SockOf
    <3> QED
      BY <3>4, <3>5, <3>6, <3>8 DEF Coherent
  <2>3. ASSUME NEW k \in Sock, NEW m \in Message, PeerSend(k, m) \/ PeerClose(k) \/ PeerReset(k)
        PROVE  Coherent'
    <3>1. \A j \in Sock : \/ socks'[j].peer = socks[j].peer
                          \/ ~Unborn(j) /\ ~Unborn(j)'
      <4>1. \A j \in Sock : j # k => socks'[j] = socks[j]
        BY <2>3 DEF PeerSend, PeerClose, PeerReset, TypeOK
      <4>2. \/ socks'[k].peer = socks[k].peer
            \/ ~Unborn(k) /\ socks'[k].peer \in {"closed", "reset"}
        BY <2>3 DEF PeerSend, PeerClose, PeerReset, Unborn, TypeOK, Socket
      <4> QED
        BY <4>1, <4>2 DEF Unborn
    <3>2. Quiet
      BY <2>1, <2>3, <3>1, <1>d DEF Quiet, QuietAt, PeerSend, PeerClose, PeerReset
    <3> QED
      BY <3>2, <1>b
  <2> QED
    BY <1>28, <2>2, <2>3 DEF Peers, Message
<1>29. ASSUME UNCHANGED vars PROVE Coherent'
  <2>1. Quiet
    BY <1>29, <1>d DEF vars, Quiet, QuietAt
  <2> QED
    BY <2>1, <1>b
<1>30. CASE Command
  BY <1>10, <1>12, <1>17, <1>19, <1>21, <1>30 DEF Command, Labels
<1>31. CASE MainStep
  BY <1>1, <1>2, <1>3, <1>4, <1>5, <1>6, <1>7, <1>8, <1>9, <1>11, <1>13, <1>14,
     <1>15, <1>16, <1>18, <1>20, <1>31, Zenon DEF MainStep, Adder
<1>32. CASE AcceptStep \/ AcceptFails
  BY <1>1, <1>2, <1>3, <1>4, <1>5, <1>6, <1>7, <1>22, <1>23, <1>32, Zenon DEF AcceptStep, Adder
<1>33. ASSUME NEW k \in Sock, RecvStep(k) PROVE Coherent'
  BY <1>8, <1>9, <1>24, <1>25, <1>26, <1>27, <1>33 DEF RecvStep
<1> QED
  BY <1>28, <1>29, <1>30, <1>31, <1>32, <1>33 DEF Next, Stopped

(* Whatever the interleaving of commands, accepting and receiver threads,   *)
(* the inductive invariant holds: slots half changed are under the mutex, a *)
(* descriptor belongs to one slot, IDs are given out once.                  *)
THEOREM ChatInvariant == Spec => []IInv
<1>1. Init => IInv
  <2>1. ASSUME Init PROVE Coherent
    BY <2>1, Kinds DEF Init, TableInit, NetInit, Home, Coherent, HalfChanged, AddedByOne,
       Adding, UnbornUnknown, OneFdEach, IdsFresh, OwnersOwn, Owned, Filled, IsActive, At,
       Unborn, NoSlot
  <2> QED
    BY <2>1, TypeInit DEF IInv
<1>2. IInv /\ [Next]_vars => IInv'
  BY TypeStep, CoherentStep DEF IInv
<1> QED
  BY <1>1, <1>2, PTL DEF Spec

-----------------------------------------------------------------------------
(* The fields of every variable keep their types, for any number of slots  *)
(* and connections: no index ever leaves the table except the -1 that      *)
(* find_index_by_id returns.                                               *)
THEOREM ChatTypes == Spec => []TypeOK
BY ChatInvariant, PTL DEF IInv

(* A filled slot's descriptor is open and is the one its ID was given to:  *)
(* remove_connection_by_index never leaves a listed connection closed.     *)
THEOREM ActiveSlotsOwnTheirFd == Spec => []ActiveOwnsFd
<1>1. IInv => ActiveOwnsFd
  BY DEF IInv, Coherent, OwnersOwn, Owned, ActiveOwnsFd
<1> QED
  BY <1>1, ChatInvariant, PTL

(* remove_connection_by_index closes the descriptor of the connection that *)
(* it takes off the table, never one closed before or handed out again.    *)
THEOREM ClosesOnlyItsOwn == Spec => []CloseHitsOwn
<1>1. IInv => CloseHitsOwn
  <2> SUFFICES ASSUME IInv, NEW t \in Threads, At(t, "close")
               PROVE  /\ ConnAt(idx[t]) # NoSock
                      /\ reg[ConnAt(idx[t])] = conns[idx[t]].id
    BY DEF CloseHitsOwn
  <2>1. idx[t] \in Slots /\ Owned(idx[t])
    BY DEF IInv, Placed, Owned, At
  <2> QED
    BY <2>1 DEF IInv, Coherent, OwnersOwn
<1> QED
  BY <1>1, ChatInvariant, PTL

(* A connection that got an ID and is still open is in the table or about  *)
(* to be closed: add_new_connection overwrites no live slot.               *)
THEOREM NoConnectionIsLost == Spec => []RegisteredNeverLost
<1>1. IInv => RegisteredNeverLost
  <2> SUFFICES ASSUME IInv, NEW f \in Fd, fdt[f] # NoSock, reg[fdt[f]] # 0
               PROVE  \/ \E s \in Slots : Filled(s) /\ conns[s].sock_fd = f
                      \/ \E t \in Threads : At(t, "close") /\ conns[idx[t]].sock_fd = f
    BY DEF RegisteredNeverLost
  <2>1. PICK s \in Slots : Owned(s) /\ conns[s].sock_fd = f
    BY DEF IInv, Coherent, OwnersOwn
  <2> QED
    BY <2>1 DEF Owned
<1> QED
  BY <1>1, ChatInvariant, PTL

(* While list holds the mutex every active slot is complete, its           *)
(* connection open and its ID its own.                                     *)
THEOREM ListIsConsistent == Spec => []ListSnapshot
<1>1. IInv => ListSnapshot
  <2> SUFFICES ASSUME IInv, At(Main, "list"), NEW s \in Slots, NEW r \in Slots, IsActive(s)
               PROVE  /\ Filled(s) /\ ConnAt(s) # NoSock
                      /\ IsActive(r) /\ conns[r].id = conns[s].id => r = s
    BY DEF ListSnapshot
  <2>1. \A t \in Threads : ~At(t, "fill")
    BY Kinds, LockedOut DEF IInv, Coherent, HalfChanged, At
  <2>2. \A q \in Slots : IsActive(q) => Filled(q) /\ Owned(q)
    BY <2>1 DEF Filled, Owned
  <2>3. Filled(s) /\ ConnAt(s) # NoSock /\ reg[ConnAt(s)] = conns[s].id /\ conns[s].id # 0
    BY <2>2 DEF IInv, Coherent, OwnersOwn
  <2>4. ASSUME IsActive(r), conns[r].id = conns[s].id PROVE r = s
    <3>1. Owned(s) /\ Owned(r) /\ ConnAt(r) # NoSock /\ reg[ConnAt(r)] = conns[r].id
      BY <2>2, <2>4 DEF IInv, Coherent, OwnersOwn
    <3>2. ConnAt(s) \in Sock /\ ConnAt(r) \in Sock
      BY <2>3, <3>1 DEF IInv, TypeOK, ConnAt, SockOf
    <3>3. ConnAt(r) = ConnAt(s)
      BY <2>3, <2>4, <3>1, <3>2 DEF IInv, Coherent, IdsFresh
    <3>4. conns[r].sock_fd = conns[s].sock_fd
      BY <2>3, <3>3 DEF IInv, Coherent, OneFdEach, ConnAt, SockOf
    <3> QED
      BY <3>1, <3>4 DEF IInv, Coherent, OwnersOwn
  <2> QED
    BY <2>3, <2>4
<1> QED
  BY <1>1, ChatInvariant, PTL
=============================================================================
