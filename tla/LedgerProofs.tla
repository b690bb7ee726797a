---------------------------- MODULE LedgerProofs ----------------------------
(***************************************************************************)
(* The chat implements ConnLedger, for any number of slots, connections    *)
(* and addresses: five of its steps are steps of the ledger, one for each  *)
(* way a connection's standing changes, and all others leave it alone.     *)
(***************************************************************************)
EXTENDS ChatProofs

(* What the ledger sees of the chat.                                       *)
ledgerVars == <<[k \in Sock |-> Standing(k)], reg, next_conn_id - 1>>

(* A step that opens, closes and registers nothing, and leaves the filled  *)
(* slots filled.                                                           *)
LedgerStill ==
  /\ UNCHANGED <<fdt, reg, next_conn_id>>
  /\ \A s \in Slots : /\ Filled(s)' <=> Filled(s)
                      /\ conns'[s].sock_fd = conns[s].sock_fd

LEMMA StillStutters ==
  ASSUME LedgerStill
  PROVE  UNCHANGED ledgerVars
<1>1. \A k \in Sock : Held(k)' <=> Held(k)
  BY DEF LedgerStill, Held
<1>2. \A s \in Slots : ConnAt(s)' = ConnAt(s)
  BY DEF LedgerStill, ConnAt, SockOf
<1>3. \A k \in Sock : Standing(k)' = Standing(k)
  BY <1>1, <1>2 DEF LedgerStill, Standing
<1> QED
  BY <1>3 DEF LedgerStill, ledgerVars

(* A step in which the standing of k alone changes.                        *)
LEMMA OneMoves ==
  ASSUME NEW k \in Sock, NEW from, NEW to, Standing(k) = from, Standing(k)' = to,
         \A j \in Sock : j # k => Standing(j)' = Standing(j)
  PROVE  Ledger!Move(k, from, to)
BY DEF Ledger!Move

(* A descriptor is given to a connection that had none and no ID: Open.    *)
LEMMA GivenOpens ==
  ASSUME TypeOK, UnbornUnknown, NEW k \in Sock, Unborn(k), NEW f \in Fd, fdt[f] = NoSock,
         fdt' = [fdt EXCEPT ![f] = k], UNCHANGED <<conns, idx, reg, next_conn_id>>,
         \A t \in Threads : pc'[t] = "fill" <=> pc[t] = "fill"
  PROVE  Ledger!Open(k)
<1>1. reg[k] = 0 /\ ~Held(k)
  BY DEF UnbornUnknown, Held
<1>2. fdt'[f] = k /\ \A g \in Fd : g # f => fdt'[g] = fdt[g]
  BY DEF TypeOK
<1>3. Standing(k) = "unseen" /\ Standing(k)' = "held"
  BY <1>1, <1>2 DEF Standing, Held
<1>4. ASSUME NEW j \in Sock, j # k PROVE Standing(j)' = Standing(j)
  <2>1. Held(j)' <=> Held(j)
    BY <1>2, <1>4, Kinds DEF Held
  <2>2. \A s \in Slots : Filled(s)' <=> Filled(s)
    BY DEF Filled, IsActive, At
  <2>3. \A s \in Slots : ConnAt(s)' = j <=> ConnAt(s) = j
    BY <1>2, <1>4, Kinds DEF ConnAt, SockOf
  <2> QED
    BY <2>1, <2>2, <2>3 DEF Standing
<1>5. Ledger!Move(k, "unseen", "held")
  BY <1>3, <1>4, OneMoves
<1> QED
  BY <1>5 DEF Ledger!Open

(* Two filled slots, or one that is being closed, name two connections.    *)
LEMMA OwnersDiffer ==
  ASSUME TypeOK, Coherent, NEW r \in Slots, NEW s \in Slots, Owned(r), Owned(s),
         ConnAt(r) = ConnAt(s)
  PROVE  r = s
<1>1. /\ conns[r].sock_fd \in Fd /\ conns[s].sock_fd \in Fd
      /\ fdt[conns[r].sock_fd] = fdt[conns[s].sock_fd] /\ fdt[conns[r].sock_fd] # NoSock
  BY OwnedFd, Kinds DEF Coherent
<1> QED
  BY <1>1 DEF Coherent, OneFdEach, OwnersOwn

(* add_new_connection's second half lists a connection under the next ID.  *)
LEMMA FillEnters ==
  ASSUME IInv, NEW t \in {Main, Accept}, AddFill(t)
  PROVE  Ledger!Enter(sock[t])
<1> USE Kinds DEF At, Goto, locals, netVars
<1>0. TypeOK /\ Coherent /\ pc[t] = "fill" /\ t \in Threads
  BY DEF IInv, AddFill
<1>1. PICK s \in Slots, k \in Sock, f \in Fd : s = idx[t] /\ k = sock[t] /\ f = fd[t]
  BY <1>0 DEF IInv, Placed, Adding, Transit, Coherent, AddedByOne
<1>2. fdt[f] = k /\ reg[k] = 0 /\ IsActive(s)
  BY <1>0, <1>1 DEF Coherent, AddedByOne, HalfChanged, Adding, Transit
<1>3. /\ conns'[s].sock_fd = f /\ conns'[s].active = conns[s].active
      /\ \A r \in Slots : r # s => conns'[r] = conns[r]
  BY <1>0, <1>1 DEF AddFill, Fill, TypeOK, Connection
<1>4. /\ next_conn_id' = next_conn_id + 1 /\ next_conn_id \in Nat \ {0}
      /\ reg' = [reg EXCEPT ![k] = next_conn_id] /\ reg \in [Sock -> Nat]
      /\ UNCHANGED <<fdt, idx>>
  BY <1>0, <1>1 DEF AddFill, Fill, TypeOK
<1>5. /\ pc'[t] = "ret" /\ \A u \in Threads : u # t => pc'[u] = pc[u] /\ pc[u] # "fill"
  BY <1>0, LockedOut DEF AddFill, TypeOK, Coherent, HalfChanged
<1>6. ~Filled(s) /\ Filled(s)' /\ ConnAt(s)' = k
  BY <1>0, <1>1, <1>2, <1>3, <1>4, <1>5 DEF Filled, IsActive, ConnAt, SockOf
<1>7. ASSUME NEW r \in Slots, r # s
      PROVE  (Filled(r)' <=> Filled(r)) /\ ConnAt(r)' = ConnAt(r)
  BY <1>1, <1>3, <1>4, <1>5, <1>7 DEF Filled, IsActive, ConnAt, SockOf
<1>8. \A j \in Sock : Held(j)' <=> Held(j)
  BY <1>4 DEF Held
<1>9. Standing(k) = "held" /\ Standing(k)' = "listed"
  BY <1>2, <1>4, <1>6, <1>8 DEF Standing, Held
<1>10. ASSUME NEW j \in Sock, j # k PROVE Standing(j)' = Standing(j)
  BY <1>4, <1>6, <1>7, <1>8, <1>10 DEF Standing
<1>11. Ledger!Move(k, "held", "listed")
  BY <1>9, <1>10, OneMoves
<1> QED
  BY <1>1, <1>4, <1>11 DEF Ledger!Enter

(* remove_connection_by_index takes the connection of a slot off the list. *)
LEMMA RemoveLeaves ==
  ASSUME IInv, NEW t \in Threads, Remove(t), Removable(idx[t])
  PROVE  \E k \in Sock : Ledger!Leave(k)
<1> USE Kinds DEF At, Goto, locals, netVars
<1>0. TypeOK /\ Coherent /\ pc[t] = "remove"
  BY DEF IInv, Remove
<1>1. PICK s \in Slots : s = idx[t] /\ IsActive(s)
  BY DEF Removable
<1>2. \A u \in Threads : pc[u] # "fill" /\ pc[u] # "close"
  BY <1>0 DEF Remove, Coherent, HalfChanged
<1>3. /\ \A r \in Slots : conns'[r].sock_fd = conns[r].sock_fd
      /\ \A r \in Slots : r # s => conns'[r].active = conns[r].active
      /\ conns'[s].active # 1 /\ UNCHANGED <<fdt, reg, next_conn_id, idx>>
  BY <1>0, <1>1 DEF Remove, Deactivate, TypeOK, Connection
<1>4. \A u \in Threads : pc'[u] # "fill"
  BY <1>0, <1>1, <1>2 DEF Remove, TypeOK
<1>5. \A r \in Slots : /\ ConnAt(r)' = ConnAt(r)
                       /\ Filled(r) <=> IsActive(r)
                       /\ Filled(r)' <=> IsActive(r) /\ r # s
  BY <1>1, <1>2, <1>3, <1>4 DEF ConnAt, SockOf, Filled, IsActive
<1>6. PICK k \in Sock : k = ConnAt(s) /\ reg[k] # 0 /\ Held(k)
  <2>1. Owned(s) /\ OwnersOwn
    BY <1>0, <1>1, <1>5 DEF Owned, Coherent
  <2>2. /\ conns[s].sock_fd \in Fd /\ ConnAt(s) = fdt[conns[s].sock_fd]
        /\ ConnAt(s) \in Sock /\ reg[ConnAt(s)] # 0
    BY <1>0, <2>1, OwnedFd
  <2>3. Held(ConnAt(s))
    BY <2>2 DEF Held
  <2> QED
    BY <2>2, <2>3
<1>7. \A r \in Slots : Filled(r) /\ ConnAt(r) = k => r = s
  BY <1>0, <1>1, <1>5, <1>6, OwnersDiffer DEF Owned
<1>8. Standing(k) = "listed" /\ Standing(k)' = "leaving"
  BY <1>1, <1>3, <1>5, <1>6, <1>7 DEF Standing, Held
<1>9. ASSUME NEW j \in Sock, j # k PROVE Standing(j)' = Standing(j)
  BY <1>1, <1>3, <1>5, <1>6, <1>9 DEF Standing, Held
<1>10. Ledger!Move(k, "listed", "leaving")
  BY <1>8, <1>9, OneMoves
<1> QED
  BY <1>3, <1>10 DEF Ledger!Leave

(* Its close() closes that connection.                                     *)
LEMMA RemoveCloses ==
  ASSUME IInv, NEW t \in Threads, RemoveClose(t)
  PROVE  \E k \in Sock : Ledger!Close(k)
<1> USE Kinds DEF At, Goto, locals
<1>0. TypeOK /\ Coherent /\ pc[t] = "close"
  BY DEF IInv, RemoveClose
<1>1. PICK s \in Slots : s = idx[t] /\ Owned(s) /\ ~IsActive(s)
  BY <1>0 DEF IInv, Placed, Owned, Coherent, HalfChanged
<1>2. PICK k \in Sock, f \in Fd : k = ConnAt(s) /\ f = conns[s].sock_fd /\ fdt[f] = k /\ reg[k] # 0
  <2>1. OwnersOwn
    BY <1>0 DEF Coherent
  <2> QED
    BY <1>0, <1>1, <2>1, OwnedFd
<1>3. /\ fdt'[f] = NoSock /\ \A g \in Fd : g # f => fdt'[g] = fdt[g] /\ fdt[g] # k
      /\ UNCHANGED <<conns, reg, next_conn_id>>
  BY <1>0, <1>1, <1>2 DEF RemoveClose, TypeOK, Coherent, OneFdEach
<1>4. /\ pc'[t] # "fill" /\ \A u \in Threads : u # t => pc'[u] = pc[u] /\ idx'[u] = idx[u]
  BY <1>0 DEF RemoveClose, AfterRemove, Return, Home, TypeOK
<1>5. \A r \in Slots : Filled(r)' <=> Filled(r)
  BY <1>0, <1>3, <1>4 DEF Filled, IsActive
<1>6. \A r \in Slots : Filled(r) => ConnAt(r) # k
  BY <1>0, <1>1, <1>2, OwnersDiffer DEF Owned, Filled
<1>7. Standing(k) = "leaving" /\ Standing(k)' = "closed"
  BY <1>2, <1>3, <1>6 DEF Standing, Held
<1>8. ASSUME NEW j \in Sock, j # k PROVE Standing(j)' = Standing(j)
  <2>1. Held(j)' <=> Held(j)
    BY <1>2, <1>3, <1>8 DEF Held
  <2>2. \A r \in Slots : ConnAt(r)' = j <=> ConnAt(r) = j
    BY <1>2, <1>3, <1>8 DEF ConnAt, SockOf
  <2> QED
    BY <2>1, <2>2, <1>3, <1>5 DEF Standing
<1>9. Ledger!Move(k, "leaving", "closed")
  BY <1>7, <1>8, OneMoves
<1> QED
  BY <1>3, <1>9 DEF Ledger!Close

-----------------------------------------------------------------------------
(* The steps that change no standing: those of an adder before and after   *)
(* the filling in,                                                         *)
LEMMA AdderStill ==
  ASSUME IInv, NEW t \in {Main, Accept},
         \/ AddReserve(t) \/ AddReturn(t) \/ FindNew(t)
         \/ Spawn(t) \/ SpawnOutside(t) \/ SpawnFails(t)
  PROVE  LedgerStill
<1> USE Kinds DEF At, Goto, Return, Home, tableVars, netVars, locals
<1>0. TypeOK /\ Coherent /\ idx \in [Threads -> Slots \cup {NoSlot}] /\ pc \in [Threads -> Labels]
  BY DEF IInv, TypeOK
<1>1. CASE AddReserve(t)
  <2>1. ASSUME NEW s \in Slots, FirstFree(s), Reserve(s), Goto(t, "fill"),
               idx' = [idx EXCEPT ![t] = s]
        PROVE  LedgerStill
    <3>1. /\ ~IsActive(s) /\ \A r \in Slots : r # s => conns'[r].active = conns[r].active
          /\ \A r \in Slots : conns'[r].sock_fd = conns[r].sock_fd
      BY <1>0, <2>1 DEF FirstFree, Reserve, TypeOK, Connection
    <3>2. /\ pc'[t] = "fill" /\ idx'[t] = s /\ pc[t] # "fill"
          /\ \A u \in Threads : u # t => pc'[u] = pc[u] /\ idx'[u] = idx[u]
      BY <1>0, <1>1, <2>1 DEF AddReserve
    <3>3. \A r \in Slots : Filled(r)' <=> Filled(r)
      BY <3>1, <3>2 DEF Filled, IsActive
    <3> QED
      BY <1>1, <3>1, <3>3 DEF AddReserve, LedgerStill
  <2>2. ASSUME Goto(t, "find"), UNCHANGED <<conns, idx>> PROVE LedgerStill
    BY <1>0, <1>1, <2>2 DEF AddReserve, LedgerStill, Filled, IsActive
  <2> QED
    BY <1>1, <2>1, <2>2 DEF AddReserve
<1>2. CASE AddReturn(t)
  BY <1>0, <1>2 DEF AddReturn, LedgerStill, Filled, IsActive
<1>3. CASE FindNew(t)
  BY <1>0, <1>3 DEF FindNew, LedgerStill, Filled, IsActive
<1>4. pc[t] = "create" => sock[t] \in Sock /\ pc[sock[t]] = "none"
  BY DEF IInv, Placed, Adding, Coherent, AddedByOne
<1>5. ASSUME NEW i \in Slots \cup {NoSlot}, Starts(t, sock[t], i), pc[t] = "create",
             UNCHANGED <<fdt, reg, next_conn_id>>,
             \A s \in Slots : conns'[s].sock_fd = conns[s].sock_fd /\ conns'[s].active = conns[s].active
      PROVE  LedgerStill
  BY <1>0, <1>4, <1>5 DEF Starts, LedgerStill, Filled, IsActive
<1>6. CASE Spawn(t)
  <2>1. \A s \in Slots : conns'[s].sock_fd = conns[s].sock_fd /\ conns'[s].active = conns[s].active
    BY <1>0, <1>6 DEF Spawn, TypeOK, Connection
  <2> QED
    BY <1>5, <1>6, <2>1 DEF Spawn
<1>7. CASE SpawnOutside(t)
  <2>1. CASE Die("crashed")
    BY <2>1 DEF Die, LedgerStill, Filled, IsActive
  <2>2. CASE ~Die("crashed")
    <3>1. /\ pc[t] = "create" /\ Starts(t, sock[t], NoSlot)
          /\ UNCHANGED <<conns, fdt, reg, next_conn_id>>
      BY <1>7, <2>2 DEF SpawnOutside
    <3> QED
      BY <1>5, <3>1
  <2> QED BY <2>1, <2>2
<1>8. CASE SpawnFails(t)
  <2>1. \A s \in Slots : conns'[s].sock_fd = conns[s].sock_fd /\ conns'[s].active = conns[s].active
    <3>1. CASE UNCHANGED conns
      BY <3>1
    <3>2. CASE idx[t] \in Slots /\ conns' = [conns EXCEPT ![idx[t]].thread_id = sock[t]]
      BY <1>0, <3>2 DEF TypeOK, Connection
    <3> QED
      BY <1>8, <3>1, <3>2 DEF SpawnFails
  <2> QED
    BY <1>0, <1>8, <2>1 DEF SpawnFails, LedgerStill, Filled, IsActive
<1> QED
  BY <1>1, <1>2, <1>3, <1>6, <1>7, <1>8

(* a removal that finds nothing to remove,                                 *)
LEMMA RemoveStill ==
  ASSUME TypeOK, NEW t \in Threads, Remove(t), ~Removable(idx[t])
  PROVE  LedgerStill
<1>1. UNCHANGED <<conns, fdt, reg, next_conn_id>>
  BY DEF Remove, Removable, netVars
<1>2. /\ pc[t] = "remove" /\ \E l \in {"scan", "prompt", "accept", "done"} : pc' = [pc EXCEPT ![t] = l]
      /\ \A u \in Threads : u # t => idx'[u] = idx[u]
  BY DEF Remove, Removable, AfterRemove, Return, Goto, Home, At, locals, TypeOK
<1>3. /\ pc'[t] # "fill" /\ \A u \in Threads : u # t => pc'[u] = pc[u]
  BY <1>2 DEF TypeOK
<1> QED
  BY <1>1, <1>2, <1>3 DEF LedgerStill, Filled, IsActive, At

(* the other steps of Main,                                                *)
LEMMA MainStill ==
  ASSUME TypeOK,
         \/ MainDial \/ MainSend \/ MainShutdown \/ MainReadTid \/ MainJoin
         \/ MainListEnd \/ MainScan \/ MainList \/ MainExit \/ MainEof
         \/ \E i \in 0 .. MaxSock, l \in {"send", "bye"} : MainLookup(i, l)
  PROVE  LedgerStill
<1> USE Kinds DEF At, Goto, Return, Home, Die, tableVars, netVars, locals, LedgerStill, Filled,
                  IsActive, TypeOK
<1>1. CASE MainDial
  BY <1>1 DEF MainDial
<1>2. CASE MainSend
  BY <1>2 DEF MainSend
<1>3. CASE MainShutdown \/ MainReadTid
  BY <1>3 DEF MainShutdown, MainReadTid
<1>4. CASE MainJoin
  BY <1>4 DEF MainJoin
<1>5. CASE MainListEnd \/ MainList
  BY <1>5 DEF MainListEnd, MainList
<1>6. CASE MainScan
  BY <1>6 DEF MainScan
<1>7. CASE MainExit \/ MainEof
  BY <1>7 DEF MainExit, MainEof
<1>8. CASE \E i \in 0 .. MaxSock, l \in {"send", "bye"} : MainLookup(i, l)
  BY <1>8 DEF MainLookup
<1> QED
  BY <1>1, <1>2, <1>3, <1>4, <1>5, <1>6, <1>7, <1>8

(* and those of the receivers and the peers.                               *)
LEMMA OthersStill ==
  ASSUME TypeOK,
         \/ AcceptFails \/ Peers \/ UNCHANGED vars
         \/ \E k \in Sock : RecvStart(k) \/ RecvCall(k) \/ RecvData(k) \/ RecvEnd(k)
  PROVE  LedgerStill
<1> USE Kinds DEF At, Goto, Die, tableVars, netVars, locals, LedgerStill, Filled, IsActive, TypeOK
<1>1. CASE AcceptFails
  BY <1>1 DEF AcceptFails
<1>2. CASE Peers \/ UNCHANGED vars
  BY <1>2 DEF Peers, PeerConnect, PeerSend, PeerClose, PeerReset, vars
<1>3. ASSUME NEW k \in Sock, RecvStart(k) \/ RecvCall(k) \/ RecvData(k) \/ RecvEnd(k)
      PROVE  LedgerStill
  <2>1. /\ UNCHANGED <<conns, fdt, reg, next_conn_id>> /\ pc[k] # "fill" /\ idx' = idx
        /\ \E l \in {"recv", "wait", "remove"} : pc' = [pc EXCEPT ![k] = l]
    BY <1>3 DEF RecvStart, RecvCall, RecvData, RecvEnd
  <2> QED
    BY <2>1
<1> QED
  BY <1>1, <1>2, <1>3

-----------------------------------------------------------------------------
(* Dialling and accepting open a connection.                               *)
LEMMA ConnectOpens ==
  ASSUME IInv, NEW a \in Addr, MainConnect(a)
  PROVE  \E k \in Sock : Ledger!Open(k)
<1>1. PICK f \in Fd : LowestFree(f) /\ OpenSocket(f)
  BY DEF MainConnect
<1>2. nsock + 1 \in Sock /\ Unborn(nsock + 1) /\ TypeOK /\ UnbornUnknown
  BY TableAssumption DEF MainConnect, IInv, Coherent, TypeOK, Sock, UnbornUnknown, Unborn
<1>3. /\ fdt[f] = NoSock /\ fdt' = [fdt EXCEPT ![f] = nsock + 1]
      /\ UNCHANGED <<conns, idx, reg, next_conn_id>>
  BY <1>1 DEF MainConnect, LowestFree, OpenSocket, tableVars
<1>4. \A t \in Threads : pc'[t] = "fill" <=> pc[t] = "fill"
  BY <1>2 DEF MainConnect, At, Goto, TypeOK
<1> QED
  BY <1>1, <1>2, <1>3, <1>4, GivenOpens

LEMMA AcceptOpens ==
  ASSUME IInv, AcceptPeer
  PROVE  \E k \in Sock : Ledger!Open(k)
<1>1. PICK k \in Sock, f \in Fd : socks[k].peer = "backlog" /\ LowestFree(f) /\ Accepted(f, k)
  BY DEF AcceptPeer
<1>2. Unborn(k) /\ TypeOK /\ UnbornUnknown
  BY <1>1 DEF IInv, Coherent, Unborn
<1>3. /\ fdt[f] = NoSock /\ fdt' = [fdt EXCEPT ![f] = k]
      /\ UNCHANGED <<conns, idx, reg, next_conn_id>>
  BY <1>1 DEF AcceptPeer, LowestFree, Accepted, tableVars
<1>4. \A t \in Threads : pc'[t] = "fill" <=> pc[t] = "fill"
  BY <1>2 DEF AcceptPeer, At, Goto, TypeOK
<1> QED
  BY <1>1, <1>2, <1>3, <1>4, GivenOpens

-----------------------------------------------------------------------------
(* Each step of the chat is a step of the ledger or leaves it alone.       *)
LEMMA LedgerStep ==
  ASSUME IInv, [Next]_vars
  PROVE  [Ledger!Next]_ledgerVars
<1>0. TypeOK
  BY DEF IInv
<1>1. ASSUME LedgerStill PROVE [Ledger!Next]_ledgerVars
  BY <1>1, StillStutters
<1>2. ASSUME NEW k \in Sock, Ledger!Open(k) \/ Ledger!Enter(k) \/ Ledger!Leave(k) \/ Ledger!Close(k)
      PROVE  [Ledger!Next]_ledgerVars
  BY <1>2 DEF Ledger!Next
<1>3. ASSUME NEW t \in {Main, Accept}, Adder(t) PROVE [Ledger!Next]_ledgerVars
  <2>1. CASE AddFill(t)
    <3>1. sock[t] \in Sock
      BY <2>1, Kinds DEF IInv, Placed, Adding, AddFill, At
    <3> QED
      BY <2>1, <3>1, <1>2, FillEnters
  <2>2. CASE ~AddFill(t)
    BY <1>1, <1>3, <2>2, AdderStill DEF Adder
  <2> QED BY <2>1, <2>2
<1>4. ASSUME NEW t \in Threads, Remove(t) \/ RemoveClose(t) PROVE [Ledger!Next]_ledgerVars
  BY <1>0, <1>1, <1>2, <1>4, RemoveLeaves, RemoveCloses, RemoveStill
<1>5. CASE Command
  BY <1>0, <1>1, <1>2, <1>5, ConnectOpens, MainStill DEF Command
<1>6. CASE MainStep
  BY <1>0, <1>1, <1>3, <1>4, <1>6, MainStill, Kinds DEF MainStep
<1>7. CASE AcceptStep \/ AcceptFails \/ Peers \/ UNCHANGED vars
  BY <1>0, <1>1, <1>2, <1>3, <1>7, AcceptOpens, OthersStill DEF AcceptStep
<1>8. ASSUME NEW k \in Sock, RecvStep(k) PROVE [Ledger!Next]_ledgerVars
  BY <1>0, <1>1, <1>4, <1>8, OthersStill, Kinds DEF RecvStep
<1> QED
  BY <1>5, <1>6, <1>7, <1>8 DEF Next, Stopped

(* The chat implements its abstract specification: whatever threads and    *)
(* peers do, and whatever fails, each connection is opened, listed under a *)
(* new ID, taken off and closed, each at most once and in this order.      *)
THEOREM KeepsTheLedger == Spec => LedgerSpec
<1>1. Init => Ledger!Init
  BY Kinds DEF Init, TableInit, NetInit, Ledger!Init, Standing, Held
<1>2. IInv /\ [Next]_vars => [Ledger!Next]_ledgerVars
  BY LedgerStep
<1> QED
  BY <1>1, <1>2, ChatInvariant, PTL DEF Spec, LedgerSpec, Ledger!Spec, ledgerVars
=============================================================================
