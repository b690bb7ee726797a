--------------------------- MODULE ChatDialProofs ---------------------------
(***************************************************************************)
(* cmd_connect looks for a duplicate of the address without the mutex and  *)
(* adds the connection much later, while other threads change the table.   *)
(* It is sound all the same, for any number of slots, connections and      *)
(* addresses: only Main dials, and what the accept thread adds meanwhile   *)
(* has an address nobody dials.                                            *)
(***************************************************************************)
EXTENDS ChatProofs

(* While Main dials dest, no filled slot has that address.                 *)
DialledOnce ==
  Transit(Main) => \A s \in Slots : Filled(s) => conns[s].addr # dest

(* A step that fills no slot in, writes no address and starts no dialling. *)
FillsNothing ==
  /\ \A s \in Slots : conns'[s].addr = conns[s].addr
  /\ \A s \in Slots : IsActive(s)' =>
       IsActive(s) \/ \E t \in Threads : pc'[t] = "fill" /\ idx'[t] = s
  /\ \A t \in Threads : pc[t] = "fill" => pc'[t] = "fill" /\ idx'[t] = idx[t]
  /\ Transit(Main)' => Transit(Main)
  /\ dest' = dest

(* Such a step can only make filled slots fewer, and no two alike.         *)
LEMMA FillsNothingKeeps ==
  ASSUME NoDupOutbound, DialledOnce, FillsNothing
  PROVE  NoDupOutbound' /\ DialledOnce'
<1>1. ASSUME NEW s \in Slots, Filled(s)'
      PROVE  Filled(s) /\ conns'[s].addr = conns[s].addr
  BY <1>1 DEF FillsNothing, Filled, At
<1>2. NoDupOutbound'
  BY <1>1 DEF NoDupOutbound
<1>3. DialledOnce'
  <2>1. ASSUME Transit(Main)', NEW s \in Slots, Filled(s)'
        PROVE  conns'[s].addr # dest'
    BY <1>1, <2>1 DEF DialledOnce, FillsNothing
  <2> QED
    BY <2>1 DEF DialledOnce
<1> QED
  BY <1>2, <1>3

(* The step that fills a slot in: Main writes the address it dials, Accept *)
(* one that is not in Addr.                                                *)
LEMMA FillKeeps ==
  ASSUME IInv, IInv', NoDupOutbound, DialledOnce, NEW t \in {Main, Accept}, AddFill(t)
  PROVE  NoDupOutbound' /\ DialledOnce'
<1> USE Kinds
<1>1. /\ TypeOK /\ pc[t] = "fill" /\ idx[t] \in Slots /\ pc' = [pc EXCEPT ![t] = "ret"]
      /\ UNCHANGED <<idx, dest>>
  BY DEF IInv, Placed, AddFill, At, Goto, locals
<1>2. PICK i \in Slots : i = idx[t]
  BY <1>1
<1>3. PICK a : a = IF t = Main THEN dest ELSE InAddr
  OBVIOUS
<1>4. /\ \A r \in Slots : r # i => /\ conns'[r].addr = conns[r].addr
                                  /\ conns'[r].active = conns[r].active
      /\ conns'[i].addr = a
  BY <1>1, <1>2, <1>3 DEF AddFill, Fill, TypeOK, Connection
<1>5. \A u \in Threads : u # t => pc[u] # "fill"
  BY <1>1, LockedOut DEF IInv, Coherent, HalfChanged
<1>6. ASSUME NEW r \in Slots, r # i, Filled(r)'
      PROVE  Filled(r) /\ conns'[r].addr = conns[r].addr
  BY <1>1, <1>2, <1>4, <1>5, <1>6 DEF Filled, At, IsActive
<1>7. \A r \in Slots : r # i /\ Filled(r)' => conns'[r].addr # a \/ a = InAddr
  BY <1>1, <1>3, <1>6 DEF DialledOnce, Transit
<1>8. NoDupOutbound'
  BY <1>4, <1>6, <1>7 DEF NoDupOutbound
<1>9. DialledOnce'
  <2>1. CASE t = Main
    BY <2>1, <1>1 DEF DialledOnce, Transit, TypeOK
  <2>2. CASE t = Accept
    <3>1. pc'[Main] = pc[Main] /\ dest' = dest /\ a # dest
      BY <2>2, <1>1, <1>3, TableAssumption DEF TypeOK
    <3>2. ASSUME Transit(Main)', NEW r \in Slots, Filled(r)'
          PROVE  conns'[r].addr # dest'
      <4>1. CASE r = i
        BY <4>1, <3>1, <1>4
      <4>2. CASE r # i
        BY <4>2, <3>1, <3>2, <1>6 DEF DialledOnce, Transit
      <4> QED BY <4>1, <4>2
    <3> QED
      BY <3>2 DEF DialledOnce
  <2> QED BY <2>1, <2>2
<1> QED
  BY <1>8, <1>9

(* Dialling starts with an address that no active slot has.                *)
LEMMA ConnectKeeps ==
  ASSUME TypeOK, NoDupOutbound, DialledOnce, NEW a \in Addr, MainConnect(a)
  PROVE  NoDupOutbound' /\ DialledOnce'
<1>1. /\ UNCHANGED <<conns, idx>> /\ dest' = a /\ pc[Main] = "prompt"
      /\ pc' = [pc EXCEPT ![Main] = "connect"] /\ ~ExistsWithAddr(a)
  BY DEF MainConnect, At, Goto, tableVars
<1>2. \A s \in Slots : Filled(s)' <=> Filled(s)
  <2>1. \A t \in Threads : pc'[t] = "fill" <=> pc[t] = "fill"
    BY <1>1, Kinds DEF TypeOK
  <2> QED
    BY <1>1, <2>1 DEF Filled, IsActive, At
<1>3. NoDupOutbound'
  BY <1>1, <1>2 DEF NoDupOutbound
<1>4. DialledOnce'
  BY <1>1, <1>2 DEF DialledOnce, ExistsWithAddr, Filled
<1> QED
  BY <1>3, <1>4

(* The steps that add a connection, but for filling it in.                 *)
LEMMA AdderFillsNothing ==
  ASSUME IInv, NEW t \in {Main, Accept},
         \/ AddReserve(t) \/ AddReturn(t) \/ FindNew(t)
         \/ Spawn(t) \/ SpawnOutside(t) \/ SpawnFails(t)
  PROVE  FillsNothing
<1> USE Kinds DEF At, Goto, Return, Home, tableVars, locals
<1>0. TypeOK /\ idx \in [Threads -> Slots \cup {NoSlot}] /\ pc \in [Threads -> Labels]
  BY DEF IInv, TypeOK
<1>1. CASE AddReserve(t)
  BY <1>0, <1>1 DEF AddReserve, Reserve, FillsNothing, IsActive, Transit, TypeOK, Connection
<1>2. CASE AddReturn(t)
  BY <1>0, <1>2 DEF AddReturn, FillsNothing, IsActive, Transit
<1>3. CASE FindNew(t)
  BY <1>0, <1>3 DEF FindNew, FillsNothing, IsActive, Transit
<1>4. ASSUME NEW k \in Sock, NEW i \in Slots \cup {NoSlot}, Starts(t, k, i), pc[t] = "create",
             pc[k] = "none", UNCHANGED dest,
             \A s \in Slots : conns'[s].addr = conns[s].addr /\ conns'[s].active = conns[s].active
      PROVE  FillsNothing
  BY <1>0, <1>4 DEF Starts, FillsNothing, IsActive, Transit
<1>5. pc[t] = "create" => sock[t] \in Sock /\ pc[sock[t]] = "none"
  BY DEF IInv, Placed, Adding, Coherent, AddedByOne
<1>6. CASE Spawn(t)
  <2>1. \A s \in Slots : conns'[s].addr = conns[s].addr /\ conns'[s].active = conns[s].active
    BY <1>0, <1>6 DEF Spawn, TypeOK, Connection
  <2> QED
    BY <1>4, <1>5, <1>6, <2>1 DEF Spawn
<1>7. CASE SpawnOutside(t)
  <2>1. CASE Die("crashed")
    BY <2>1 DEF Die, FillsNothing, IsActive, Transit
  <2>2. CASE ~Die("crashed")
    BY <1>4, <1>5, <1>7, <2>2 DEF SpawnOutside
  <2> QED BY <2>1, <2>2
<1>8. CASE SpawnFails(t)
  <2>1. \A s \in Slots : conns'[s].addr = conns[s].addr /\ conns'[s].active = conns[s].active
    BY <1>0, <1>8 DEF SpawnFails, TypeOK, Connection
  <2> QED
    BY <1>0, <1>8, <2>1 DEF SpawnFails, FillsNothing, IsActive, Transit
<1> QED
  BY <1>1, <1>2, <1>3, <1>6, <1>7, <1>8

(* Taking a connection off the table.                                      *)
LEMMA RemoveFillsNothing ==
  ASSUME TypeOK, NEW t \in Threads, Remove(t) \/ RemoveClose(t)
  PROVE  FillsNothing
<1> USE Kinds DEF At, Goto, Return, Home, locals
<1>1. \A s \in Slots : conns'[s].addr = conns[s].addr /\ (IsActive(s)' => IsActive(s))
  BY DEF Remove, RemoveClose, Deactivate, Removable, IsActive, TypeOK, Connection
<1>2. /\ pc[t] \in {"remove", "close"} /\ dest' = dest
      /\ \E l \in {"scan", "prompt", "accept", "done", "close"} : pc' = [pc EXCEPT ![t] = l]
      /\ \A u \in Threads : u # t => idx'[u] = idx[u]
  BY DEF Remove, RemoveClose, AfterRemove, TypeOK
<1> QED
  BY <1>1, <1>2 DEF FillsNothing, Transit, TypeOK

(* The other steps of Main.                                                *)
LEMMA MainFillsNothing ==
  ASSUME TypeOK,
         \/ MainDial \/ MainSend \/ MainShutdown \/ MainReadTid \/ MainJoin
         \/ MainListEnd \/ MainScan \/ MainList \/ MainExit \/ MainEof
         \/ \E i \in 0 .. MaxSock, l \in {"send", "bye"} : MainLookup(i, l)
  PROVE  FillsNothing
<1> USE Kinds DEF At, Goto, Return, Home, Die, tableVars, locals, FillsNothing, Transit, IsActive, TypeOK
<1>1. CASE MainDial
  BY <1>1 DEF MainDial
<1>2. CASE MainSend
  BY <1>2 DEF MainSend
<1>3. CASE MainShutdown \/ MainReadTid
  BY <1>3 DEF MainShutdown, MainReadTid
<1>4. CASE MainJoin
  BY <1>4 DEF MainJoin
<1>5. CASE MainListEnd \/ MainList
  BY <1>5 DEF MainListEnd, MainList
<1>6. CASE MainScan
  BY <1>6 DEF MainScan
<1>7. CASE MainExit \/ MainEof
  BY <1>7 DEF MainExit, MainEof
<1>8. CASE \E i \in 0 .. MaxSock, l \in {"send", "bye"} : MainLookup(i, l)
  BY <1>8 DEF MainLookup
<1> QED
  BY <1>1, <1>2, <1>3, <1>4, <1>5, <1>6, <1>7, <1>8

(* The accept thread, the receivers, the peers.                            *)
LEMMA OthersFillNothing ==
  ASSUME TypeOK,
         \/ AcceptPeer \/ AcceptFails \/ Peers \/ UNCHANGED vars
         \/ \E k \in Sock : RecvStart(k) \/ RecvCall(k) \/ RecvData(k) \/ RecvEnd(k)
  PROVE  FillsNothing
<1> USE Kinds DEF At, Goto, Die, tableVars, locals, FillsNothing, Transit, IsActive, TypeOK
<1>1. CASE AcceptPeer \/ AcceptFails
  BY <1>1 DEF AcceptPeer, AcceptFails
<1>2. CASE Peers \/ UNCHANGED vars
  BY <1>2 DEF Peers, vars
<1>3. ASSUME NEW k \in Sock, RecvStart(k) \/ RecvCall(k) \/ RecvData(k) \/ RecvEnd(k)
      PROVE  FillsNothing
  <2>1. /\ UNCHANGED <<conns, dest>> /\ pc[k] # "fill"
        /\ \E l \in {"recv", "wait", "remove"} : pc' = [pc EXCEPT ![k] = l]
        /\ \A t \in Threads : t # k => idx'[t] = idx[t]
    BY <1>3 DEF RecvStart, RecvCall, RecvData, RecvEnd
  <2> QED
    BY <2>1
<1> QED
  BY <1>1, <1>2, <1>3

-----------------------------------------------------------------------------
(* No address is ever dialled into two slots: the check of cmd_connect     *)
(* still holds when the connection is added, without the mutex between.    *)
THEOREM NothingDialledTwice == Spec => []NoDupOutbound
<1>1. Init => NoDupOutbound /\ DialledOnce
  BY Kinds DEF Init, TableInit, NoDupOutbound, DialledOnce, Transit, Filled, IsActive, Home
<1>2. ASSUME IInv, IInv', NoDupOutbound, DialledOnce, [Next]_vars
      PROVE  NoDupOutbound' /\ DialledOnce'
  <2>0. TypeOK
    BY <1>2 DEF IInv
  <2>1. ASSUME FillsNothing PROVE NoDupOutbound' /\ DialledOnce'
    BY <1>2, <2>1, FillsNothingKeeps
  <2>2. ASSUME NEW t \in {Main, Accept}, Adder(t) PROVE NoDupOutbound' /\ DialledOnce'
    BY <1>2, <2>1, <2>2, FillKeeps, AdderFillsNothing DEF Adder
  <2>3. ASSUME NEW t \in Threads, Remove(t) \/ RemoveClose(t)
        PROVE  NoDupOutbound' /\ DialledOnce'
    BY <2>0, <2>1, <2>3, RemoveFillsNothing
  <2>4. CASE Command
    BY <1>2, <2>0, <2>1, <2>4, ConnectKeeps, MainFillsNothing DEF Command
  <2>5. CASE MainStep
    BY <2>0, <2>1, <2>2, <2>3, <2>5, MainFillsNothing, Kinds DEF MainStep
  <2>6. CASE AcceptStep \/ AcceptFails \/ Peers \/ UNCHANGED vars
    BY <2>0, <2>1, <2>2, <2>6, OthersFillNothing DEF AcceptStep
  <2>7. ASSUME NEW k \in Sock, RecvStep(k) PROVE NoDupOutbound' /\ DialledOnce'
    BY <2>0, <2>1, <2>3, <2>7, OthersFillNothing, Kinds DEF RecvStep
  <2> QED
    BY <1>2, <2>4, <2>5, <2>6, <2>7 DEF Next, Stopped
<1> QED
  BY <1>1, <1>2, ChatInvariant, PTL DEF Spec
=============================================================================
