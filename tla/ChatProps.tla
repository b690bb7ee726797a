------------------------------ MODULE ChatProps ------------------------------
(***************************************************************************)
(* What the P2P chat of module Chat keeps true, what it eventually does,   *)
(* and what its headers and comments promise beyond that.                  *)
(***************************************************************************)
EXTENDS Chat

(* Type correctness of the table, the sockets and the threads.              *)
TypeOK ==
  /\ conns \in [Slots -> Connection]
  /\ next_conn_id \in Nat \ {0}
  /\ conns_mutex \in Threads \cup {Unlocked}
  /\ fdt \in [Fd -> Sock \cup {NoSock}]
  /\ socks \in [Sock -> Socket]
  /\ nsock \in 0 .. MaxSock
  /\ proc \in ProcState
  /\ pc \in [Threads -> Labels]
  /\ idx \in [Threads -> Slots \cup {NoSlot}]
  /\ fd \in [Threads -> Fd \cup {NoFd}]
  /\ id \in [Threads -> Nat \cup {NoId}]
  /\ sock \in [Threads -> Sock \cup {NoSock}]
  /\ dest \in Addr
  /\ reg \in [Sock -> Nat]

(* A slot whose record is complete; IsActive(s) alone does not say so. *)
Filled(s) == IsActive(s) /\ \A t \in Threads : At(t, "fill") => idx[t] # s

ConnAt(s) == SockOf(conns[s].sock_fd)     \* the connection its descriptor names
Held(k)   == \E f \in Fd : fdt[f] = k     \* the process has it open

-----------------------------------------------------------------------------
(* Safety.                                                                 *)

(* A listed connection can be used: whatever threads raced to add, remove  *)
(* and close, the descriptor of a filled slot is open and is the one the   *)
(* slot's ID was given to, not a number the kernel handed out again.       *)
ActiveOwnsFd ==
  \A s \in Slots : Filled(s) => /\ ConnAt(s) # NoSock
                                /\ reg[ConnAt(s)] = conns[s].id

(* remove_connection_by_index, called twice for one connection by its      *)
(* receiver and by terminate or exit, never closes a descriptor twice nor  *)
(* one that by then belongs to another connection.                         *)
CloseHitsOwn ==
  \A t \in Threads : At(t, "close") =>
    /\ ConnAt(idx[t]) # NoSock
    /\ reg[ConnAt(idx[t])] = conns[idx[t]].id

(* No connection that got an ID is overwritten or forgotten while open:    *)
(* its descriptor is in the table or about to be closed.                   *)
RegisteredNeverLost ==
  \A f \in Fd : fdt[f] # NoSock /\ reg[fdt[f]] # 0 =>
    \/ \E s \in Slots : Filled(s) /\ conns[s].sock_fd = f
    \/ \E t \in Threads : At(t, "close") /\ conns[idx[t]].sock_fd = f

(* list prints complete records of open connections with different IDs,    *)
(* although other threads go on adding and removing.                       *)
ListSnapshot ==
  At(Main, "list") =>
    \A s, r \in Slots :
      IsActive(s) =>
        /\ Filled(s) /\ ConnAt(s) # NoSock
        /\ IsActive(r) /\ conns[r].id = conns[s].id => r = s

(* connect checks for a duplicate without the mutex and long before it     *)
(* adds; still no address is ever dialled into two slots.                  *)
NoDupOutbound ==
  \A s, r \in Slots :
    Filled(s) /\ Filled(r) /\ conns[s].addr = conns[r].addr /\ s # r
      => conns[s].addr = InAddr

(* Each connection goes through the ledger's life once: opened, listed     *)
(* under an ID larger than all before, taken off, closed.                  *)
Standing(k) ==
  IF Held(k)
    THEN IF reg[k] = 0 THEN "held"
         ELSE IF \E s \in Slots : Filled(s) /\ ConnAt(s) = k THEN "listed"
         ELSE "leaving"
    ELSE IF reg[k] = 0 THEN "unseen" ELSE "closed"

Ledger == INSTANCE ConnLedger WITH
            Conn <- Sock, last <- next_conn_id - 1, id <- reg,
            standing <- [k \in Sock |-> Standing(k)]
LedgerSpec == Ledger!Spec

-----------------------------------------------------------------------------
(* The inductive invariant behind the safety properties (ChatProofs).      *)

Adding(t)  == pc[t] \in {"connect", "add", "fill", "ret", "find", "create"}
Transit(t) == pc[t] \in {"connect", "add", "fill"}
Unborn(k)  == socks[k].peer \in {"none", "backlog"}

(* Which threads, and with which slots, may stand at a label.              *)
Placed ==
  \A t \in Threads :
    /\ Adding(t) => t \in {Main, Accept} /\ sock[t] \in Sock
    /\ pc[t] \in {"fill", "ret", "send", "bye", "shutdown", "tid", "close"}
         => idx[t] \in Slots
    /\ At(t, "wait") => sock[t] \in Sock

(* Whoever has a slot half changed, or reads the whole table, holds the    *)
(* mutex.                                                                  *)
HalfChanged ==
  \A t \in Threads :
    /\ pc[t] \in {"fill", "close", "list"} => conns_mutex = t
    /\ At(t, "fill")  => IsActive(idx[t])
    /\ At(t, "close") => ~IsActive(idx[t])

(* A connection being added is one thread's affair, its receiver not yet   *)
(* started, and until it is filled in nobody else knows its descriptor.    *)
AddedByOne ==
  \A t \in Threads : Adding(t) =>
    /\ ~Unborn(sock[t]) /\ pc[sock[t]] = "none"
    /\ \A u \in Threads : Adding(u) /\ sock[u] = sock[t] => u = t
    /\ Transit(t) => /\ fd[t] \in Fd /\ fdt[fd[t]] = sock[t]
                     /\ reg[sock[t]] = 0

(* A connection nobody has dialled or accepted has left no trace.          *)
UnbornUnknown ==
  \A k \in Sock : /\ k > nsock => socks[k].peer = "none"
                  /\ Unborn(k) => /\ reg[k] = 0 /\ pc[k] = "none"
                                  /\ \A f \in Fd : fdt[f] # k

OneFdEach == \A f, g \in Fd : fdt[f] = fdt[g] /\ fdt[f] # NoSock => f = g

IdsFresh == /\ \A k \in Sock : reg[k] < next_conn_id
            /\ \A j, k \in Sock : reg[j] = reg[k] /\ reg[k] # 0 => j = k

(* A slot that answers for its descriptor: filled, or being closed.        *)
Owned(s) == Filled(s) \/ \E t \in Threads : At(t, "close") /\ idx[t] = s

OwnersOwn ==
  /\ \A s \in Slots : Owned(s) => /\ conns[s].id # 0 /\ ConnAt(s) # NoSock
                                  /\ reg[ConnAt(s)] = conns[s].id
  /\ \A s, r \in Slots :
       Owned(s) /\ Owned(r) /\ conns[s].sock_fd = conns[r].sock_fd => s = r
  /\ \A f \in Fd : fdt[f] # NoSock /\ reg[fdt[f]] # 0 =>
       \E s \in Slots : Owned(s) /\ conns[s].sock_fd = f

Coherent == /\ HalfChanged /\ AddedByOne /\ UnbornUnknown
            /\ OneFdEach /\ IdsFresh /\ OwnersOwn

IInv == TypeOK /\ Placed /\ Coherent

-----------------------------------------------------------------------------
(* Liveness: a thread that can go on does; a receiver, which has to take   *)
(* the mutex from others, is not passed over for ever.  Users and peers    *)
(* owe nothing.                                                            *)
Running(A) == proc = "running" /\ A
Fairness == /\ WF_vars(Running(MainStep))
            /\ WF_vars(Running(AcceptStep))
            /\ \A k \in Sock : SF_vars(Running(RecvStep(k)))
FairSpec == Spec /\ Fairness

(* A connection in the table that either side has ended, the peer by       *)
(* closing or resetting it, terminate or exit by shutdown(), is eventually *)
(* closed and off the table, whatever is still in its inbox, if no thread  *)
(* creation failed.                                                        *)
EndedRemoved ==
  \A k \in Sock :
    reg[k] # 0 /\ (socks[k].peer \in {"closed", "reset"} \/ socks[k].ours = "shut")
      ~> ~Held(k) \/ proc # "running"

-----------------------------------------------------------------------------
(* What the headers promise, and the code does not keep.                   *)

(* command.h: terminate "Terminates a specific peer connection."           *)
TerminatesNamed ==
  At(Main, "close") /\ id[Main] > 0 => conns[idx[Main]].id = id[Main]

(* command.h: send "Sends a message to a specific peer."                   *)
SendsToNamed ==
  At(Main, "send") /\ id[Main] > 0 /\ ConnAt(idx[Main]) # NoSock
    => reg[ConnAt(idx[Main])] = id[Main]

(* command.h: exit "Closes all active connections and cleans up resources."*)
ExitClosesAll == proc = "exited" => \A s \in Slots : ~IsActive(s)

(* connection.h: add_new_connection returns the "Unique ID assigned to the *)
(* new connection".                                                        *)
AddReturnsOwnId ==
  \A t \in {Main, Accept} : At(t, "find") => id[t] \in {NoId, reg[sock[t]]}

(* server.h: a receiver gets a "Pointer to the connection index".          *)
ReceiverHasIndex == \A k \in Sock : At(k, "start") => idx[k] \in Slots

(* server.h: a receiver "receives messages from a specific peer".          *)
ReceiverHearsItsPeer == \A k \in Sock : At(k, "wait") => sock[k] = k

(* cleanup_all: "after the shutdown, wait until the recv threads have      *)
(* ended": exit comes to an end.                                           *)
ExitEnds == At(Main, "scan") ~> proc # "running"
=============================================================================
