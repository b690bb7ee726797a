------------------------------ MODULE ChatTable ------------------------------
(***************************************************************************)
(* The connection table of the P2P chat (7.Mid_Project/src/connection.c):  *)
(* an array of MaxConn records, a counter of connection IDs and the mutex  *)
(* that some of its callers take.  The operators below are the pieces of   *)
(* the table's functions; module Chat puts them into the steps of threads. *)
(***************************************************************************)
EXTENDS Integers

CONSTANTS MaxConn,   \* slots of conns[]; MAX_CONN is 100 in the source
          MaxSock,   \* bound: TCP connections one run may create
          Addr,      \* addresses "connect" may name
          InAddr,    \* stands for the ephemeral address of an accepted peer
          Unlocked   \* conns_mutex is held by nobody

ASSUME TableAssumption == /\ MaxConn \in Nat \ {0}
                          /\ MaxSock \in Nat \ {0}
                          /\ InAddr \notin Addr

Slots  == 0 .. (MaxConn - 1)
NoSlot == -1
Sock   == 1 .. MaxSock       \* TCP connections, in order of creation
NoSock == 0
Fd     == 1 .. MaxSock       \* descriptor numbers connection sockets may get
NoFd   == -1

VARIABLES conns, next_conn_id, conns_mutex

tableVars == <<conns, next_conn_id, conns_mutex>>

(* connection_t; thread_id names a receiver by the connection it was       *)
(* created for, NoSock being the zero the table is initialised with.       *)
Connection == [id : Nat, sock_fd : Fd \cup {NoFd}, addr : Addr \cup {InAddr},
               thread_id : Sock \cup {NoSock}, active : 0 .. 1]

(* connection_table_init                                                   *)
TableInit ==
  /\ conns = [s \in Slots |-> [id |-> 0, sock_fd |-> NoFd, addr |-> InAddr,
                               thread_id |-> NoSock, active |-> 0]]
  /\ next_conn_id = 1
  /\ conns_mutex = Unlocked

IsActive(s) == conns[s].active = 1

-----------------------------------------------------------------------------
(* Slips of the table code that the checks must notice.                    *)

LockSkipped(t) == conns_mutex' = t

AnyFreeSlot(s) == \A r \in Slots : r < s => IsActive(r)

IdKept(s, f, a) ==
  /\ conns' = [conns EXCEPT ![s].sock_fd = f, ![s].addr = a,
                            ![s].id = next_conn_id]
  /\ UNCHANGED next_conn_id

DuplicateAmongFree(a) == \E s \in Slots : ~IsActive(s) /\ conns[s].addr = a

RemoveUnguarded(s) == s \in Slots

-----------------------------------------------------------------------------
Lock(t) == conns_mutex = Unlocked /\ conns_mutex' = t

(* add_new_connection: the scan for the first inactive slot                *)
FirstFree(s) == ~IsActive(s) /\ \A r \in Slots : r < s => IsActive(r)
TableFull    == \A s \in Slots : IsActive(s)

(* add_new_connection: the slot is marked active before it is filled.      *)
Reserve(s) == conns' = [conns EXCEPT ![s].active = 1]
Fill(s, f, a) ==
  /\ conns' = [conns EXCEPT ![s].sock_fd = f, ![s].addr = a,
                            ![s].id = next_conn_id]
  /\ next_conn_id' = next_conn_id + 1

(* find_index_by_id: s is what it returns for i (callers hold no lock).    *)
IsIndexOf(i, s) ==
  LET match(r) == IsActive(r) /\ conns[r].id = i
  IN  \/ s \in Slots /\ match(s) /\ \A r \in Slots : r < s => ~match(r)
      \/ s = NoSlot  /\ \A r \in Slots : ~match(r)

(* exists_connection_with_addr                                             *)
ExistsWithAddr(a) == \E s \in Slots : IsActive(s) /\ conns[s].addr = a

(* remove_connection_by_index: the test that lets it act on slot s         *)
Removable(s) == s \in Slots /\ IsActive(s)
Deactivate(s) == conns' = [conns EXCEPT ![s].active = 0]
=============================================================================
