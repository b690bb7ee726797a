------------------------------- MODULE ChatNet -------------------------------
(***************************************************************************)
(* What the chat uses of the kernel: the process's descriptor table and    *)
(* the TCP connections behind it, with the remote peer of each.  None of   *)
(* this is in the repository; it is modelled from the calls server.c and   *)
(* command.c make (accept, connect, send, recv, shutdown, close).          *)
(***************************************************************************)
EXTENDS ChatTable, Sequences

CONSTANT MaxInbox    \* bound: messages of one peer not yet received

ASSUME NetAssumption == MaxInbox \in Nat

VARIABLES fdt,      \* descriptor number -> connection it refers to, or NoSock
          socks,    \* the TCP connections
          nsock     \* connections created so far

netVars == <<fdt, socks, nsock>>

Message == {"text", "exit"}    \* "exit" is the string "/peer_exit"

(* peer: none, backlog (not accepted yet), dialing (connect() in progress),*)
(* open, closed (the peer has closed its end), reset (it has answered a    *)
(* later segment with RST).  ours: has our side called shutdown()?         *)
PeerState == {"none", "backlog", "dialing", "open", "closed", "reset"}
Socket == [peer : PeerState, inbox : Seq(Message), ours : {"open", "shut"}]

NetInit ==
  /\ fdt = [f \in Fd |-> NoSock]
  /\ socks = [k \in Sock |-> [peer |-> "none", inbox |-> <<>>, ours |-> "open"]]
  /\ nsock = 0

SockOf(f) == IF f \in Fd THEN fdt[f] ELSE NoSock

(* The kernel hands out the lowest descriptor number that is free.         *)
LowestFree(f) == fdt[f] = NoSock /\ \A g \in Fd : g < f => fdt[g] # NoSock

(* accept(): f is the descriptor of connection k of the backlog.           *)
Accepted(f, k) ==
  /\ fdt' = [fdt EXCEPT ![f] = k]
  /\ socks' = [socks EXCEPT ![k].peer = "open"]

(* socket() for a connection of our own, and connect() on it.              *)
OpenSocket(f) ==
  /\ nsock' = nsock + 1
  /\ fdt' = [fdt EXCEPT ![f] = nsock + 1]
  /\ socks' = [socks EXCEPT ![nsock + 1].peer = "dialing"]
Connected(k) == socks' = [socks EXCEPT ![k].peer = "open"]

(* send() without MSG_NOSIGNAL on a connection that cannot be written any  *)
(* more raises SIGPIPE; after a RST it may also just return an error.      *)
MaySigpipe(k)  == k # NoSock /\ (socks[k].ours = "shut" \/ socks[k].peer = "reset")
MustSigpipe(k) == k # NoSock /\ socks[k].ours = "shut"

ShutAll(S) == socks' = [k \in Sock |-> IF k \in S
                                        THEN [socks[k] EXCEPT !.ours = "shut"]
                                        ELSE socks[k]]

(* recv() has nothing left to return but end-of-file or an error.          *)
AtEnd(k) == /\ socks[k].inbox = <<>>
            /\ socks[k].ours = "shut" \/ socks[k].peer \in {"closed", "reset"}

(* The remote peers.  What a peer sends after our shutdown() is answered   *)
(* with RST and never reaches the program.                                 *)
PeerConnect ==
  /\ nsock < MaxSock
  /\ nsock' = nsock + 1
  /\ socks' = [socks EXCEPT ![nsock + 1].peer = "backlog"]
  /\ UNCHANGED fdt

PeerSend(k, m) ==
  /\ socks[k].peer = "open" /\ socks[k].ours = "open" /\ Len(socks[k].inbox) < MaxInbox
  /\ socks' = [socks EXCEPT ![k].inbox = Append(@, m)]
  /\ UNCHANGED <<fdt, nsock>>

PeerClose(k) ==
  /\ socks[k].peer = "open"
  /\ socks' = [socks EXCEPT ![k].peer = "closed"]
  /\ UNCHANGED <<fdt, nsock>>

PeerReset(k) ==
  /\ socks[k].peer = "closed"
  /\ socks' = [socks EXCEPT ![k].peer = "reset"]
  /\ UNCHANGED <<fdt, nsock>>
=============================================================================
