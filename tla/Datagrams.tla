----------------------------- MODULE Datagrams ------------------------------
(***************************************************************************)
(* The datagram programs of 6.IPC_Socket: a client says hello and waits    *)
(* for the answer, a server answers whoever writes.  Over IPv4 a socket    *)
(* has a port, a client's is one that nobody has at the time, and datagrams*)
(* may be lost, doubled, delayed and reordered.  Over Unix sockets none is *)
(* lost, but a socket is found by the file it is bound to, and all clients *)
(* use the same one.  Sockets, files and network are external.             *)
(***************************************************************************)
EXTENDS Integers, Sequences

CONSTANTS DgClient, DgServer,  \* the processes
          DgPort,              \* IPv4 ports that a client may get
          MaxInbox,            \* bound: datagrams that wait at a socket
          MaxDoubled           \* bound: datagrams that arrive once more

ASSUME DgAssumption ==
  /\ DgClient \cap DgServer = {} /\ "nobody" \notin DgClient
  /\ DgPort \cap {"server", "none"} = {}
  /\ MaxInbox \in Nat \ {0} /\ MaxDoubled \in Nat

DgProc == DgClient \cup DgServer
Nobody == "nobody"
Port(u) == IF u \in DgServer THEN "unix_dgram_server" ELSE "unix_dgram_client"

VARIABLES family,  \* "AF_INET" or "AF_UNIX"
          dpc,     \* process -> where it is
          file,    \* file -> the process whose socket is bound to it, or Nobody
          udpPort, \* client -> the IPv4 port it got, also once it has ended
          net,     \* IPv4 datagrams under way
          doubled, \* how many of them arrived once more
          inbox,   \* process -> datagrams that wait at its socket
          asker,   \* server -> the request it answers, with its sender's address
          got,     \* client -> whose request the answer it got belongs to
          raced,   \* history: process -> did another bind after its unlink?
          mishap   \* history: was a datagram lost that someone waits for, or a
                   \* process killed, or the file of a process taken away?

dgVars == <<family, dpc, file, udpPort, net, doubled, inbox, asker, got, raced, mishap>>

(* The datagrams: to and from are addresses, of is the client whose        *)
(* request it is or answers.                                               *)
Address == DgPort \cup {"unix_dgram_client", "server"}
Dgram   == [to : Address, from : Address, of : DgClient]
NoDgram == [to |-> Nobody, from |-> Nobody, of |-> Nobody]

DgInit ==
  /\ family \in {"AF_INET", "AF_UNIX"}
  /\ dpc = [u \in DgProc |-> "start"]
  /\ file = [f \in {"unix_dgram_server", "unix_dgram_client"} |-> Nobody]
  /\ udpPort = [c \in DgClient |-> "none"] /\ net = {} /\ doubled = 0
  /\ inbox = [u \in DgProc |-> <<>>]
  /\ asker = [s \in DgServer |-> NoDgram] /\ got = [c \in DgClient |-> Nobody]
  /\ raced = [u \in DgProc |-> FALSE] /\ mishap = FALSE

Inet == family = "AF_INET"
Up(u) == dpc[u] \notin {"start", "done", "failed", "nobind", "killed"}
Does(u, from, to) == dpc[u] = from /\ dpc' = [dpc EXCEPT ![u] = to]

(* Queues a datagram at the socket of u.                                   *)
Arrives(u, d) ==
  /\ Len(inbox[u]) < MaxInbox
  /\ inbox' = [inbox EXCEPT ![u] = Append(@, d)]

-----------------------------------------------------------------------------
(* The IPv4 network                                                        *)

(* A datagram is sent.                                                     *)
Leaves(to, from, c) == net' = net \cup {[to |-> to, from |-> from, of |-> c]}

HasPort(u, a) == Up(u) /\ (IF u \in DgServer THEN a = "server" ELSE udpPort[u] = a)

(* Any datagram under way comes to the socket that has the port, perhaps   *)
(* not for the last time, or is lost.                                      *)
Network ==
  /\ \E d \in net :
       \/ /\ \E u \in DgProc : HasPort(u, d.to) /\ Arrives(u, d)
          /\ \/ net' = net \ {d} /\ UNCHANGED doubled
             \/ doubled < MaxDoubled /\ doubled' = doubled + 1 /\ UNCHANGED net
          /\ UNCHANGED mishap
       \/ /\ net' = net \ {d} /\ UNCHANGED <<doubled, inbox>>
          /\ mishap' = (mishap \/ d.to = "server" \/ \E u \in DgProc : HasPort(u, d.to))
  /\ UNCHANGED <<family, udpPort, dpc, file, asker, got, raced>>

-----------------------------------------------------------------------------
(* Both programs: the file is removed and made again.                      *)

(* Slip: the file of an earlier run is not removed.                        *)
KeepFile(u) ==
  /\ ~Inet /\ Does(u, "start", "bind")
  /\ raced' = [raced EXCEPT ![u] = FALSE]
  /\ UNCHANGED <<family, udpPort, doubled, file, net, inbox, asker, got, mishap>>

UnlinkFile(u) ==
  /\ ~Inet /\ Does(u, "start", "bind")
  /\ file' = [file EXCEPT ![Port(u)] = Nobody]
  /\ raced' = [raced EXCEPT ![u] = FALSE]
  /\ mishap' = (mishap \/ (file[Port(u)] # Nobody /\ Up(file[Port(u)])))
  /\ UNCHANGED <<family, udpPort, doubled, net, inbox, asker, got>>

BindFile(u) ==
  /\ ~Inet
  /\ IF file[Port(u)] = Nobody
       THEN /\ Does(u, "bind", IF u \in DgServer THEN "recv" ELSE "send")
            /\ file' = [file EXCEPT ![Port(u)] = u]
            /\ raced' = [v \in DgProc |-> raced[v] \/ (v # u /\ Port(v) = Port(u))]
       ELSE Does(u, "bind", "nobind") /\ UNCHANGED <<file, raced>>
  /\ UNCHANGED <<family, udpPort, doubled, net, inbox, asker, got, mishap>>

(* Over IPv4 the server binds its port; the client gets one with sendto.   *)
BindPort(s) ==
  /\ Inet
  /\ IF \E v \in DgServer : Up(v) THEN Does(s, "start", "failed")
                                 ELSE Does(s, "start", "recv")
  /\ UNCHANGED <<family, udpPort, doubled, file, net, inbox, asker, got, raced, mishap>>

-----------------------------------------------------------------------------
(* The clients                                                             *)

(* sendto the server: over IPv4 whichever has the port when it arrives,    *)
(* over Unix the socket that has the file now.  The kernel gives an IPv4   *)
(* client a port that is free, perhaps one that another client had.        *)
SendHello(c) ==
  /\ \/ /\ Inet /\ Does(c, "start", "recv")
        /\ \E p \in DgPort : /\ \A v \in DgClient : ~HasPort(v, p)
                             /\ udpPort' = [udpPort EXCEPT ![c] = p]
                             /\ Leaves("server", p, c)
        /\ UNCHANGED inbox
     \/ /\ ~Inet /\ UNCHANGED <<udpPort, net>>
        /\ LET s == file["unix_dgram_server"] IN
             IF s # Nobody /\ Up(s)
               THEN /\ Does(c, "send", "recv")
                    /\ Arrives(s, [to |-> "server", from |-> "unix_dgram_client",
                                   of |-> c])
               ELSE Does(c, "send", "failed") /\ UNCHANGED inbox
  /\ UNCHANGED <<family, doubled, file, asker, got, raced, mishap>>

RecvAnswer(c) ==
  /\ inbox[c] # <<>> /\ Does(c, "recv", "close")
  /\ got' = [got EXCEPT ![c] = Head(inbox[c]).of]
  /\ inbox' = [inbox EXCEPT ![c] = Tail(@)]
  /\ UNCHANGED <<family, udpPort, doubled, file, net, asker, raced, mishap>>

(* close; over Unix the file goes as well, whosever it is now.             *)
CloseClient(c) ==
  /\ Does(c, "close", "done")
  /\ IF Inet THEN UNCHANGED <<file, mishap>>
       ELSE LET u == file["unix_dgram_client"] IN
            /\ file' = [file EXCEPT !["unix_dgram_client"] = Nobody]
            /\ mishap' = (mishap \/ (u \notin {Nobody, c} /\ Up(u)))
  /\ UNCHANGED <<family, udpPort, doubled, net, inbox, asker, got, raced>>

-----------------------------------------------------------------------------
(* The servers                                                             *)

RecvHello(s) ==
  /\ inbox[s] # <<>> /\ Does(s, "recv", "reply")
  /\ asker' = [asker EXCEPT ![s] = Head(inbox[s])]
  /\ inbox' = [inbox EXCEPT ![s] = Tail(@)]
  /\ UNCHANGED <<family, udpPort, doubled, file, net, got, raced, mishap>>

AnswerTo(s, u) ==
  \/ Inet /\ Leaves(u, "server", asker[s].of) /\ UNCHANGED inbox
  \/ /\ ~Inet /\ UNCHANGED net
     /\ IF u # Nobody /\ Up(u)
          THEN Arrives(u, [to |-> "unix_dgram_client", from |-> "server",
                          of |-> asker[s].of])
          ELSE UNCHANGED inbox

(* Slip: the address is taken from somewhere else.                         *)
ReplyAnyone(s) ==
  /\ Does(s, "reply", "recv") /\ \E u \in IF Inet THEN DgPort ELSE DgClient : AnswerTo(s, u)
  /\ asker' = [asker EXCEPT ![s] = NoDgram]
  /\ UNCHANGED <<family, udpPort, doubled, file, got, raced, mishap>>

(* Slip: no answer.                                                        *)
NoReply(s) ==
  /\ Does(s, "reply", "recv")
  /\ UNCHANGED <<family, udpPort, doubled, file, net, inbox, asker, got, raced, mishap>>

(* sendto client_addr; a failure is not looked at.                         *)
Reply(s) ==
  /\ Does(s, "reply", "recv")
  /\ AnswerTo(s, IF Inet THEN asker[s].from ELSE file["unix_dgram_client"])
  /\ asker' = [asker EXCEPT ![s] = NoDgram]
  /\ UNCHANGED <<family, udpPort, doubled, file, got, raced, mishap>>

-----------------------------------------------------------------------------
(* socket, bind or sendto fails; the file that was bound stays.            *)
DgFails(u) ==
  /\ dpc[u] \in {"start", "bind", "send"} /\ dpc' = [dpc EXCEPT ![u] = "failed"]
  /\ inbox' = [inbox EXCEPT ![u] = <<>>]
  /\ UNCHANGED <<family, udpPort, doubled, file, net, asker, got, raced, mishap>>

(* A process ends without clean-up; its file stays, its port does not.     *)
DgKilled(u) ==
  /\ Up(u) /\ dpc' = [dpc EXCEPT ![u] = "killed"] /\ mishap' = TRUE
  /\ inbox' = [inbox EXCEPT ![u] = <<>>]
  /\ asker' = [s \in DgServer |-> IF s = u THEN NoDgram ELSE asker[s]]
  /\ UNCHANGED <<family, udpPort, doubled, file, net, got, raced>>

ClientStep(c) == UnlinkFile(c) \/ BindFile(c) \/ SendHello(c) \/ RecvAnswer(c) \/ CloseClient(c)
ServerStep(s) == BindFile(s) \/ RecvHello(s) \/ Reply(s)

DgNext ==
  \/ Network
  \/ \E c \in DgClient : ClientStep(c)
  \/ \E s \in DgServer : UnlinkFile(s) \/ BindPort(s) \/ ServerStep(s)
  \/ \E u \in DgProc : DgFails(u) \/ DgKilled(u)

DgSpec == DgInit /\ [][DgNext]_dgVars

-----------------------------------------------------------------------------
(* Type correctness; only IPv4 datagrams are under way, and each file      *)
(* belongs to a program that binds it.                                     *)
DgTypeOK ==
  /\ dpc \in [DgProc -> {"start", "bind", "send", "recv", "reply", "close", "done",
                         "failed", "nobind", "killed"}]
  /\ \A f \in DOMAIN file : file[f] # Nobody => Port(file[f]) = f
  /\ udpPort \in [DgClient -> DgPort \cup {"none"}]
  /\ net \subseteq Dgram /\ (Inet \/ net = {}) /\ doubled \in 0 .. MaxDoubled
  /\ \A u \in DgProc : inbox[u] \in Seq(Dgram) /\ Len(inbox[u]) <= MaxInbox
  /\ \A s \in DgServer : dpc[s] = "reply" => asker[s] \in Dgram
  /\ got \in [DgClient -> DgClient \cup {Nobody}]
  /\ raced \in [DgProc -> BOOLEAN] /\ mishap \in BOOLEAN

(* What is left of a client that has another's answer.                     *)
HadPortOf(a, c) == udpPort[a] = udpPort[c] /\ dpc[a] \in {"done", "killed"}

(* Over IPv4 a client gets the answer to its own request, whatever the     *)
(* network does, as the server answers the address a request came from; or *)
(* that of a client that is gone and had its port before it, never that of *)
(* one that waits too.                                                     *)
OwnAnswer ==
  Inet => \A c, a \in DgClient :
    /\ got[c] = a => a = c \/ HadPortOf(a, c)
    /\ \A n \in 1 .. Len(inbox[c]) : inbox[c][n].of = a => a = c \/ HadPortOf(a, c)

(* A file that a killed program left behind is in nobody's way: bind fails *)
(* only when another process bound it after the unlink.                    *)
DgBindsUnlessRaced == \A u \in DgProc : dpc[u] = "nobind" => raced[u]

(* A client that asked a server gets an answer, unless a datagram was      *)
(* lost, a process killed or a file taken from a process that used it.     *)
AnsweredUnlessMishap ==
  \A c \in DgClient : dpc[c] = "recv" ~> (dpc[c] = "done" \/ mishap)

(* Not kept.  IPv4_datagram_socket_client.c:51, "Receive response from     *)
(* server": the answer to a client that was killed, or one that came twice,*)
(* goes to the next client that gets the port, for its own.                *)
OwnAnswerInet == Inet => \A c \in DgClient : got[c] \in {Nobody, c}

(* Not kept.  Unix_datagram_socket_client.c:54, "Nhan phan hoi tu server": *)
(* two clients share CLIENT_PATH, and the one that bound it last gets the  *)
(* answer to the other's request.                                          *)
OwnAnswerUnix == ~Inet => \A c \in DgClient : got[c] \in {Nobody, c}
=============================================================================
