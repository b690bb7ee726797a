------------------------------ MODULE Streams -------------------------------
(***************************************************************************)
(* The stream programs of 6.IPC_Socket.  Over IPv4 the server accepts      *)
(* without end, writes a hello and closes; the client reads it and spins.  *)
(* Over Unix sockets the server accepts once: it reads the client's hello, *)
(* answers, and ends; those who wait in its backlog are cut off.           *)
(* Sockets are external; a hello is read whole.                            *)
(***************************************************************************)
EXTENDS Integers, Sequences, SequencesExt

CONSTANTS StClient, StServer,  \* the processes
          Backlog              \* of listen, 50 and 5 in the sources

StProc == StClient \cup StServer
NoOne  == "no one"

ASSUME StAssumption ==
  StClient \cap StServer = {} /\ NoOne \notin StProc /\ Backlog \in Nat \ {0}

VARIABLES domain,   \* "AF_INET" or "AF_UNIX"
          spc,      \* process -> where it is
          sock,     \* the process whose socket is bound to SOCKET_PATH, or NoOne
          timewait, \* is the IPv4 port kept by connections a server closed?
          queue,    \* server -> clients in its backlog
          serves,   \* server -> the client it has accepted, or NoOne
          server,   \* client -> the server it is connected to, or NoOne
          up, down, \* clients whose hello waits at the server, for whom one waits
          left,     \* clients that have closed their connection
          cut,      \* clients whose connection the server has closed
          reset,    \* those that left and whose host has then reset the connection
          heard,    \* client -> what it read, "none" until then
          outrun    \* history: process -> did another bind after its unlink?

stVars == <<domain, spc, sock, timewait, queue, serves, server, up, down, left, cut,
            reset, heard, outrun>>
linkVars == <<queue, serves, server>>
dataVars == <<up, down, heard>>
endVars  == <<left, cut, reset>>
addrVars == <<domain, sock, timewait, outrun>>

StInit ==
  /\ domain \in {"AF_INET", "AF_UNIX"}
  /\ spc = [u \in StProc |-> "start"]
  /\ sock = NoOne /\ timewait = FALSE
  /\ queue = [s \in StServer |-> <<>>] /\ serves = [s \in StServer |-> NoOne]
  /\ server = [c \in StClient |-> NoOne]
  /\ up = {} /\ down = {} /\ left = {} /\ cut = {} /\ reset = {}
  /\ heard = [c \in StClient |-> "none"] /\ outrun = [u \in StServer |-> FALSE]

ByPort == domain = "AF_INET"
Ended == {"done", "failed", "nobind", "sigpipe", "killed"}
Is(u) == spc[u] \notin Ended \cup {"start"}
Goes(u, from, to) == spc[u] = from /\ spc' = [spc EXCEPT ![u] = to]

(* What the end of a process does to its connections: for a server, its    *)
(* client and those in the backlog see them closed.                        *)
Hangup(u) ==
  /\ IF u \in StClient THEN left' = left \cup {u} /\ UNCHANGED <<cut, queue>>
     ELSE /\ cut' = cut \cup ({serves[u]} \ {NoOne}) \cup ToSet(queue[u])
          /\ queue' = [queue EXCEPT ![u] = <<>>]
          /\ UNCHANGED left
  /\ UNCHANGED reset

(* The host of a client that left gives up waiting for the server to close *)
(* and resets the connection, in the backlog or once it is accepted.       *)
Reset(c) ==
  /\ ByPort /\ c \in left \ (down \cup cut \cup reset) /\ server[c] # NoOne
  /\ reset' = reset \cup {c}
  /\ UNCHANGED <<addrVars, spc, linkVars, dataVars, left, cut>>

-----------------------------------------------------------------------------
(* Both servers                                                            *)

UnlinkPath(s) ==
  /\ ~ByPort /\ Goes(s, "start", "bind")
  /\ sock' = NoOne /\ outrun' = [outrun EXCEPT ![s] = FALSE]
  /\ UNCHANGED <<domain, timewait, linkVars, dataVars, endVars>>

BindPath(s) ==
  /\ ~ByPort
  /\ IF sock = NoOne
       THEN /\ Goes(s, "bind", "listen") /\ sock' = s
            /\ outrun' = [u \in StServer |-> outrun[u] \/ u # s]
       ELSE Goes(s, "bind", "nobind") /\ UNCHANGED <<sock, outrun>>
  /\ UNCHANGED <<domain, timewait, linkVars, dataVars, endVars>>

(* SO_REUSEADDR is commented out: connections that an earlier server       *)
(* closed keep the port for a while.                                       *)
BindInet(s) ==
  /\ ByPort
  /\ Goes(s, "start", IF timewait \/ \E u \in StServer : Is(u) THEN "nobind" ELSE "listen")
  /\ UNCHANGED <<addrVars, linkVars, dataVars, endVars>>

TimeWaitEnds ==
  /\ timewait /\ timewait' = FALSE
  /\ UNCHANGED <<domain, spc, sock, outrun, linkVars, dataVars, endVars>>

Listen(s) ==
  /\ Goes(s, "listen", "accept") /\ UNCHANGED <<addrVars, linkVars, dataVars, endVars>>

Accept(s) ==
  /\ queue[s] # <<>>
  /\ Goes(s, "accept", IF ByPort THEN "write" ELSE "read")
  /\ serves' = [serves EXCEPT ![s] = Head(queue[s])]
  /\ queue' = [queue EXCEPT ![s] = Tail(@)]
  /\ UNCHANGED <<addrVars, server, dataVars, endVars>>

(* Any call may fail before a client is there.                             *)
ServerFails(s) ==
  /\ spc[s] \in {"start", "bind", "listen", "accept"}
  /\ spc' = [spc EXCEPT ![s] = "failed"] /\ Hangup(s)
  /\ UNCHANGED <<addrVars, serves, server, dataVars>>

-----------------------------------------------------------------------------
(* The IPv4 server                                                         *)

(* Slip: the connection is closed before hello is written.                 *)
CloseUnwritten(s) ==
  /\ ByPort /\ Goes(s, "write", "close")
  /\ UNCHANGED <<addrVars, linkVars, dataVars, endVars>>

(* A write to a client that is gone succeeds; on a connection that was     *)
(* reset after that it raises SIGPIPE, which ends the server.              *)
WriteHello(s) ==
  /\ ByPort
  /\ IF serves[s] \in reset
       THEN Goes(s, "write", "sigpipe") /\ Hangup(s) /\ UNCHANGED down
       ELSE /\ Goes(s, "write", "close") /\ UNCHANGED <<endVars, queue>>
            /\ down' = down \cup {serves[s]}
  /\ UNCHANGED <<addrVars, serves, server, up, heard>>

CloseConn(s) ==
  /\ ByPort /\ Goes(s, "close", "accept")
  /\ cut' = cut \cup {serves[s]} /\ timewait' = TRUE
  /\ serves' = [serves EXCEPT ![s] = NoOne]
  /\ UNCHANGED <<domain, sock, outrun, queue, server, dataVars, left, reset>>

-----------------------------------------------------------------------------
(* The Unix server                                                         *)

(* Gets the hello, or nothing when the client is gone.                     *)
ReadHello(s) ==
  /\ ~ByPort /\ serves[s] \in up \cup left
  /\ Goes(s, "read", "write")
  /\ up' = up \ {serves[s]}
  /\ UNCHANGED <<addrVars, linkVars, down, heard, endVars>>

Answer(s) ==
  /\ ~ByPort
  /\ IF serves[s] \in left
       THEN Goes(s, "write", "sigpipe") /\ Hangup(s) /\ UNCHANGED down
       ELSE /\ Goes(s, "write", "close") /\ UNCHANGED <<endVars, queue>>
            /\ down' = down \cup {serves[s]}
  /\ UNCHANGED <<addrVars, serves, server, up, heard>>

(* Closes both sockets, then removes the file, whosever it is now.         *)
CloseBoth(s) ==
  /\ ~ByPort /\ Goes(s, "close", "unlink") /\ Hangup(s)
  /\ UNCHANGED <<addrVars, serves, server, dataVars>>
UnlinkEnd(s) ==
  /\ Goes(s, "unlink", "done") /\ sock' = NoOne
  /\ UNCHANGED <<domain, timewait, outrun, linkVars, dataVars, endVars>>

-----------------------------------------------------------------------------
(* The clients                                                             *)

Listens(s) == spc[s] \in {"accept", "read", "write", "close"} /\ (ByPort \/ sock = s)

(* Refused unless a server listens there; waits for room in its backlog.   *)
Connect(c) ==
  /\ \/ \E s \in StServer :
          /\ Listens(s) /\ Len(queue[s]) < Backlog
          /\ Goes(c, "start", IF ByPort THEN "read" ELSE "write")
          /\ server' = [server EXCEPT ![c] = s]
          /\ queue' = [queue EXCEPT ![s] = Append(@, c)]
     \/ /\ ~\E s \in StServer : Listens(s)
        /\ Goes(c, "start", "failed") /\ UNCHANGED <<queue, server>>
  /\ UNCHANGED <<addrVars, serves, dataVars, endVars>>

(* The Unix client's hello.                                                *)
ClientWrite(c) ==
  /\ ~ByPort
  /\ IF c \in cut THEN Goes(c, "write", "sigpipe") /\ UNCHANGED up
       ELSE Goes(c, "write", "read") /\ up' = up \cup {c}
  /\ UNCHANGED <<addrVars, linkVars, down, heard, endVars>>

(* read gives what has come, or nothing when the server has closed; the    *)
(* IPv4 client then prints a buffer that was never written.                *)
ClientRead(c) ==
  /\ c \in down \cup cut
  /\ Goes(c, "read", IF ByPort THEN "spin" ELSE "close")
  /\ heard' = [heard EXCEPT ![c] = IF c \in down THEN "hello" ELSE "nothing"]
  /\ UNCHANGED <<addrVars, linkVars, up, down, endVars>>

ClientClose(c) ==
  /\ Goes(c, "close", "done") /\ Hangup(c)
  /\ UNCHANGED <<addrVars, serves, server, dataVars>>

-----------------------------------------------------------------------------
(* A connection that the end of a server closes keeps the port as well.    *)
StKilled(u) ==
  /\ Is(u) /\ spc' = [spc EXCEPT ![u] = "killed"] /\ Hangup(u)
  /\ timewait' = (timewait \/ (ByPort /\ u \in StServer /\ serves[u] # NoOne))
  /\ UNCHANGED <<domain, sock, outrun, serves, server, dataVars>>

StServerStep(s) == \/ UnlinkPath(s) \/ BindPath(s) \/ BindInet(s) \/ Listen(s) \/ Accept(s)
                   \/ WriteHello(s) \/ CloseConn(s)
                   \/ ReadHello(s) \/ Answer(s) \/ CloseBoth(s) \/ UnlinkEnd(s)
StClientStep(c) == Connect(c) \/ ClientWrite(c) \/ ClientRead(c) \/ ClientClose(c)

StNext == \/ TimeWaitEnds
          \/ \E s \in StServer : StServerStep(s) \/ ServerFails(s)
          \/ \E c \in StClient : StClientStep(c) \/ Reset(c)
          \/ \E u \in StProc : StKilled(u)

StSpec == StInit /\ [][StNext]_stVars

-----------------------------------------------------------------------------
(* Type correctness; a client waits in the backlog of the server it is     *)
(* connected to or is served by it, never both.                            *)
StTypeOK ==
  /\ spc \in [StProc -> Ended \cup {"start", "bind", "listen", "accept", "write", "close",
                                    "read", "unlink", "spin"}]
  /\ sock \in StServer \cup {NoOne} /\ timewait \in BOOLEAN
  /\ up \subseteq StClient /\ down \subseteq StClient
  /\ left \subseteq StClient /\ cut \subseteq StClient /\ reset \subseteq StClient
  /\ heard \in [StClient -> {"none", "hello", "nothing"}]
  /\ \A s \in StServer :
       /\ Len(queue[s]) <= Backlog
       /\ \A c \in ToSet(queue[s]) : server[c] = s /\ serves[s] # c /\ c \notin down \cup cut
       /\ serves[s] # NoOne => server[serves[s]] = s

(* A client that hears nothing has lost its server: the connection was     *)
(* closed because the server ended, never by one that serves on.           *)
StreamsHold ==
  \A c \in StClient : heard[c] = "nothing" => spc[server[c]] \in Ended \cup {"unlink"}

(* A file that an earlier server left is in nobody's way: bind fails only  *)
(* when another server bound it after the unlink.                          *)
StBindsUnlessRaced == ~ByPort => \A s \in StServer : spc[s] = "nobind" => outrun[s]

(* A client that is connected reads something or ends; none waits for a    *)
(* server for ever, neither in the backlog nor when it is served.          *)
NoneWaitsForever ==
  \A c \in StClient : spc[c] \in {"write", "read"} ~> spc[c] \in Ended \cup {"spin"}

(* Not kept.  Unix_stream_socket_server.c:24, "Xoa file socket cu" (remove *)
(* the old socket file): it also removes that of a server which runs.      *)
PathOfListener == \A s \in StServer : ~ByPort /\ spc[s] = "accept" => sock = s

(* Not kept.  IPv4_stream_socket_server.c:37, "Address already in use":    *)
(* the option is commented out, and a server that is started again fails.  *)
PortFree ==
  [][\A s \in StServer : ByPort /\ spc'[s] = "nobind" /\ spc[s] = "start" =>
       \E u \in StServer : Is(u)]_stVars

(* Not kept.  A client that vanishes ends its server with SIGPIPE: the     *)
(* Unix one before it has removed its file, and the IPv4 one, that should  *)
(* serve without end, when the connection is reset before it is written.   *)
ServerSurvives == \A s \in StServer : spc[s] # "sigpipe"
=============================================================================
