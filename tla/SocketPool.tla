------------------------------ MODULE SocketPool ------------------------------
(***************************************************************************)
(* The sockets of the W5500 chip, shared by the TCP command server, the UDP*)
(* command server and the client that reports to the host.  Each looks for *)
(* a socket by reading the status registers one after the other, while the *)
(* chip and the peers change them.  The registers survive a reset of the   *)
(* microcontroller: W5500Class::init does not reset the chip.              *)
(***************************************************************************)
EXTENDS Naturals

CONSTANTS
  MAX_SOCK_NUM,
  MaxUnread,      \* most reads' worth of data that waits in a socket
  MaxReports,     \* connections tried in a pass of loop(): CDSProc 1, ShockProc 3
  MaxResets,      \* bound on the resets of the microcontroller
  AddressValid    \* values of: connect() of socket.cpp takes HostIP and HostPort

ASSUME SocketPoolAssumption ==
  /\ MAX_SOCK_NUM \in Nat \ {0}
  /\ MaxUnread \in Nat \ {0}
  /\ MaxReports \in Nat
  /\ MaxResets \in Nat
  /\ AddressValid \subseteq BOOLEAN

Socket == 0 .. MAX_SOCK_NUM - 1

\* The value of _sock in an object that has no socket.
NoSocket == MAX_SOCK_NUM

VARIABLES
  status,      \* SnSR of each socket
  unread,      \* data waiting in each socket
  tag,         \* _server_port[s] = _port of TcpServer
  udp,         \* UdpServer._sock
  host,        \* HostClient._sock
  pc,          \* what the sketch is doing
  i,           \* the socket a loop over the sockets is at
  listening,   \* the variable of EthernetServer::accept
  reports,     \* connections tried in this pass of loop()
  resets,      \* ghost: resets of the microcontroller so far
  opener       \* ghost: who opened the socket

chip == <<status, unread, opener>>
vars == <<chip, tag, udp, host, pc, i, listening, reports, resets>>

Status == {"CLOSED", "INIT", "LISTEN", "SYNSENT", "ESTABLISHED",
           "FIN_WAIT", "CLOSE_WAIT", "LAST_ACK", "UDP"}

\* "setup" and "udp": setup().  "accept", "stop", "begin", "pick":
\* TcpServer.available().  "report" to "hangup": HostProc.
Places == {"setup", "udp", "accept", "stop", "begin", "pick",
           "report", "connect", "wait", "talk", "hangup"}

TypeOK ==
  /\ status \in [Socket -> Status]
  /\ unread \in [Socket -> 0 .. MaxUnread]
  /\ tag \in [Socket -> BOOLEAN]
  /\ udp \in Socket \cup {NoSocket}
  /\ host \in Socket \cup {NoSocket}
  /\ pc \in Places
  /\ i \in Socket \cup {NoSocket}
  /\ listening \in BOOLEAN
  /\ reports \in 0 .. MaxReports
  /\ resets \in 0 .. MaxResets
  /\ opener \in [Socket -> {"nobody", "server", "udp", "host"}]

Init ==
  /\ status = [s \in Socket |-> "CLOSED"]
  /\ unread = [s \in Socket |-> 0]
  /\ tag = [s \in Socket |-> FALSE]
  /\ udp = NoSocket
  /\ host = NoSocket
  /\ pc = "setup"
  /\ i = 0
  /\ listening = FALSE
  /\ reports = 0
  /\ resets = 0
  /\ opener = [s \in Socket |-> "nobody"]

-----------------------------------------------------------------------------
\* The chip and the peers.

Turns(s, from, to) ==
  /\ status[s] \in from
  /\ status' = [status EXCEPT ![s] = to]
  /\ UNCHANGED <<opener, tag, udp, host, pc, i, listening, reports, resets>>

PeerConnects(s) == Turns(s, {"LISTEN"}, "ESTABLISHED") /\ UNCHANGED unread

PeerAnswers(s) == Turns(s, {"SYNSENT"}, "ESTABLISHED") /\ UNCHANGED unread

PeerSends(s) ==
  /\ unread[s] < MaxUnread
  /\ unread' = [unread EXCEPT ![s] = @ + 1]
  /\ Turns(s, {"ESTABLISHED"}, "ESTABLISHED")

PeerCloses(s) == Turns(s, {"ESTABLISHED"}, "CLOSE_WAIT") /\ UNCHANGED unread

\* The peer resets the connection, or completes its end.
PeerResets(s) ==
  /\ Turns(s, {"ESTABLISHED", "CLOSE_WAIT", "FIN_WAIT", "LAST_ACK"}, "CLOSED")
  /\ unread' = [unread EXCEPT ![s] = 0]

\* The peer refuses, or the chip gives up its retries.
NoAnswer(s) == Turns(s, {"SYNSENT"}, "CLOSED") /\ UNCHANGED unread

Network ==
  \E s \in Socket :
    PeerConnects(s) \/ PeerAnswers(s) \/ PeerSends(s) \/ PeerCloses(s) \/ PeerResets(s)

-----------------------------------------------------------------------------
\* Loops over the sockets.

Goto(place) == pc' = place /\ i' = 0
NextSocket == pc' = pc /\ i' = i + 1

\* socket(): CLOSE, then OPEN.
Open(s, state, who) ==
  /\ status' = [status EXCEPT ![s] = state]
  /\ unread' = [unread EXCEPT ![s] = 0]
  /\ opener' = [opener EXCEPT ![s] = who]

\* CLOSE, and _server_port[s] = 0, at the end of EthernetClient::stop.
Closed(s) ==
  /\ status' = [status EXCEPT ![s] = "CLOSED"]
  /\ unread' = [unread EXCEPT ![s] = 0]
  /\ tag' = [tag EXCEPT ![s] = FALSE]

\* DISCON, at its start.
Disconnected(state) ==
  CASE state = "ESTABLISHED" -> "FIN_WAIT"
    [] state = "CLOSE_WAIT" -> "LAST_ACK"
    [] OTHER -> state

-----------------------------------------------------------------------------
\* setup() and EthernetServer::begin.

AfterBegin == IF pc = "setup" THEN "udp" ELSE "pick"

Begin ==
  /\ pc \in {"setup", "begin"}
  /\ UNCHANGED <<udp, host, listening, reports, resets>>
  /\ \/ /\ i \in Socket
        /\ status[i] = "CLOSED"
        /\ Open(i, "LISTEN", "server")
        /\ tag' = [tag EXCEPT ![i] = TRUE]
        /\ Goto(AfterBegin)
     \/ /\ i \in Socket
        /\ status[i] # "CLOSED"
        /\ NextSocket
        /\ UNCHANGED <<chip, tag>>
     \/ /\ i = NoSocket
        /\ Goto(AfterBegin)
        /\ UNCHANGED <<chip, tag>>

\* EthernetUDP::begin.
BeginUdp ==
  /\ pc = "udp"
  /\ UNCHANGED <<tag, host, listening, reports, resets>>
  /\ \/ /\ i \in Socket
        /\ status[i] \in {"CLOSED", "FIN_WAIT"}
        /\ udp' = i
        /\ Open(i, "UDP", "udp")
        /\ Goto("accept")
     \/ /\ i \in Socket
        /\ status[i] \notin {"CLOSED", "FIN_WAIT"}
        /\ NextSocket
        /\ UNCHANGED <<chip, udp>>
     \/ /\ i = NoSocket
        /\ Goto("accept")
        /\ UNCHANGED <<chip, udp>>

-----------------------------------------------------------------------------
\* TcpServer.available().

Listens(s) == tag[s] /\ status[s] = "LISTEN"

\* The variable listening, after a look at socket s.
ListeningLast(s) == Listens(s)
ListeningBusy(s) == listening \/ (tag[s] /\ status[s] \in {"LISTEN", "ESTABLISHED"})
ListeningAfter(s) == listening \/ Listens(s)

\* A connection the peer has closed and whose data is read.
FinishedUnread(s) == tag[s] /\ status[s] = "CLOSE_WAIT"
Finished(s) == tag[s] /\ status[s] = "CLOSE_WAIT" /\ unread[s] = 0

\* EthernetServer::accept up to the call of stop() or begin().
Accept ==
  /\ pc = "accept"
  /\ UNCHANGED <<unread, opener, tag, udp, host, reports, resets>>
  /\ \/ /\ i \in Socket
        /\ ~Finished(i)
        /\ listening' = ListeningAfter(i)
        /\ NextSocket
        /\ UNCHANGED status
     \/ /\ i \in Socket
        /\ Finished(i)
        /\ status' = [status EXCEPT ![i] = Disconnected(@)]
        /\ pc' = "stop"
        /\ UNCHANGED <<i, listening>>
     \/ /\ i = NoSocket
        /\ Goto(IF listening THEN "pick" ELSE "begin")
        /\ listening' = FALSE
        /\ UNCHANGED status

\* stop() has waited for CLOSED, a second at most.
Stop ==
  /\ pc = "stop"
  /\ Closed(i)
  /\ pc' = "accept"
  /\ i' = i + 1
  /\ UNCHANGED <<opener, udp, host, listening, reports, resets>>

HasData(s) == tag[s] /\ status[s] \in {"ESTABLISHED", "CLOSE_WAIT"} /\ unread[s] > 0

\* What a read leaves.
Left(n) == n - 1

\* The lowest-numbered connection with data is returned, and loop() reads it.
Serve(s) ==
  /\ pc = "pick"
  /\ i = s
  /\ HasData(s)
  /\ unread' = [unread EXCEPT ![s] = Left(@)]
  /\ Goto("report")
  /\ UNCHANGED <<status, opener, tag, udp, host, listening, reports, resets>>

ServeNone ==
  /\ pc = "pick"
  /\ UNCHANGED <<chip, tag, udp, host, listening, reports, resets>>
  /\ \/ i \in Socket /\ ~HasData(i) /\ NextSocket
     \/ i = NoSocket /\ Goto("report")

-----------------------------------------------------------------------------
\* HostProc and HostClient.

\* The pass of loop() ends.
EndPass ==
  /\ pc = "report"
  /\ Goto("accept")
  /\ reports' = 0
  /\ UNCHANGED <<chip, tag, udp, host, listening, resets>>

\* CDSProc or ShockProc calls HostProc.
Report ==
  /\ pc = "report"
  /\ reports < MaxReports
  /\ Goto("connect")
  /\ reports' = reports + 1
  /\ UNCHANGED <<chip, tag, udp, host, listening, resets>>

\* The statuses connect() takes for a free socket.
TakesIdle == Status \ {"LISTEN", "SYNSENT", "ESTABLISHED"}
Takes == {"CLOSED", "FIN_WAIT", "CLOSE_WAIT"}

\* A bad address leaves the socket open, and HostClient without it.
Connect(s) ==
  /\ pc = "connect"
  /\ i = s
  /\ status[s] \in Takes
  /\ UNCHANGED <<tag, udp, listening, reports, resets>>
  /\ \/ /\ TRUE \in AddressValid
        /\ Open(s, "SYNSENT", "host")
        /\ host' = s
        /\ Goto("wait")
     \/ /\ FALSE \in AddressValid
        /\ Open(s, "INIT", "host")
        /\ Goto("report")
        /\ UNCHANGED host

ConnectNone ==
  /\ pc = "connect"
  /\ UNCHANGED <<chip, tag, udp, host, listening, reports, resets>>
  /\ \/ i \in Socket /\ status[i] \notin Takes /\ NextSocket
     \/ i = NoSocket /\ Goto("report")

\* The end of the wait in connect(), which looks for two statuses.
Connected ==
  /\ pc = "wait"
  /\ UNCHANGED <<chip, tag, udp, listening, reports, resets>>
  /\ \/ status[host] = "ESTABLISHED" /\ Goto("talk") /\ UNCHANGED host
     \/ status[host] = "CLOSED" /\ Goto("report") /\ host' = NoSocket

\* HostProc has its answer, or its time is over: HostClient.stop().
AfterTalkNoStop(s) == Goto("report") /\ host' = NoSocket /\ UNCHANGED status
AfterTalk(s) ==
  /\ status' = [status EXCEPT ![s] = Disconnected(@)]
  /\ Goto("hangup")
  /\ UNCHANGED host

EndTalk ==
  /\ pc = "talk"
  /\ AfterTalk(host)
  /\ UNCHANGED <<unread, opener, tag, udp, listening, reports, resets>>

Hangup ==
  /\ pc = "hangup"
  /\ Closed(host)
  /\ host' = NoSocket
  /\ Goto("report")
  /\ UNCHANGED <<opener, udp, listening, reports, resets>>

-----------------------------------------------------------------------------
\* The microcontroller starts again, the chip goes on.
Reset ==
  /\ resets < MaxResets
  /\ resets' = resets + 1
  /\ tag' = [s \in Socket |-> FALSE]
  /\ udp' = NoSocket
  /\ host' = NoSocket
  /\ Goto("setup")
  /\ listening' = FALSE
  /\ reports' = 0
  /\ UNCHANGED chip

Loop ==
  \/ Begin \/ BeginUdp \/ Accept \/ Stop \/ ServeNone \/ EndPass \/ Report
  \/ ConnectNone \/ Connected \/ EndTalk \/ Hangup
  \/ \E s \in Socket : Serve(s) \/ Connect(s)

Next == Loop \/ Reset \/ Network \/ \E s \in Socket : NoAnswer(s)

Spec == Init /\ [][Next]_vars

\* loop() is called forever, and the chip gives up a connection nobody answers.
\* Peers promise nothing.
FairSpec ==
  /\ Spec
  /\ WF_vars(Loop)
  /\ \A s \in Socket : WF_vars(NoAnswer(s))

-----------------------------------------------------------------------------
\* Properties.

\* accept() reads the sockets one by one while peers connect, close and reset,
\* and still never opens a second listening socket.
OneListener == \A s, t \in Socket : Listens(s) /\ Listens(t) => s = t

\* Neither the TCP server nor the reports to the host ever take the socket of
\* the UDP server, which may even carry the tag of a server connection that
\* was reset during setup().
UdpSocketKept == udp # NoSocket => status[udp] = "UDP" /\ udp # host

\* Data is taken for a command only from a connection a peer opened to the
\* server, although a socket keeps its server tag when connect() takes it.
OnlyServersServed == [][\A s \in Socket : Serve(s) => opener[s] = "server"]_vars

\* Unread commands of a connection are lost only when the peer resets it, the
\* board is reset, or connect() takes the socket of a closed connection.
UnreadKept ==
  [][\A s \in Socket :
       (HasData(s) /\ opener[s] = "server" /\ (unread'[s] < unread[s] \/ ~HasData(s)'))
         => Serve(s) \/ PeerResets(s) \/ Reset \/ (Connect(s) /\ status[s] = "CLOSE_WAIT")]_vars

\* The host closed its end before connect() saw it open: the wait never ends.
Stuck == pc = "wait" /\ status[host] = "CLOSE_WAIT"

Room == \E s \in Socket : status[s] = "CLOSED"

\* As long as a socket is free, the server comes back to listening.
ListensAgain ==
  (\A s \in Socket : ~Listens(s)) ~> ((\E s \in Socket : Listens(s)) \/ ~Room \/ Stuck)
=============================================================================
