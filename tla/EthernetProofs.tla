---------------------------- MODULE EthernetProofs ----------------------------
(***************************************************************************)
(* Proofs about the Ethernet library above the chip: SocketPool, for every *)
(* number of sockets, of connections tried in a pass and of resets, and    *)
(* NameLookup, for every clock, time-out, port range and reply.            *)
(***************************************************************************)
EXTENDS SocketPool, NameLookup, SequenceTheorems, TLAPS

-----------------------------------------------------------------------------
\* SocketPool.

InHostProc == {"wait", "talk", "hangup"}

\* What accept() and begin() know of the sockets they have passed.
ScanInv ==
  /\ pc \in {"accept", "stop"} /\ ~listening => \A s \in Socket : s < i => ~Listens(s)
  /\ pc \in {"setup", "begin"} => \A s \in Socket : ~Listens(s)

\* Whose the sockets are.
OwnInv ==
  /\ pc \in {"setup", "udp"} => udp = NoSocket
  /\ pc = "stop" => i \in Socket /\ status[i] \in {"LAST_ACK", "CLOSED"}
  /\ pc \in InHostProc => host \in Socket
  /\ pc \notin InHostProc => host = NoSocket
  /\ host # NoSocket => opener[host] = "host" /\ status[host] # "UDP"

\* A socket with the tag of the server holds a connection of the server, if it
\* holds any and is not the one of HostClient.
TagInv ==
  \A s \in Socket :
    (tag[s] /\ s # host /\ status[s] \in {"LISTEN", "SYNSENT", "ESTABLISHED", "CLOSE_WAIT"})
      => opener[s] = "server"

IInv == TypeOK /\ OneListener /\ ScanInv /\ UdpSocketKept /\ OwnInv /\ TagInv

LEMMA Sockets == NoSocket \notin Socket /\ \A s \in Socket : s < NoSocket /\ s + 1 \in Socket \cup {NoSocket}
BY SocketPoolAssumption DEF Socket, NoSocket

LEMMA Zero == 0 \in Socket
BY SocketPoolAssumption DEF Socket

LEMMA InitInv == Init => IInv
<1> SUFFICES ASSUME Init
             PROVE  IInv
  OBVIOUS
<1> USE DEF Init
<1>1. 0 \in 0 .. MaxUnread /\ 0 \in 0 .. MaxReports /\ 0 \in 0 .. MaxResets
  BY SocketPoolAssumption
<1>2. TypeOK
  BY <1>1, Zero, Zenon DEF TypeOK, Status, Places
<1>3. OneListener /\ ScanInv /\ UdpSocketKept
  BY DEF OneListener, ScanInv, UdpSocketKept, Listens
<1>4. OwnInv /\ TagInv
  BY DEF OwnInv, TagInv, InHostProc
<1> QED
  BY <1>2, <1>3, <1>4 DEF IInv

-----------------------------------------------------------------------------
\* The steps of the network.

LEMMA TurnsInv ==
  ASSUME IInv, NEW s \in Socket, NEW from, NEW to \in {"ESTABLISHED", "CLOSE_WAIT", "CLOSED"},
         Turns(s, from, to),
         from \cap {"UDP", "CLOSED", "INIT"} = {},
         from \cap {"FIN_WAIT", "LAST_ACK"} = {} \/ to = "CLOSED",
         unread' \in [Socket -> 0 .. MaxUnread]
  PROVE  IInv'
<1> USE DEF IInv, Turns
<1>1. \A t \in Socket : status'[t] = IF t = s THEN to ELSE status[t]
  BY DEF TypeOK
<1>2. status[s] \in from /\ status[s] \notin {"UDP", "CLOSED", "INIT"}
  OBVIOUS
<1>3. TypeOK'
  BY DEF TypeOK, Status
<1>4. \A t \in Socket : Listens(t)' => Listens(t)
  BY <1>1 DEF Listens
<1>5. OneListener' /\ ScanInv'
  BY <1>4 DEF OneListener, ScanInv
<1>6. UdpSocketKept'
  BY <1>1, <1>2 DEF UdpSocketKept, TypeOK
<1>7. OwnInv'
  BY <1>1, <1>2 DEF OwnInv, TypeOK
<1>8. TagInv'
  <2> SUFFICES ASSUME NEW t \in Socket, tag[t], t # host,
                      status'[t] \in {"LISTEN", "SYNSENT", "ESTABLISHED", "CLOSE_WAIT"}
               PROVE  opener[t] = "server"
    BY DEF TagInv
  <2>1. CASE t # s
    BY <1>1, <2>1 DEF TagInv
  <2>2. CASE t = s
    <3>1. status[s] \in {"LISTEN", "SYNSENT", "ESTABLISHED", "CLOSE_WAIT"}
      BY <1>1, <1>2, <2>2 DEF TypeOK, Status
    <3> QED
      BY <2>2, <3>1 DEF TagInv
  <2> QED
    BY <2>1, <2>2
<1> QED
  BY <1>3, <1>5, <1>6, <1>7, <1>8

LEMMA NetworkInv == IInv /\ (Network \/ \E s \in Socket : NoAnswer(s)) => IInv'
<1> SUFFICES ASSUME IInv, NEW s \in Socket,
                    \/ PeerConnects(s) \/ PeerAnswers(s) \/ PeerSends(s)
                    \/ PeerCloses(s) \/ PeerResets(s) \/ NoAnswer(s)
             PROVE  IInv'
  BY DEF Network
<1>0. unread \in [Socket -> 0 .. MaxUnread]
  BY DEF IInv, TypeOK
<1>1. CASE PeerConnects(s)
  BY <1>0, <1>1, TurnsInv DEF PeerConnects
<1>2. CASE PeerAnswers(s)
  BY <1>0, <1>2, TurnsInv DEF PeerAnswers
<1>3. CASE PeerSends(s)
  <2>1. unread' \in [Socket -> 0 .. MaxUnread]
    BY <1>0, <1>3, SocketPoolAssumption DEF PeerSends
  <2> QED
    BY <1>3, <2>1, TurnsInv DEF PeerSends
<1>4. CASE PeerCloses(s)
  BY <1>0, <1>4, TurnsInv DEF PeerCloses
<1>5. CASE PeerResets(s)
  <2>1. unread' \in [Socket -> 0 .. MaxUnread]
    BY <1>0, <1>5, SocketPoolAssumption DEF PeerResets
  <2> QED
    BY <1>5, <2>1, TurnsInv DEF PeerResets
<1>6. CASE NoAnswer(s)
  BY <1>0, <1>6, TurnsInv DEF NoAnswer
<1> QED
  BY <1>1, <1>2, <1>3, <1>4, <1>5, <1>6

-----------------------------------------------------------------------------
\* Type correctness of the sketch's own steps.

LEMMA OpenType ==
  ASSUME TypeOK, NEW s \in Socket, NEW state \in Status,
         NEW who \in {"server", "udp", "host"}, Open(s, state, who)
  PROVE  /\ status' \in [Socket -> Status]
         /\ unread' \in [Socket -> 0 .. MaxUnread]
         /\ opener' \in [Socket -> {"nobody", "server", "udp", "host"}]
BY SocketPoolAssumption DEF TypeOK, Open

LEMMA ClosedType ==
  ASSUME TypeOK, NEW s \in Socket, Closed(s)
  PROVE  /\ status' \in [Socket -> Status]
         /\ unread' \in [Socket -> 0 .. MaxUnread]
         /\ tag' \in [Socket -> BOOLEAN]
BY SocketPoolAssumption DEF TypeOK, Closed, Status

LEMMA DisconnectedType == \A state \in Status : Disconnected(state) \in Status
BY DEF Disconnected, Status

LEMMA NextSocketType ==
  ASSUME TypeOK, i \in Socket, NextSocket
  PROVE  i' \in Socket \cup {NoSocket} /\ pc' \in Places
BY Sockets DEF TypeOK, NextSocket

LEMMA GotoType ==
  ASSUME NEW p \in Places, Goto(p)
  PROVE  i' \in Socket \cup {NoSocket} /\ pc' \in Places
BY Zero DEF Goto

LEMMA LoopType == IInv /\ (Loop \/ Reset) => TypeOK'
<1> SUFFICES ASSUME IInv, Loop \/ Reset
             PROVE  TypeOK'
  OBVIOUS
<1> USE SocketPoolAssumption
<1>0. TypeOK
  BY DEF IInv
<1>1. CASE Begin
  <2>1. AfterBegin \in Places
    BY DEF AfterBegin, Places
  <2>2. status' \in [Socket -> Status] /\ unread' \in [Socket -> 0 .. MaxUnread]
        /\ opener' \in [Socket -> {"nobody", "server", "udp", "host"}]
    BY <1>0, <1>1, OpenType DEF Begin, TypeOK, Status, chip
  <2>3. i' \in Socket \cup {NoSocket} /\ pc' \in Places
    BY <1>0, <1>1, <2>1, GotoType, NextSocketType DEF Begin
  <2>4. tag' \in [Socket -> BOOLEAN]
    BY <1>0, <1>1 DEF Begin, TypeOK
  <2> QED
    BY <1>0, <1>1, <2>2, <2>3, <2>4 DEF Begin, TypeOK
<1>2. CASE BeginUdp
  <2>2. status' \in [Socket -> Status] /\ unread' \in [Socket -> 0 .. MaxUnread]
        /\ opener' \in [Socket -> {"nobody", "server", "udp", "host"}]
    BY <1>0, <1>2, OpenType DEF BeginUdp, TypeOK, Status, chip
  <2>3. i' \in Socket \cup {NoSocket} /\ pc' \in Places
    BY <1>0, <1>2, GotoType, NextSocketType DEF BeginUdp, Places
  <2>4. udp' \in Socket \cup {NoSocket}
    BY <1>0, <1>2 DEF BeginUdp, TypeOK
  <2> QED
    BY <1>0, <1>2, <2>2, <2>3, <2>4 DEF BeginUdp, TypeOK
<1>3. CASE Accept
  <2>2. status' \in [Socket -> Status]
    BY <1>0, <1>3, DisconnectedType DEF Accept, TypeOK
  <2>3. i' \in Socket \cup {NoSocket} /\ pc' \in Places
    <3>1. (IF listening THEN "pick" ELSE "begin") \in Places
      BY DEF Places
    <3>2. "stop" \in Places
      BY DEF Places
    <3> QED
      BY <1>0, <1>3, <3>1, <3>2, GotoType, NextSocketType DEF Accept, TypeOK
  <2>4. listening' \in BOOLEAN
    <3>1. ListeningAfter(i) \in BOOLEAN
      BY DEF ListeningAfter
    <3> QED
      BY <1>0, <1>3, <3>1, Zenon DEF Accept, TypeOK
  <2> QED
    BY <1>0, <1>3, <2>2, <2>3, <2>4 DEF Accept, TypeOK
<1>4. CASE Stop
  <2>1. i \in Socket
    BY <1>4 DEF IInv, OwnInv, Stop
  <2>2. i' \in Socket \cup {NoSocket} /\ pc' \in Places
    BY <1>4, <2>1, Sockets DEF Stop, Places
  <2> QED
    BY <1>0, <1>4, <2>1, <2>2, ClosedType DEF Stop, TypeOK
<1>5. ASSUME NEW s \in Socket, Serve(s)
      PROVE  TypeOK'
  <2>1. unread' \in [Socket -> 0 .. MaxUnread]
    BY <1>0, <1>5 DEF Serve, HasData, Left, TypeOK
  <2>2. i' \in Socket \cup {NoSocket} /\ pc' \in Places
    BY <1>5, GotoType DEF Serve, Places
  <2> QED
    BY <1>0, <1>5, <2>1, <2>2 DEF Serve, TypeOK
<1>6. CASE ServeNone
  <2>1. i' \in Socket \cup {NoSocket} /\ pc' \in Places
    BY <1>0, <1>6, GotoType, NextSocketType DEF ServeNone, Places
  <2> QED
    BY <1>0, <1>6, <2>1 DEF ServeNone, TypeOK, chip
<1>7. CASE EndPass
  <2>1. i' \in Socket \cup {NoSocket} /\ pc' \in Places
    BY <1>7, GotoType DEF EndPass, Places
  <2> QED
    BY <1>0, <1>7, <2>1 DEF EndPass, TypeOK, chip
<1>8. CASE Report
  <2>1. i' \in Socket \cup {NoSocket} /\ pc' \in Places
    BY <1>8, GotoType DEF Report, Places
  <2>2. reports' \in 0 .. MaxReports
    BY <1>0, <1>8 DEF Report, TypeOK
  <2> QED
    BY <1>0, <1>8, <2>1, <2>2 DEF Report, TypeOK, chip
<1>9. ASSUME NEW s \in Socket, Connect(s)
      PROVE  TypeOK'
  <2>1. status' \in [Socket -> Status] /\ unread' \in [Socket -> 0 .. MaxUnread]
        /\ opener' \in [Socket -> {"nobody", "server", "udp", "host"}]
    BY <1>0, <1>9, OpenType DEF Connect, Status
  <2>2. i' \in Socket \cup {NoSocket} /\ pc' \in Places
    BY <1>9, GotoType DEF Connect, Places
  <2> QED
    BY <1>0, <1>9, <2>1, <2>2 DEF Connect, TypeOK
<1>10. CASE ConnectNone
  <2>1. i' \in Socket \cup {NoSocket} /\ pc' \in Places
    BY <1>0, <1>10, GotoType, NextSocketType DEF ConnectNone, Places
  <2> QED
    BY <1>0, <1>10, <2>1 DEF ConnectNone, TypeOK, chip
<1>11. CASE Connected
  <2>1. i' \in Socket \cup {NoSocket} /\ pc' \in Places
    BY <1>11, GotoType DEF Connected, Places
  <2> QED
    BY <1>0, <1>11, <2>1 DEF Connected, TypeOK, chip
<1>12. CASE EndTalk
  <2>1. i' \in Socket \cup {NoSocket} /\ pc' \in Places
    BY <1>12, GotoType DEF EndTalk, AfterTalk, Places
  <2>2. status' \in [Socket -> Status]
    BY <1>0, <1>12, DisconnectedType DEF EndTalk, AfterTalk, TypeOK
  <2> QED
    BY <1>0, <1>12, <2>1, <2>2 DEF EndTalk, AfterTalk, TypeOK
<1>13. CASE Hangup
  <2>1. i' \in Socket \cup {NoSocket} /\ pc' \in Places
    BY <1>13, GotoType DEF Hangup, Places
  <2>2. host \in Socket
    BY <1>13 DEF IInv, OwnInv, InHostProc, Hangup
  <2> QED
    BY <1>0, <1>13, <2>1, <2>2, ClosedType DEF Hangup, TypeOK
<1>14. CASE Reset
  <2>1. i' \in Socket \cup {NoSocket} /\ pc' \in Places
    BY <1>14, GotoType DEF Reset, Places
  <2>2. resets' \in 0 .. MaxResets
    BY <1>0, <1>14 DEF Reset, TypeOK
  <2>3. reports' \in 0 .. MaxReports
    BY <1>14 DEF Reset
  <2> QED
    BY <1>0, <1>14, <2>1, <2>2, <2>3 DEF Reset, TypeOK, chip
<1> QED
  BY <1>1, <1>2, <1>3, <1>4, <1>5, <1>6, <1>7, <1>8, <1>9, <1>10, <1>11, <1>12,
     <1>13, <1>14 DEF Loop

-----------------------------------------------------------------------------
\* The scans: TcpServer.available() and EthernetServer::begin.

LEMMA ListenersShrink ==
  ASSUME OneListener, \A s \in Socket : Listens(s)' => Listens(s)
  PROVE  OneListener'
BY DEF OneListener

LEMMA LoopListener == IInv /\ (Loop \/ Reset) => OneListener' /\ ScanInv'
<1> SUFFICES ASSUME IInv, Loop \/ Reset
             PROVE  OneListener' /\ ScanInv'
  OBVIOUS
<1> USE DEF IInv
<1>a. TypeOK
  OBVIOUS
<1>1. CASE Begin
  <2>1. CASE i \in Socket /\ status[i] = "CLOSED"
    <3>1. \A s \in Socket : Listens(s)' => s = i
      BY <1>1, <2>1, Sockets DEF Begin, ScanInv, Listens, Open, TypeOK
    <3>2. pc' \in {"udp", "pick"}
      BY <1>1, <2>1, Sockets DEF Begin, Goto, AfterBegin
    <3> QED
      BY <3>1, <3>2 DEF OneListener, ScanInv
  <2>2. CASE ~(i \in Socket /\ status[i] = "CLOSED")
    <3>1. \A s \in Socket : ~Listens(s)'
      BY <1>1, <2>2 DEF Begin, ScanInv, Listens, chip
    <3>2. pc' \in {"setup", "begin", "udp", "pick"}
      BY <1>1, <2>2 DEF Begin, Goto, NextSocket, AfterBegin
    <3> QED
      BY <3>1, <3>2 DEF OneListener, ScanInv
  <2> QED
    BY <2>1, <2>2
<1>2. CASE BeginUdp
  <2>1. \A s \in Socket : Listens(s)' => Listens(s)
    BY <1>2 DEF BeginUdp, Open, Listens, chip, TypeOK
  <2>2. pc' = "udp" \/ (pc' = "accept" /\ i' = 0)
    BY <1>2 DEF BeginUdp, Goto, NextSocket
  <2>3. \A s \in Socket : ~(s < 0)
    BY DEF Socket
  <2> QED
    BY <2>1, <2>2, <2>3, ListenersShrink DEF ScanInv
<1>3. CASE Accept
  <2>1. \A s \in Socket : Listens(s)' => Listens(s)
    BY <1>3 DEF Accept, Listens, Finished, Disconnected, TypeOK
  <2>2. CASE i \in Socket /\ ~Finished(i)
    <3>1. pc' = "accept" /\ i' = i + 1 /\ listening' = (listening \/ Listens(i))
      BY <1>3, <2>2, Sockets DEF Accept, NextSocket, ListeningAfter
    <3>2. \A s \in Socket : s < i + 1 => s < i \/ s = i
      BY <2>2 DEF Socket
    <3> QED
      BY <1>3, <2>1, <3>1, <3>2, ListenersShrink DEF ScanInv, Accept
  <2>3. CASE i \in Socket /\ Finished(i)
    <3>1. pc' = "stop" /\ i' = i /\ listening' = listening
      BY <1>3, <2>3, Sockets DEF Accept
    <3> QED
      BY <1>3, <2>1, <3>1, ListenersShrink DEF ScanInv, Accept
  <2>4. CASE i = NoSocket
    <3>1. pc' = (IF listening THEN "pick" ELSE "begin") /\ status' = status
      BY <1>3, <2>4, Sockets DEF Accept, Goto
    <3>2. ~listening => \A s \in Socket : ~Listens(s)
      BY <1>3, <2>4, Sockets DEF Accept, ScanInv
    <3> QED
      BY <2>1, <3>1, <3>2, ListenersShrink DEF ScanInv
  <2> QED
    BY <2>2, <2>3, <2>4 DEF TypeOK
<1>4. CASE Stop
  <2>1. i \in Socket
    BY <1>4 DEF OwnInv, Stop
  <2>2. \A s \in Socket : Listens(s)' => Listens(s) /\ s # i
    BY <1>4, <2>1 DEF Stop, Closed, Listens, TypeOK
  <2>3. \A s \in Socket : s < i + 1 => s < i \/ s = i
    BY <2>1 DEF Socket
  <2> QED
    BY <1>4, <2>2, <2>3, ListenersShrink DEF Stop, ScanInv
<1>5. ASSUME NEW s \in Socket, Serve(s) \/ Connect(s)
      PROVE  OneListener' /\ ScanInv'
  <2>1. \A t \in Socket : Listens(t)' => Listens(t)
    BY <1>5 DEF Serve, Connect, Open, Listens, TypeOK
  <2>2. pc' \in {"report", "wait"}
    BY <1>5 DEF Serve, Connect, Goto
  <2> QED
    BY <2>1, <2>2, ListenersShrink DEF ScanInv
<1>6. CASE ServeNone \/ Report \/ ConnectNone \/ Connected
  <2>1. \A t \in Socket : Listens(t)' => Listens(t)
    BY <1>6 DEF ServeNone, Report, ConnectNone, Connected, chip, Listens
  <2>2. pc' \in {"pick", "report", "connect", "talk"}
    BY <1>6 DEF ServeNone, Report, ConnectNone, Connected, Goto, NextSocket
  <2> QED
    BY <2>1, <2>2, ListenersShrink DEF ScanInv
<1>7. CASE EndPass
  <2>1. \A t \in Socket : Listens(t)' => Listens(t)
    BY <1>7 DEF EndPass, chip, Listens
  <2>2. pc' = "accept" /\ i' = 0
    BY <1>7 DEF EndPass, Goto
  <2>3. \A s \in Socket : ~(s < 0)
    BY DEF Socket
  <2> QED
    BY <2>1, <2>2, <2>3, ListenersShrink DEF ScanInv
<1>8. CASE EndTalk \/ Hangup
  <2>1. host \in Socket
    BY <1>8 DEF OwnInv, InHostProc, EndTalk, Hangup
  <2>2. \A t \in Socket : Listens(t)' => Listens(t)
    BY <1>8, <2>1
       DEF EndTalk, Hangup, AfterTalk, Closed, Disconnected, Listens, TypeOK
  <2>3. pc' \in {"hangup", "report"}
    BY <1>8 DEF EndTalk, Hangup, AfterTalk, Goto
  <2> QED
    BY <2>2, <2>3, ListenersShrink DEF ScanInv
<1>9. CASE Reset
  BY <1>9 DEF Reset, Goto, Listens, OneListener, ScanInv
<1> QED
  BY <1>1, <1>2, <1>3, <1>4, <1>5, <1>6, <1>7, <1>8, <1>9 DEF Loop

-----------------------------------------------------------------------------
\* Whose the sockets are.

LEMMA LoopOwner == IInv /\ (Loop \/ Reset) => UdpSocketKept' /\ OwnInv' /\ TagInv'
<1> SUFFICES ASSUME IInv, Loop \/ Reset
             PROVE  UdpSocketKept' /\ OwnInv' /\ TagInv'
  OBVIOUS
<1> USE DEF IInv, InHostProc
<1>a. TypeOK
  OBVIOUS
<1>b. pc \notin InHostProc => host = NoSocket
  BY DEF OwnInv
<1>1. CASE Begin
  <2>0. pc \in {"setup", "begin"} /\ host = NoSocket /\ host' = host /\ udp' = udp
        /\ pc' \in {"setup", "begin", "udp", "pick"}
        /\ (pc' \in {"setup", "udp"} => pc = "setup")
    BY <1>1, <1>b DEF Begin, AfterBegin, Goto, NextSocket
  <2>1. UdpSocketKept'
    BY <1>1, <2>0, Sockets DEF Begin, UdpSocketKept, Open, TypeOK, chip
  <2>2. OwnInv'
    BY <2>0 DEF OwnInv
  <2>3. TagInv'
    BY <1>1, <2>0, Sockets DEF Begin, TagInv, Open, TypeOK, chip
  <2> QED
    BY <2>1, <2>2, <2>3
<1>2. CASE BeginUdp
  <2>0. host = NoSocket /\ host' = host /\ udp = NoSocket /\ tag' = tag
        /\ pc' \in {"udp", "accept"} /\ (pc' = "udp" => udp' = udp)
    BY <1>2, <1>b, Sockets DEF BeginUdp, Goto, NextSocket, OwnInv
  <2>1. UdpSocketKept'
    BY <1>2, <2>0, Sockets DEF BeginUdp, UdpSocketKept, Open, TypeOK, chip
  <2>2. OwnInv'
    BY <2>0 DEF OwnInv
  <2>3. TagInv'
    BY <1>2, <2>0 DEF BeginUdp, TagInv, Open, TypeOK, chip
  <2> QED
    BY <2>1, <2>2, <2>3
<1>3. CASE Accept
  <2>0. host = NoSocket /\ host' = host /\ udp' = udp /\ tag' = tag /\ opener' = opener
        /\ pc' \in {"accept", "stop", "pick", "begin"}
    BY <1>3, <1>b DEF Accept, Goto, NextSocket
  <2>1. \A s \in Socket : status'[s] # status[s] => status'[s] = "LAST_ACK" /\ status[s] = "CLOSE_WAIT"
    BY <1>3 DEF Accept, Finished, Disconnected, TypeOK
  <2>2. UdpSocketKept'
    BY <2>0, <2>1 DEF UdpSocketKept, TypeOK
  <2>3. pc' = "stop" => i' \in Socket /\ status'[i'] = "LAST_ACK"
    BY <1>3 DEF Accept, Goto, NextSocket, Finished, Disconnected, TypeOK
  <2>4. OwnInv'
    BY <2>0, <2>3 DEF OwnInv
  <2>5. TagInv'
    BY <2>0, <2>1 DEF TagInv
  <2> QED
    BY <2>2, <2>4, <2>5
<1>4. CASE Stop
  <2>0. host = NoSocket /\ host' = host /\ udp' = udp /\ opener' = opener /\ pc' = "accept"
        /\ i \in Socket /\ status[i] \in {"LAST_ACK", "CLOSED"}
    BY <1>4, <1>b DEF Stop, OwnInv
  <2>1. UdpSocketKept'
    BY <1>4, <2>0 DEF Stop, Closed, UdpSocketKept, TypeOK
  <2>2. OwnInv'
    BY <2>0 DEF OwnInv
  <2>3. TagInv'
    BY <1>4, <2>0 DEF Stop, Closed, TagInv, TypeOK
  <2> QED
    BY <2>1, <2>2, <2>3
<1>5. ASSUME NEW s \in Socket, Serve(s)
      PROVE  UdpSocketKept' /\ OwnInv' /\ TagInv'
  BY <1>5, <1>b DEF Serve, Goto, UdpSocketKept, OwnInv, TagInv
<1>6. CASE ServeNone \/ EndPass \/ Report \/ ConnectNone
  <2>1. pc \notin InHostProc /\ pc' \in {"pick", "report", "accept", "connect"}
        /\ UNCHANGED <<status, opener, tag, udp, host>>
    BY <1>6 DEF ServeNone, EndPass, Report, ConnectNone, Goto, NextSocket, chip
  <2> QED
    BY <2>1, <1>b DEF UdpSocketKept, OwnInv, TagInv
<1>7. ASSUME NEW s \in Socket, Connect(s)
      PROVE  UdpSocketKept' /\ OwnInv' /\ TagInv'
  <2>0. host = NoSocket /\ udp' = udp /\ tag' = tag
        /\ status[s] \in {"CLOSED", "FIN_WAIT", "CLOSE_WAIT"}
    BY <1>7, <1>b DEF Connect, Takes
  <2>1. CASE host' = s /\ Open(s, "SYNSENT", "host") /\ pc' = "wait"
    <3>1. UdpSocketKept'
      BY <2>0, <2>1 DEF UdpSocketKept, Open, TypeOK
    <3>2. OwnInv'
      BY <2>0, <2>1 DEF OwnInv, Open, TypeOK
    <3>3. TagInv'
      BY <2>0, <2>1, Sockets DEF TagInv, Open, TypeOK
    <3> QED
      BY <3>1, <3>2, <3>3
  <2>2. CASE host' = host /\ Open(s, "INIT", "host") /\ pc' = "report"
    <3>1. UdpSocketKept'
      BY <2>0, <2>2 DEF UdpSocketKept, Open, TypeOK
    <3>2. OwnInv'
      BY <2>0, <2>2 DEF OwnInv
    <3>3. TagInv'
      BY <2>0, <2>2, Sockets DEF TagInv, Open, TypeOK
    <3> QED
      BY <3>1, <3>2, <3>3
  <2> QED
    BY <1>7, <2>1, <2>2 DEF Connect, Goto
<1>8. CASE Connected
  <2>0. host \in Socket /\ UNCHANGED <<status, opener, tag, udp>>
    BY <1>8 DEF Connected, OwnInv, chip
  <2>1. (pc' = "talk" /\ host' = host) \/ (pc' = "report" /\ host' = NoSocket /\ status[host] = "CLOSED")
    BY <1>8 DEF Connected, Goto
  <2>2. UdpSocketKept'
    BY <2>0, <2>1 DEF UdpSocketKept
  <2>3. OwnInv'
    BY <2>0, <2>1 DEF OwnInv
  <2>4. TagInv'
    BY <2>0, <2>1 DEF TagInv
  <2> QED
    BY <2>2, <2>3, <2>4
<1>9. CASE EndTalk
  <2>0. host \in Socket /\ host' = host /\ pc' = "hangup"
        /\ UNCHANGED <<opener, tag, udp>> /\ status[host] # "UDP"
    BY <1>9, Sockets DEF EndTalk, AfterTalk, Goto, OwnInv
  <2>1. \A s \in Socket : s # host => status'[s] = status[s]
    BY <1>9 DEF EndTalk, AfterTalk, TypeOK
  <2>2. status'[host] # "UDP"
    BY <1>9, <2>0 DEF EndTalk, AfterTalk, Disconnected, TypeOK
  <2>3. UdpSocketKept'
    BY <2>0, <2>1 DEF UdpSocketKept, TypeOK
  <2>4. OwnInv'
    BY <2>0, <2>2, Sockets DEF OwnInv
  <2>5. TagInv'
    BY <2>0, <2>1 DEF TagInv
  <2> QED
    BY <2>3, <2>4, <2>5
<1>10. CASE Hangup
  <2>0. host \in Socket /\ host' = NoSocket /\ pc' = "report" /\ UNCHANGED <<opener, udp>>
        /\ status[host] # "UDP"
    BY <1>10, Sockets DEF Hangup, Goto, OwnInv
  <2>1. UdpSocketKept'
    BY <1>10, <2>0 DEF UdpSocketKept, Hangup, Closed, TypeOK
  <2>2. OwnInv'
    BY <2>0 DEF OwnInv
  <2>3. TagInv'
    BY <1>10, <2>0 DEF TagInv, Hangup, Closed, TypeOK
  <2> QED
    BY <2>1, <2>2, <2>3
<1>11. CASE Reset
  BY <1>11 DEF Reset, Goto, UdpSocketKept, OwnInv, TagInv
<1> QED
  BY <1>1, <1>2, <1>3, <1>4, <1>5, <1>6, <1>7, <1>8, <1>9, <1>10, <1>11 DEF Loop

LEMMA StepInv == IInv /\ [Next]_vars => IInv'
<1> SUFFICES ASSUME IInv, [Next]_vars
             PROVE  IInv'
  OBVIOUS
<1>1. CASE Loop \/ Reset
  BY <1>1, LoopType, LoopListener, LoopOwner DEF IInv
<1>2. CASE Network \/ \E s \in Socket : NoAnswer(s)
  BY <1>2, NetworkInv
<1>3. CASE UNCHANGED vars
  BY <1>3
     DEF vars, chip, IInv, TypeOK, OneListener, ScanInv, UdpSocketKept, OwnInv, TagInv, Listens
<1> QED
  BY <1>1, <1>2, <1>3 DEF Next

LEMMA Invariance == Spec => []IInv
BY InitInv, StepInv, PTL DEF Spec
-----------------------------------------------------------------------------
\* Theorems.

\* The chip's registers and the sketch's variables keep their types: every
\* loop over the sockets stays inside them.
THEOREM TypeCorrect == Spec => []TypeOK
BY Invariance, PTL DEF IInv

\* While peers connect, close and reset between two reads of accept(), the
\* server never opens a second listening socket.
THEOREM NoSecondListener == Spec => []OneListener
BY Invariance, PTL DEF IInv

\* The socket of the UDP server is never taken for anything else.
THEOREM UdpServerKept == Spec => []UdpSocketKept
BY Invariance, PTL DEF IInv

\* Commands are read only from connections that peers opened to the server.
THEOREM ServesItsOwn == Spec => OnlyServersServed
<1>1. IInv /\ [Next]_vars =>
        [\A s \in Socket : Serve(s) => opener[s] = "server"]_vars
  <2> SUFFICES ASSUME IInv, NEW s \in Socket, Serve(s)
               PROVE  opener[s] = "server"
    OBVIOUS
  <2>1. host = NoSocket /\ s # host
    BY Sockets DEF IInv, OwnInv, InHostProc, Serve
  <2> QED
    BY <2>1 DEF IInv, TagInv, Serve, HasData
<1> QED
  BY <1>1, Invariance, PTL DEF Spec, OnlyServersServed

\* No step of the sketch but connect() drops unread data of a connection to
\* the server.
THEOREM UnreadIsKept == Spec => UnreadKept
<1>1. ASSUME IInv, Next,
             NEW s \in Socket, HasData(s), opener[s] = "server",
             unread'[s] < unread[s] \/ ~HasData(s)'
      PROVE  Serve(s) \/ PeerResets(s) \/ Reset \/ (Connect(s) /\ status[s] = "CLOSE_WAIT")
  <2> USE <1>1 DEF IInv
  <2>0. /\ status[s] \in {"ESTABLISHED", "CLOSE_WAIT"} /\ unread[s] > 0 /\ tag[s]
        /\ unread[s] \in Nat
    BY DEF HasData, TypeOK
  <2>1. ~(unread'[s] = unread[s] /\ status'[s] = status[s] /\ tag'[s] = tag[s])
    <3>1. ~HasData(s)' => ~(unread'[s] = unread[s] /\ status'[s] = status[s] /\ tag'[s] = tag[s])
      BY <2>0 DEF HasData
    <3>2. unread'[s] < unread[s] => unread'[s] # unread[s]
      BY <2>0
    <3> QED
      BY <3>1, <3>2, <1>1
  <2>2. s # host
    BY Sockets DEF OwnInv, TypeOK
  <2>3. CASE Begin
    BY <2>0, <2>1, <2>3 DEF Begin, Open, TypeOK, chip
  <2>4. CASE BeginUdp
    BY <2>0, <2>1, <2>4 DEF BeginUdp, Open, TypeOK, chip
  <2>5. CASE Accept
    BY <2>0, <2>1, <2>5 DEF Accept, Finished, TypeOK
  <2>6. CASE Stop
    BY <2>0, <2>1, <2>6 DEF Stop, Closed, OwnInv, TypeOK
  <2>7. CASE ServeNone \/ EndPass \/ Report \/ ConnectNone \/ Connected
    BY <2>1, <2>7 DEF ServeNone, EndPass, Report, ConnectNone, Connected, chip
  <2>8. CASE EndTalk \/ Hangup
    BY <2>1, <2>2, <2>8 DEF EndTalk, Hangup, AfterTalk, Closed, TypeOK
  <2>9. ASSUME NEW t \in Socket, Serve(t) \/ Connect(t)
        PROVE  Serve(s) \/ (Connect(s) /\ status[s] = "CLOSE_WAIT")
    <3>1. t = s
      BY <2>1, <2>9 DEF Serve, Connect, Open, TypeOK
    <3> QED
      BY <2>0, <2>9, <3>1 DEF Connect, Takes
  <2>10. ASSUME NEW t \in Socket,
                \/ PeerConnects(t) \/ PeerAnswers(t) \/ PeerSends(t)
                \/ PeerCloses(t) \/ NoAnswer(t)
         PROVE  FALSE
    <3>1. tag' = tag
      BY <2>10 DEF PeerConnects, PeerAnswers, PeerSends, PeerCloses, NoAnswer, Turns
    <3>2. status'[s] \in {"ESTABLISHED", "CLOSE_WAIT"}
      BY <2>0, <2>10
         DEF PeerConnects, PeerAnswers, PeerSends, PeerCloses, NoAnswer, Turns, TypeOK
    <3>3. unread'[s] \in Nat /\ unread'[s] >= unread[s]
      BY <2>0, <2>10
         DEF PeerConnects, PeerAnswers, PeerSends, PeerCloses, NoAnswer, Turns, TypeOK
    <3> QED
      BY <2>0, <3>1, <3>2, <3>3 DEF HasData
  <2>11. ASSUME NEW t \in Socket, PeerResets(t)
         PROVE  PeerResets(s)
    <3>1. t = s
      BY <2>1, <2>11 DEF PeerResets, Turns, TypeOK
    <3> QED
      BY <2>11, <3>1
  <2> QED
    BY <2>3, <2>4, <2>5, <2>6, <2>7, <2>8, <2>9, <2>10, <2>11 DEF Next, Loop, Network
<1>2. IInv /\ [Next]_vars =>
        [\A s \in Socket :
           (HasData(s) /\ opener[s] = "server" /\ (unread'[s] < unread[s] \/ ~HasData(s)'))
             => Serve(s) \/ PeerResets(s) \/ Reset \/ (Connect(s) /\ status[s] = "CLOSE_WAIT")]_vars
  BY <1>1
<1> QED
  BY <1>2, Invariance, PTL DEF Spec, UnreadKept

-----------------------------------------------------------------------------
\* NameLookup.

Ids == 0 .. IdRange - 1

\* The names and addresses that are looked up.
Titles == Names \cup {Text(q) : q \in Quads}

\* A request on its way and a packet in the receive buffer.
Question == [id : Ids, name : Titles, port : 0 .. PortRange - 1, age : 0 .. MaxAge]
Questions == {s \in Seq(0 .. 255) : Len(s) \in 1 .. MaxQuestion}
Response == [id : Ids, name : Titles, kind : ReplyKind,
             question : Questions, records : Seq(RecordKind)]

LookupTypes ==
  /\ now \in Ids /\ id \in Ids
  /\ stage \in {"idle", "begun", "sending", "wait", "question", "records"}
  /\ stage # "idle" => name \in Titles
  /\ port \in 0 .. PortRange - 1
  /\ waited \in Nat /\ tries \in 0 .. 2 /\ spent \in Nat
  /\ rest \in Seq(0 .. 255) /\ len \in 0 .. 255
  /\ inbox \in Seq(Response)
  /\ \A q \in asked : q \in Question

\* Where the time of a lookup went.
SpentInv ==
  /\ stage = "idle" => spent = 0 /\ waited = 0 /\ tries = 0 /\ inbox = <<>>
  /\ stage = "begun" => waited <= MaxGap /\ spent <= waited /\ tries = 0
  /\ stage = "sending" => waited <= MaxGap /\ spent <= MaxGap + waited /\ tries = 0
  /\ stage = "wait" => waited <= Timeout + 1
                       /\ spent <= 2 * MaxGap + tries * (Timeout + 1) + waited
  /\ stage = "question" =>
       /\ waited <= MaxGap /\ Len(rest) <= MaxQuestion
       /\ rest # <<>> => spent <= AnswerTime + MaxGap * (MaxQuestion - Len(rest)) + waited
       /\ rest = <<>> => len = LenAfter
  /\ stage = "records" => waited <= MaxGap /\ spent <= AnswerTime + MaxGap * MaxQuestion + waited

\* d milliseconds ago the clock was x.
Ago(x, d) == now = (x + d) % IdRange

\* An id is the moment its request was begun: that of one on its way is at most
\* MaxAge and the time of its sending old, and never 0.
IdInv ==
  /\ \A q \in asked : \E s \in 1 .. MaxGap : Ago(q.id, q.age + s)
  /\ stage = "sending" => Ago(id, waited)
  /\ stage = "begun" =>
       \A e \in 1 .. Len(inbox) : \E d \in 1 .. MaxAge + MaxGap + waited : Ago(inbox[e].id, d)

\* What has the id of this lookup is about its name.
NameInv ==
  /\ stage \in {"sending", "wait"} =>
       /\ \A q \in asked : q.id = id => q.name = name
       /\ \A e \in 1 .. Len(inbox) : inbox[e].id = id => inbox[e].name = name
  /\ stage \in {"question", "records"} => reply.name = name

LookupIInv == LookupTypes /\ SpentInv /\ IdInv /\ NameInv

-----------------------------------------------------------------------------
\* Arithmetic of ids.

LEMMA Constants ==
  /\ IdRange \in Nat \ {0} /\ PortRange \in Nat \ {0}
  /\ Timeout \in Nat /\ MaxGap \in Nat \ {0} /\ MaxAge \in Nat /\ MaxInbox \in Nat
  /\ MaxAge + 2 * MaxGap < IdRange
  /\ MaxQuestion \in Nat
  BY NameLookupAssumption

\* The time of one more label.
LEMMA LabelTime ==
  ASSUME NEW a \in Nat, NEW b \in Nat, a < b
  PROVE  MaxGap * a + MaxGap <= MaxGap * b
<1>1. MaxGap \in Nat
  BY Constants
<1>2. PICK c \in Nat : b = a + 1 + c
  <2>1. b - a - 1 \in Nat /\ b = a + 1 + (b - a - 1)
    OBVIOUS
  <2> QED
    BY <2>1
<1>3. MaxGap * b = MaxGap * a + MaxGap + MaxGap * c /\ MaxGap * c >= 0
  BY <1>1, <1>2
<1> QED
  BY <1>1, <1>3

LEMMA Times ==
  /\ AnswerTime \in Nat /\ MaxGap * MaxQuestion \in Nat
  /\ ReadTime = MaxGap * MaxQuestion + MaxGap
  BY Constants DEF AnswerTime, ReadTime

\* The property follows from where the time went.
LEMMA TimeKept ==
  ASSUME LookupTypes, SpentInv
  PROVE  GivesUpInTime
<1> USE Constants, Times
<1>1. stage = "wait" => spent <= AnswerTime
  <2> SUFFICES ASSUME stage = "wait" PROVE spent <= AnswerTime
    OBVIOUS
  <2>1. waited <= Timeout + 1 /\ spent <= 2 * MaxGap + tries * (Timeout + 1) + waited
    BY DEF SpentInv
  <2>2. tries \in 0 .. 2 /\ waited \in Nat /\ spent \in Nat
    BY DEF LookupTypes
  <2>3. tries * (Timeout + 1) <= 2 * (Timeout + 1)
    <3>1. tries = 0 \/ tries = 1 \/ tries = 2
      BY <2>2
    <3> QED
      BY <3>1
  <2> QED
    BY <2>1, <2>2, <2>3 DEF AnswerTime
<1>2. stage \in {"idle", "begun", "sending"} => spent <= AnswerTime
  BY DEF SpentInv, LookupTypes, AnswerTime
<1>3. stage = "records" => spent <= AnswerTime + ReadTime
  BY DEF SpentInv, LookupTypes
<1>4. stage = "question" /\ rest # <<>> => spent <= AnswerTime + ReadTime
  <2> SUFFICES ASSUME stage = "question", rest # <<>>
               PROVE  spent <= AnswerTime + ReadTime
    OBVIOUS
  <2>1. /\ waited <= MaxGap /\ waited \in Nat /\ spent \in Nat
        /\ spent <= AnswerTime + MaxGap * (MaxQuestion - Len(rest)) + waited
    BY DEF SpentInv, LookupTypes
  <2>2. Len(rest) \in 1 .. MaxQuestion
    BY DEF SpentInv, LookupTypes
  <2> DEFINE a == MaxQuestion - Len(rest)
  <2>3. a \in Nat /\ a < MaxQuestion
    BY <2>2
  <2> HIDE DEF a
  <2>4. MaxGap * a + MaxGap <= MaxGap * MaxQuestion
    BY <2>3, LabelTime
  <2>5. MaxGap * a \in Nat
    BY <2>3
  <2>6. spent <= AnswerTime + MaxGap * a + waited
    BY <2>1 DEF a
  <2> QED
    BY <2>1, <2>4, <2>5, <2>6
<1> QED
  BY <1>1, <1>2, <1>3, <1>4 DEF GivesUpInTime, Hangs, LookupTypes

LEMMA ModSmall ==
  ASSUME NEW R \in Nat \ {0}, NEW a \in Nat, a < 2 * R
  PROVE  /\ a % R \in 0 .. R - 1
         /\ a % R = IF a < R THEN a ELSE a - R
<1> DEFINE q == a \div R
           m == a % R
<1>1. q \in Int /\ m \in 0 .. R - 1 /\ a = R * q + m
  OBVIOUS
<1> HIDE DEF q, m
<1>2. q >= 0
  BY <1>1
<1>3. q <= 1
  <2> SUFFICES ASSUME q >= 2 PROVE FALSE
    BY <1>1
  <2>1. R * q >= R * 2
    BY <1>1
  <2> QED
    BY <1>1, <2>1
<1>4. m = IF a < R THEN a ELSE a - R
  <2>1. CASE q = 0
    BY <1>1, <2>1
  <2>2. CASE q = 1
    BY <1>1, <2>2
  <2> QED
    BY <1>1, <1>2, <1>3, <2>1, <2>2
<1> QED
  BY <1>1, <1>4 DEF m

\* The clock after d milliseconds.
LEMMA ClockAt ==
  ASSUME NEW x \in Ids, NEW d \in 0 .. IdRange
  PROVE  (x + d) % IdRange = IF x + d < IdRange THEN x + d ELSE x + d - IdRange
<1>1. IdRange \in Nat \ {0} /\ x \in 0 .. IdRange - 1
  BY Constants DEF Ids
<1> DEFINE a == x + d
<1>2. a \in Nat /\ a < 2 * IdRange
  BY <1>1
<1> HIDE DEF a
<1>3. a % IdRange = IF a < IdRange THEN a ELSE a - IdRange
  BY <1>1, <1>2, ModSmall
<1> QED
  BY <1>1, <1>3 DEF a

\* A millisecond more.
LEMMA AgoTick ==
  ASSUME now \in Ids, NEW x \in Ids, NEW d \in Nat, d < IdRange, Ago(x, d),
         now' = (now + 1) % IdRange
  PROVE  now' = (x + (d + 1)) % IdRange
<1>1. IdRange \in Nat \ {0} /\ x \in 0 .. IdRange - 1 /\ now \in 0 .. IdRange - 1
  BY Constants DEF Ids
<1>2. now = IF x + d < IdRange THEN x + d ELSE x + d - IdRange
  <2>1. d \in 0 .. IdRange
    BY <1>1
  <2> QED
    BY <2>1, ClockAt DEF Ago
<1>3. now' = IF now + 1 < IdRange THEN now + 1 ELSE now + 1 - IdRange
  <2>1. 1 \in 0 .. IdRange
    BY <1>1
  <2> QED
    BY <2>1, ClockAt
<1>4. (x + (d + 1)) % IdRange =
        IF x + (d + 1) < IdRange THEN x + (d + 1) ELSE x + (d + 1) - IdRange
  <2> DEFINE a == d + 1
  <2>1. a \in 0 .. IdRange
    BY <1>1
  <2> HIDE DEF a
  <2>2. (x + a) % IdRange = IF x + a < IdRange THEN x + a ELSE x + a - IdRange
    BY <2>1, ClockAt
  <2> QED
    BY <2>2 DEF a
<1>5. now' = IF x + (d + 1) < IdRange THEN x + (d + 1) ELSE x + (d + 1) - IdRange
  BY <1>1, <1>2, <1>3
<1> QED
  BY <1>4, <1>5

\* The clock stays in its range.
LEMMA ClockTick ==
  ASSUME now \in Ids
  PROVE  (now + 1) % IdRange \in Ids
<1>1. IdRange \in Nat \ {0} /\ now \in 0 .. IdRange - 1
  BY Constants DEF Ids
<1>2. 1 \in 0 .. IdRange
  BY <1>1
<1>3. (now + 1) % IdRange = IF now + 1 < IdRange THEN now + 1 ELSE now + 1 - IdRange
  BY <1>2, ClockAt
<1> QED
  BY <1>1, <1>3 DEF Ids

\* What is some time old, but not a whole round of the clock, is not of now.
LEMMA AgoDiffers ==
  ASSUME now \in Ids, NEW x \in Ids, NEW d \in Nat, 0 < d, d < IdRange, Ago(x, d)
  PROVE  x # now
<1>1. IdRange \in Nat \ {0} /\ x \in 0 .. IdRange - 1 /\ now \in 0 .. IdRange - 1
  BY Constants DEF Ids
<1>2. d \in 0 .. IdRange
  BY <1>1
<1>3. now = IF x + d < IdRange THEN x + d ELSE x + d - IdRange
  BY <1>2, ClockAt DEF Ago
<1> QED
  BY <1>1, <1>3

\* No time ago.
LEMMA AgoNow ==
  ASSUME now \in Ids
  PROVE  Ago(now, 0)
<1>1. IdRange \in Nat \ {0} /\ now \in 0 .. IdRange - 1
  BY Constants DEF Ids
<1>2. 0 \in 0 .. IdRange
  BY <1>1
<1>3. (now + 0) % IdRange = IF now + 0 < IdRange THEN now + 0 ELSE now + 0 - IdRange
  BY <1>2, ClockAt
<1> QED
  BY <1>1, <1>3 DEF Ago

-----------------------------------------------------------------------------
\* Types.

LEMMA LookupInitInv == LookupInit => LookupIInv
<1> SUFFICES ASSUME LookupInit PROVE LookupIInv
  OBVIOUS
<1> USE Constants
<1>1. LookupTypes
  BY DEF LookupInit, LookupTypes, Ids
<1>2. SpentInv
  BY DEF LookupInit, SpentInv
<1>3. IdInv /\ NameInv
  BY DEF LookupInit, IdInv, NameInv
<1> QED
  BY <1>1, <1>2, <1>3 DEF LookupIInv

\* A packet more or less in the receive buffer.
LEMMA Buffer ==
  ASSUME NEW q \in Seq(Response)
  PROVE  /\ \A p \in Response : /\ Append(q, p) \in Seq(Response)
                                /\ Len(Append(q, p)) = Len(q) + 1
                                /\ Append(q, p)[Len(q) + 1] = p
                                /\ \A e \in 1 .. Len(q) : Append(q, p)[e] = q[e]
         /\ Len(q) \in Nat
         /\ \A e \in 1 .. Len(q) : q[e] \in Response
         /\ q # <<>> => /\ Tail(q) \in Seq(Response) /\ Len(Tail(q)) = Len(q) - 1
                        /\ Head(q) = q[1] /\ Len(q) > 0
                        /\ \A e \in 1 .. Len(q) - 1 : Tail(q)[e] = q[e + 1]
  OBVIOUS

\* What the servers say of a request.
LEMMA AnswerType ==
  ASSUME NEW q \in Question, NEW r \in Replies
  PROVE  [id |-> q.id, name |-> q.name, kind |-> r.kind,
          question |-> r.question, records |-> r.records] \in Response
  BY NameLookupAssumption DEF Question, Response, Questions

\* Requests grow old and are forgotten.
LEMMA AgedType ==
  ASSUME \A q \in asked : q \in Question
  PROVE  \A q \in Aged : /\ q \in Question
                         /\ \E o \in asked : q.id = o.id /\ q.name = o.name /\ q.age = o.age + 1
                                             /\ o.age < MaxAge
  BY Constants DEF Aged, Question

\* A millisecond passes: the clock, the requests on their way, and the time
\* of the lookup.
LEMMA TimePasses ==
  ASSUME LookupIInv, Passes
  PROVE  /\ now' \in Ids
         /\ \A q \in asked' : /\ q \in Question
                              /\ \E o \in asked : q.id = o.id /\ q.name = o.name
                              /\ \E s \in 1 .. MaxGap : Ago(q.id, q.age + s)'
         /\ spent' \in Nat /\ spent' <= spent + 1
         /\ stage = "idle" => spent' = spent
<1>1. now \in Ids /\ spent \in Nat /\ \A q \in asked : q \in Question
  BY DEF LookupIInv, LookupTypes
<1>2. now' = (now + 1) % IdRange /\ asked' = Aged
  BY DEF Passes
<1>3. now' \in Ids
  BY <1>1, <1>2, ClockTick
<1>4. ASSUME NEW q \in asked'
      PROVE  /\ q \in Question
             /\ \E o \in asked : q.id = o.id /\ q.name = o.name
             /\ \E s \in 1 .. MaxGap : Ago(q.id, q.age + s)'
  <2>1. PICK o \in asked : q.id = o.id /\ q.name = o.name /\ q.age = o.age + 1 /\ o.age < MaxAge
    BY <1>1, <1>2, <1>4, AgedType
  <2>2. PICK s \in 1 .. MaxGap : Ago(o.id, o.age + s)
    BY DEF LookupIInv, IdInv
  <2> DEFINE d == o.age + s
  <2>3. /\ q \in Question /\ o \in Question
    BY <1>1, <1>2, <1>4, AgedType
  <2>4. o.id \in Ids /\ o.age \in Nat
    BY <2>3 DEF Question
  <2>5. d \in Nat /\ d < IdRange
    BY <2>1, <2>4, Constants
  <2>6. Ago(o.id, d)
    BY <2>2
  <2> HIDE DEF d
  <2>7. now' = (o.id + (d + 1)) % IdRange
    BY <1>1, <1>2, <2>4, <2>5, <2>6, AgoTick
  <2>8. q.age + s = d + 1
    BY <2>1, <2>4 DEF d
  <2>9. Ago(q.id, q.age + s)'
    BY <2>1, <2>7, <2>8 DEF Ago
  <2> QED
    BY <2>1, <2>3, <2>9
<1>5. spent' \in Nat /\ spent' <= spent + 1 /\ (stage = "idle" => spent' = spent)
  BY <1>1 DEF Passes
<1> QED
  BY <1>3, <1>4, <1>5

\* getHostByName returns: nothing of the lookup is left but the requests on
\* their way.
LEMMA ReturnsInv ==
  ASSUME LookupIInv, NEW code, Returns(code), UNCHANGED <<now, asked>>
  PROVE  LookupIInv'
<1>1. LookupTypes'
  <2>1. 0 \in 0 .. PortRange - 1 /\ 0 \in Ids /\ 0 \in 0 .. 2
    BY Constants DEF Ids
  <2>2. <<>> \in Seq(Response)
    OBVIOUS
  <2> QED
    BY <2>1, <2>2 DEF LookupIInv, LookupTypes, Returns
<1>2. SpentInv'
  BY DEF Returns, SpentInv
<1>3. IdInv'
  BY DEF LookupIInv, IdInv, Returns, Ago
<1>4. NameInv'
  BY DEF Returns, NameInv
<1> QED
  BY <1>1, <1>2, <1>3, <1>4 DEF LookupIInv

-----------------------------------------------------------------------------
\* The steps.

LEMMA TickInv == LookupIInv /\ Tick => LookupIInv'
<1> SUFFICES ASSUME LookupIInv, Tick PROVE LookupIInv'
  OBVIOUS
<1>1. Passes /\ UNCHANGED <<stage, name, port, id, tries, inbox, reply, rest, len>>
  BY DEF Tick, packet
<1>2. /\ now' \in Ids
      /\ \A q \in asked' : /\ q \in Question
                           /\ \E o \in asked : q.id = o.id /\ q.name = o.name
                           /\ \E s \in 1 .. MaxGap : Ago(q.id, q.age + s)'
      /\ spent' \in Nat /\ spent' <= spent + 1
      /\ stage = "idle" => spent' = spent
  BY <1>1, TimePasses
<1>3. now \in Ids /\ id \in Ids /\ waited \in Nat /\ spent \in Nat /\ inbox \in Seq(Response)
  BY DEF LookupIInv, LookupTypes
<1>4. stage # "idle" => waited < MaxGap /\ waited' = waited + 1
  BY DEF Tick
<1>5. stage = "idle" => waited' = 0
  BY DEF Tick
<1>6. LookupTypes'
  BY <1>1, <1>2, <1>3, <1>4, <1>5 DEF LookupIInv, LookupTypes
<1>7. SpentInv'
  <2>1. CASE stage \in {"idle", "begun", "sending"}
    BY <1>1, <1>2, <1>3, <1>4, <1>5, <2>1, Constants DEF LookupIInv, SpentInv
  <2>2. CASE stage = "question"
    <3> DEFINE t == AnswerTime + MaxGap * (MaxQuestion - Len(rest))
    <3>1. rest # <<>> => spent <= t + waited
      BY <2>2 DEF LookupIInv, SpentInv
    <3>2. t \in Int
      BY Constants, Times DEF LookupIInv, LookupTypes
    <3> HIDE DEF t
    <3>3. rest # <<>> => spent' <= t + waited'
      BY <1>2, <1>3, <1>4, <2>2, <3>1, <3>2
    <3>4. waited' <= MaxGap
      BY <1>3, <1>4, <2>2, Constants
    <3>5. Len(rest) <= MaxQuestion /\ (rest = <<>> => len = LenAfter)
      BY <2>2 DEF LookupIInv, SpentInv
    <3> QED
      BY <1>1, <2>2, <3>3, <3>4, <3>5 DEF SpentInv, t
  <2>3. CASE stage = "records"
    <3> DEFINE t == AnswerTime + MaxGap * MaxQuestion
    <3>1. spent <= t + waited
      BY <2>3 DEF LookupIInv, SpentInv
    <3>2. t \in Int
      BY Times
    <3> HIDE DEF t
    <3>3. spent' <= t + waited' /\ waited' <= MaxGap
      BY <1>2, <1>3, <1>4, <2>3, <3>1, <3>2, Constants
    <3> QED
      BY <1>1, <2>3, <3>3 DEF SpentInv, t
  <2>4. stage # "wait" /\ stage \in {"idle", "begun", "sending", "wait", "question", "records"}
    BY DEF Tick, LookupIInv, LookupTypes
  <2> QED
    BY <2>1, <2>2, <2>3, <2>4
<1>8. IdInv'
  <2>1. ASSUME NEW x \in Ids, NEW d \in Nat, d < IdRange, Ago(x, d)
        PROVE  now' = (x + (d + 1)) % IdRange
    <3>1. now' = (now + 1) % IdRange
      BY <1>1 DEF Passes
    <3> QED
      BY <1>3, <2>1, <3>1, AgoTick
  <2>2. ASSUME stage = "sending"
        PROVE  Ago(id, waited)'
    <3>1. Ago(id, waited) /\ waited < IdRange
      BY <1>3, <1>4, <2>2, Constants DEF LookupIInv, IdInv
    <3>2. now' = (id + (waited + 1)) % IdRange
      BY <1>3, <2>1, <3>1
    <3> QED
      BY <1>1, <1>4, <2>2, <3>2 DEF Ago
  <2>3. ASSUME stage = "begun", NEW e \in 1 .. Len(inbox)
        PROVE  \E d \in 1 .. MaxAge + MaxGap + waited' : Ago(inbox[e].id, d)'
    <3>1. PICK d \in 1 .. MaxAge + MaxGap + waited : Ago(inbox[e].id, d)
      BY <2>3 DEF LookupIInv, IdInv
    <3>2. inbox[e].id \in Ids
      BY <1>3, Buffer DEF Response
    <3>3. d \in Nat /\ d < IdRange
      BY <1>3, <1>4, <2>3, Constants
    <3>4. now' = (inbox[e].id + (d + 1)) % IdRange
      BY <2>1, <3>1, <3>2, <3>3
    <3>5. d + 1 \in 1 .. MaxAge + MaxGap + waited'
      BY <1>3, <1>4, <2>3, Constants
    <3>6. Ago(inbox[e].id, d + 1)'
      BY <1>1, <3>4 DEF Ago
    <3> QED
      BY <3>5, <3>6
  <2> QED
    BY <1>1, <1>2, <2>2, <2>3 DEF IdInv
<1>9. NameInv'
  BY <1>1, <1>2 DEF LookupIInv, NameInv
<1> QED
  BY <1>6, <1>7, <1>8, <1>9 DEF LookupIInv

LEMMA AnswersInv ==
  ASSUME LookupIInv, NEW q \in asked, NEW r \in Replies, Answers(q, r)
  PROVE  LookupIInv'
<1> DEFINE p == [id |-> q.id, name |-> q.name, kind |-> r.kind,
                 question |-> r.question, records |-> r.records]
<1>1. /\ UNCHANGED <<now, stage, name, port, id, waited, tries, reply, rest, len, asked, spent>>
      /\ inbox' = Append(inbox, p) /\ stage # "idle"
  BY DEF Answers, packet
<1>2. q \in Question /\ inbox \in Seq(Response) /\ waited \in Nat
  BY DEF LookupIInv, LookupTypes
<1>3. p \in Response /\ p.id = q.id /\ p.name = q.name
  BY <1>2, AnswerType
<1> HIDE DEF p
<1>4. /\ inbox' \in Seq(Response) /\ Len(inbox') = Len(inbox) + 1 /\ Len(inbox) \in Nat
      /\ inbox'[Len(inbox) + 1] = p
      /\ \A e \in 1 .. Len(inbox) : inbox'[e] = inbox[e]
  BY <1>1, <1>2, <1>3, Buffer
<1>5. ASSUME NEW e \in 1 .. Len(inbox')
      PROVE  inbox'[e] = p \/ (e \in 1 .. Len(inbox) /\ inbox'[e] = inbox[e])
  BY <1>4
<1>6. LookupTypes'
  BY <1>1, <1>4 DEF LookupIInv, LookupTypes
<1>7. SpentInv'
  BY <1>1 DEF LookupIInv, SpentInv
<1>8. IdInv'
  <2>1. PICK s \in 1 .. MaxGap : Ago(q.id, q.age + s)
    BY DEF LookupIInv, IdInv
  <2>2. q.age + s \in 1 .. MaxAge + MaxGap + waited
    BY <1>2, Constants DEF Question
  <2>3. ASSUME stage = "begun", NEW e \in 1 .. Len(inbox')
        PROVE  \E d \in 1 .. MaxAge + MaxGap + waited : Ago(inbox'[e].id, d)
    <3>1. CASE inbox'[e] = p
      BY <1>3, <2>1, <2>2, <3>1
    <3>2. CASE e \in 1 .. Len(inbox) /\ inbox'[e] = inbox[e]
      BY <2>3, <3>2 DEF LookupIInv, IdInv
    <3> QED
      BY <1>5, <3>1, <3>2
  <2> QED
    BY <1>1, <2>3 DEF LookupIInv, IdInv, Ago
<1>9. NameInv'
  BY <1>1, <1>3, <1>5 DEF LookupIInv, NameInv
<1> QED
  BY <1>6, <1>7, <1>8, <1>9 DEF LookupIInv

LEMMA LookupInv ==
  ASSUME LookupIInv, NEW n \in Titles, Lookup(n)
  PROVE  LookupIInv'
<1>1. CASE \E code : Returns(code)
  BY <1>1, ReturnsInv DEF Lookup
<1>2. CASE /\ stage' = "begun"
           /\ port' = now % PortRange
           /\ UNCHANGED <<id, waited, tries, inbox, packet, spent>>
  <2>1. /\ stage = "idle" /\ name' = n
        /\ UNCHANGED <<now, asked, id, waited, tries, inbox, reply, rest, len, spent>>
    BY <1>2 DEF Lookup, packet
  <2>2. now % PortRange \in 0 .. PortRange - 1
    <3>1. now \in Nat /\ PortRange \in Nat \ {0}
      BY Constants DEF LookupIInv, LookupTypes, Ids
    <3> QED
      BY <3>1
  <2>3. LookupTypes'
    BY <1>2, <2>1, <2>2 DEF LookupIInv, LookupTypes
  <2>4. SpentInv'
    BY <1>2, <2>1, Constants DEF LookupIInv, SpentInv
  <2>5. IdInv'
    BY <1>2, <2>1 DEF LookupIInv, SpentInv, IdInv, Ago
  <2>6. NameInv'
    BY <1>2 DEF NameInv
  <2> QED
    BY <2>3, <2>4, <2>5, <2>6 DEF LookupIInv
<1> QED
  BY <1>1, <1>2 DEF Lookup

LEMMA BuildRequestInv == LookupIInv /\ BuildRequest => LookupIInv'
<1> SUFFICES ASSUME LookupIInv, BuildRequest PROVE LookupIInv'
  OBVIOUS
<1>1. /\ stage = "begun" /\ id' = now /\ stage' = "sending" /\ waited' = 0
      /\ UNCHANGED <<now, name, port, tries, inbox, reply, rest, len, asked, spent>>
  BY DEF BuildRequest, packet
<1>2. /\ now \in Ids /\ waited \in Nat /\ inbox \in Seq(Response)
      /\ \A q \in asked : q \in Question
  BY DEF LookupIInv, LookupTypes
<1>3. LookupTypes'
  BY <1>1 DEF LookupIInv, LookupTypes
<1>4. SpentInv'
  BY <1>1, <1>2, Constants DEF LookupIInv, LookupTypes, SpentInv
<1>5. IdInv'
  BY <1>1, <1>2, AgoNow DEF LookupIInv, IdInv, Ago
<1>6. ASSUME NEW q \in asked PROVE q.id # now
  <2>1. PICK s \in 1 .. MaxGap : Ago(q.id, q.age + s)
    BY DEF LookupIInv, IdInv
  <2>2. q.id \in Ids /\ q.age \in 0 .. MaxAge
    BY <1>2 DEF Question
  <2> DEFINE d == q.age + s
  <2>3. d \in Nat /\ 0 < d /\ d < IdRange /\ Ago(q.id, d)
    BY <2>1, <2>2, Constants
  <2> HIDE DEF d
  <2> QED
    BY <1>2, <2>2, <2>3, AgoDiffers
<1>7. ASSUME NEW e \in 1 .. Len(inbox) PROVE inbox[e].id # now
  <2>1. PICK d \in 1 .. MaxAge + MaxGap + waited : Ago(inbox[e].id, d)
    BY <1>1 DEF LookupIInv, IdInv
  <2>2. inbox[e].id \in Ids
    BY <1>2, Buffer DEF Response
  <2>3. waited <= MaxGap
    BY <1>1 DEF LookupIInv, SpentInv
  <2>4. d \in Nat /\ 0 < d /\ d < IdRange
    BY <1>2, <2>3, Constants
  <2> QED
    BY <1>2, <2>1, <2>2, <2>4, AgoDiffers
<1>8. NameInv'
  BY <1>1, <1>6, <1>7 DEF NameInv
<1> QED
  BY <1>3, <1>4, <1>5, <1>8 DEF LookupIInv

LEMMA EndPacketInv == LookupIInv /\ EndPacket => LookupIInv'
<1> SUFFICES ASSUME LookupIInv, EndPacket PROVE LookupIInv'
  OBVIOUS
<1> DEFINE q0 == [id |-> id, name |-> name, port |-> port, age |-> 0]
<1>1. /\ stage = "sending" /\ waited > 0 /\ stage' = "wait" /\ waited' = 0
      /\ asked' = asked \cup {q0}
      /\ UNCHANGED <<now, name, port, id, tries, inbox, reply, rest, len, spent>>
  BY DEF EndPacket, packet
<1>2. waited \in 1 .. MaxGap
  BY <1>1, Constants DEF LookupIInv, LookupTypes, SpentInv
<1>3. q0 \in Question /\ q0.id = id /\ q0.name = name /\ q0.age + waited = waited
  BY <1>1, <1>2, Constants DEF LookupIInv, LookupTypes, Question
<1> HIDE DEF q0
<1>4. LookupTypes'
  BY <1>1, <1>3 DEF LookupIInv, LookupTypes
<1>5. SpentInv'
  BY <1>1, <1>2, Constants DEF LookupIInv, LookupTypes, SpentInv
<1>6. IdInv'
  <2>1. \E s \in 1 .. MaxGap : Ago(q0.id, q0.age + s)
    BY <1>1, <1>2, <1>3 DEF LookupIInv, IdInv
  <2> QED
    BY <1>1, <2>1 DEF LookupIInv, IdInv, Ago
<1>7. NameInv'
  BY <1>1, <1>3 DEF LookupIInv, NameInv
<1> QED
  BY <1>4, <1>5, <1>6, <1>7 DEF LookupIInv

\* A packet is dropped, if there is one.
LEMMA DropInv ==
  ASSUME LookupIInv, inbox' = IF inbox = <<>> THEN inbox ELSE Tail(inbox)
  PROVE  /\ inbox' \in Seq(Response)
         /\ \A e \in 1 .. Len(inbox') : \E j \in 1 .. Len(inbox) : inbox'[e] = inbox[j]
<1>1. inbox \in Seq(Response)
  BY DEF LookupIInv, LookupTypes
<1>2. CASE inbox = <<>>
  BY <1>1, <1>2
<1>3. CASE inbox # <<>>
  <2>1. /\ inbox' \in Seq(Response) /\ Len(inbox') = Len(inbox) - 1
        /\ Len(inbox) \in Nat /\ \A e \in 1 .. Len(inbox) - 1 : inbox'[e] = inbox[e + 1]
    BY <1>1, <1>3, Buffer
  <2>2. ASSUME NEW e \in 1 .. Len(inbox')
        PROVE  \E j \in 1 .. Len(inbox) : inbox'[e] = inbox[j]
    <3>1. e + 1 \in 1 .. Len(inbox) /\ inbox'[e] = inbox[e + 1]
      BY <2>1
    <3> QED
      BY <3>1
  <2> QED
    BY <2>1, <2>2
<1> QED
  BY <1>2, <1>3

LEMMA DelayInv == LookupIInv /\ Delay => LookupIInv'
<1> SUFFICES ASSUME LookupIInv, Delay PROVE LookupIInv'
  OBVIOUS
<1>1. /\ stage = "wait" /\ ~(waited > Timeout) /\ Passes
      /\ inbox' = IF inbox = <<>> THEN inbox ELSE Tail(inbox)
      /\ waited' = MinOf(waited + 1, Timeout + MaxGap + 1)
      /\ UNCHANGED <<stage, name, port, id, tries, reply, rest, len>>
  BY DEF Delay, NoPacket, TimeUp, packet
<1>2. waited \in Nat /\ tries \in 0 .. 2 /\ spent \in Nat
  BY DEF LookupIInv, LookupTypes
<1>3. waited' = waited + 1
  BY <1>1, <1>2, Constants DEF MinOf
<1>4. /\ now' \in Ids
      /\ \A q \in asked' : /\ q \in Question
                           /\ \E o \in asked : q.id = o.id /\ q.name = o.name
                           /\ \E s \in 1 .. MaxGap : Ago(q.id, q.age + s)'
      /\ spent' \in Nat /\ spent' <= spent + 1
  BY <1>1, TimePasses
<1>5. /\ inbox' \in Seq(Response)
      /\ \A e \in 1 .. Len(inbox') : \E j \in 1 .. Len(inbox) : inbox'[e] = inbox[j]
  BY <1>1, DropInv
<1>6. LookupTypes'
  BY <1>1, <1>2, <1>3, <1>4, <1>5 DEF LookupIInv, LookupTypes
<1>7. SpentInv'
  <2>1. spent <= 2 * MaxGap + tries * (Timeout + 1) + waited
    BY <1>1 DEF LookupIInv, SpentInv
  <2>2. CASE tries = 0
    BY <1>1, <1>2, <1>3, <1>4, <2>1, <2>2, Constants DEF SpentInv
  <2>3. CASE tries = 1
    BY <1>1, <1>2, <1>3, <1>4, <2>1, <2>3, Constants DEF SpentInv
  <2>4. CASE tries = 2
    BY <1>1, <1>2, <1>3, <1>4, <2>1, <2>4, Constants DEF SpentInv
  <2> QED
    BY <1>2, <2>2, <2>3, <2>4
<1>8. IdInv'
  BY <1>1, <1>4 DEF IdInv
<1>9. NameInv'
  BY <1>1, <1>4, <1>5 DEF LookupIInv, NameInv
<1> QED
  BY <1>6, <1>7, <1>8, <1>9 DEF LookupIInv

LEMMA TimedOutInv == LookupIInv /\ TimedOut => LookupIInv'
<1> SUFFICES ASSUME LookupIInv, TimedOut PROVE LookupIInv'
  OBVIOUS
<1>1. CASE Returns(TIMED_OUT)
  BY <1>1, ReturnsInv DEF TimedOut
<1>2. CASE ~Returns(TIMED_OUT)
  <2>1. /\ stage = "wait" /\ tries + 1 < 3 /\ tries' = tries + 1 /\ waited' = 0
        /\ inbox' = IF inbox = <<>> THEN inbox ELSE Tail(inbox)
        /\ UNCHANGED <<stage, name, port, id, reply, rest, len, spent, now, asked>>
    BY <1>2 DEF TimedOut, NoPacket, WaitsAgain, packet
  <2>2. waited \in Nat /\ tries \in 0 .. 2 /\ spent \in Nat
    BY DEF LookupIInv, LookupTypes
  <2>3. /\ inbox' \in Seq(Response)
        /\ \A e \in 1 .. Len(inbox') : \E j \in 1 .. Len(inbox) : inbox'[e] = inbox[j]
    BY <2>1, DropInv
  <2>4. LookupTypes'
    BY <2>1, <2>2, <2>3 DEF LookupIInv, LookupTypes
  <2>5. SpentInv'
    <3>1. waited <= Timeout + 1 /\ spent <= 2 * MaxGap + tries * (Timeout + 1) + waited
      BY <2>1 DEF LookupIInv, SpentInv
    <3>2. CASE tries = 0
      BY <2>1, <2>2, <3>1, <3>2, Constants DEF LookupIInv, SpentInv
    <3>3. CASE tries = 1
      BY <2>1, <2>2, <3>1, <3>3, Constants DEF LookupIInv, SpentInv
    <3> QED
      BY <2>1, <2>2, <3>2, <3>3
  <2>6. IdInv'
    BY <2>1 DEF LookupIInv, IdInv, Ago
  <2>7. NameInv'
    BY <2>1, <2>3 DEF LookupIInv, NameInv
  <2> QED
    BY <2>4, <2>5, <2>6, <2>7 DEF LookupIInv
<1> QED
  BY <1>1, <1>2

\* The packet that is accepted carries the id of the request.
LEMMA AcceptedInv == LookupIInv /\ Accepted => LookupIInv'
<1> SUFFICES ASSUME LookupIInv, Accepted PROVE LookupIInv'
  OBVIOUS
<1> DEFINE p == Head(inbox)
<1>1. /\ stage = "wait" /\ inbox # <<>> /\ p.kind # "empty" /\ Refusal(p) = 0
      /\ reply' = [name |-> p.name, records |-> p.records]
      /\ rest' = p.question /\ stage' = "question" /\ waited' = 0
      /\ UNCHANGED <<now, name, port, id, tries, inbox, len, asked, spent>>
  BY DEF Accepted, Arrived
<1>2. inbox \in Seq(Response)
  BY DEF LookupIInv, LookupTypes
<1>3. p = inbox[1] /\ 1 \in 1 .. Len(inbox) /\ p \in Response
  BY <1>1, <1>2, Buffer
<1> HIDE DEF p
<1>4. p.kind \in ReplyKind
  BY <1>3 DEF Response
<1>5. p.id = id
  BY <1>1, <1>4 DEF Refusal, IsAnswer, ReplyKind, INVALID_SERVER, TRUNCATED, INVALID_RESPONSE
<1>6. p.name = name
  BY <1>1, <1>3, <1>5 DEF LookupIInv, NameInv
<1>7. rest' \in Seq(0 .. 255) /\ Len(rest') \in 1 .. MaxQuestion
  BY <1>1, <1>3 DEF Response, Questions
<1>8. LookupTypes' /\ IdInv'
  BY <1>1, <1>7 DEF LookupIInv, LookupTypes, IdInv, Ago
<1>9. SpentInv'
  <2>1. spent <= AnswerTime /\ spent \in Nat
    BY <1>1, TimeKept DEF LookupIInv, LookupTypes, GivesUpInTime
  <2> DEFINE a == MaxQuestion - Len(rest')
  <2>2. a \in Nat
    BY <1>7, Constants
  <2> HIDE DEF a
  <2>3. MaxGap * a \in Nat
    BY <2>2, Constants
  <2>4. spent <= AnswerTime + MaxGap * a + 0
    BY <2>1, <2>3, Times
  <2>5. rest' # <<>> /\ 0 <= MaxGap
    BY <1>7, Constants
  <2> QED
    BY <1>1, <1>7, <2>4, <2>5 DEF SpentInv, a
<1>10. NameInv'
  BY <1>1, <1>6 DEF NameInv
<1> QED
  BY <1>8, <1>9, <1>10 DEF LookupIInv

\* What is left of a question when a label has been read.
LEMMA RestOf ==
  ASSUME NEW S, NEW q \in Seq(S), NEW n \in Nat \ {0}
  PROVE  /\ SubSeq(q, n + 2, Len(q)) \in Seq(S)
         /\ q # <<>> => Len(SubSeq(q, n + 2, Len(q))) < Len(q)
         /\ q = <<>> => SubSeq(q, n + 2, Len(q)) = <<>>
<1>1. Len(q) \in Nat /\ (q # <<>> => Len(q) > 0) /\ (q = <<>> => Len(q) = 0)
  OBVIOUS
<1>2. \A e \in n + 2 .. Len(q) : q[e] \in S
  BY <1>1, ElementOfSeq
<1>3. /\ SubSeq(q, n + 2, Len(q)) \in Seq(S)
      /\ Len(SubSeq(q, n + 2, Len(q))) =
           IF n + 2 <= Len(q) THEN Len(q) - (n + 2) + 1 ELSE 0
  BY <1>1, <1>2, SubSeqProperties
<1>4. q # <<>> => Len(SubSeq(q, n + 2, Len(q))) < Len(q)
  BY <1>1, <1>3
<1>5. q = <<>> => SubSeq(q, n + 2, Len(q)) = <<>>
  BY <1>1, <1>3, EmptySeq
<1> QED
  BY <1>3, <1>4, <1>5

LEMMA SkipLabelInv == LookupIInv /\ SkipLabel => LookupIInv'
<1> SUFFICES ASSUME LookupIInv, SkipLabel PROVE LookupIInv'
  OBVIOUS
<1> DEFINE n == IF rest = <<>> THEN len ELSE Head(rest)
<1>1. /\ stage = "question" /\ stage' \in {"question", "records"} /\ waited' = 0
      /\ UNCHANGED <<now, name, port, id, tries, inbox, reply, asked, spent>>
  BY DEF SkipLabel
<1>2. /\ rest \in Seq(0 .. 255) /\ len \in 0 .. 255 /\ spent \in Nat /\ waited \in Nat
  BY DEF LookupIInv, LookupTypes
<1>3. /\ waited <= MaxGap /\ Len(rest) <= MaxQuestion
      /\ rest # <<>> => spent <= AnswerTime + MaxGap * (MaxQuestion - Len(rest)) + waited
      /\ rest = <<>> => len = 255
  BY <1>1 DEF LookupIInv, SpentInv, LenAfter
<1>4. \/ n = 0 /\ stage' = "records" /\ rest' = <<>> /\ len' = 0
      \/ n # 0 /\ rest' = SubSeq(rest, n + 2, Len(rest)) /\ len' = 255 /\ stage' = "question"
  BY <1>1 DEF SkipLabel, LenAfter
<1>5. n \in 0 .. 255 /\ (n = 0 => rest # <<>>)
  <2>1. CASE rest = <<>>
    BY <1>3, <2>1
  <2>2. CASE rest # <<>>
    BY <1>2, <2>2, HeadTailProperties
  <2> QED
    BY <2>1, <2>2
<1> HIDE DEF n
<1>6. rest # <<>> => Len(rest) \in 1 .. MaxQuestion
  BY <1>2, <1>3
<1>7. \* A label takes no more than its time.
      ASSUME NEW b \in Nat, rest # <<>>, MaxQuestion - Len(rest) < b
      PROVE  spent <= AnswerTime + MaxGap * b
  <2> DEFINE a == MaxQuestion - Len(rest)
  <2>1. a \in Nat /\ a < b
    BY <1>6, <1>7, Constants
  <2>2. spent <= AnswerTime + MaxGap * a + waited
    BY <1>3, <1>7
  <2> HIDE DEF a
  <2>3. MaxGap * a + MaxGap <= MaxGap * b /\ MaxGap * a \in Nat /\ MaxGap * b \in Nat
    BY <2>1, LabelTime, Constants
  <2> QED
    BY <1>2, <1>3, <2>2, <2>3, Times, Constants
<1>8. rest' \in Seq(0 .. 255) /\ len' \in 0 .. 255
  <2>1. CASE n = 0
    BY <1>4, <2>1
  <2>2. CASE n # 0
    <3>1. n \in Nat \ {0}
      BY <1>5, <2>2
    <3>2. rest' = SubSeq(rest, n + 2, Len(rest)) /\ len' = 255
      BY <1>4, <2>2
    <3>3. SubSeq(rest, n + 2, Len(rest)) \in Seq(0 .. 255)
      BY <1>2, <3>1, RestOf
    <3>4. 255 \in 0 .. 255
      OBVIOUS
    <3> QED
      BY <3>2, <3>3, <3>4, Zenon
  <2> QED
    BY <2>1, <2>2
<1>9. LookupTypes' /\ IdInv' /\ NameInv'
  BY <1>1, <1>8 DEF LookupIInv, LookupTypes, IdInv, NameInv, Ago
<1>10. CASE n = 0
  <2>1. spent <= AnswerTime + MaxGap * MaxQuestion
    BY <1>2, <1>5, <1>6, <1>7, <1>10, Constants
  <2>2. 0 <= MaxGap
    BY Constants
  <2>3. AnswerTime + MaxGap * MaxQuestion + 0 = AnswerTime + MaxGap * MaxQuestion
    BY Times
  <2> QED
    BY <1>1, <1>4, <1>9, <1>10, <2>1, <2>2, <2>3 DEF SpentInv, LookupIInv
<1>11. CASE n # 0
  <2>1. stage' = "question" /\ len' = LenAfter /\ rest' = SubSeq(rest, n + 2, Len(rest))
    BY <1>4, <1>11 DEF LenAfter
  <2>2. /\ rest # <<>> => Len(rest') < Len(rest)
        /\ rest = <<>> => rest' = <<>>
    BY <1>2, <1>5, <1>11, <2>1, RestOf
  <2>3. Len(rest') \in Nat /\ Len(rest') <= MaxQuestion
    BY <1>2, <1>3, <1>8, <2>2, Constants
  <2>4. ASSUME rest' # <<>>
        PROVE  spent <= AnswerTime + MaxGap * (MaxQuestion - Len(rest')) + 0
    <3> DEFINE b == MaxQuestion - Len(rest')
    <3>1. rest # <<>> /\ b \in Nat /\ MaxQuestion - Len(rest) < b
      BY <1>6, <2>2, <2>3, <2>4, Constants
    <3> HIDE DEF b
    <3>2. spent <= AnswerTime + MaxGap * b
      BY <1>7, <3>1
    <3>3. AnswerTime + MaxGap * b + 0 = AnswerTime + MaxGap * b
      BY <3>1, Times, Constants
    <3> QED
      BY <3>2, <3>3 DEF b
  <2>5. 0 <= MaxGap
    BY Constants
  <2> QED
    BY <1>1, <1>9, <2>1, <2>3, <2>4, <2>5 DEF SpentInv, LookupIInv
<1> QED
  BY <1>10, <1>11

-----------------------------------------------------------------------------
\* Theorems.

LEMMA LookupStepInv == LookupIInv /\ [LookupNext]_lookupVars => LookupIInv'
<1> SUFFICES ASSUME LookupIInv, [LookupNext]_lookupVars PROVE LookupIInv'
  OBVIOUS
<1>1. CASE Tick
  BY <1>1, TickInv
<1>2. CASE LookupNetwork
  BY <1>2, AnswersInv DEF LookupNetwork
<1>3. CASE BuildRequest
  BY <1>3, BuildRequestInv
<1>4. CASE EndPacket
  BY <1>4, EndPacketInv
<1>5. CASE NotSent
  BY <1>5, ReturnsInv DEF NotSent
<1>6. CASE Delay
  BY <1>6, DelayInv
<1>7. CASE TimedOut
  BY <1>7, TimedOutInv
<1>8. CASE Refused
  BY <1>8, ReturnsInv DEF Refused
<1>9. CASE Accepted
  BY <1>9, AcceptedInv
<1>10. CASE SkipLabel
  BY <1>10, SkipLabelInv
<1>11. CASE ReadRecords
  <2>1. PICK code : Returns(code)
    BY <1>11 DEF ReadRecords
  <2>2. UNCHANGED <<now, asked>>
    BY <1>11 DEF ReadRecords
  <2> QED
    BY <2>1, <2>2, ReturnsInv
<1>12. CASE \E n \in Titles : Lookup(n)
  BY <1>12, LookupInv
<1>13. CASE UNCHANGED lookupVars
  <2>1. UNCHANGED <<now, stage, name, port, id, waited, tries, inbox, reply, rest, len, asked, spent>>
    BY <1>13 DEF lookupVars, packet
  <2> QED
    BY <2>1 DEF LookupIInv, LookupTypes, SpentInv, IdInv, NameInv, Ago
<1> QED
  BY <1>1, <1>2, <1>3, <1>4, <1>5, <1>6, <1>7, <1>8, <1>9, <1>10, <1>11, <1>12, <1>13
  DEF LookupNext, GetHostByName, Titles

LEMMA LookupInvariant == LookupSpec => []LookupIInv
<1>1. LookupInit => LookupIInv
  BY LookupInitInv
<1>2. LookupIInv /\ [LookupNext]_lookupVars => LookupIInv'
  BY LookupStepInv
<1> QED
  BY <1>1, <1>2, PTL DEF LookupSpec

\* A lookup waits no longer than three time-outs and the time its request took,
\* and keeps its caller no longer than the reading of one response takes, unless
\* that response ends within its question.
THEOREM LookupGivesUpInTime == LookupSpec => []GivesUpInTime
<1>1. LookupIInv => GivesUpInTime
  BY TimeKept DEF LookupIInv
<1> QED
  BY <1>1, LookupInvariant, PTL

\* The address that getHostByName takes from a response is one of the name it
\* was called with: the id of a late answer is too old to be that of this
\* request.
THEOREM LookupResolvesTheName == LookupSpec => ResolvesTheName
<1>1. LookupIInv /\ [LookupNext]_lookupVars =>
        (stage = "records" /\ ret' = SUCCESS /\ stage' = "idle" => address' = name)
  <2> SUFFICES ASSUME LookupIInv, [LookupNext]_lookupVars,
                      stage = "records", ret' = SUCCESS, stage' = "idle"
               PROVE  address' = name
    OBVIOUS
  <2>1. ReadRecords
    BY DEF LookupNext, lookupVars, Tick, LookupNetwork, Answers, GetHostByName, BuildRequest,
           EndPacket, NotSent, Delay, TimedOut, NoPacket, Refused, Accepted, SkipLabel, Lookup
  <2>2. address' = reply.name
    BY <2>1 DEF ReadRecords, Returns, SUCCESS
  <2>3. reply.name = name
    BY DEF LookupIInv, NameInv
  <2> QED
    BY <2>2, <2>3
<1> QED
  BY <1>1, LookupInvariant, PTL DEF LookupSpec, ResolvesTheName
=============================================================================
