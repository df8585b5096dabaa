------------------------------ MODULE DhcpProofs ------------------------------
(***************************************************************************)
(* Proofs about the DHCP client.  First DhcpRequest, for any set of        *)
(* servers, any ids, any number of calls and any time limits, with answers *)
(* that are late, repeated or lost.  Then DhcpLease, for any clock, any    *)
(* length of a second, any lease and any irregular calls of maintain().    *)
(***************************************************************************)
EXTENDS DhcpRequest, DhcpLease, TLAPS

\* p acknowledges a REQUEST the client did send, for the address of p's sender.
AnswersRequest(p) ==
  \E m \in sent : /\ m.type = "REQUEST" /\ m.xid = p.xid
                  /\ m.ip = p.from /\ m.server = p.from

\* An ACK that has not been read is the answer to a REQUEST, and the server has
\* noted the lease.
InboxInv ==
  \A i \in 1 .. Len(inbox) :
    inbox[i].type = "ACK" => inbox[i].from \in granted /\ AnswersRequest(inbox[i])

\* The result of a call is 1 as long as its lease is held, and then the address
\* kept is no offer.
ResultInv ==
  /\ (state = "LEASED") <=> (result = 1)
  /\ result = 1 => pc \in {"check", "done", "idle"} /\ local \in granted

\* Since it last forgot its lease the client asks one server, which it knows
\* from its first REQUEST on.
ServerInv ==
  /\ state \in {"REQUEST", "REREQUEST", "LEASED"} => server # None
  /\ \A m \in sent \ before : m.type = "REQUEST" => server # None /\ m.server = server

IInv == TypeOK /\ InboxInv /\ ResultInv /\ ServerInv /\ ChipGranted

-----------------------------------------------------------------------------
\* Facts about the receive memory.

\* The types of what arrives and of what is left when a packet is read.
LEMMA InboxType ==
  ASSUME NEW q \in Seq(Packet)
  PROVE  /\ \A p \in Packet : Append(q, p) \in Seq(Packet) /\ Len(Append(q, p)) = Len(q) + 1
         /\ q # <<>> => /\ Head(q) \in Packet
                        /\ Tail(q) \in Seq(Packet) /\ Len(Tail(q)) = Len(q) - 1
                        /\ Len(q) \in Nat \ {0}
  OBVIOUS

\* The ACKs that are there stay answers, whatever else is sent and granted.
LEMMA InboxKept ==
  ASSUME InboxInv, inbox' = inbox, sent \subseteq sent', granted \subseteq granted'
  PROVE  InboxInv'
  BY DEF InboxInv, AnswersRequest

\* So do those that are left when one is read.
LEMMA InboxTail ==
  ASSUME TypeOK, InboxInv, inbox # <<>>, inbox' = Tail(inbox),
         sent \subseteq sent', granted \subseteq granted'
  PROVE  InboxInv'
<1>1. inbox \in Seq(Packet)
  BY DEF TypeOK
<1>2. Len(inbox') = Len(inbox) - 1 /\ Len(inbox) \in Nat \ {0}
  BY <1>1, InboxType
<1>3. \A i \in 1 .. Len(inbox') : inbox'[i] = inbox[i + 1] /\ i + 1 \in 1 .. Len(inbox)
  BY <1>1, <1>2
<1> QED
  BY <1>3 DEF InboxInv, AnswersRequest

\* A packet that arrives keeps InboxInv, if it is no ACK or its sender has just
\* granted what the client asked it for.
LEMMA InboxAppend ==
  ASSUME TypeOK, InboxInv, NEW p \in Packet, inbox' = Append(inbox, p), sent' = sent,
         granted \subseteq granted',
         p.type = "ACK" => p.from \in granted' /\ AnswersRequest(p)
  PROVE  InboxInv'
<1>1. inbox \in Seq(Packet)
  BY DEF TypeOK
<1>2. Len(inbox') = Len(inbox) + 1 /\ Len(inbox) \in Nat
  BY <1>1, InboxType
<1>3. \A i \in 1 .. Len(inbox') : \/ i \in 1 .. Len(inbox) /\ inbox'[i] = inbox[i]
                                  \/ inbox'[i] = p
  BY <1>1, <1>2
<1> QED
  BY <1>3 DEF InboxInv, AnswersRequest

\* No packet is there when a call begins or ends.
LEMMA InboxEmpty == inbox' = <<>> => InboxInv'
  BY DEF InboxInv

-----------------------------------------------------------------------------
\* Type correctness.

LEMMA InitInv == Init => IInv
<1> SUFFICES ASSUME Init PROVE IInv
  OBVIOUS
<1>1. TypeOK
  BY DhcpRequestAssumption DEF Init, TypeOK, States, Address
<1>2. InboxInv /\ ResultInv /\ ServerInv /\ ChipGranted
  BY DEF Init, InboxInv, ResultInv, ServerInv, ChipGranted
<1> QED
  BY <1>1, <1>2 DEF IInv

\* What arrives is a packet, at most one beyond what the memory holds.
LEMMA NetworkType == TypeOK /\ Network => TypeOK'
<1> SUFFICES ASSUME TypeOK, Network PROVE TypeOK'
  OBVIOUS
<1> USE DhcpRequestAssumption
<1>1. ASSUME NEW p \in Packet, Deliver(p), granted' \subseteq Servers
      PROVE  TypeOK'
  <2>1. inbox' \in Seq(Packet) /\ Len(inbox') <= MaxInbox
    BY <1>1, InboxType DEF TypeOK, Deliver
  <2>2. burst' \in 0 .. MaxBurst
    BY <1>1 DEF TypeOK, Deliver
  <2> QED
    BY <1>1, <2>1, <2>2 DEF TypeOK, Deliver, ids, lease
<1>2. CASE Foreign
  <2>1. [type |-> "foreign", xid |-> 0, from |-> CHOOSE s \in Servers : TRUE] \in Packet
    BY DEF Packet
  <2>2. granted' \subseteq Servers
    BY <1>2 DEF Foreign, TypeOK
  <2> QED
    BY <1>1, <1>2, <2>1, <2>2 DEF Foreign
<1>3. ASSUME NEW s \in Servers, NEW m \in sent, Offer(s, m) \/ Acknowledge(s, m) \/ Refuse(s, m)
      PROVE  TypeOK'
  <2>1. \A t \in {"OFFER", "ACK", "NAK"} : [type |-> t, xid |-> m.xid, from |-> s] \in Packet
    BY DEF TypeOK, Message, Packet
  <2>2. granted' \subseteq Servers
    BY <1>3 DEF TypeOK, Offer, Acknowledge, Refuse
  <2> QED
    BY <1>1, <1>3, <2>1, <2>2 DEF Offer, Acknowledge, Refuse
<1> QED
  BY <1>2, <1>3 DEF Network

\* A call of request_DHCP_lease begins.
LEMMA EnterType ==
  ASSUME TypeOK, NEW s \in {"START", "REREQUEST"}, EnterRequest(s),
         local' \in Address, server' \in Address, before' \subseteq sent
  PROVE  TypeOK'
<1>1. xid' \in Nat /\ first' \in Nat
  BY DhcpRequestAssumption DEF EnterRequest
<1>2. calls' \in 0 .. MaxCalls /\ inbox' = <<>> /\ inbox' \in Seq(Packet)
  BY DhcpRequestAssumption DEF EnterRequest, TypeOK
<1> QED
  BY <1>1, <1>2, DhcpRequestAssumption DEF EnterRequest, TypeOK, States

\* A message is sent.
LEMMA SendsType ==
  ASSUME \A m \in sent : m \in Message,
         NEW t \in {"DISCOVER", "REQUEST"}, NEW id \in Nat, NEW ip \in Address, NEW s \in Address,
         Sends(t, id, ip, s)
  PROVE  \A m \in sent' : m \in Message
  BY DEF Sends, Message

LEMMA ResponseType == TypeOK /\ Response => TypeOK'
<1> SUFFICES ASSUME TypeOK, Response PROVE TypeOK'
  OBVIOUS
<1> USE DhcpRequestAssumption
<1> DEFINE p == Head(inbox)
<1>1. p \in Packet /\ inbox' \in Seq(Packet) /\ Len(inbox') <= MaxInbox
  BY InboxType DEF TypeOK, Response
<1>2. local' \in Address /\ server' \in Address
  BY <1>1 DEF TypeOK, Response, YiAddr, Named, Packet, Address
<1>3. xid' \in Nat
  BY <1>1 DEF TypeOK, Response, Packet
<1>4. \A m \in sent' : m \in Message
  BY <1>2, <1>3, SendsType DEF TypeOK, Response
<1>5. state' \in States /\ result' \in {0, 1}
  BY DEF TypeOK, Response, States
<1>6. before' \subseteq sent'
  BY DEF TypeOK, Response, Sends
<1> QED
  BY <1>1, <1>2, <1>3, <1>4, <1>5, <1>6 DEF TypeOK, Response

LEMMA StepType == TypeOK /\ [Next]_vars => TypeOK'
<1> SUFFICES ASSUME TypeOK, [Next]_vars PROVE TypeOK'
  OBVIOUS
<1> USE DhcpRequestAssumption
<1>1. CASE Wait
  BY <1>1 DEF Wait, Passes, TypeOK, ids, lease
<1>2. CASE Sending
  BY <1>2 DEF Sending, Passes, TypeOK, ids, lease
<1>3. CASE Network
  BY <1>3, NetworkType
<1>4. CASE BeginWithDHCP
  BY <1>4, EnterType DEF BeginWithDHCP, Address
<1>5. CASE Renew
  BY <1>5, EnterType DEF Renew, TypeOK, lease
<1>6. CASE Rebind
  BY <1>6, EnterType DEF Rebind, Address
<1>7. CASE Discover
  <2>1. \A m \in sent' : m \in Message
    BY <1>7, SendsType DEF Discover, TypeOK, Address
  <2>2. before' \subseteq sent'
    BY <1>7 DEF Discover, Sends, TypeOK
  <2> QED
    BY <1>7, <2>1, <2>2 DEF Discover, TypeOK, States, lease
<1>8. CASE Rerequest
  <2>1. \A m \in sent' : m \in Message
    BY <1>8, SendsType DEF Rerequest, TypeOK
  <2>2. before' \subseteq sent'
    BY <1>8 DEF Rerequest, Sends, TypeOK
  <2> QED
    BY <1>8, <2>1, <2>2 DEF Rerequest, TypeOK, States, lease
<1>9. CASE NoSocket \/ Listen
  BY <1>9 DEF NoSocket, Listen, TypeOK, ids, lease
<1>10. CASE NoResponse
  BY <1>10 DEF NoResponse, TypeOK, States, ids, lease
<1>11. CASE Response
  BY <1>11, ResponseType
<1>12. CASE Check
  <2>1. inbox' \in Seq(Packet) /\ Len(inbox') <= MaxInbox
    <3>1. CASE inbox' = <<>>
      BY <3>1
    <3>2. CASE inbox' = inbox
      BY <3>2 DEF TypeOK
    <3> QED
      BY <1>12, <3>1, <3>2, Zenon DEF Check
  <2>2. xid' \in Nat /\ pc' \in {"done", "loop"}
    BY <1>12 DEF Check, TypeOK
  <2> QED
    BY <1>12, <2>1, <2>2 DEF Check, TypeOK, lease
<1>13. CASE Return
  BY <1>13 DEF Return, TypeOK, ids, lease
<1>14. CASE UNCHANGED vars
  BY <1>14 DEF vars, TypeOK, ids, lease
<1> QED
  BY <1>1, <1>2, <1>3, <1>4, <1>5, <1>6, <1>7, <1>8, <1>9, <1>10, <1>11, <1>12, <1>13, <1>14
     DEF Next, Request
-----------------------------------------------------------------------------
\* The inductive invariant.

LEMMA StepInbox == IInv /\ [Next]_vars => InboxInv'
<1> SUFFICES ASSUME TypeOK, InboxInv, [Next]_vars PROVE InboxInv'
  BY DEF IInv
<1> USE DhcpRequestAssumption
<1>1. CASE Wait \/ Sending \/ NoSocket \/ Listen \/ NoResponse \/ Return \/ UNCHANGED vars
  BY <1>1, InboxKept DEF Wait, Sending, NoSocket, Listen, NoResponse, Return, vars
<1>2. CASE Foreign
  <2> DEFINE p == [type |-> "foreign", xid |-> 0, from |-> CHOOSE s \in Servers : TRUE]
  <2>1. p \in Packet /\ p.type # "ACK"
    BY DEF Packet
  <2>2. inbox' = Append(inbox, p) /\ UNCHANGED <<sent, granted>>
    BY <1>2 DEF Foreign, Deliver
  <2> QED
    BY <2>1, <2>2, InboxAppend
<1>3. ASSUME NEW s \in Servers, NEW m \in sent, Offer(s, m) \/ Refuse(s, m)
      PROVE  InboxInv'
  <2>1. PICK t \in {"OFFER", "NAK"} :
          inbox' = Append(inbox, [type |-> t, xid |-> m.xid, from |-> s])
    BY <1>3 DEF Offer, Refuse, Deliver
  <2>2. [type |-> t, xid |-> m.xid, from |-> s] \in Packet
    BY DEF TypeOK, Message, Packet
  <2>3. UNCHANGED <<sent, granted>>
    BY <1>3 DEF Offer, Refuse, Deliver
  <2> QED
    BY <2>1, <2>2, <2>3, InboxAppend
<1>4. ASSUME NEW s \in Servers, NEW m \in sent, Acknowledge(s, m)
      PROVE  InboxInv'
  <2> DEFINE p == [type |-> "ACK", xid |-> m.xid, from |-> s]
  <2>1. p \in Packet
    BY DEF TypeOK, Message, Packet
  <2>2. /\ inbox' = Append(inbox, p) /\ sent' = sent
        /\ granted' = granted \cup {s}
    BY <1>4 DEF Acknowledge, Deliver
  <2>3. p.from \in granted' /\ AnswersRequest(p)
    BY <1>4, <2>2 DEF Acknowledge, AnswersRequest
  <2> QED
    BY <2>1, <2>2, <2>3, InboxAppend
<1>5. CASE BeginWithDHCP \/ Renew \/ Rebind
  BY <1>5, InboxEmpty DEF BeginWithDHCP, Renew, Rebind, EnterRequest
<1>6. CASE Discover \/ Rerequest
  BY <1>6, InboxKept DEF Discover, Rerequest, Sends
<1>7. CASE Response
  BY <1>7, InboxTail DEF Response, Sends
<1>8. CASE Check
  BY <1>8, InboxKept, InboxEmpty DEF Check
<1> QED
  BY <1>1, <1>2, <1>3, <1>4, <1>5, <1>6, <1>7, <1>8 DEF Next, Request, Network

\* The packet that brings the lease is an ACK the client asked for.
LEMMA LeaseFromAck ==
  ASSUME IInv, Response, state' = "LEASED"
  PROVE  /\ state = "REQUEST" /\ result' = 1
         /\ local' = Head(inbox).from /\ local' \in granted
         /\ AnswersRequest(Head(inbox))
         /\ first <= Head(inbox).xid /\ Head(inbox).xid <= xid
<1>1. /\ pc = "parse" /\ inbox # <<>> /\ state # "LEASED"
  BY DEF Response, IInv, ResultInv
<1>2. Mine(Head(inbox)) /\ Grants(Head(inbox).type) /\ result' = 1
  BY <1>1 DEF Response, Sends
<1>3. /\ state = "REQUEST" /\ Head(inbox).type = "ACK"
      /\ first <= Head(inbox).xid /\ Head(inbox).xid <= xid
  BY <1>2 DEF Mine, Grants
<1>4. local' = Head(inbox).from
  BY <1>2, <1>3 DEF Response, YiAddr
<1>5. Head(inbox) = inbox[1] /\ 1 \in 1 .. Len(inbox)
  BY <1>1, InboxType DEF IInv, TypeOK
<1>6. Head(inbox).from \in granted /\ AnswersRequest(Head(inbox))
  BY <1>3, <1>5 DEF IInv, InboxInv
<1> QED
  BY <1>2, <1>3, <1>4, <1>6

LEMMA StepResult == IInv /\ [Next]_vars => ResultInv' /\ ChipGranted'
<1> SUFFICES ASSUME IInv, [Next]_vars
             PROVE  ResultInv' /\ ChipGranted'
  OBVIOUS
<1> USE DEF IInv, ResultInv, ChipGranted
<1>1. CASE Wait \/ Sending \/ UNCHANGED vars
  BY <1>1 DEF Wait, Sending, vars, lease
<1>2. CASE Network
  <2>1. /\ UNCHANGED <<pc, state, result, local, chip>>
        /\ granted \subseteq granted'
    BY <1>2 DEF Network, Foreign, Offer, Acknowledge, Refuse, Deliver, lease
  <2> QED
    BY <2>1
<1>3. CASE BeginWithDHCP \/ Renew \/ Rebind
  BY <1>3 DEF BeginWithDHCP, Renew, Rebind, EnterRequest
<1>4. CASE NoSocket \/ Listen
  BY <1>4 DEF NoSocket, Listen, lease
<1>5. CASE Discover \/ Rerequest
  BY <1>5 DEF Discover, Rerequest, lease
<1>6. CASE NoResponse
  BY <1>6 DEF NoResponse, TypeOK, lease
<1>7. CASE Response
  <2>1. pc' = "check" /\ UNCHANGED <<chip, granted>> /\ result # 1
    BY <1>7 DEF Response
  <2>2. CASE state' = "LEASED"
    BY <1>7, <2>1, <2>2, LeaseFromAck
  <2>3. CASE state' # "LEASED"
    <3>1. result' = result
      BY <1>7, <2>3 DEF Response
    <3> QED
      BY <2>1, <2>3, <3>1
  <2> QED
    BY <2>2, <2>3
<1>8. CASE Check
  <2>1. result = 1 => pc' = "done"
    BY <1>8 DEF Check
  <2>2. UNCHANGED <<state, result, local, chip, granted>>
    BY <1>8 DEF Check, lease
  <2> QED
    BY <2>1, <2>2, <1>8 DEF Check
<1>9. CASE Return
  BY <1>9 DEF Return, HandOver, lease
<1> QED
  BY <1>1, <1>2, <1>3, <1>4, <1>5, <1>6, <1>7, <1>8, <1>9 DEF Next, Request

\* The server is taken from a packet that has one, and then kept.
LEMMA StepServer == TypeOK /\ ServerInv /\ [Next]_vars => ServerInv'
<1> SUFFICES ASSUME TypeOK, ServerInv, [Next]_vars
             PROVE  ServerInv'
  OBVIOUS
<1> USE DEF ServerInv
<1>1. CASE Wait \/ Sending \/ NoSocket \/ Listen \/ Return \/ UNCHANGED vars
  BY <1>1 DEF Wait, Sending, NoSocket, Listen, Return, vars, lease
<1>2. CASE Network
  <2>1. UNCHANGED <<state, server, sent, before>>
    BY <1>2 DEF Network, Foreign, Offer, Acknowledge, Refuse, Deliver, lease
  <2> QED
    BY <2>1
<1>3. CASE BeginWithDHCP \/ Rebind
  BY <1>3 DEF BeginWithDHCP, Rebind, EnterRequest
<1>4. CASE Renew
  BY <1>4 DEF Renew, EnterRequest, lease
<1>5. CASE Discover
  <2>1. /\ state' = "DISCOVER" /\ UNCHANGED <<server, before>>
        /\ \A m \in sent' \ sent : m.type # "REQUEST"
    BY <1>5 DEF Discover, Sends, lease
  <2> QED
    BY <2>1
<1>6. CASE Rerequest
  <2>1. /\ state = "REREQUEST" /\ UNCHANGED <<server, before>>
        /\ \A m \in sent' \ sent : m.server = server
    BY <1>6 DEF Rerequest, Sends, lease
  <2> QED
    BY <2>1
<1>7. CASE NoResponse
  BY <1>7 DEF NoResponse, lease
<1>8. CASE Response
  <2> DEFINE p == Head(inbox)
  <2>1. p.from # None
    BY <1>8, InboxType, DhcpRequestAssumption DEF Response, TypeOK, Packet
  <2>2. before' = before /\ (server # None => server' = server)
    BY <1>8 DEF Response, Named
  <2>3. CASE Mine(p) /\ state = "DISCOVER" /\ p.type = "OFFER"
    <3>1. server' # None
      BY <1>8, <2>1, <2>3 DEF Response, Named
    <3>2. \A m \in sent' \ sent : m.server = server'
      BY <1>8, <2>3 DEF Response, Sends
    <3> QED
      BY <2>2, <3>1, <3>2
  <2>4. CASE ~(Mine(p) /\ state = "DISCOVER" /\ p.type = "OFFER")
    <3>1. sent' = sent /\ (state' = state \/ state' = "START" \/ state = "REQUEST")
      BY <1>8, <2>4 DEF Response, Grants
    <3> QED
      BY <2>2, <3>1
  <2> QED
    BY <2>3, <2>4
<1>9. CASE Check
  BY <1>9 DEF Check, lease
<1> QED
  BY <1>1, <1>2, <1>3, <1>4, <1>5, <1>6, <1>7, <1>8, <1>9 DEF Next, Request

LEMMA Inductive == Spec => []IInv
<1>1. IInv /\ [Next]_vars => IInv'
  BY StepType, StepInbox, StepResult, StepServer DEF IInv
<1> QED
  BY <1>1, InitInv, PTL DEF Spec

-----------------------------------------------------------------------------
\* Theorems.

\* Every variable stays in its type, and the receive memory within its size.
THEOREM TypeCorrect == Spec => []TypeOK
<1>1. IInv => TypeOK
  BY DEF IInv
<1> QED
  BY <1>1, Inductive, PTL

\* begin() and maintain() hand the chip only addresses a server has
\* acknowledged, whatever is offered, late or repeated.
THEOREM ChipIsGranted == Spec => []ChipGranted
<1>1. IInv => ChipGranted
  BY DEF IInv
<1> QED
  BY <1>1, Inductive, PTL

\* A lease is one the client will renew with the server that gave it, whatever
\* other servers offered and refused in between, unless the acknowledgement is
\* for a message of before the client last forgot its lease.
THEOREM LeaseIsRenewable == Spec => LeaseFromItsServer
<1>1. IInv /\ [Next]_vars =>
        [(state = "REQUEST" /\ state' = "LEASED") =>
           \/ local' = server'
           \/ \E m \in before : /\ m.type = "REQUEST" /\ m.ip = local'
                               /\ m.xid = Head(inbox).xid]_vars
  <2> SUFFICES ASSUME IInv, Next, state = "REQUEST", state' = "LEASED"
               PROVE  \/ local' = server'
                      \/ \E m \in before : /\ m.type = "REQUEST" /\ m.ip = local'
                                          /\ m.xid = Head(inbox).xid
    OBVIOUS
  <2>1. Response
    BY DEF Next, Request, Wait, Sending, Network, Foreign, Offer, Acknowledge, Refuse, Deliver,
           BeginWithDHCP, Renew, Rebind, EnterRequest, NoSocket, Discover, Rerequest, Listen,
           NoResponse, Check, Return
  <2>2. PICK m \in sent : /\ m.type = "REQUEST" /\ m.xid = Head(inbox).xid
                          /\ m.ip = local' /\ m.server = local'
    BY <2>1, LeaseFromAck DEF AnswersRequest
  <2>3. CASE m \in before
    BY <2>2, <2>3
  <2>4. CASE m \notin before
    <3>1. server # None /\ m.server = server
      BY <2>2, <2>4 DEF IInv, ServerInv
    <3>2. server' = server
      BY <2>1, <3>1 DEF Response, Named
    <3> QED
      BY <2>2, <3>1, <3>2
  <2> QED
    BY <2>3, <2>4
<1> QED
  BY <1>1, Inductive, PTL DEF Spec, LeaseFromItsServer

\* A lease is never taken from an answer to another client, nor from one to a
\* message whose id the current call cannot have used.
THEOREM LeaseAnswersARequest == Spec => LeaseIsMine
<1>1. IInv /\ [Next]_vars =>
        [(state = "REQUEST" /\ state' = "LEASED") =>
           \E m \in sent : /\ m.type = "REQUEST" /\ m.ip = local' /\ m.server = local'
                           /\ first <= m.xid /\ m.xid <= xid]_vars
  <2> SUFFICES ASSUME IInv, Next, state = "REQUEST", state' = "LEASED"
               PROVE  \E m \in sent : /\ m.type = "REQUEST" /\ m.ip = local' /\ m.server = local'
                                      /\ first <= m.xid /\ m.xid <= xid
    OBVIOUS
  <2>1. Response
    BY DEF Next, Request, Wait, Sending, Network, Foreign, Offer, Acknowledge, Refuse, Deliver,
           BeginWithDHCP, Renew, Rebind, EnterRequest, NoSocket, Discover, Rerequest, Listen,
           NoResponse, Check, Return
  <2> QED
    BY <2>1, LeaseFromAck DEF AnswersRequest
<1> QED
  BY <1>1, Inductive, PTL DEF Spec, LeaseIsMine

\* request_DHCP_lease is the call DhcpLease is built on: it begins only from
\* where checkLease may call, and each of its steps is one of the call's or
\* none at all.
THEOREM CallImplemented == Spec => Call!CallSafety
<1>1. Init => Call!CallInit
  BY DEF Init, Call!CallInit, CallOf
<1>2. IInv /\ [Next]_vars => [Call!CallNext]_CallOf
  <2> SUFFICES ASSUME IInv, [Next]_vars
               PROVE  Call!CallNext \/ CallOf' = CallOf
    OBVIOUS
  <2> USE DEF CallOf
  <2>1. CASE Wait \/ Sending \/ UNCHANGED vars
    BY <2>1 DEF Wait, Sending, vars
  <2>2. CASE Network
    BY <2>2 DEF Network, Foreign, Offer, Acknowledge, Refuse, Deliver
  <2>3. CASE BeginWithDHCP \/ Renew \/ Rebind
    BY <2>3 DEF BeginWithDHCP, Renew, Rebind, EnterRequest, Call!CallNext, Call!Calls
  <2>4. CASE NoSocket \/ Check
    BY <2>4 DEF NoSocket, Check, Call!CallNext, Call!CallReturns
  <2>5. CASE Discover \/ Rerequest \/ Listen \/ NoResponse \/ Response
    BY <2>5 DEF Discover, Rerequest, Listen, NoResponse, Response
  <2>6. CASE Return
    BY <2>6 DEF Return
  <2> QED
    BY <2>1, <2>2, <2>3, <2>4, <2>5, <2>6 DEF Next, Request
<1> QED
  BY <1>1, <1>2, Inductive, PTL DEF Spec, Call!CallSafety

-----------------------------------------------------------------------------
\* The lease timers (DhcpLease).

\* Milliseconds since the last look.
Since == Wrap(now - lastCheck)

\* The place in checkLease goes with the state of the call.
PlaceInv ==
  /\ (call = "busy") <=> (place = "request")
  /\ call = "none" => place = "idle"
  /\ place = "after" => pause = 0
  /\ place = "idle" => pause <= MaxPoll
  /\ place = "request" => pause <= MaxCall
  /\ (call = "none" \/ (place = "request" /\ why = "begin")) => lastCheck = 0

\* A look leaves _secTimeout in the future, and what may pass before the next
\* one is far from the range of a signed long.
LateInv ==
  /\ -Second <= Late
  /\ call = "none" => Late <= pause
  /\ (place = "request" /\ why = "begin") => Late <= MaxPoll + pause
  /\ (place = "request" /\ why = "renew") => Since = pause /\ Late < Since
  /\ (place = "request" /\ why = "rebind") => Since <= MaxCall + pause /\ Late < Since
  /\ place = "after" => Since <= MaxCall /\ Late < Since
  /\ place = "idle" => Late <= MaxPoll + 2 * MaxCall + pause

\* Nothing was counted off the lease: the first look is still to come.
Uncounted == lastCheck = 0 /\ renew = t1

\* The seconds counted off the lease are those that passed up to _secTimeout: the
\* count falls behind by a second at most, and as much again for every look that
\* found _lastCheck = 0; and it runs ahead by the time it took to get the lease.
LeaseInv ==
  (call = "leased" /\ Positive(t1)) =>
    /\ renew \in 0 .. t1
    /\ age <= pause \/ Late < pause
    /\ skips < SkipCap =>
         age - Late <= (t1 - renew + 1 + skips) * Second + skips * MaxPoll
    /\ \/ Uncounted
       \/ /\ Late < took + pause
          /\ age < AgeCap => (t1 - renew) * Second < age - Late + took

\* The inductive invariant of the lease timers.
LeaseIInv == LeaseTypeOK /\ PlaceInv /\ LateInv /\ LeaseInv

-----------------------------------------------------------------------------
\* The clock and _secTimeout.

\* Late, as a function of millis() and _secTimeout.
LateAt(n, s) ==
  LET d == Wrap(n - s) IN IF d >= MillisRange \div 2 THEN d - MillisRange ELSE d

\* The constants, as the proofs need them.
LEMMA Constants ==
  /\ MillisRange \in Nat /\ MillisRange \div 2 \in Nat
  /\ MillisRange = 2 * (MillisRange \div 2)
  /\ Second \in Nat \ {0} /\ MaxPoll \in Nat \ {0} /\ MaxCall \in Nat
  /\ Second + 2 * (MaxPoll + MaxCall) < MillisRange \div 2
  /\ AgeCap \in Nat /\ SkipCap \in Nat \ {0}
  /\ SecRange \in Nat /\ SecRange \div 2 \in Nat /\ SecRange = 2 * (SecRange \div 2)
<1>1. \A n \in Nat : n % 2 = 0 => n \div 2 \in Nat /\ n = 2 * (n \div 2)
  BY SMT
<1> QED
  BY <1>1, MillisRangeAssumption, DhcpLeaseAssumption

LEMMA LateAtType ==
  ASSUME NEW n \in Ticks, NEW s \in Ticks
  PROVE  LateAt(n, s) \in Int /\ LateAt(n, s) < MillisRange \div 2
  BY Constants DEF LateAt, Wrap, Ticks

\* A millisecond more.
LEMMA LateAtTick ==
  ASSUME NEW n \in Ticks, NEW s \in Ticks,
         LateAt(n, s) + 1 < MillisRange \div 2
  PROVE  LateAt(Wrap(n + 1), s) = LateAt(n, s) + 1
  BY Constants DEF LateAt, Wrap, Ticks

\* d milliseconds ahead.
LEMMA LateAtAhead ==
  ASSUME NEW n \in Ticks, NEW d \in Nat, d <= MillisRange \div 2
  PROVE  Wrap(n + d) \in Ticks /\ LateAt(n, Wrap(n + d)) = -d
  BY Constants DEF LateAt, Wrap, Ticks

LEMMA WrapTick ==
  ASSUME NEW n \in Ticks
  PROVE  /\ Wrap(n + 1) \in Ticks
         /\ \A l \in Ticks : Wrap(n - l) + 1 < MillisRange =>
                Wrap(Wrap(n + 1) - l) = Wrap(n - l) + 1
  BY Constants DEF Wrap, Ticks

\* Whole seconds and the rest.
LEMMA DivMod ==
  ASSUME NEW S \in Nat \ {0}, NEW x \in Nat
  PROVE  /\ x \div S \in Nat /\ x % S \in 0 .. S - 1
         /\ x = S * (x \div S) + (x % S)
<1>1. x \div S \in Int /\ x % S \in 0 .. S - 1 /\ x = S * (x \div S) + (x % S)
  OBVIOUS
<1>2. x \div S \in Nat
  BY SMT
<1> QED
  BY <1>1, <1>2

-----------------------------------------------------------------------------
\* checkLease.

\* What the types say of the numbers.
LEMMA Numbers ==
  ASSUME LeaseTypeOK
  PROVE  /\ now \in Ticks /\ lastCheck \in Ticks /\ secTimeout \in Ticks
         /\ pause \in Nat /\ age \in Nat /\ took \in Nat /\ skips \in Nat
         /\ renew \in Int /\ rebind \in Int /\ t1 \in Nat
         /\ Late \in Int /\ Late = LateAt(now, secTimeout)
         /\ Since \in Ticks /\ Since \in Nat
<1>1. now \in Ticks /\ secTimeout \in Ticks
  BY DEF LeaseTypeOK
<1>2. Late = LateAt(now, secTimeout)
  BY DEF Late, LateAt
<1>3. Late \in Int
  BY <1>1, <1>2, LateAtType
<1>4. Since \in Ticks /\ Since \in Nat
  BY Constants DEF Since, Wrap, Ticks, LeaseTypeOK
<1> QED
  BY <1>1, <1>2, <1>3, <1>4, Constants DEF LeaseTypeOK, Counter, Seconds, Ticks

\* Half the range is more than any time between two looks.
LEMMA LateSmall ==
  ASSUME LeaseTypeOK, PlaceInv, LateInv
  PROVE  Late <= Second + 2 * (MaxPoll + MaxCall) /\ Late + 1 < MillisRange \div 2
<1>1. place \in {"idle", "request", "after"} /\ why \in {"begin", "renew", "rebind"}
  BY DEF LeaseTypeOK
<1> QED
  BY <1>1, Numbers, Constants DEF PlaceInv, LateInv

\* The look that counts: _secTimeout moves on by whole seconds, at least one, and
\* comes to lie ahead.
LEMMA LookMoves ==
  ASSUME LeaseTypeOK, LateInv, now' = now,
         secTimeout' = IF Late < 0 THEN secTimeout ELSE NextSecond
  PROVE  /\ secTimeout' \in Ticks
         /\ -Second <= Late' /\ Late' <= -1
         /\ Late < 0 => Late' = Late
         /\ ~(Late < 0) => Factor \in Nat \ {0} /\ Late' = Late - Second * Factor
<1>1. Late' = LateAt(now, secTimeout')
  BY DEF Late, LateAt
<1>2. CASE Late < 0
  BY <1>1, <1>2, Numbers, Constants DEF LateInv
<1>3. CASE ~(Late < 0)
  <2> DEFINE q == Late \div Second
             m == Late % Second
  <2>1. q \in Nat /\ m \in 0 .. Second - 1 /\ Late = Second * q + m
    <3>1. Late \in Nat /\ Second \in Nat \ {0}
      BY <1>3, Numbers, Constants
    <3> QED
      BY <3>1, DivMod
  <2>2. Second - m \in Nat /\ Second - m <= MillisRange \div 2
    BY <2>1, Constants
  <2>3. secTimeout' = Wrap(now + (Second - m))
    BY <1>3, <2>1, Numbers, Constants DEF NextSecond, Ticks
  <2>4. secTimeout' \in Ticks /\ Late' = -(Second - m)
    BY <1>1, <2>2, <2>3, Numbers, LateAtAhead
  <2>5. Factor = q + 1
    BY DEF Factor
  <2> HIDE DEF q, m
  <2>6. Second * Factor = Second * q + Second
    BY <2>1, <2>5, Constants
  <2> QED
    BY <1>3, <2>1, <2>4, <2>5, <2>6, Constants
<1> QED
  BY <1>2, <1>3

\* A first look puts it a second ahead.
LEMMA FirstMoves ==
  ASSUME LeaseTypeOK, now' = now, secTimeout' = Wrap(now + Second)
  PROVE  secTimeout' \in Ticks /\ Late' = -Second
<1>1. Late' = LateAt(now, secTimeout')
  BY DEF Late, LateAt
<1> QED
  BY <1>1, Numbers, Constants, LateAtAhead

\* Time moves it nearer.
LEMMA TickMoves ==
  ASSUME LeaseTypeOK, PlaceInv, LateInv, Tick
  PROVE  now' \in Ticks /\ Late' = Late + 1
<1>1. Late' = LateAt(now', secTimeout)
  BY DEF Late, LateAt, Tick
<1> QED
  BY <1>1, Numbers, LateSmall, LateAtTick, WrapTick DEF Tick

-----------------------------------------------------------------------------
\* Type correctness.

LEMMA LeaseInitInv == LeaseInit => LeaseIInv
<1> SUFFICES ASSUME LeaseInit PROVE LeaseIInv
  OBVIOUS
<1>1. LeaseTypeOK
  BY Constants, DhcpLeaseAssumption
     DEF LeaseInit, CallInit, LeaseTypeOK, CallTypeOK,
         Ticks, Seconds, Counter
<1>2. Late = 0
  BY Constants DEF LeaseInit, Late, Wrap
<1>3. PlaceInv /\ LateInv /\ LeaseInv
  BY <1>2, Constants DEF LeaseInit, CallInit, PlaceInv, LateInv, LeaseInv
<1> QED
  BY <1>1, <1>3 DEF LeaseIInv

\* What an answer leaves in the fields of the lease.
LEMMA OptionType ==
  ASSUME LeaseTypeOK, NEW o \in Options
  PROVE  /\ Parsed(leaseTime, o.lease) \in Seconds
         /\ Parsed(t1, o.t1) \in Seconds /\ Parsed(t2, o.t2) \in Seconds
         /\ SignedSec(o.lease) \in Counter
         /\ GrantedLease(o) \in Seconds
         /\ GrantedT1(o) \in Seconds /\ GrantedT2(o) \in Seconds
<1>1. /\ o.lease \in Seconds /\ o.t1 \in Seconds /\ o.t2 \in Seconds
      /\ leaseTime \in Seconds /\ t1 \in Seconds /\ t2 \in Seconds
      /\ DEFAULT_LEASE \in Seconds
  BY DhcpLeaseAssumption DEF LeaseTypeOK
<1>2. /\ Parsed(leaseTime, o.lease) \in Seconds
      /\ Parsed(t1, o.t1) \in Seconds /\ Parsed(t2, o.t2) \in Seconds
  BY <1>1 DEF Parsed
<1>3. SignedSec(o.lease) \in Counter
  BY <1>1, Constants DEF SignedSec, Seconds, Counter
<1>4. GrantedLease(o) \in Seconds
  BY <1>1, <1>2 DEF GrantedLease
<1>5. \A n \in Seconds : n \div 2 \in Seconds /\ (2 * n) % SecRange \in Seconds
  BY Constants, SMT DEF Seconds
<1>6. GrantedT1(o) \in Seconds
  BY <1>2, <1>4, <1>5 DEF GrantedT1
<1>7. GrantedT2(o) \in Seconds
  BY <1>2, <1>5, <1>6 DEF GrantedT2
<1> QED
  BY <1>2, <1>3, <1>4, <1>6, <1>7

\* A count stays in its range.
LEMMA CountedType ==
  ASSUME LeaseTypeOK, ~(Late < 0) => Factor \in Nat \ {0},
         NEW n \in Counter
  PROVE  Counted(n) \in Counter
  BY Constants, Numbers DEF Counted, Counter

LEMMA LeaseStepType ==
  LeaseTypeOK /\ PlaceInv /\ LateInv /\ [LeaseNext]_leaseVars => LeaseTypeOK'
<1> SUFFICES ASSUME LeaseTypeOK, PlaceInv, LateInv, [LeaseNext]_leaseVars
             PROVE  LeaseTypeOK'
  OBVIOUS
<1> USE Constants
<1>1. CASE Tick
  <2>1. pause' \in 0 .. MaxPoll + MaxCall /\ age' \in 0 .. AgeCap
    BY <1>1 DEF Tick, LeaseTypeOK
  <2> QED
    BY <1>1, <2>1, TickMoves DEF Tick, LeaseTypeOK, CallTypeOK, counters, times
<1>2. CASE BeginLease
  BY <1>2
     DEF BeginLease, RequestLease, Calls, LeaseTypeOK, CallTypeOK, counters, times
<1>3. CASE Granted
  <2>1. leaseTime' \in Seconds /\ t1' \in Seconds /\ t2' \in Seconds
    BY <1>3, OptionType DEF Granted
  <2>2. renew' \in Counter /\ rebind' \in Counter
    BY <1>3, <2>1 DEF Granted, SignedSec, Seconds, Counter
  <2>3. took' \in 0 .. 2 * MaxCall
    <3>1. place = "request" /\ why \in {"begin", "renew", "rebind"} /\ pause <= MaxCall
      BY <1>3 DEF Granted, CallReturns, PlaceInv, LeaseTypeOK
    <3>2. why # "begin" => Since <= 2 * MaxCall
      BY <3>1, Numbers DEF LateInv
    <3> QED
      BY <1>3, <3>2, Numbers DEF Granted, Since
  <2>4. call' \in {"none", "busy", "leased", "retry", "stuck"} /\ place' \in {"idle", "after"}
    BY <1>3 DEF Granted, CallReturns, AfterCall
  <2>5. age' \in 0 .. AgeCap /\ skips' \in 0 .. SkipCap /\ pause' \in 0 .. MaxPoll + MaxCall
    BY <1>3 DEF Granted
  <2> QED
    BY <1>3, <2>1, <2>2, <2>3, <2>4, <2>5 DEF Granted, LeaseTypeOK, CallTypeOK
<1>4. CASE Failed
  <2>1. /\ renew' \in Counter
        /\ leaseTime' \in Seconds /\ t1' \in Seconds /\ t2' \in Seconds
    BY <1>4, OptionType DEF Failed, LeaseTypeOK, times
  <2>2. call' \in {"none", "busy", "leased", "retry", "stuck"} /\ place' \in {"idle", "after"}
    BY <1>4 DEF Failed, CallReturns, AfterCall
  <2>3. /\ age' \in 0 .. AgeCap /\ skips' \in 0 .. SkipCap /\ pause' \in 0 .. MaxPoll + MaxCall
        /\ took' \in 0 .. 2 * MaxCall
    BY <1>4 DEF Failed
  <2> QED
    BY <1>4, <2>1, <2>2, <2>3 DEF Failed, LeaseTypeOK, CallTypeOK
<1>5. CASE FirstCheck
  <2>1. secTimeout' \in Ticks
    BY <1>5, FirstMoves DEF FirstCheck
  <2> QED
    BY <1>5, <2>1 DEF FirstCheck, LeaseTypeOK, CallTypeOK, counters, times
<1>6. CASE CheckLease
  <2>1. secTimeout' \in Ticks /\ (~(Late < 0) => Factor \in Nat \ {0})
    BY <1>6, LookMoves DEF CheckLease
  <2>2. renew' \in Counter /\ rebind' \in Counter
    BY <1>6, <2>1, CountedType DEF CheckLease, LeaseTypeOK
  <2>3. /\ place' \in {"idle", "request", "after"} /\ why' \in {"begin", "renew", "rebind"}
        /\ call' \in {"none", "busy", "leased", "retry", "stuck"}
        /\ pause' = 0
    BY <1>6 DEF CheckLease, RequestLease, Calls, LeaseTypeOK, CallTypeOK
  <2> QED
    BY <1>6, <2>1, <2>2, <2>3 DEF CheckLease, LeaseTypeOK, CallTypeOK, times
<1>7. CASE CheckAfterRenewal
  BY <1>7
     DEF CheckAfterRenewal, RequestLease, Calls, LeaseTypeOK, CallTypeOK, counters, times
<1>8. CASE UNCHANGED leaseVars
  BY <1>8 DEF leaseVars, LeaseTypeOK, CallTypeOK, counters, times
<1> QED
  BY <1>1, <1>2, <1>3, <1>4, <1>5, <1>6, <1>7, <1>8 DEF LeaseNext, Maintain

-----------------------------------------------------------------------------
\* The places and the times.

LEMMA LeaseStepPlace == LeaseTypeOK /\ PlaceInv /\ [LeaseNext]_leaseVars => PlaceInv'
<1> SUFFICES ASSUME LeaseTypeOK, PlaceInv, [LeaseNext]_leaseVars PROVE PlaceInv'
  OBVIOUS
<1> USE Constants, Numbers DEF PlaceInv
<1>1. CASE Tick
  BY <1>1 DEF Tick
<1>2. CASE BeginLease
  BY <1>2 DEF BeginLease, RequestLease, Calls
<1>3. CASE Granted \/ Failed
  BY <1>3 DEF Granted, Failed, CallReturns, AfterCall
<1>4. CASE FirstCheck
  BY <1>4 DEF FirstCheck
<1>5. CASE CheckLease
  BY <1>5 DEF CheckLease, RequestLease, Calls
<1>6. CASE CheckAfterRenewal
  BY <1>6 DEF CheckAfterRenewal, RequestLease, Calls
<1>7. CASE UNCHANGED leaseVars
  BY <1>7 DEF leaseVars, counters, times
<1> QED
  BY <1>1, <1>2, <1>3, <1>4, <1>5, <1>6, <1>7 DEF LeaseNext, Maintain

LEMMA LeaseStepLate ==
  LeaseTypeOK /\ PlaceInv /\ LateInv /\ [LeaseNext]_leaseVars => LateInv'
<1> SUFFICES ASSUME LeaseTypeOK, PlaceInv, LateInv, [LeaseNext]_leaseVars
             PROVE  LateInv'
  OBVIOUS
<1>1. /\ place \in {"idle", "request", "after"} /\ why \in {"begin", "renew", "rebind"}
      /\ pause \in Nat /\ Late \in Int /\ Since \in Nat
  BY Numbers DEF LeaseTypeOK
<1>2. CASE Tick
  <2>1. /\ Late' = Late + 1 /\ pause' = pause + 1
        /\ UNCHANGED <<place, why, call>> /\ place # "after"
    BY <1>2, TickMoves DEF Tick
  <2>2. (place = "request" /\ why # "begin") => Since' = Since + 1
    <3> SUFFICES ASSUME place = "request", why # "begin" PROVE Since' = Since + 1
      OBVIOUS
    <3>1. Since + 1 < MillisRange
      BY <1>1, Constants DEF LateInv, PlaceInv
    <3> QED
      BY <1>2, <3>1, Numbers, WrapTick DEF Since, Tick
  <2> QED
    BY <1>1, <2>1, <2>2, Constants DEF LateInv
<1>3. ASSUME UNCHANGED <<now, lastCheck, secTimeout>>
      PROVE  Late' = Late /\ Since' = Since
  BY <1>3 DEF Late, Since
<1>4. CASE BeginLease
  BY <1>1, <1>3, <1>4, Constants
     DEF BeginLease, RequestLease, Calls, LateInv, PlaceInv
<1>5. CASE Granted \/ Failed
  <2>1. /\ place = "request" /\ place' = AfterCall /\ pause' = 0 /\ call' # "none"
        /\ UNCHANGED <<now, lastCheck, secTimeout>>
    BY <1>5 DEF Granted, Failed, CallReturns, PlaceInv
  <2> QED
    BY <1>1, <1>3, <2>1, Constants DEF LateInv, PlaceInv, AfterCall
<1>6. CASE FirstCheck
  <2>1. /\ Late' = -Second /\ pause' = 0
        /\ UNCHANGED <<place, call>> /\ place = "idle" /\ call # "none"
    BY <1>6, FirstMoves DEF FirstCheck
  <2> QED
    BY <2>1, Constants DEF LateInv
<1>7. CASE CheckLease
  <2>1. -Second <= Late' /\ Late' <= -1
    BY <1>7, LookMoves DEF CheckLease
  <2>2. Since' = 0
    BY <1>7, Numbers, Constants DEF CheckLease, Since, Wrap, Ticks
  <2>3. /\ pause' = 0 /\ place' \in {"idle", "request"} /\ call' # "none"
        /\ place' = "request" => why' \in {"renew", "rebind"}
    BY <1>7 DEF CheckLease, RequestLease, Calls
  <2>4. Late' \in Int
    BY <1>7, LookMoves, Numbers, Constants DEF CheckLease
  <2> QED
    BY <2>1, <2>2, <2>3, <2>4, Constants DEF LateInv
<1>8. CASE CheckAfterRenewal
  <2>1. /\ place = "after" /\ pause' = 0 /\ call # "none" /\ call' # "none"
        /\ UNCHANGED <<now, lastCheck, secTimeout>>
        /\ (place' = "request" /\ why' = "rebind") \/ place' = "idle"
    BY <1>8 DEF CheckAfterRenewal, RequestLease, Calls, PlaceInv
  <2> QED
    BY <1>1, <1>3, <2>1, Constants DEF LateInv
<1>9. CASE UNCHANGED leaseVars
  BY <1>3, <1>9 DEF leaseVars, LateInv
<1> QED
  BY <1>2, <1>4, <1>5, <1>6, <1>7, <1>8, <1>9 DEF LeaseNext, Maintain

-----------------------------------------------------------------------------
\* The seconds of a lease.

\* A count that is not over was lowered by the seconds that passed.
LEMMA LeaseCounts ==
  ASSUME LeaseTypeOK, LateInv, CheckLease, call = "leased", call' = "leased"
  PROVE  /\ renew' \in Nat \ {0}
         /\ renew' <= renew
         /\ Late' = Late - Second * (renew - renew')
<1>1. renew' = Counted(renew) /\ renew' > 0
  <2>1. renew' = Counted(renew)
    BY DEF CheckLease
  <2>2. renew' \in Counter
    BY <2>1, LookMoves, CountedType DEF CheckLease, LeaseTypeOK
  <2>3. ~(renew' <= 0)
    BY DEF CheckLease, RenewDue, RequestLease, Calls
  <2> QED
    BY <2>1, <2>2, <2>3, Constants DEF Counter
<1>2. CASE Late < 0
  BY <1>1, <1>2, LookMoves, Numbers, Constants DEF CheckLease, Counted
<1>3. CASE ~(Late < 0)
  <2>1. Factor \in Nat \ {0} /\ Late' = Late - Second * Factor
    BY <1>3, LookMoves DEF CheckLease
  <2>2. renew' = renew - Factor /\ renew >= 2 * Factor
    BY <1>1, <1>3, <2>1, Numbers DEF Counted
  <2>3. renew - renew' = Factor
    BY <2>1, <2>2, Numbers
  <2> QED
    BY <1>1, <2>1, <2>2, <2>3, Numbers
<1> QED
  BY <1>2, <1>3

\* A lease that was just granted.
LEMMA GrantedLeaseInv == LeaseTypeOK /\ PlaceInv /\ LateInv /\ Granted => LeaseInv'
<1> SUFFICES ASSUME LeaseTypeOK, PlaceInv, LateInv, Granted, Positive(t1')
             PROVE  LeaseInv'
  BY DEF LeaseInv, Positive
<1>1. /\ place = "request" /\ why \in {"begin", "renew", "rebind"}
      /\ lastCheck' = lastCheck
      /\ took' = IF why = "begin" THEN 0 ELSE Since
  BY DEF Granted, CallReturns, PlaceInv, LeaseTypeOK, Since
<1>2. t1' \in Nat /\ age' = 0 /\ pause' = 0 /\ skips' = 0
  BY OptionType DEF Granted, Seconds
<1>3. renew' = t1'
  <2>1. renew' = SignedSec(t1')
    BY DEF Granted
  <2>2. t1' \in Nat /\ t1' < SecRange \div 2 /\ SecRange \div 2 \in Nat
    BY <1>2, Constants DEF Positive
  <2> QED
    BY <2>1, <2>2 DEF SignedSec
<1>4. Late' = Late
  BY DEF Granted, Late
<1>5. /\ (t1' - renew') * Second = 0 /\ (t1' - renew' + 1 + skips') * Second = Second
      /\ skips' * MaxPoll = 0
  <2>1. t1' - renew' = 0 /\ t1' - renew' + 1 + skips' = 1 /\ skips' = 0
    <3>1. \A n \in Nat : n - n = 0
      OBVIOUS
    <3>2. t1' - t1' = 0
      BY <1>2, <3>1
    <3>3. t1' - renew' = 0
      BY <1>3, <3>2
    <3> QED
      BY <1>2, <3>3
  <2>2. 0 * Second = 0 /\ 1 * Second = Second /\ 0 * MaxPoll = 0
    BY Constants
  <2> QED
    BY <2>1, <2>2
<1>6. -Second <= Late /\ Late \in Int /\ Since \in Nat /\ Second \in Nat
  BY Numbers, Constants DEF LateInv
<1>7. age' - Late' <= Second
  BY <1>2, <1>4, <1>6
<1>8. Uncounted' \/ Late' < took'
  <2>1. CASE why = "begin"
    BY <1>1, <1>3, <2>1 DEF Uncounted, PlaceInv
  <2>2. CASE why # "begin"
    <3>1. Late < Since
      BY <1>1, <2>2 DEF LateInv
    <3> QED
      BY <1>1, <1>4, <2>2, <3>1
  <2> QED
    BY <2>1, <2>2
<1>9. took' \in Nat
  BY <1>1, <1>6
<1>10. \/ Uncounted'
       \/ Late' < took' + pause' /\ (t1' - renew') * Second < age' - Late' + took'
  <2> SUFFICES ASSUME Late' < took'
               PROVE  Late' < took' + pause' /\ 0 < age' - Late' + took'
    BY <1>5, <1>8
  <2>1. \A l \in Int, k \in Nat : l < k => l < k + 0 /\ 0 < 0 - l + k
    OBVIOUS
  <2>2. Late' \in Int
    BY <1>4, <1>6
  <2> QED
    BY <1>2, <1>9, <2>1, <2>2
<1>11. age' <= pause' /\ renew' \in 0 .. t1'
  BY <1>2, <1>3
<1>12. age' - Late' <= (t1' - renew' + 1 + skips') * Second + skips' * MaxPoll
  BY <1>5, <1>6, <1>7
<1> QED
  BY <1>10, <1>11, <1>12 DEF LeaseInv

\* The looks at a lease and the time between them.
LEMMA LeaseStepSeconds == LeaseIInv /\ [LeaseNext]_leaseVars => LeaseInv'
<1> SUFFICES ASSUME LeaseIInv, [LeaseNext]_leaseVars,
                    call' = "leased", Positive(t1')
             PROVE  LeaseInv'
  BY DEF LeaseInv, Positive
<1>1. LeaseTypeOK /\ PlaceInv /\ LateInv /\ LeaseInv
  BY DEF LeaseIInv
<1> DEFINE bound == (t1 - renew + 1 + skips) * Second + skips * MaxPoll
           counted == (t1 - renew) * Second
<1>2. /\ renew \in Int /\ t1 \in Int /\ skips \in Nat /\ pause \in Nat /\ age \in Nat
      /\ took \in Nat /\ Late \in Int /\ bound \in Int /\ counted \in Int
      /\ Second \in Nat /\ MaxPoll \in Nat
  BY <1>1, Numbers, Constants
<1>3. ASSUME UNCHANGED <<call, t1>>
      PROVE  /\ renew \in 0 .. t1
             /\ age <= pause \/ Late < pause
             /\ skips < SkipCap => age - Late <= bound
             /\ Uncounted \/ Late < took + pause
             /\ Uncounted \/ (age < AgeCap => counted < age - Late + took)
  <2>1. call = "leased" /\ Positive(t1)
    BY <1>3 DEF Positive
  <2> QED
    BY <1>1, <2>1 DEF LeaseInv
<1> HIDE DEF bound, counted
<1>4. CASE Tick
  <2>1. /\ UNCHANGED <<call, t1, renew, lastCheck, took, skips>> /\ pause' = pause + 1
        /\ age' = age + 1 \/ (age' = age /\ age' = AgeCap)
    <3>1. UNCHANGED <<call, t1, renew, lastCheck, took, skips>> /\ pause' = pause + 1
      BY <1>4 DEF Tick, counters, times
    <3>2. age' = IF age < AgeCap THEN age + 1 ELSE age
      BY <1>4, <3>1 DEF Tick
    <3>3. age \in 0 .. AgeCap /\ AgeCap \in Nat
      BY <1>1, Constants DEF LeaseTypeOK
    <3> QED
      BY <3>1, <3>2, <3>3
  <2>2. Late' = Late + 1
    BY <1>1, <1>4, TickMoves
  <2>3. bound' = bound /\ counted' = counted /\ (Uncounted <=> Uncounted')
    BY <2>1 DEF bound, counted, Uncounted
  <2>4. renew' \in 0 .. t1' /\ (age' <= pause' \/ Late' < pause')
    BY <1>2, <1>3, <2>1, <2>2
  <2>5. skips' < SkipCap => age' - Late' <= bound'
    BY <1>2, <1>3, <2>1, <2>2, <2>3
  <2>6. Uncounted' \/ Late' < took' + pause'
    BY <1>2, <1>3, <2>1, <2>2, <2>3
  <2>7. Uncounted' \/ (age' < AgeCap => counted' < age' - Late' + took')
    BY <1>2, <1>3, <2>1, <2>2, <2>3, Constants
  <2> QED
    BY <2>4, <2>5, <2>6, <2>7 DEF LeaseInv, bound, counted
<1>5. CASE FirstCheck
  <2>1. /\ UNCHANGED <<call, t1, renew, age, took>> /\ pause' = 0 /\ pause <= MaxPoll
        /\ skips' < SkipCap => skips' = skips + 1
    BY <1>1, <1>5, Constants DEF FirstCheck, counters, times, PlaceInv, LeaseTypeOK
  <2>2. Late' = -Second /\ -Second <= Late
    BY <1>1, <1>5, FirstMoves DEF FirstCheck, LateInv
  <2>3. renew' \in 0 .. t1' /\ Late' < pause' /\ Late' < took' + pause'
    BY <1>2, <1>3, <2>1, <2>2, Constants
  <2>4. skips' < SkipCap => age' - Late' <= bound'
    <3> SUFFICES ASSUME skips' = skips + 1, skips < SkipCap
                 PROVE  age + Second <= bound'
      BY <1>1, <1>2, <2>1, <2>2, Constants DEF LeaseTypeOK
    <3>1. bound' = (t1 - renew + 1 + (skips + 1)) * Second + (skips + 1) * MaxPoll
      BY <2>1 DEF bound
    <3>2. bound' = bound + Second + MaxPoll
      BY <1>2, <3>1 DEF bound
    <3>3. (t1 - renew + 1 + skips) * Second >= 0 /\ skips * MaxPoll >= 0
      BY <1>2, <1>3, <2>1
    <3>4. bound >= 0
      BY <1>2, <1>3, <2>1, <3>3 DEF bound
    <3>5. age <= MaxPoll \/ age <= bound + MaxPoll
      BY <1>2, <1>3, <2>1
    <3> QED
      BY <1>2, <3>2, <3>4, <3>5
  <2>5. age' < AgeCap => counted' < age' - Late' + took'
    <3> SUFFICES ASSUME age < AgeCap PROVE counted < age + Second + took
      BY <1>2, <2>1, <2>2, Constants DEF counted
    <3>1. CASE Uncounted
      BY <1>2, <3>1, Constants DEF Uncounted, counted
    <3>2. CASE ~Uncounted
      BY <1>2, <1>3, <2>1, <2>2, <3>2
    <3> QED
      BY <3>1, <3>2
  <2> QED
    BY <2>3, <2>4, <2>5 DEF LeaseInv, bound, counted
<1>6. CASE CheckLease
  <2>1. /\ UNCHANGED <<call, t1, age, took, skips>> /\ pause' = 0
        /\ lastCheck # 0
    BY <1>6 DEF CheckLease, RequestLease, Calls, times
  <2>2. /\ renew' \in Nat \ {0} /\ renew' <= renew
        /\ Late' = Late - Second * (renew - renew')
    BY <1>1, <1>6, <2>1, LeaseCounts
  <2>3. Late' <= -1
    BY <1>1, <1>6, LookMoves DEF CheckLease
  <2> DEFINE passed == Second * (renew - renew')
  <2>4. passed \in Int /\ Late' = Late - passed
    BY <1>2, <2>2
  <2>5. bound' = bound + passed /\ counted' = counted + passed
    BY <1>2, <2>1, <2>2 DEF bound, counted
  <2> HIDE DEF passed
  <2>6. renew' \in 0 .. t1' /\ Late' < pause' /\ Late' < took' + pause'
    <3>1. Late' \in Int /\ \A l \in Int, k \in Nat : l <= -1 => l < 0 /\ l < k + 0
      BY <1>2, <2>4
    <3>2. took' \in Nat /\ renew' \in 0 .. t1'
      BY <1>2, <1>3, <2>1, <2>2
    <3> QED
      BY <2>1, <2>3, <3>1, <3>2
  <2>7. skips' < SkipCap => age' - Late' <= bound'
    BY <1>2, <1>3, <2>1, <2>4, <2>5
  <2>8. age' < AgeCap => counted' < age' - Late' + took'
    BY <1>2, <1>3, <2>1, <2>4, <2>5 DEF Uncounted
  <2> QED
    BY <2>6, <2>7, <2>8 DEF LeaseInv, bound, counted
<1>7. CASE CheckAfterRenewal \/ UNCHANGED leaseVars
  <2>1. UNCHANGED <<now, call, t1, renew, lastCheck, secTimeout, took, skips, age, pause>>
    BY <1>1, <1>7
       DEF CheckAfterRenewal, RequestLease, Calls, PlaceInv, leaseVars, counters, times
  <2>2. Late' = Late
    BY <2>1 DEF Late
  <2> QED
    BY <1>1, <2>1, <2>2 DEF LeaseInv, Positive, Uncounted
<1>8. CASE Granted
  BY <1>1, <1>8, GrantedLeaseInv
<1>9. CASE BeginLease \/ Failed
  BY <1>9 DEF BeginLease, RequestLease, Calls, Failed
<1> QED
  BY <1>4, <1>5, <1>6, <1>7, <1>8, <1>9 DEF LeaseNext, Maintain

LEMMA LeaseStep == LeaseIInv /\ [LeaseNext]_leaseVars => LeaseIInv'
  BY LeaseStepType, LeaseStepPlace, LeaseStepLate, LeaseStepSeconds DEF LeaseIInv

LEMMA LeaseInvariance == LeaseSpec => []LeaseIInv
<1>1. LeaseInit => LeaseIInv
  BY LeaseInitInv
<1>2. LeaseIInv /\ [LeaseNext]_leaseVars => LeaseIInv'
  BY LeaseStep
<1> QED
  BY <1>1, <1>2, PTL DEF LeaseSpec

-----------------------------------------------------------------------------
\* The theorems about the lease.

\* The counters, the times and the ghosts of the lease keep their types.
THEOREM LeaseTypeCorrect == LeaseSpec => []LeaseTypeOK
<1>1. LeaseIInv => LeaseTypeOK
  BY DEF LeaseIInv
<1> QED
  BY <1>1, LeaseInvariance, PTL

\* The difference of millis() and _secTimeout, which checkLease takes for signed,
\* stays between a second early and the longest time without a look: both are
\* less than half the range of the clock, so it never jumps from one end of a
\* signed long to the other, and every millisecond makes it one more.
THEOREM DifferenceNeverJumps ==
  LeaseSpec =>
    /\ [](-Second <= Late /\ Late <= Second + 2 * (MaxPoll + MaxCall))
    /\ [][Tick => Late' = Late + 1]_leaseVars
<1>1. LeaseIInv => -Second <= Late /\ Late <= Second + 2 * (MaxPoll + MaxCall)
  BY LateSmall DEF LeaseIInv, LateInv
<1>2. LeaseIInv /\ [LeaseNext]_leaseVars => [Tick => Late' = Late + 1]_leaseVars
  BY TickMoves DEF LeaseIInv
<1> QED
  BY <1>1, <1>2, LeaseInvariance, PTL DEF LeaseSpec

\* Whatever the moments of the calls of maintain(), across the rollover of
\* millis(), a lease is never older than its T1 allows.
THEOREM LeaseRenewedInTime == LeaseSpec => []RenewedInTime
<1>1. LeaseIInv => RenewedInTime
  <2> SUFFICES ASSUME LeaseIInv, call = "leased", Positive(t1), skips < SkipCap
               PROVE  age <= (t1 + 1 + skips) * Second + (1 + skips) * MaxPoll
    BY DEF RenewedInTime
  <2>1. LeaseTypeOK /\ PlaceInv /\ LeaseInv
    BY DEF LeaseIInv
  <2>2. /\ renew \in Int /\ t1 \in Nat /\ skips \in Nat /\ pause \in Nat /\ age \in Nat
        /\ Late \in Int /\ Second \in Nat /\ MaxPoll \in Nat
    BY <2>1, Numbers, Constants
  <2>3. /\ renew \in 0 .. t1 /\ (age <= pause \/ Late < pause)
        /\ age - Late <= (t1 - renew + 1 + skips) * Second + skips * MaxPoll
    BY <2>1 DEF LeaseInv
  <2>4. pause <= MaxPoll
    BY <2>1, <2>2, Constants DEF PlaceInv, LeaseTypeOK
  <2> DEFINE most == (t1 + 1 + skips) * Second + skips * MaxPoll
  <2>5. /\ most \in Nat /\ renew * Second \in Nat
        /\ age - Late <= most - renew * Second
        /\ (t1 + 1 + skips) * Second + (1 + skips) * MaxPoll = most + MaxPoll
    <3>1. renew * Second \in Nat /\ (t1 + 1 + skips) * Second \in Nat /\ skips * MaxPoll \in Nat
      BY <2>2, <2>3
    <3>2. (t1 - renew + 1 + skips) * Second = (t1 + 1 + skips) * Second - renew * Second
      BY <2>2
    <3>3. (1 + skips) * MaxPoll = MaxPoll + skips * MaxPoll
      BY <2>2
    <3> QED
      BY <2>2, <2>3, <3>1, <3>2, <3>3
  <2> HIDE DEF most
  <2> QED
    BY <2>2, <2>3, <2>4, <2>5
<1> QED
  BY <1>1, LeaseInvariance, PTL

\* A lease is not renewed before the time its rounding explains: the last look
\* counts off as much as the time since the one before it, twice.
THEOREM LeaseNotRenewedEarly == LeaseSpec => NotRenewedEarly
<1> DEFINE Early == /\ call = "leased" /\ call' = "busy" /\ why' = "renew"
                    /\ Positive(t1) /\ age < AgeCap
           Bound == (t1 - 1) * Second - MaxPoll - 2 * took
<1>1. LeaseIInv /\ [LeaseNext]_leaseVars => [Early => age > Bound]_leaseVars
  <2> SUFFICES ASSUME LeaseIInv, LeaseNext, Early PROVE age > Bound
    OBVIOUS
  <2>1. LeaseTypeOK /\ PlaceInv /\ LateInv /\ LeaseInv
    BY DEF LeaseIInv
  <2>2. /\ CheckLease /\ place = "idle" /\ lastCheck # 0
        /\ renew' = Counted(renew) /\ renew' <= 0
    <3>1. CheckLease
      BY <2>1
         DEF LeaseNext, Tick, BeginLease, Granted, Failed, CallReturns,
             Maintain, FirstCheck, CheckAfterRenewal, RequestLease
    <3> QED
      BY <3>1 DEF CheckLease, RenewDue, RequestLease
  <2>3. /\ renew \in 0 .. t1 /\ Late < took + pause
        /\ (t1 - renew) * Second < age - Late + took
    BY <2>1, <2>2 DEF LeaseInv, Uncounted
  <2>4. /\ renew \in Int /\ t1 \in Nat /\ pause \in Nat /\ age \in Nat /\ took \in Nat
        /\ Late \in Int /\ Second \in Nat \ {0} /\ MaxPoll \in Nat
    BY <2>1, Numbers, Constants
  <2>5. pause <= MaxPoll /\ -Second <= Late
    BY <2>1, <2>2 DEF PlaceInv, LateInv
  <2>6. (t1 - renew) * Second = t1 * Second - renew * Second
        /\ (t1 - 1) * Second = t1 * Second - Second
        /\ t1 * Second \in Int /\ renew * Second \in Int
    BY <2>4
  <2>7. CASE Late < 0
    <3>1. renew = 0
      BY <2>2, <2>3, <2>4, <2>7 DEF Counted
    <3>2. renew * Second = 0
      BY <2>4, <3>1
    <3> QED
      BY <2>3, <2>4, <2>5, <2>6, <3>2
  <2>8. CASE ~(Late < 0)
    <3> DEFINE q == Late \div Second
    <3>1. q \in Nat /\ Second * q <= Late
      <4> DEFINE m == Late % Second
      <4>1. Late \in Nat /\ Second \in Nat \ {0}
        BY <2>4, <2>8
      <4>2. q \in Nat /\ m \in 0 .. Second - 1 /\ Late = Second * q + m
        BY <4>1, DivMod
      <4> HIDE DEF m, q
      <4> QED
        BY <4>1, <4>2
    <3>2. Factor = q + 1
      BY DEF Factor
    <3> HIDE DEF q
    <3>3. renew <= 2 * q + 1
      BY <2>2, <2>4, <2>8, <3>1, <3>2 DEF Counted
    <3>4. renew * Second <= (2 * q + 1) * Second
      BY <2>3, <2>4, <3>1, <3>3
    <3>5. (2 * q + 1) * Second = 2 * (Second * q) + Second
      BY <2>4, <3>1
    <3> QED
      BY <2>3, <2>4, <2>5, <2>6, <3>1, <3>4, <3>5
  <2> QED
    BY <2>7, <2>8
<1>2. NotRenewedEarly <=> [][Early => age > Bound]_leaseVars
  BY PTL DEF NotRenewedEarly
<1> QED
  BY <1>1, <1>2, LeaseInvariance, PTL DEF LeaseSpec
=============================================================================
