------------------------------ MODULE DhcpRequest ------------------------------
(***************************************************************************)
(* The request loop of the DHCP client: DISCOVER, OFFER, REQUEST, ACK with *)
(* servers that answer late, twice, or not at all, and the three calls that*)
(* enter it: begin(), and renew and rebind of maintain().  When a renewal  *)
(* is due is the business of DhcpLease; here it may be due at any call.    *)
(* Each server has one address to give, and the two are the same value.    *)
(***************************************************************************)
EXTENDS Naturals, Sequences

CONSTANTS
  Servers,
  None,             \* the address 0.0.0.0, the same as no server
  InitialIds,       \* what random(1, 2000) may pick
  Timeout,          \* _timeout and
  ResponseTimeout,  \* _responseTimeout, in waits of parseDHCPResponse
  MaxGap,           \* most waits' worth of time a message takes to send
  MaxBurst,         \* most packets that arrive in one unit of time
  MaxCalls,         \* bound on the calls of request_DHCP_lease
  MaxInbox          \* packets the receive memory of the socket holds

ASSUME DhcpRequestAssumption ==
  /\ Servers # {} /\ None \notin Servers
  /\ InitialIds # {} /\ InitialIds \subseteq Nat \ {0}
  /\ Timeout \in Nat /\ ResponseTimeout \in Nat /\ MaxGap \in Nat
  /\ MaxBurst \in Nat /\ MaxCalls \in Nat \ {0} /\ MaxInbox \in Nat \ {0}

VARIABLES
  pc,           \* "off" before begin(), "idle" in the sketch, the others in the loop
  state,        \* _dhcp_state
  xid,          \* _dhcpTransactionId
  first,        \* _dhcpInitialTransactionId
  local,        \* _dhcpLocalIp
  server,       \* _dhcpDhcpServerIp
  result,
  elapsed,      \* millis() - startTime, up to _timeout + 1
  waited,       \* the same in parseDHCPResponse, 0 outside
  inbox,        \* packets in _dhcpUdpSocket
  chip,         \* the address the W5500 uses
  sent,         \* messages of the client, which servers may answer at any time
  gap,          \* ghost: time spent since the last step
  burst,        \* ghost: packets since time last passed
  calls,        \* ghost: calls of request_DHCP_lease
  granted,      \* ghost: addresses a server has acknowledged
  before        \* ghost: messages sent before the client last forgot its lease

ids == <<xid, first>>
lease == <<local, server>>
vars == <<pc, state, ids, lease, result, elapsed, waited, inbox, chip, sent,
          gap, burst, calls, granted, before>>

States == {"START", "DISCOVER", "REQUEST", "LEASED", "REREQUEST"}
Address == Servers \cup {None}

Message == [type : {"DISCOVER", "REQUEST"}, xid : Nat, ip : Address, server : Address]
Packet == [type : {"OFFER", "ACK", "NAK", "foreign"}, xid : Nat, from : Servers]

TypeOK ==
  /\ pc \in {"off", "idle", "nosocket", "loop", "parse", "check", "done"}
  /\ state \in States
  /\ xid \in Nat /\ first \in Nat
  /\ local \in Address
  /\ server \in Address
  /\ result \in {0, 1}
  /\ elapsed \in 0 .. Timeout + 1
  /\ waited \in 0 .. ResponseTimeout + 1
  /\ inbox \in Seq(Packet) /\ Len(inbox) <= MaxInbox
  /\ chip \in Address
  /\ \A m \in sent : m \in Message
  /\ gap \in 0 .. MaxGap
  /\ burst \in 0 .. MaxBurst
  /\ calls \in 0 .. MaxCalls
  /\ granted \subseteq Servers
  /\ before \subseteq sent

Init ==
  /\ pc = "off"
  /\ state = "START"
  /\ xid = 0 /\ first = 0
  /\ local = None
  /\ server = None
  /\ result = 0
  /\ elapsed = 0
  /\ waited = 0
  /\ inbox = <<>>
  /\ chip = None
  /\ sent = {}
  /\ gap = 0
  /\ burst = 0
  /\ calls = 0
  /\ granted = {}
  /\ before = {}

-----------------------------------------------------------------------------
\* Time and the network.

Passes(t, limit) == IF t <= limit THEN t + 1 ELSE t

\* A delay(50) of parseDHCPResponse with nothing to read.
Wait ==
  /\ pc = "parse"
  /\ inbox = <<>>
  /\ waited <= ResponseTimeout
  /\ waited' = waited + 1
  /\ elapsed' = Passes(elapsed, Timeout)
  /\ burst' = 0
  /\ UNCHANGED <<pc, state, ids, lease, result, inbox, chip, sent, gap, calls,
                 granted, before>>

\* The time endPacket() takes.
Sending ==
  /\ pc = "check"
  /\ gap < MaxGap
  /\ gap' = gap + 1
  /\ elapsed' = Passes(elapsed, Timeout)
  /\ burst' = 0
  /\ UNCHANGED <<pc, state, ids, lease, result, waited, inbox, chip, sent, calls,
                 granted, before>>

Deliver(p) ==
  /\ pc \in {"loop", "parse", "check"}
  /\ Len(inbox) < MaxInbox
  /\ burst < MaxBurst
  /\ burst' = burst + 1
  /\ inbox' = Append(inbox, p)
  /\ UNCHANGED <<pc, state, ids, lease, result, elapsed, waited, chip, sent, gap, calls, before>>

\* A server offers its address to a DISCOVER, acknowledges a REQUEST for that
\* address and refuses one for another; it ignores what names another server.
Offer(s, m) ==
  /\ m.type = "DISCOVER"
  /\ Deliver([type |-> "OFFER", xid |-> m.xid, from |-> s])
  /\ UNCHANGED granted

Acknowledge(s, m) ==
  /\ m.type = "REQUEST" /\ m.server = s /\ m.ip = s
  /\ Deliver([type |-> "ACK", xid |-> m.xid, from |-> s])
  /\ granted' = granted \cup {s}

Refuse(s, m) ==
  /\ m.type = "REQUEST" /\ m.server = s
  /\ Deliver([type |-> "NAK", xid |-> m.xid, from |-> s])
  /\ UNCHANGED granted

\* A packet for another client, or one that is no answer at all.
Foreign ==
  /\ LET s == CHOOSE s \in Servers : TRUE
     IN Deliver([type |-> "foreign", xid |-> 0, from |-> s])
  /\ UNCHANGED granted

Network ==
  \/ Foreign
  \/ \E s \in Servers, m \in sent : Offer(s, m) \/ Acknowledge(s, m) \/ Refuse(s, m)

-----------------------------------------------------------------------------
\* request_DHCP_lease.

\* Up to the while loop, or to the return before it when no socket is free.
EnterRequest(s) ==
  /\ calls < MaxCalls
  /\ calls' = calls + 1
  /\ \E id \in InitialIds : xid' = id /\ first' = id
  /\ state' = s
  /\ result' = 0
  /\ elapsed' = 0
  /\ inbox' = <<>>
  /\ gap' = 0
  /\ burst' = 0
  /\ pc' \in {"loop", "nosocket"}
  /\ UNCHANGED <<waited, chip, sent, granted>>

\* begin(): the chip has no address until a server gives one.
BeginWithDHCP ==
  /\ pc = "off"
  /\ EnterRequest("START")
  /\ local' = None
  /\ server' = None
  /\ before' = sent

Renew ==
  /\ pc = "idle"
  /\ state = "LEASED"
  /\ EnterRequest("REREQUEST")
  /\ UNCHANGED <<lease, before>>

\* checkLease may come here from the sketch or when a renewal has just ended.
Rebind ==
  /\ pc \in {"idle", "done"}
  /\ state \in {"LEASED", "START"}
  /\ EnterRequest("START")
  /\ local' = None
  /\ server' = None
  /\ before' = sent

\* The state stays what the caller made it.
NoSocket ==
  /\ pc = "nosocket"
  /\ pc' = "done"
  /\ UNCHANGED <<state, ids, lease, result, elapsed, waited, inbox, chip, sent, gap, burst,
                 calls, granted, before>>

\* send_DHCP_MESSAGE.
Sends(type, id, ip, s) ==
  sent' = sent \cup {[type |-> type, xid |-> id, ip |-> ip, server |-> s]}

Discover ==
  /\ pc = "loop"
  /\ state = "START"
  /\ xid' = xid + 1
  /\ Sends("DISCOVER", xid', None, None)
  /\ state' = "DISCOVER"
  /\ pc' = "check"
  /\ gap' = 0
  /\ UNCHANGED <<first, lease, result, elapsed, waited, inbox, chip, burst, calls, granted, before>>

Rerequest ==
  /\ pc = "loop"
  /\ state = "REREQUEST"
  /\ xid' = xid + 1
  /\ Sends("REQUEST", xid', local, server)
  /\ state' = "REQUEST"
  /\ pc' = "check"
  /\ gap' = 0
  /\ UNCHANGED <<first, lease, result, elapsed, waited, inbox, chip, burst, calls, granted, before>>

Listen ==
  /\ pc = "loop"
  /\ state \in {"DISCOVER", "REQUEST"}
  /\ pc' = "parse"
  /\ UNCHANGED <<state, ids, lease, result, elapsed, waited, inbox, chip, sent, gap, burst, calls,
                 granted, before>>

\* parseDHCPResponse returns 255.
NoResponse ==
  /\ pc = "parse"
  /\ inbox = <<>>
  /\ waited > ResponseTimeout
  /\ state' = "START"
  /\ waited' = 0
  /\ pc' = "check"
  /\ gap' = 0
  /\ UNCHANGED <<ids, lease, result, elapsed, inbox, chip, sent, burst, calls,
                 granted, before>>

\* The tests on op, remotePort, chaddr and the transaction id.
MineAnyId(p) == p.type # "foreign"
Mine(p) == p.type # "foreign" /\ first <= p.xid /\ p.xid <= xid

\* The server identifier is taken once, and again from the same server.
Named(p) == IF server = None THEN p.from ELSE server

\* The address in a packet; a refusal has none.
YiAddrOfOffers(p) == IF p.type = "OFFER" THEN p.from ELSE local
YiAddr(p) == IF p.type = "NAK" THEN None ELSE p.from

\* The state in which an answer of type t brings the lease.
Grants(t) == state = "REQUEST" /\ t = "ACK"

\* parseDHCPResponse has a packet; what its caller makes of the type.  The
\* address is copied from every packet that is ours.
Response ==
  /\ pc = "parse"
  /\ inbox # <<>>
  /\ inbox' = Tail(inbox)
  /\ pc' = "check"
  /\ gap' = 0
  /\ LET p == Head(inbox)
         ours == Mine(p)
     IN /\ local' = IF ours THEN YiAddr(p) ELSE local
        /\ server' = IF ours THEN Named(p) ELSE server
        /\ IF ours /\ state = "DISCOVER" /\ p.type = "OFFER"
           THEN /\ xid' = p.xid
                /\ Sends("REQUEST", xid', local', server')
                /\ state' = "REQUEST"
                /\ UNCHANGED result
           ELSE /\ UNCHANGED <<xid, sent>>
                /\ IF ours /\ Grants(p.type)
                   THEN state' = "LEASED" /\ result' = 1
                   ELSE /\ state' = IF ours /\ state = "REQUEST" /\ p.type = "NAK"
                                    THEN "START" ELSE state
                        /\ UNCHANGED result
  /\ waited' = 0
  /\ UNCHANGED <<first, elapsed, chip, burst, calls, granted, before>>

\* The end of the loop's body: break on the time limit.
TimeUpRequestOnly == elapsed > Timeout /\ state = "REQUEST"
TimeUp == elapsed > Timeout

Check ==
  /\ pc = "check"
  /\ IF state = "LEASED" \/ (result # 1 /\ TimeUp)
     THEN pc' = "done" /\ inbox' = <<>> /\ xid' = xid + 1
     ELSE pc' = "loop" /\ UNCHANGED <<inbox, xid>>
  /\ UNCHANGED <<state, first, lease, result, elapsed, waited, chip, sent, gap, burst, calls,
                 granted, before>>

\* begin() and maintain() hand what they got to the chip.
HandOverAlways == TRUE
HandOver == result = 1

Return ==
  /\ pc = "done"
  /\ pc' = "idle"
  /\ chip' = IF HandOver THEN local ELSE chip
  /\ elapsed' = 0
  /\ gap' = 0
  /\ burst' = 0
  /\ UNCHANGED <<state, ids, lease, result, waited, inbox, sent, calls, granted, before>>

Request == NoSocket \/ Discover \/ Rerequest \/ Listen \/ NoResponse \/ Response \/ Check \/ Return

Next == Wait \/ Sending \/ Network \/ BeginWithDHCP \/ Renew \/ Rebind \/ Request

Spec == Init /\ [][Next]_vars

\* The loop runs and its waits end; nobody has to answer.
FairSpec == Spec /\ WF_vars(Request) /\ WF_vars(Wait)

-----------------------------------------------------------------------------
\* Properties.

\* The chip never uses an address that was only offered: with offers of other
\* servers arriving at any moment, which overwrite the address the client
\* keeps, what it hands over is an address a server has acknowledged.
ChipGranted == chip # None => chip \in granted

\* The client renews its lease with the server that gave it, although it keeps
\* the first server it hears of and the address of the last packet, so that it
\* asks one server for the address of another: nobody acknowledges that.  Only
\* an acknowledgement of a message of before the client forgot its lease, with
\* an id that has come up again, may come from another server.
LeaseFromItsServer ==
  [][(state = "REQUEST" /\ state' = "LEASED") =>
       \/ local' = server'
       \/ \E m \in before : /\ m.type = "REQUEST" /\ m.ip = local'
                           /\ m.xid = Head(inbox).xid]_vars

\* The lease was granted to a message of this client with an id the current
\* request may have used.
LeaseIsMine ==
  [][(state = "REQUEST" /\ state' = "LEASED") =>
       \E m \in sent : /\ m.type = "REQUEST" /\ m.ip = local' /\ m.server = local'
                       /\ first <= m.xid /\ m.xid <= xid]_vars

\* The loop implements the call the lease timers are built on: refusals,
\* foreign packets and silence all meet the time limit, and between two calls
\* the state stays what the call left.
CallOf == CASE pc = "off" -> "none"
            [] pc \in {"nosocket", "loop", "parse", "check"} -> "busy"
            [] pc \in {"idle", "done"} -> CASE state = "LEASED" -> "leased"
                                           [] state = "START" -> "retry"
                                           [] OTHER -> "stuck"

Call == INSTANCE LeaseCall WITH call <- CallOf

ImplementsCall == Call!CallSpec
=============================================================================
