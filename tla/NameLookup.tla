------------------------------- MODULE NameLookup -------------------------------
(***************************************************************************)
(* The DNS client: getHostByName, which connect() and beginPacket() call   *)
(* with the name of a host.  It takes a name that looks like an address for*)
(* one, or else sends one request and waits three times for the first      *)
(* packet to come, which may be late, from anyone or about another name.   *)
(***************************************************************************)
EXTENDS Integers, SequencesExt

CONSTANTS
  Names,      \* names of hosts: sequences of characters, as c - '0'
  Quads,      \* addresses that are looked up as text
  IntRange,   \* 2^16, the range of an int
  IdRange,    \* 2^16, the range of a request id; the clock counts as far
  PortRange,  \* 16, the ports a lookup may use
  Replies,    \* what servers and others may send
  Timeout,    \* aTimeout, in waits
  MaxGap,     \* most time the request takes to be built, and to be sent, and
              \* most time a label of the response is read, and its records
  MaxQuestion,  \* bytes of the longest question in a response
  MaxAge,     \* most time an answer is under way
  MaxInbox    \* packets the receive buffer of the socket holds

DOT == -2

\* What a packet is to ProcessResponse, and a record of an answer.
ReplyKind == {"empty", "short", "foreign", "query", "error", "answer"}
RecordKind == {"A", "weird", "other"}

ASSUME NameLookupAssumption ==
  /\ \A n \in Names : n \in Seq(Int)
  /\ Quads \subseteq [1 .. 4 -> 0 .. 255]
  /\ IntRange \in Nat /\ IntRange % 512 = 0
  /\ PortRange \in Nat \ {0} /\ IdRange \in Nat \ {0} /\ IdRange % PortRange = 0
  /\ \A r \in Replies : /\ r.kind \in ReplyKind
                         /\ r.question \in Seq(0 .. 255) /\ Len(r.question) \in 1 .. MaxQuestion
                         /\ r.records \in Seq(RecordKind)
  /\ Timeout \in Nat /\ MaxGap \in Nat \ {0} /\ MaxQuestion \in Nat
  /\ MaxAge \in Nat /\ MaxAge + 2 * MaxGap < IdRange
  /\ MaxInbox \in Nat \ {0}

VARIABLES
  now,      \* millis(), as far as an id shows it
  stage,    \* "idle", or how far the lookup is
  name,     \* aHostname
  port,     \* local port of iUdp
  id,       \* iRequestId
  waited,   \* time spent in this place
  tries,    \* wait_retries
  inbox,    \* packets in the receive buffer of iUdp
  reply,    \* the response in hand: [name, records]
  rest,     \* bytes of its question that are not read
  len,      \* len, in the loop that skips the question
  ret,      \* what getHostByName returned
  address,  \* aResult; a name stands for its own address
  asked,    \* ghost: requests a server may still answer
  spent     \* ghost: time spent in this lookup

packet == <<reply, rest, len>>
result == <<ret, address>>
lookupVars == <<now, stage, name, port, id, waited, tries, inbox, packet, result, asked, spent>>

SUCCESS == 1
TIMED_OUT == -1
INVALID_SERVER == -2
TRUNCATED == -3
INVALID_RESPONSE == -4

NoReply == [name |-> <<>>, records |-> <<>>]

\* The time-outs with the request before them, and the reading of a response.
AnswerTime == 2 * MaxGap + 3 * (Timeout + 1)
ReadTime == (MaxQuestion + 1) * MaxGap
MaxSpent == AnswerTime + ReadTime + 1

LookupTypeOK ==
  /\ now \in 0 .. IdRange - 1
  /\ stage \in {"idle", "begun", "sending", "wait", "question", "records"}
  /\ name \in Seq(Int)
  /\ port \in 0 .. PortRange - 1
  /\ id \in 0 .. IdRange - 1
  /\ waited \in 0 .. Timeout + MaxGap + 1
  /\ tries \in 0 .. 3
  /\ Len(inbox) <= MaxInbox
  /\ reply.name \in Seq(Int) /\ reply.records \in Seq(RecordKind)
  /\ rest \in Seq(0 .. 255)
  /\ len \in 0 .. 255
  /\ ret \in -10 .. 1
  /\ address \in Seq(Int)
  /\ \A q \in asked : q.age <= MaxAge
  /\ spent \in 0 .. MaxSpent

LookupInit ==
  /\ now = 0
  /\ stage = "idle"
  /\ name = <<>>
  /\ port = 0
  /\ id = 0
  /\ waited = 0
  /\ tries = 0
  /\ inbox = <<>>
  /\ reply = NoReply
  /\ rest = <<>>
  /\ len = 0
  /\ ret = 0
  /\ address = <<0, 0, 0, 0>>
  /\ asked = {}
  /\ spent = 0

-----------------------------------------------------------------------------
\* Time and the network.

\* An answer that is under way too long is lost.
Aged == {[q EXCEPT !.age = @ + 1] : q \in {q \in asked : q.age < MaxAge}}

Passes ==
  /\ now' = (now + 1) % IdRange
  /\ asked' = Aged
  /\ spent' = IF stage = "idle" \/ spent = MaxSpent THEN spent ELSE spent + 1

\* Time outside the wait for a response.
Tick ==
  /\ stage # "wait"
  /\ stage = "idle" \/ waited < MaxGap
  /\ waited' = IF stage = "idle" THEN 0 ELSE waited + 1
  /\ Passes
  /\ UNCHANGED <<stage, name, port, id, tries, inbox, packet, result>>

\* The server may answer twice, and late: what matters is the port.
Answers(q, r) ==
  /\ stage \in {"begun", "sending", "wait"}
  /\ q.port = port
  /\ Len(inbox) < MaxInbox
  /\ inbox' = Append(inbox, [id |-> q.id, name |-> q.name, kind |-> r.kind,
                             question |-> r.question, records |-> r.records])
  /\ UNCHANGED <<now, stage, name, port, id, waited, tries, packet, result, asked, spent>>

LookupNetwork == \E q \in asked, r \in Replies : Answers(q, r)

-----------------------------------------------------------------------------
\* inet_aton.

\* An int of the board, which wraps around.
ToInt(n) ==
  LET m == n % IntRange IN IF m >= IntRange \div 2 THEN m - IntRange ELSE m

Byte(n) == n % 256

Segments == [segment |-> 1, value |-> 0, quad |-> <<0, 0, 0, 0>>, valid |-> TRUE]

\* The loop looks at every character, whatever it is, up to the fourth dot.
NextDigit(s, c) ==
  IF c # DOT
  THEN [s EXCEPT !.value = ToInt(@ * 10 + c)]
  ELSE IF s.value > 255
  THEN [s EXCEPT !.valid = FALSE]
  ELSE [s EXCEPT !.quad[s.segment] = Byte(s.value), !.segment = @ + 1, !.value = 0]

NextChar(s, c) == IF ~s.valid \/ s.segment > 4 THEN s ELSE NextDigit(s, c)

inet_aton(text) ==
  LET s == FoldLeft(NextChar, Segments, text)
  IN IF ~s.valid \/ s.value > 255 \/ s.segment > 4
     THEN [ok |-> FALSE, quad |-> s.quad]
     ELSE [ok |-> TRUE, quad |-> [s.quad EXCEPT ![s.segment] = Byte(s.value)]]

-----------------------------------------------------------------------------
\* getHostByName.

\* It returns, and has stopped its socket if it had one.
Returns(code) ==
  /\ ret' = code
  /\ stage' = "idle"
  /\ port' = 0 /\ id' = 0
  /\ waited' = 0 /\ tries' = 0
  /\ inbox' = <<>>
  /\ reply' = NoReply /\ rest' = <<>> /\ len' = 0
  /\ spent' = 0

\* The address is text, there is no server to ask, or no socket.
Lookup(n) ==
  /\ stage = "idle"
  /\ name' = n
  /\ address' = inet_aton(n).quad
  /\ IF inet_aton(n).ok
     THEN Returns(SUCCESS)
     ELSE \/ Returns(INVALID_SERVER)
          \/ Returns(0)
          \/ /\ stage' = "begun"
             /\ port' = now % PortRange
             /\ ret' = 0
             /\ UNCHANGED <<id, waited, tries, inbox, packet, spent>>
  /\ UNCHANGED <<now, asked>>

\* BuildRequest; the writes behind the id take their time.
BuildRequest ==
  /\ stage = "begun"
  /\ id' = now
  /\ stage' = "sending"
  /\ waited' = 0
  /\ UNCHANGED <<now, name, port, tries, inbox, packet, result, asked, spent>>

EndPacket ==
  /\ stage = "sending"
  /\ waited > 0
  /\ asked' = asked \cup {[id |-> id, name |-> name, port |-> port, age |-> 0]}
  /\ stage' = "wait"
  /\ waited' = 0
  /\ UNCHANGED <<now, name, port, id, tries, inbox, packet, result, spent>>

\* Nobody answers ARP.
NotSent ==
  /\ stage = "sending"
  /\ waited > 0
  /\ Returns(0)
  /\ UNCHANGED <<now, name, address, asked>>

-----------------------------------------------------------------------------
\* ProcessResponse.

\* parsePacket() <= 0, which an empty datagram is, too.
Arrived == inbox # <<>> /\ Head(inbox).kind # "empty"
NoPacket == stage = "wait" /\ ~Arrived

MinOf(a, b) == IF a < b THEN a ELSE b

TimeUpNever == FALSE
TimeUp == waited > Timeout

Delay ==
  /\ NoPacket
  /\ ~TimeUp
  /\ inbox' = IF inbox = <<>> THEN inbox ELSE Tail(inbox)
  /\ waited' = MinOf(waited + 1, Timeout + MaxGap + 1)
  /\ Passes
  /\ UNCHANGED <<stage, name, port, id, tries, packet, result>>

\* The wait is repeated, the request is not.
WaitsAgainOnce(n) == n <= 3
WaitsAgain(n) == n < 3

TimedOut ==
  /\ NoPacket
  /\ TimeUp
  /\ IF WaitsAgain(tries + 1)
     THEN /\ tries' = tries + 1
          /\ waited' = 0
          /\ inbox' = IF inbox = <<>> THEN inbox ELSE Tail(inbox)
          /\ UNCHANGED <<stage, port, id, packet, ret, spent>>
     ELSE Returns(TIMED_OUT)
  /\ UNCHANGED <<now, name, address, asked>>

\* The id of the request, in a response.
IsAnswerAny(p) == p.kind # "query"
IsAnswer(p) == p.id = id /\ p.kind # "query"

\* The first packet with a byte in it decides.
Refusal(p) ==
  CASE p.kind = "foreign" -> INVALID_SERVER
    [] p.kind = "short" -> TRUNCATED
    [] p.kind \in {"query", "answer", "error"} /\ ~IsAnswer(p) -> INVALID_RESPONSE
    [] p.kind = "error" /\ IsAnswer(p) -> -5
    [] p.kind = "answer" /\ IsAnswer(p) /\ p.records = <<>> -> -6
    [] OTHER -> 0

Refused ==
  /\ stage = "wait" /\ Arrived
  /\ Refusal(Head(inbox)) # 0
  /\ Returns(Refusal(Head(inbox)))
  /\ UNCHANGED <<now, name, address, asked>>

Accepted ==
  /\ stage = "wait" /\ Arrived
  /\ Refusal(Head(inbox)) = 0
  /\ reply' = [name |-> Head(inbox).name, records |-> Head(inbox).records]
  /\ rest' = Head(inbox).question
  /\ stage' = "question"
  /\ waited' = 0
  /\ UNCHANGED <<now, name, port, id, tries, inbox, len, result, asked, spent>>

\* while (len--) leaves 255.
LenAfter == 255

\* read() of a packet that is at its end leaves len as it is.  Each label takes
\* its time.
SkipLabel ==
  /\ stage = "question"
  /\ LET n == IF rest = <<>> THEN len ELSE Head(rest)
     IN IF n = 0
        THEN stage' = "records" /\ rest' = <<>> /\ len' = 0
        ELSE /\ rest' = SubSeq(rest, n + 2, Len(rest))
             /\ len' = LenAfter
             /\ UNCHANGED stage
  /\ waited' = 0
  /\ UNCHANGED <<now, name, port, id, tries, inbox, reply, result, asked, spent>>

\* The first address among the records.
ReadRecords ==
  /\ stage = "records"
  /\ LET k == SelectInSeq(reply.records, LAMBDA kind : kind # "other")
     IN IF k = 0
        THEN Returns(-10) /\ UNCHANGED address
        ELSE IF reply.records[k] = "weird"
        THEN Returns(-9) /\ UNCHANGED address
        ELSE Returns(SUCCESS) /\ address' = reply.name
  /\ UNCHANGED <<now, name, asked>>

GetHostByName ==
  \/ BuildRequest \/ EndPacket \/ NotSent
  \/ Delay \/ TimedOut \/ Refused \/ Accepted \/ SkipLabel \/ ReadRecords

-----------------------------------------------------------------------------
\* An address as text.

Digits(n) ==
  IF n < 10 THEN <<n>>
  ELSE IF n < 100 THEN <<n \div 10, n % 10>>
  ELSE <<n \div 100, (n \div 10) % 10, n % 10>>

Text(q) ==
  Digits(q[1]) \o <<DOT>> \o Digits(q[2]) \o <<DOT>> \o Digits(q[3]) \o <<DOT>> \o Digits(q[4])

LookupNext ==
  \/ Tick \/ LookupNetwork \/ GetHostByName
  \/ \E n \in Names \cup {Text(q) : q \in Quads} : Lookup(n)

LookupSpec == LookupInit /\ [][LookupNext]_lookupVars

\* A lookup that was begun goes on, and time passes meanwhile; nobody has to
\* answer.
LookupFairSpec == LookupSpec /\ WF_lookupVars(GetHostByName) /\ WF_lookupVars(Tick)

-----------------------------------------------------------------------------
\* Properties.

\* The loop that skips the question finds len = 255 for ever, when a response
\* ends within its own question.
Hangs == stage = "question" /\ rest = <<>>

\* Under silence, empty and late packets a lookup waits no longer than three
\* time-outs and the time its request took; it then keeps its caller for the
\* reading of one response, unless that response ends within its question:
\* getHostByName has no time limit there and never returns.
GivesUpInTime ==
  /\ stage = "wait" => spent <= AnswerTime
  /\ spent > AnswerTime + ReadTime => Hangs

\* The address of another name is never taken: not from the late or repeated
\* answer to an earlier lookup, although lookups share ports and ids repeat.
ResolvesTheName ==
  [][(stage = "records" /\ ret' = SUCCESS /\ stage' = "idle") => address' = name]_lookupVars

\* A lookup ends, unless its response ends within its own question.
LookupEnds == (stage # "idle") ~> (stage = "idle" \/ Hangs)
=============================================================================
