# A TLA+ model of the LPR board firmware (Nano + WIZ550io)

The firmware runs on an Arduino Nano with a WIZ550io (W5500) Ethernet module. It
opens and closes a parking gate, triggers a camera, rings a buzzer when a shock
sensor fires, and talks to a host over UDP and TCP on port 50001. Everything is
one `loop()`, one interrupt handler and a vendored Ethernet library. The clock
is `millis()`, which wraps; the settings live in the EEPROM; the sockets live in
a chip that keeps its state when the microcontroller starts again. What can go
wrong is mostly timing: one pass of `loop()` may take milliseconds or seconds.

## Inventory

| Component | State | Operations | Interacts with |
|---|---|---|---|
| Timers on `millis()` (everywhere) | pairs `*_StartTime`, `*_OffsetTime` | find the rollover, test the delay | every component that waits |
| Timed relays (`HOST.ino` commandProc, RelayProc) | `GATE_UP_F`, `GATE_DOWN_F`, `TRIGGER_F`, timers, pins | GATE UP, GATE DOWN, GETFRAME, one RelayProc per pass | commands; anything that makes a pass long |
| Power relays | two pins | POWER ON, POWER OFF | commands |
| Command servers and reply (`loop()`, ProcPacket, SendReply) | `recvProtocol`, `client`, `ackR_F`, `nowACKSendCount`, `ReplyReqCount`, `replyBuff`, a timer | UDP and TCP reception, request, ACK_R, resend, give up | hosts, sockets, relays, settings |
| Framing (checkRecvPacketComplete, getCommand) | buffers of 24 bytes | find STX and ETX, cut out the command | command servers |
| Shock and buzzer (`interrupt`, `Shock.ino`, `Buzzer.ino`) | `interrupt_F`, `Buzzer_F`, `Buzzer_StartTime`, `Buzzer_OffsetTime`, pin | the handler, report, BuzzerProc | handler and loop share all of it, without a lock |
| Settings (`EEPROM.ino`) | EEPROM, `myDeviceObject`, `NO`..`HostPort`, chip registers | boot, first boot, eight saves, read back | commands, Ethernet library, power |
| Host reports (HostProc, CDSProc, ShockProc) | `HostClient`, retries, a time-out | connect, send, wait, hang up | sockets, the whole loop, which it blocks |
| Sockets (EthernetServer, EthernetClient, EthernetUDP, socket.cpp) | eight socket registers, `_server_port`, `_sock` of each object | begin, accept, available, connect, stop | peers, chip, both servers and HostProc |
| W5500 driver | ring-buffer pointers, size registers | copy in and out, double read of a size | sockets |
| DHCP client (`Dhcp.cpp`, `Ethernet.maintain`) | `_dhcp_state`, ids, addresses, counters of seconds | begin, renew, rebind, the request loop, checkLease | a UDP socket, the chip's address; for a sketch that uses it |
| DNS client (`Dns.cpp`) | `iRequestId`, a UDP socket | inet_aton, getHostByName, ProcessResponse | `connect(host)` and `beginPacket(host)` |
| Twitter, examples, W5100/W5200 drivers | - | - | not part of the firmware or not compiled |

What is hard: the rollover of `millis()` at any moment, polls that come late,
the interrupt between any two byte accesses, retries that cross new requests and
late acknowledgements, a power failure inside a write of the EEPROM, and peers
that change a socket between two reads of its registers. `PROJECT.json` lists
the ones that matter most, each at its line, under `hazards`.

What makes the components correct: a pulse lasts its time and ends (relays,
buzzer); a request gets a bounded number of replies and none after its
acknowledgement (reply); a shock is reported and the buzzer never sounds for
ever (alarm); the four copies of a setting agree and a save touches nothing
else, whatever the power does (settings); one listener, no stolen sockets, no
dropped command, and the server comes back to listening (sockets); a report is
repeated in pace, the host has its time to answer and `loop()` goes on (host
reports); a packet is understood whatever came before it and UDP keeps its
borders (framing); sizes are true, bytes come in order and none is overwritten
(driver); the chip uses only an address that was granted, and a lease is renewed
in time, from the server it came from (DHCP); no lookup takes another's answer, and
none outlasts its time but one whose response ends within its question (DNS).

## Modules

| Module | Models | Remarks |
|---|---|---|
| `Millis` | the two statements of every timer | `MillisRange` stands for 2^32; `Rolled` is the branch marked "overflow", `Expired` the test of the delay, `Wrap` unsigned arithmetic |
| `Relays` (over `Millis`) | relays and RelayProc | `pc` is the phase of `loop()`; the else-if chain is `Above`; `Hold` and `Release` are RelayProc in one branch |
| `AckService` | abstract: what a host that sends a request is promised | a debt of copies, cleared by the acknowledgement |
| `CommandReply` (over `Millis`) | reception, ProcPacket, the reply part of `loop()`, SendReply | implements `AckService` (`ImplementsService`) |
| `Alarm` (over `Millis`) | interrupt handler and `loop()`, BuzzerProc one access at a time | `before`, `start` and `struck` give the values a torn read may find |
| `Config` | EEPROM_Init, the save functions, read back, power failures | `EEPROM.put` is one step per field, in the order of the addresses |
| `SocketPool` | sockets shared by TcpServer, UdpServer and HostClient | one step per look at a socket; chip and peers move in between; `Reset` restarts the microcontroller only |
| `HostLink` (over `Millis`) | HostProc, CDSProc and its timer, ShockProc, the handler's flag | `pc` is a place of `loop()` or HostProc; connect, println and stop block for up to `MaxBlock`, other steps for up to `MaxGap` |
| `Mailbox` | abstract: datagrams are taken once, in order, cut to the room there is | its fairness is `TakesOn` |
| `Intake` | parsePacket, read and flush of EthernetUDP, the TCP read, ProcPacket's search for STX and ETX | implements `Mailbox` (`ImplementsMailbox`); a header is one cell that names its datagram |
| `SocketData` | available, recv, peek, send, beginPacket, write, endPacket of one socket, down to the bytes of its registers | a byte carries its number in the stream; the chip may act between any two register reads |
| `LeaseCall` | abstract: request_DHCP_lease as the lease timers see it | leased, may try again (`retry`), or never again (`stuck`); `CallSafety` is what a caller may rely on at any moment, `CallSpec` adds that the call ends |
| `DhcpRequest` | the request loop, the messages, parseDHCPResponse, the hand-over to the chip | implements `LeaseCall` (`ImplementsCall`); a server has one address and the two are the same value |
| `DhcpLease` (over `Millis`, `LeaseCall`) | checkLease and maintain | built on the call `DhcpRequest` implements; a lease comes with any of `Options` |
| `NameLookup` | the DNS client | one step per packet and per label of its question; a name stands for its address |
| `*Proofs` | theorems and proofs of the module they are named after | `CommandProofs` has those of `Intake` and `CommandReply`, `DhcpProofs` those of `DhcpRequest` and `DhcpLease`, `EthernetProofs` those of `SocketPool` and `NameLookup`, with definitions named so that both can be extended |
| `MC*` | constants for TLC; `MCRelays` also states what a comment says and the code does not keep | |

How they fit together: `loop()` reads packets (`Intake`, `SocketPool`), acts on them
(`Relays`, `Config`) and answers (`CommandReply`), then reports (`HostLink`) and
serves the buzzer (`Alarm`). The modules meet at their abstractions: `Intake` hands
`CommandReply` a text, of which that module tells four kinds apart; the time
HostProc blocks in `HostLink` is `MaxGap` of the others; `SocketData` is one socket
of `SocketPool`; `DhcpRequest` and `DhcpLease` share `LeaseCall`.

Ghost variables are marked `ghost` where they are declared; no guard of the code's
own steps reads them. The guards that bound the models: `gap < MaxGap` (or
`MaxBlock`, `MaxPoll`, `MaxCall`) in the clock's step, that is, how long a stretch
of code may take; `~struck` in `Interrupt` (one shock between two accesses);
`resets < MaxResets`, `unread[s] < MaxUnread`, `MaxQuestion`, `RxSize` and `StreamSize`, `MaxIn` and `MaxOut`, `MaxCalls`, `MaxBurst`, `MaxInbox`, `MaxAge`;
and the ghosts that saturate at `AgeCap`, `SkipCap`, `SinceCap`, `RangCap`, `SessCap`,
`CDSCap`, `MaxSpent`.

Abstractions to know of:

- RelayProc and the other timers call `millis()` twice, in the two statements of
  the timer. `Relays`, `CommandReply` and `HostLink` use one value for both: the two
  calls are microseconds apart in code no handler shares. `Alarm`, where the handler
  does share it, has both calls.
- `CommandReply` reduces packets to four kinds (`INFO`, `CMD`, `ACK_R`, `JUNK`);
  their bytes are the matter of `Intake`.
- `Alarm` keeps unsigned longs as two halves, which is what tearing needs, and
  has the report to the host as one step that begins and one that ends.
- `Config` gives a field a handful of values. `ip1` and `rh1` are apart from the
  rest of their addresses because they are single bytes and `ip1` tells an erased
  EEPROM; the others may be left `Torn`. A byte is written or not: a cell damaged
  by the power failure is outside the model.
- `SocketPool` skips the transient states of a socket (SYNRECV, TIME_WAIT) and
  counts data in reads.
- `HostLink` has the host's words as one flag, and drains them in one step that
  repeats while the host goes on talking. Nothing limits how much it says: it may
  talk for ever.
- `Intake` lets any of `Behind` stand behind a full `recvTempBuff`, where `strlen`
  runs on. What a UDP server without a socket would read is not in it.
- `SocketData` has one socket, one connection and callers that never put more into
  a packet than its buffer holds. A command (RECV, SEND) takes effect at once.
- `DhcpRequest` leaves out the option bytes but for type, id, address and server;
  subnet mask, gateway and DNS server are read and handed over with the address.
- `NameLookup` has one question per response and records that are complete. The id
  is the low part of `millis()`, so an answer that is under way for less than the
  65 seconds after which ids repeat is told apart; `MaxAge` says so, and that a
  request takes a millisecond to be written. Building the request, sending it, reading
  one label of a response and reading its records take up to `MaxGap` each.
- `inet_aton` is modelled because it decides whether there is a lookup at all; no
  property is about the addresses it computes.

## Runs

Passing runs:

| Run | Bounds | Shows |
|---|---|---|
| `relays` | clock of 9 ms, delay 1, poll gap up to 3, ages to 8, gate up and gate down | no pulse is cut short across the rollover (`NotEarly`); unless an overdue poll found the rollover, the gate-up pulse ends (`UpEnds`), and within a pass of its time (`UpHeldBounded`). The clock is longer than delay + gap + 4, so the rollover falls before, in and after a pulse; polls are early, on time and overdue by more than the delay |
| `reply` | two hosts, four kinds of message, both transports, clock of 12 ms, period 3, gap up to 2 | counters, flag and timer under every order of requests, acknowledgements and retries (`CopiesSpaced`, `TriesPrompt`); refinement of `AckService` |
| `alarm` | clock of two 2-bit halves, delay 3 | a shock at every access of BuzzerProc and during a report: the buzzer has a pending end and its full time, the shock is reported |
| `config` | four values; LI, SM, RH | one command per kind: two-part field with the erased-byte mark, field that takes any number, the save that also rewrites HostIP |
| `sockets` | three sockets, two reports a pass, one reset, port 0 allowed | listener, UDP server and one connection at once, or one socket left over from before a restart: safety, and `ListensAgain`. With four sockets the safety properties hold too (tried apart); liveness then takes too long, and the theorems cover any number |
| `host_link` | clock of 13 ms, seconds of 3 ms, readings every 2 ms, steps up to 2 ms, blocking calls up to 1 ms, a host that says as much as it likes | the host has its full time (`FullWait`), copies are spread, only a CDS report at the rollover can end without one (`Spread`, `Reported`), readings keep their pace (`CDSPaced`), and a host that is away, silent or talks and stops again stops neither `loop()` nor the readings (`CDSGoesOn`); one that never stops talking in a connection does, and `HostTalksOn` is the exception that says so. The clock is longer than a session of three seconds, so the rollover falls anywhere in it, and steps of 2 ms are long enough to miss the first second of the clock |
| `intake` | packets of 5 bytes, 6 datagrams, 3 pieces of stream, 4 things behind a full buffer, 7 cells of receive buffer | a read that ends in a frame is understood (`Understood`), no command comes of two packets (`OfOnePacket`), refinement of `Mailbox`: datagrams empty, full and too long, two at once |
| `socket_data` | buffers of 8 bytes, registers of two digits of base 4, opened just below the end of the pointers' range, lengths 4 and 8 (1 for a peek), 4 bytes in, 12 out | torn reads carry from one digit to the other, pointers and buffers wrap: `SizeWasTrue`, `BytesInOrder`, `TxIntact`, `SendReturns` |
| `dhcp_request` | two servers, one initial id for two calls, time-outs of a wait or two, up to two packets per wait, one in the receive memory | answers of two servers late, repeated, out of order, of an earlier call: `ChipGranted`, `LeaseFromItsServer`, `LeaseIsMine`, refinement of `LeaseCall`. The two servers do get mixed: REQUESTs that ask one for the address of the other are sent, and the exception of `LeaseFromItsServer`, an ACK to a message of the earlier call, is reached |
| `dhcp_lease` | clock of 26 ms, seconds of 2 ms, numbers of seconds below 16, calls of maintain() up to 4 ms apart, requests of up to 1 ms, ages to 24 ms, up to two looks that find `_lastCheck` = 0 before the properties let go, the leases of `MCOptions`, counters that start with 0 or 3 in them | looks early, late and irregular, rollover in between, leases without T1, infinite, and with T2 below T1: `RenewedInTime`, `NotRenewedEarly`, and `TriesAgain` for a client left in START; one left in another state never does |
| `name_lookup` | two names, four addresses as text, clock and ids of 6 ms, two ports, answers up to 3 ms late, waits of 2 ms, questions of up to 3 bytes, replies of eight kinds | ports are shared and ids repeat within the run, so late answers do meet another lookup (`ResolvesTheName`). Time passes at every step, also while a response is read, and the lookup whose response ends within its question does exceed every bound: `GivesUpInTime` and `LookupEnds` name it (`Hangs`) and show it is the only one |

`dhcp_request` is checked without the deadlock check, because its calls are
bounded by `MaxCalls` and a client may come to the state no call leaves. Deadlock
is checked in every other run.

One run finds a statement of the repository violated (`findings` quotes the line):
`relays_stuck`. `Nano_Wiz550io.ino:157` calls 500 ms the hold time of a relay;
when the first poll after the rollover comes later than that, the offset exceeds
the delay, the difference wraps around and the relay stays energised for weeks.

The runs name the properties that could fail in the code. The type invariants are
left to the proofs (`TypeCorrect` and its like in each `*Proofs` module); that of
`NameLookup`, which has none, holds in the same configuration with
`INVARIANT LookupTypeOK` added.

Each property of a passing run has a mutant, a changed definition next to the
original (`ArmedRearm` before `Armed` and so on), under which the run fails.

## Where the code and its comments differ

Seen while modelling; the models contain the behaviour, at the lines named here.

- A command that re-arms a pulse after its rollover keeps the old offset, so the
  new pulse is cut short (`HOST.ino:164`); gate-up commands keep the gate-down
  relay from being released (`HOST.ino:415`).
- The second copy of a TCP reply goes to a client without a socket, that of a UDP
  reply to whoever sent last (`HOST.ino:367-372`); two counters with different
  limits stop at two copies where a comment says three (`Nano_Wiz550io.ino:295`).
- A torn `Buzzer_StartTime`, or a shock inside BuzzerProc, is taken for a rollover
  and makes the buzzer sound past its time (`Buzzer.ino:6`).
- saveRemoteHostIP sets HostIP to the board's own address (`EEPROM.ino:256`).
- `connect` never returns when the host accepts and closes at once
  (`EthernetClient.cpp:62`); a report to port 0 loses a socket.
- In the first second after the rollover `millis() / second` is 0, the value
  `hostQuotient` starts with, so nothing is sent; a CDS report whose connection is
  made there and whose time ends with that second is given up unsent (`HOST.ino:47`,
  the exception in `Reported`).
- The loop that reads what the host says has no time limit (`HOST.ino:63`): a host
  that never stops talking holds `loop()`, its readings and its commands, for ever.
- HostProc finding the rollover after its time is over waits for weeks, as the
  relays do (`HOST.ino:35`); the ghost `overdue` marks it.
- `findSTX = true` in a condition accepts a packet without STX (`HOST.ino:212`), a
  packet of 24 bytes is searched beyond its buffer (232), and of two frames in one
  read only the last is understood (241).
- `Ethernet.cpp:150` says a failed renewal is tried again; one that ends in
  DISCOVER, REQUEST or REREQUEST is not. The server is never forgotten after a
  refusal (`Dhcp.cpp:331`), T1 and T2 of an earlier lease are kept (98), and an
  infinite lease is given up at once (104).
- The DNS client waits three times but asks once, where a comment says it tries up
  to three times (`Dns.cpp:136`), its first stray packet ends the lookup, and a
  response cut within its question keeps it in a loop (317).

## Fairness

`loop()` is called for ever by the Arduino core, so its steps are weakly fair,
and so is the clock (`Relays`, `Alarm`, `HostLink`, `Intake`).
Commands, datagrams and shocks are never assumed to come. `Alarm` and `HostLink`
assume that the calls that block return; where `connect` does not is `Stuck` in
`SocketPool`, and its liveness properties say so. `CDSGoesOn` assumes that shocks
stop in the end: a sensor that never rests keeps `loop()` reporting it. It assumes
nothing of the host: one that never stops talking is named as an exception.
`SocketPool` assumes that the chip gives up a connection nobody answers, which the
W5500 does after its retries, and nothing of the peers. `SocketData` assumes that
the chip sends what SEND was given or times out, and that a peer that stays
acknowledges: otherwise the chip closes the socket. `DhcpRequest`, `DhcpLease` and
`NameLookup` assume that a call that was begun goes on and that its waits pass;
servers may be silent for ever. `DhcpLease` also assumes an application that goes
on calling `maintain()`, which the library asks of it.

## Proofs

All are checked by TLAPS for every value of the constants that the named
assumptions allow (`MillisRangeAssumption`, `RelaysAssumption`, ...: positive
delays, ages that fit between the delay and the clock range, distinct marks for
erased and torn fields). Each module proves an inductive invariant `IInv`, one
step per action, and derives its theorems from it.

- `RelaysProofs`: `TypeOK`, `UpHeldBounded`, `NotEarly`. `NotEarly` is not
  inductive: the invariant says what start and offset stand for (`Fresh`: start
  is the moment of the command; `Carried`: start is 0 and the offset holds the
  milliseconds before the rollover), and that an idle timer is cleared.
- `CommandProofs`, the intake: `IntakeTypeOK`, `Understood`, `OfOnePacket` and
  `DatagramInHand` (theorem `BordersKept`), for every packet size, text and traffic.
  The first three follow from what ProcPacket does to one read (`PacketProcessed`),
  because a packet leaves `recvRealBuff` clear: the greatest position of STX and ETX,
  what `getData` copies between them, and where `strlen` stops. UDP needs to say what
  the receive buffer looks like at every step: the rest of a datagram stands in front
  (`FrontInv`), and behind every header its whole datagram and then another header
  (`HeadersInv`); a read of any length moves both.
- `CommandProofs`, the reply: `TypeOK`, `TriesPrompt`, `CopiesSpaced`, and
  `ImplementsService`, the refinement of `AckService`, whose debt depends on the
  kind of the last request (the ghost `asked`). The refinement needs the
  relation of the two counters: a reply that still has tries has copies, but for
  GETDEVICEINFO's last try.
- `AlarmProofs`: `TypeOK`, `NeverStuckOn`, `ShockKept`, `FullTime`. The last
  needs to say for every step of BuzzerProc what an undisturbed read sees.
- `ConfigProofs`: `TypeOK`, `InStep`, `OthersUntouched`, `NeverFactoryAgain`. The
  invariant carries, through `EEPROM.put`, that fields outside the save equal the
  EEPROM, that fields already passed are written, and that no address waiting to
  be written is an erased one.
- `EthernetProofs`, the sockets: `TypeOK`, `OneListener`, `UdpSocketKept`,
  `OnlyServersServed`, `UnreadKept`. The scans need what they know of the sockets
  already passed (`ScanInv`), the others who owns which socket (`OwnInv`) and
  that a leftover server tag on HostClient's socket harms nobody (`TagInv`).
- `EthernetProofs`, the lookup of names: `GivesUpInTime`, `ResolvesTheName`. The
  first counts where the time went, through the labels of the question, and says that
  a question which is at its end leaves 255 to skip, so that reading it never ends
  (`SpentInv`). The second needs the age of ids
  (`IdInv`): an id is the moment its request was begun, so every answer under way or
  in the buffer has one that is older than now, but by less than a round of the
  clock; then no earlier request has the id of this one, and what carries it is about
  this name (`NameInv`). Both rest on `MaxAge + 2 * MaxGap < IdRange`.
- `HostLinkProofs`: `TypeOK`, `FullWait`, `CDSPaced`, `Spread`, `Reported`. The
  first two after `TypeOK` need what start and offset stand for, as with the relays,
  for the timer of the session and that of the readings; `Spread` needs how many
  copies may be out in the seconds of `millis()` the session has seen. `Reported`
  needs what a session that has sent nothing looks like (`UnsentInv`): either the
  connection is new, or the clock is in its first second or has just left it, and in
  that second nothing is ever sent. The proof showed an earlier form of `Reported`, without
  the exception for readings, to be false for steps longer than a millisecond, and
  that steps must take at most two thirds of a second
  (`3 * MaxGap <= 2 * Second` in `HostLinkAssumption`); the run has such steps now.
- `SocketDataProofs`: `TypeOK`, `SizeWasTrue`, `BytesInOrder`, `TxIntact`, for every
  buffer size and every register width. For `SizeWasTrue`: during a call a size only
  grows, so what a first reading of both bytes says lies in known bounds; a second
  one that agrees with it leaves no room for a carry between the bytes. The other
  two say what each buffer holds as a window of the stream of bytes, whose borders
  are the chip's and the driver's pointers: the window moves, a write touches only
  cells outside it, and no two bytes of it share a cell because it is never wider
  than the buffer.
- `DhcpProofs`, the request loop: `TypeOK`, `ChipGranted`, `LeaseFromItsServer`,
  `LeaseIsMine`, and `CallSafety` of `LeaseCall` (each step of the loop is a step of
  the abstract call or none). The invariant says that an ACK still in the receive
  memory answers a REQUEST that was sent and that its server has granted the address
  (`InboxInv`), what the result says of the state and of the address kept
  (`ResultInv`), and that the client has asked a single server since it last forgot
  its lease (`ServerInv`): a server that acknowledges a message of after that is the
  one it will ask again, whatever address an offer left in its hands.
- `DhcpProofs`, the lease timers: `TypeOK`, `RenewedInTime`, `NotRenewedEarly`,
  `DifferenceNeverJumps`, for every clock, length of a second, lease and sequence of
  calls. The invariant bounds `Late`, the difference of `millis()` and `_secTimeout`,
  at every place, so that it never leaves the range of a signed long (`LateInv`;
  `DifferenceNeverJumps` states it), and says that the seconds counted off are those
  that passed up to `_secTimeout`, but for the rounding of each look and the time it
  took to get the lease (`LeaseInv`). It gave `NotRenewedEarly` a bound that is a
  second tighter than the one first checked.

Only model-checked: liveness (`UpEnds`, `ShockReported`, `ListensAgain`,
`CDSGoesOn`, `SendReturns`, `TriesAgain`, `LookupEnds`) and the fairness in the
refinements (`ImplementsMailbox`, `ImplementsCall`), which are beyond the prover;
the steps of `Mailbox`, because `Waiting` selects the headers of a buffer and what a
selection from `rx \o d` is takes induction over the sequence (`BordersKept` is the
part of it that needs none); and the type of what `inet_aton` computes, a fold over the name.

## Not modelled

- Power relays: two pins, no state.
- A whole pass of `loop()` with all components in one state space: too large; the
  modules meet at the abstractions named above.
- `sendto`, `recvfrom` and `igmpsend`, which nothing calls; the register access of
  the chip's address registers, beyond what `Config` has of them; SPI transfers.
- `printUDPClientIP` and other debug output, the wording of replies, the Twitter
  client, the examples, and the W5100 and W5200 drivers, which `utility/w5100.h`
  does not select.

Next, in this order: a UDP server without a socket
(`EthernetUdp.cpp:123`), which reads socket 0; commands, reply and settings in one
module, for the reply after a save that changes the address.
