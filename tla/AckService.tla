----------------------------- MODULE AckService -----------------------------
(***************************************************************************)
(* What the board promises a host that sends it a request: a bounded number*)
(* of copies of the reply, none of them after the host has acknowledged it,*)
(* and a new request starts a new reply.                                   *)
(***************************************************************************)
EXTENDS Naturals

CONSTANTS
  Kinds,        \* the kinds of request
  NoKind,       \* no request yet
  Copies(_)     \* copies of the reply a request of a kind is worth

VARIABLES
  asked,        \* the kind of the last request
  owed,         \* copies still to be sent
  sent,         \* copies sent since the last request
  acked         \* the last reply was acknowledged, or given up

avars == <<asked, owed, sent, acked>>

AInit == asked = NoKind /\ owed = 0 /\ sent = 0 /\ acked = TRUE

Request(k) ==
  /\ asked' = k
  /\ owed' = Copies(k)
  /\ sent' = 0
  /\ acked' = FALSE

SendCopy ==
  /\ owed > 0
  /\ ~acked
  /\ owed' = owed - 1
  /\ sent' = sent + 1
  /\ UNCHANGED <<asked, acked>>

Acknowledge ==
  /\ owed' = 0
  /\ acked' = TRUE
  /\ UNCHANGED <<asked, sent>>

\* The sender gives up only when it owes nothing.
GiveUp ==
  /\ owed = 0
  /\ acked' = TRUE
  /\ UNCHANGED <<asked, owed, sent>>

ANext == (\E k \in Kinds : Request(k)) \/ SendCopy \/ Acknowledge \/ GiveUp

ASpec == AInit /\ [][ANext]_avars
=============================================================================
