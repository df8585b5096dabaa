------------------------------- MODULE Mailbox -------------------------------
(***************************************************************************)
(* What the board promises the senders of UDP datagrams: those that reached*)
(* it are taken one at a time and in their order, each of them once, and   *)
(* never more of one than the board has room for.                          *)
(***************************************************************************)
EXTENDS Sequences, Naturals

CONSTANTS
  Datagrams,    \* sequences of bytes
  Room          \* the bytes of a datagram the board takes

VARIABLES
  mail,         \* the datagrams that wait
  taken         \* what is in hand of one of them

mvars == <<mail, taken>>

MInit == mail = <<>> /\ taken = <<>>

Arrive == \E d \in Datagrams : mail' = Append(mail, d) /\ UNCHANGED taken

Cut(d) == SubSeq(d, 1, IF Len(d) < Room THEN Len(d) ELSE Room)

\* One with no payload is only dropped.
Take ==
  /\ mail # <<>>
  /\ taken = <<>>
  /\ mail' = Tail(mail)
  /\ taken' = Cut(Head(mail))

Done == taken' = <<>> /\ UNCHANGED mail

MNext == Arrive \/ Take \/ Done

\* No datagram waits forever: weak fairness of Take, which is always possible
\* again after Done.
TakesOn == []<>(mail = <<>>) \/ []<><<Take>>_mvars

MSpec == MInit /\ [][MNext]_mvars /\ TakesOn
=============================================================================
