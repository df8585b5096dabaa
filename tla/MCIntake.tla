------------------------------- MODULE MCIntake -------------------------------
(***************************************************************************)
(* Intake with packets of five bytes: frames, pieces of frames, two frames *)
(* in one, empty, full and too long datagrams, and garbage behind a full   *)
(* buffer.                                                                 *)
(***************************************************************************)
EXTENDS Intake

CONSTANTS a, b

MCText == {a, b}

MCDatagrams ==
  {<<>>, <<STX, a, ETX>>, <<b, ETX>>, <<STX, a, NUL, ETX>>,
   <<STX, a, b, a, ETX>>, <<STX, a, ETX, b, STX, ETX>>}

MCSegments == {<<STX>>, <<b, ETX>>, <<STX, b, ETX>>}

MCBehind == {<<>>, <<ETX>>, <<b, ETX>>, <<STX, a, ETX>>}
=============================================================================
