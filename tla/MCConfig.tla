------------------------------ MODULE MCConfig ------------------------------
(***************************************************************************)
(* Config with one value besides the default, the blank and the torn one.  *)
(***************************************************************************)
EXTENDS Config

Values == {"blank", "default", "other", "torn"}
AnyNumber == Values \ {"torn"}
=============================================================================
