----------------------------- MODULE MCSession -----------------------------
(* A small instance of the control connection for TLC. *)
EXTENDS Session

TwoOffsets == {0, 1}

ThreeOffsets == {0, 1, 2}
=============================================================================
