------------------------------ MODULE FileCopy ------------------------------
(***************************************************************************)
(* What a caller of RetrieveFrom or Store may rely on, without resumption, *)
(* replies or connections: the copy only ever grows, it holds the source's *)
(* bytes from the offset on, in order and without gaps, and when the size  *)
(* could be checked success means that it holds all of them.               *)
(***************************************************************************)
EXTENDS Integers, Sequences

VARIABLES
  source,   \* the remote file, or src
  offset,   \* where the copy starts
  out,      \* what has been written to dest, or to the remote file
  sized,    \* is there a size to check the copy by
  outcome   \* "none", "ok" or "err"

vars == <<source, offset, out, sized, outcome>>

Wanted == SubSeq(source, offset + 1, Len(source))

Init == out = <<>> /\ sized = FALSE /\ outcome = "none"

(* Some of the bytes that are still missing are written, and the call may  *)
(* come to its end.                                                        *)
Advance ==
  /\ outcome = "none"
  /\ UNCHANGED <<source, offset>>
  /\ Len(out') >= Len(out)
  /\ out' = SubSeq(Wanted, 1, Len(out'))
  /\ sized => sized'
  /\ outcome' \in {"none", "ok", "err"}
  /\ outcome' = "ok" /\ sized' => out' = Wanted

Spec == Init /\ [][Advance]_vars
=============================================================================
