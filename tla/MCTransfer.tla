----------------------------- MODULE MCTransfer -----------------------------
(* Small instances of RetrieveFrom and Store for TLC. *)
EXTENDS Transfer

(* Bytes are told apart by their value, so a misplaced one shows. *)
SmallContents == {<<>>, <<1>>, <<1, 2>>, <<1, 2, 3>>, <<1, 2, 3, 4>>, <<1, 2, 3, 4, 5, 6>>}

SmallOldFiles == {<<>>, <<9, 9, 9>>, <<9, 9, 9, 9, 9, 9, 9>>}

SmallOffsets == 0..7

AtTheBeginning == {0}

FurtherOn == {0, 1}
=============================================================================
