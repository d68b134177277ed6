--------------------------- MODULE MCBlockFraming ----------------------------
(* The constants with which TLC checks BlockFraming. *)
EXTENDS BlockFraming

SourceBytes == <<1, 2, 0, 2, 1, 1, 0, 2, 1>>
MCSource(p) == SourceBytes[p + 1]
=============================================================================
