-------------------------- MODULE MCOrderedChannel --------------------------
(* Small instances of OrderedChannel for TLC. *)
EXTENDS OrderedChannel

CONSTANT MaxIdx     \* the largest index sent

MCIndices == 0 .. MaxIdx
=============================================================================
