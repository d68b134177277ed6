----------------------------- MODULE MCSession ------------------------------
(* Small instances of Session for TLC. *)
EXTENDS Session

CONSTANT Twin       \* other bytes with the hash of block 0 of the source

(* A hash that tells all blocks apart, but for one collision. *)
MCDigest(c) == IF c = <<Twin, Twin>> THEN Source(0) ELSE c
=============================================================================
