------------------------------ MODULE Framing -------------------------------
(* Numbers on the wire: big-endian, in a header of fixed length. *)
EXTENDS Integers, Sequences

CONSTANTS
  HeaderLen,        \* bytes of a header: 8
  Base              \* values of a byte: 256

ASSUME FramingAssumption == HeaderLen \in Nat \ {0} /\ Base \in Nat \ {0, 1}

Byte == 0 .. (Base - 1)

(* What a shift by n bytes multiplies with; a u64 is a number below Word. *)
Power[n \in 0 .. HeaderLen] == IF n = 0 THEN 1 ELSE Power[n - 1] * Base
Word == Power[HeaderLen]

(* The loop that takes the lowest byte and shifts, last byte first. *)
Encode(x) == [i \in 1 .. HeaderLen |-> (x \div Power[HeaderLen - i]) % Base]

(* The loop that shifts and adds, first byte first. *)
Decode(start, bytes) ==
  LET sum[n \in 0 .. Len(bytes)] ==
        IF n = 0 THEN start ELSE (sum[n - 1] * Base + bytes[n]) % Word
  IN  sum[Len(bytes)]

(* Vec::resize(n, 0), and bytes put into a vector after position `at'. *)
Resize(v, n)       == [i \in 1 .. n |-> IF i <= Len(v) THEN v[i] ELSE 0]
Fill(v, at, bytes) ==
  [i \in 1 .. Len(v) |-> IF i \in (at + 1) .. (at + Len(bytes))
                         THEN bytes[i - at] ELSE v[i]]

Drop(s, n) == SubSeq(s, n + 1, Len(s))

-----------------------------------------------------------------------------
(* A sequence of frames as the stream of their bytes, for the invariants. *)

(* Where the n-th frame ends: the length of the first n together. *)
Ends(frames) ==
  LET end[n \in 0 .. Len(frames)] ==
        IF n = 0 THEN 0 ELSE end[n - 1] + Len(frames[n])
  IN  end

Total(frames) == Ends(frames)[Len(frames)]

(* The bytes are those of the stream that follow the first `at'. *)
Follow(bytes, frames, at) ==
  /\ at + Len(bytes) <= Total(frames)
  /\ \A j \in 1 .. Len(frames) : \A p \in 1 .. Len(frames[j]) :
       Ends(frames)[j - 1] + p - at \in 1 .. Len(bytes) =>
         bytes[Ends(frames)[j - 1] + p - at] = frames[j][p]
=============================================================================
