------------------------ MODULE StringFramingProofs ------------------------
(***************************************************************************)
(* The hashes that ResumableReadString returns are those that              *)
(* ResumableWriteString was given.  The invariant says that at every await *)
(* the reader's struct and the bytes in flight continue the stream of      *)
(* frames; each action keeps it.                                           *)
(***************************************************************************)
EXTENDS StringFraming, FramingProofs

(* The frame of a string: the header with its length, then its bytes. *)
LEMMA FrameFacts ==
  ASSUME NEW s \in Strings
  PROVE  /\ Frame(s) \in Seq(Byte) /\ Len(Frame(s)) = HeaderLen + Len(s)
         /\ \A i \in 1 .. HeaderLen : Frame(s)[i] = Encode(Len(s))[i]
         /\ \A i \in 1 .. Len(s) : Frame(s)[HeaderLen + i] = s[i]
<1>1. s \in Seq(Byte) /\ Len(s) \in Nat
  BY DEF Strings
<1>2. PICK h \in Seq(Byte) : h = Encode(Len(s)) /\ Len(h) = HeaderLen
  BY <1>1, EncodeFacts, Zenon
<1> QED BY <1>1, <1>2 DEF Frame

(* A sequence whose items are the first items of another is its prefix. *)
LEMMA PrefixByItems ==
  ASSUME NEW S, NEW a \in Seq(S), NEW b \in Seq(S), Len(a) <= Len(b),
         \A i \in 1 .. Len(a) : a[i] = b[i]
  PROVE  IsPrefix(a, b)
BY DEF IsPrefix

(* The stream has one frame for each string that was started. *)
LEMMA StreamFacts ==
  ASSUME TypeOK
  PROVE  /\ Stream \in Frames /\ Len(Stream) = Len(started)
         /\ Len(started) \in Nat /\ Len(received) \in Nat
         /\ \A i \in 1 .. Len(started) :
              started[i] \in Strings /\ Stream[i] = Frame(started[i])
<1>1. /\ Len(started) \in Nat /\ Len(received) \in Nat
      /\ \A i \in 1 .. Len(started) : started[i] \in Strings
  BY DEF TypeOK
<1>2. \A i \in 1 .. Len(started) : Frame(started[i]) \in Seq(Byte)
  BY <1>1, FrameFacts
<1> QED BY <1>1, <1>2 DEF Stream, Frames

(* The bytes read and the bytes in flight are within the stream; if the    *)
(* reader is inside a frame, or anything is in flight, there is a string   *)
(* that has been started and not been received.                            *)
LEMMA ConsumedFacts ==
  ASSUME IInv
  PROVE  /\ Consumed \in Nat /\ Total(Stream) \in Nat
         /\ InFlight \in Seq(Byte) /\ Len(InFlight) \in Nat
         /\ Len(wire) <= Len(InFlight)
         /\ \A i \in 1 .. Len(wire) : InFlight[i] = wire[i]
         /\ Consumed + Len(InFlight) <= Total(Stream)
         /\ (offset > 0 \/ InFlight # <<>>) =>
              Len(received) + 1 \in 1 .. Len(started)
<1> DEFINE k == Len(received)
<1>1. /\ TypeOK /\ InStep /\ k \in 0 .. Len(started) /\ offset \in Nat
  BY StreamFacts, FramingAssumption DEF IInv, TypeOK
<1>2. AreEnds(Ends(Stream), Stream) /\ Len(Stream) = Len(started)
  BY <1>1, StreamFacts, EndsFacts
<1>3. Ends(Stream)[k] \in Nat /\ Total(Stream) \in Nat
      /\ Total(Stream) = Ends(Stream)[Len(started)]
  BY <1>1, <1>2, StreamFacts DEF AreEnds, Total
<1>4. Consumed = Ends(Stream)[k] + offset
  BY DEF Consumed
<1>5. /\ InFlight \in Seq(Byte) /\ Len(InFlight) \in Nat
      /\ Len(wire) <= Len(InFlight)
      /\ \A i \in 1 .. Len(wire) : InFlight[i] = wire[i]
  BY <1>1 DEF InFlight, TypeOK
<1>6. Consumed + Len(InFlight) <= Total(Stream)
  BY <1>1 DEF InStep, Follow
<1>7. ASSUME offset > 0 \/ InFlight # <<>> PROVE k # Len(started)
  <2>1. offset + Len(InFlight) > 0
    BY <1>1, <1>5, <1>7
  <2> QED BY <1>1, <1>3, <1>4, <1>5, <1>6, <2>1
<1> HIDE DEF k
<1>8. k # Len(started) => k + 1 \in 1 .. Len(started)
  BY <1>1, StreamFacts
<1> QED BY <1>1, <1>3, <1>4, <1>5, <1>6, <1>7, <1>8, SMTT(60) DEF k

(* A read of n bytes from the wire, in the header or in the payload, keeps *)
(* reader and stream in step, and what it gets are the next bytes of the   *)
(* current frame.                                                          *)
LEMMA Reading ==
  ASSUME IInv, NEW n \in 1 .. Len(wire),
         wire' = Drop(wire, n), offset' = offset + n,
         UNCHANGED <<wbuf, closed, started, received>>
  PROVE  /\ InStep'
         /\ Len(received) + 1 \in 1 .. Len(started)
         /\ \A i \in 1 .. n :
              offset + i <= Len(Frame(started[Len(received) + 1])) =>
                wire[i] = Frame(started[Len(received) + 1])[offset + i]
<1> DEFINE k == Len(received)
<1>1. /\ TypeOK /\ InStep /\ k \in 0 .. Len(started) /\ offset \in Nat
      /\ wire \in Seq(Byte) /\ wbuf \in Seq(Byte) /\ n \in Nat /\ n <= Len(wire)
      /\ n > 0
  BY StreamFacts, FramingAssumption DEF IInv, TypeOK
<1>2. /\ Consumed \in Nat /\ InFlight \in Seq(Byte) /\ Len(InFlight) \in Nat
      /\ Len(wire) <= Len(InFlight) /\ Total(Stream) \in Nat
      /\ \A i \in 1 .. Len(wire) : InFlight[i] = wire[i]
      /\ k + 1 \in 1 .. Len(started)
  <2>1. InFlight # <<>>
    BY <1>1, ConsumedFacts
  <2> QED BY <2>1, ConsumedFacts
<1>3. Stream' = Stream
  BY DEF Stream
<1>4. Consumed' = Consumed + n
  <2>1. Ends(Stream)[k] + offset = Consumed /\ (Ends(Stream)[k])' = Ends(Stream)[k]
    BY <1>3 DEF Consumed
  <2>2. AreEnds(Ends(Stream), Stream) /\ Len(Stream) = Len(started)
    BY <1>1, StreamFacts, EndsFacts
  <2>3. Ends(Stream)[k] \in Nat
    BY <1>1, <2>2 DEF AreEnds
  <2> QED BY <1>1, <2>1, <2>3 DEF Consumed
<1>5. InFlight' = Drop(InFlight, n)
  <2>1. CASE closed
    BY <2>1 DEF InFlight
  <2>2. CASE ~closed
    <3>1. Drop(wire, n) \o wbuf = Drop(wire \o wbuf, n)
      <4>1. n \in 0 .. Len(wire)
        BY <1>1
      <4> QED BY <1>1, <4>1, DropConcat, Zenon
    <3> QED BY <2>2, <3>1 DEF InFlight
  <2> QED BY <2>1, <2>2
<1>6. n \in 0 .. Len(InFlight)
  BY <1>1, <1>2
<1>7. Follow(InFlight, Stream, Consumed)
  BY <1>1 DEF InStep
<1>8. Stream \in Frames /\ Len(Stream) = Len(started)
      /\ Stream[k + 1] = Frame(started[k + 1])
  BY <1>1, <1>2, StreamFacts
<1>9. InStep'
  <2>1. Follow(Drop(InFlight, n), Stream, Consumed + n)
    BY <1>2, <1>6, <1>7, <1>8, FollowDrop
  <2>2. Len(Drop(InFlight, n)) = Len(InFlight) - n
    BY <1>2, <1>6 DEF Drop
  <2>3. ~closed => Consumed + Len(InFlight) = Total(Stream)
    BY <1>1 DEF InStep
  <2>4. ~closed => (Consumed + n) + Len(Drop(InFlight, n)) = Total(Stream)
    BY <1>1, <1>2, <2>2, <2>3
  <2> QED BY <1>3, <1>4, <1>5, <2>1, <2>4 DEF InStep
<1>10. ASSUME NEW i \in 1 .. n, offset + i <= Len(Frame(started[k + 1]))
       PROVE  wire[i] = Frame(started[k + 1])[offset + i]
  <2>1. i \in 1 .. Len(InFlight) /\ InFlight[i] = wire[i] /\ (k + 1) - 1 = k
    BY <1>1, <1>2
  <2>2. Follow(InFlight, Stream, Ends(Stream)[(k + 1) - 1] + offset)
    BY <1>7, <2>1 DEF Consumed
  <2>3. k + 1 \in 1 .. Len(Stream) /\ offset + i <= Len(Stream[k + 1])
    BY <1>2, <1>8, <1>10
  <2> HIDE DEF k
  <2>4. InFlight[i] = Stream[k + 1][offset + i]
    BY <1>1, <1>2, <1>8, <2>1, <2>2, <2>3, FollowHere, Zenon
  <2> QED BY <1>8, <2>1, <2>4
<1> QED BY <1>2, <1>9, <1>10

(* The invariant holds before anything is sent. *)
LEMMA InitHolds == Init => IInv
<1> SUFFICES ASSUME Init PROVE IInv
  OBVIOUS
<1>1. TypeOK
  <2>1. 0 \in 0 .. (Word - 1) /\ 0 \in 0 .. (HeaderLen + 0)
    BY WordFacts, FramingAssumption
  <2>2. /\ <<>> \in Seq(Byte) /\ <<>> \in Seq(Strings) /\ Len(<<>>) = 0
        /\ 0 <= NetCap
    BY StringFramingAssumption
  <2>3. todo \in Seq(Strings)
    BY StringFramingAssumption, Zenon DEF Init
  <2> QED BY <2>1, <2>2, <2>3, Zenon DEF Init, TypeOK
<1>2. Stream = <<>> /\ InFlight = <<>> /\ Stream \in Frames
  BY <1>1 DEF Init, Stream, InFlight, Frames
<1>3. Ends(Stream)[0] = 0 /\ Total(Stream) = 0 /\ Consumed = 0
  <2>1. AreEnds(Ends(Stream), Stream) /\ Len(Stream) = 0
    BY <1>2, EndsFacts
  <2> QED BY <2>1 DEF AreEnds, Total, Consumed, Init
<1>4. InStep
  BY <1>2, <1>3 DEF InStep, Follow
<1>5. Resumable
  BY FramingAssumption DEF Init, Resumable
<1> QED BY <1>1, <1>4, <1>5 DEF IInv, Init

(* ResumableWriteString::new() puts a whole frame behind everything that   *)
(* is in flight.                                                           *)
LEMMA NextStringStep ==
  ASSUME IInv, NextString
  PROVE  IInv'
<1> DEFINE s == Head(todo)
<1>1. /\ TypeOK /\ InStep /\ s \in Strings /\ Tail(todo) \in Seq(Strings)
      /\ Len(started) \in Nat /\ Len(received) \in Nat
      /\ Len(received) <= Len(started)
  BY DEF IInv, TypeOK, NextString
<1>2. Frame(s) \in Seq(Byte)
  BY <1>1, FrameFacts
<1>3. /\ started' \in Seq(Strings) /\ Len(started') = Len(started) + 1
      /\ \A i \in 1 .. Len(started) : started'[i] = started[i]
      /\ started'[Len(started) + 1] = s
  BY <1>1 DEF TypeOK, NextString
<1>4. TypeOK'
  BY <1>1, <1>2, <1>3 DEF TypeOK, NextString, reader
<1>5. Stream \in Frames /\ Len(Stream) = Len(started)
  BY <1>1, StreamFacts
<1>6. Stream' = Append(Stream, Frame(s))
  <2>1. /\ Stream' \in Seq(Seq(Byte)) /\ Len(Stream') = Len(started) + 1
        /\ \A i \in 1 .. (Len(started) + 1) : Stream'[i] = Frame(started'[i])
    <3>1. \A i \in 1 .. Len(started') : Frame(started'[i]) \in Seq(Byte)
      BY <1>3, FrameFacts
    <3> QED BY <1>1, <1>3, <3>1 DEF Stream
  <2>2. /\ Append(Stream, Frame(s)) \in Seq(Seq(Byte))
        /\ Len(Append(Stream, Frame(s))) = Len(started) + 1
        /\ \A i \in 1 .. Len(started) : Append(Stream, Frame(s))[i] = Frame(started[i])
        /\ Append(Stream, Frame(s))[Len(started) + 1] = Frame(s)
    BY <1>1, <1>2, <1>5, StreamFacts DEF Frames
  <2>3. ASSUME NEW i \in 1 .. (Len(started) + 1)
        PROVE  Stream'[i] = Append(Stream, Frame(s))[i]
    <3>1. CASE i \in 1 .. Len(started)
      BY <1>3, <2>1, <2>2, <3>1
    <3>2. CASE i = Len(started) + 1
      BY <1>3, <2>1, <2>2, <3>2
    <3>3. i \in 1 .. Len(started) \/ i = Len(started) + 1
      BY <1>1
    <3> QED BY <3>1, <3>2, <3>3, Zenon
  <2> QED BY <2>1, <2>2, <2>3, SameSeq
<1>7. Consumed' = Consumed
  <2>1. Len(received) \in 0 .. Len(Stream)
    BY <1>1, <1>5
  <2>2. Ends(Append(Stream, Frame(s)))[Len(received)] = Ends(Stream)[Len(received)]
    BY <1>2, <1>5, <2>1, EndsAppend
  <2>3. received' = received /\ offset' = offset
    BY DEF NextString, reader
  <2> QED BY <1>6, <2>2, <2>3 DEF Consumed
<1>8. InFlight = wire /\ InFlight' = wire \o Frame(s)
  <2>1. wire \o <<>> = wire
    BY <1>1 DEF TypeOK
  <2> QED BY <2>1 DEF InFlight, NextString
<1>9. InStep'
  <2>1. Follow(wire, Stream, Consumed) /\ Consumed + Len(wire) = Total(Stream)
    BY <1>1, <1>8 DEF InStep, NextString
  <2>2. Consumed \in Nat /\ wire \in Seq(Byte)
    BY <1>1, ConsumedFacts DEF TypeOK
  <2>3. /\ Follow(wire \o Frame(s), Append(Stream, Frame(s)), Consumed)
        /\ Consumed + Len(wire \o Frame(s)) = Total(Append(Stream, Frame(s)))
    BY <1>2, <1>5, <2>1, <2>2, FollowMore
  <2> QED BY <1>6, <1>7, <1>8, <2>3 DEF InStep
<1>10. Resumable'
  <2>0. UNCHANGED <<rpc, offset, size, buf, received>> /\ offset \in Nat
    BY <1>1, WordFacts, FramingAssumption DEF NextString, reader,
         TypeOK
  <2>1. CASE offset = 0
    BY <2>0, <2>1, FramingAssumption DEF IInv, Resumable
  <2>2. CASE offset > 0
    <3>1. Len(received) + 1 \in 1 .. Len(started)
      BY <2>2, ConsumedFacts
    <3>2. started'[Len(received) + 1] = started[Len(received) + 1]
      BY <1>3, <3>1
    <3> QED BY <2>0, <3>2 DEF IInv, Resumable
  <2> QED BY <2>0, <2>1, <2>2
<1>11. /\ Len(received') <= Len(started')
       /\ \A i \in 1 .. Len(received') :
            received'[i] = started'[i] /\ Len(received'[i]) <= MaxLen
  <2>1. received' = received
    BY DEF NextString, reader
  <2>2. \A i \in 1 .. Len(received) : i \in 1 .. Len(started)
    BY <1>1
  <2> QED BY <1>1, <1>3, <2>1, <2>2 DEF IInv
<1> QED BY <1>4, <1>9, <1>10, <1>11 DEF IInv

(* What only moves or loses bytes at the sender's end leaves the reader    *)
(* alone.                                                                  *)
LEMMA SenderFrame ==
  ASSUME IInv, UNCHANGED <<started, reader>>
  PROVE  /\ Stream' = Stream /\ Consumed' = Consumed /\ Resumable'
         /\ Len(received') <= Len(started')
         /\ \A i \in 1 .. Len(received') :
              received'[i] = started'[i] /\ Len(received'[i]) <= MaxLen
<1>1. UNCHANGED <<rpc, offset, size, buf, received>>
  BY DEF reader
<1> QED BY <1>1 DEF IInv, Stream, Consumed, Resumable

(* write_to() moves bytes from its buffer to the wire: what is in flight   *)
(* stays the same.                                                         *)
LEMMA WriteToStep ==
  ASSUME IInv, WriteTo
  PROVE  IInv'
<1>1. UNCHANGED <<started, reader>> /\ closed' = closed /\ ~closed
  BY DEF WriteTo
<1>2. PICK n \in (1 .. Len(wbuf)) \cap (1 .. (NetCap - Len(wire))) :
        wire' = wire \o SubSeq(wbuf, 1, n) /\ wbuf' = Drop(wbuf, n)
  BY DEF WriteTo
<1>3. TypeOK /\ wire \in Seq(Byte) /\ wbuf \in Seq(Byte) /\ n \in 0 .. Len(wbuf)
  BY DEF IInv, TypeOK
<1>4. /\ SubSeq(wbuf, 1, n) \in Seq(Byte) /\ Len(SubSeq(wbuf, 1, n)) = n
      /\ wbuf' \in Seq(Byte)
  BY <1>2, <1>3, CutSeq
<1>5. wire' \in Seq(Byte) /\ Len(wire') = Len(wire) + n
  BY <1>2, <1>3, <1>4
<1>6. Len(wire') <= NetCap
  BY <1>2, <1>3, <1>5, StringFramingAssumption
<1>7. TypeOK'
  BY <1>1, <1>3, <1>4, <1>5, <1>6 DEF TypeOK, reader, WriteTo
<1>8. InFlight' = InFlight
  BY <1>1, <1>2, <1>3, Rejoin, Zenon DEF InFlight
<1>9. InStep'
  BY <1>1, <1>8, SenderFrame DEF IInv, InStep
<1> QED BY <1>1, <1>7, <1>9, SenderFrame DEF IInv

(* The sender closes with nothing left in its buffer. *)
LEMMA CloseStep ==
  ASSUME IInv, Close
  PROVE  IInv'
<1>1. UNCHANGED <<started, reader, wire>> /\ closed' /\ ~closed
  BY DEF Close, server
<1>2. TypeOK'
  BY DEF IInv, TypeOK, Close, server, reader
<1>3. InFlight' = InFlight
  <2>1. wire \o <<>> = wire
    BY DEF IInv, TypeOK
  <2> QED BY <2>1 DEF InFlight, Close
<1>4. InStep'
  BY <1>1, <1>3, SenderFrame DEF IInv, InStep
<1> QED BY <1>1, <1>2, <1>4, SenderFrame DEF IInv

(* A cut loses a tail of what is in flight, never bytes in the middle. *)
LEMMA CutStep ==
  ASSUME IInv, Cut
  PROVE  IInv'
<1>1. UNCHANGED <<started, reader, todo, wbuf>> /\ closed' /\ cut' /\ ~closed
  BY DEF Cut, server
<1>2. PICK n \in 0 .. Len(wire) : wire' = SubSeq(wire, 1, n)
  BY DEF Cut
<1>3. TypeOK /\ wire \in Seq(Byte) /\ wbuf \in Seq(Byte) /\ Len(wire) \in Nat
  BY DEF IInv, TypeOK
<1>4. wire' \in Seq(Byte) /\ Len(wire') = n
  BY <1>2, <1>3, CutSeq
<1>5. TypeOK'
  BY <1>1, <1>3, <1>4, StringFramingAssumption DEF TypeOK, reader,
       Cut
<1>6. InFlight' = SubSeq(InFlight, 1, n) /\ n \in 0 .. Len(InFlight)
  <2>1. /\ InFlight \in Seq(Byte) /\ Len(InFlight) \in Nat
        /\ Len(wire) <= Len(InFlight)
        /\ \A i \in 1 .. Len(wire) : InFlight[i] = wire[i]
    BY ConsumedFacts
  <2>2. n \in 0 .. Len(InFlight)
    BY <1>3, <2>1
  <2>3. /\ SubSeq(InFlight, 1, n) \in Seq(Byte) /\ Len(SubSeq(InFlight, 1, n)) = n
        /\ \A i \in 1 .. n : SubSeq(InFlight, 1, n)[i] = InFlight[i]
    BY <2>1, <2>2, CutSeq
  <2>4. \A i \in 1 .. n : wire'[i] = wire[i]
    BY <1>2, <1>3, CutSeq
  <2>5. \A i \in 1 .. n : i \in 1 .. Len(wire)
    BY <1>3
  <2>6. wire' = SubSeq(InFlight, 1, n)
    BY <1>4, <2>1, <2>3, <2>4, <2>5, SameSeq
  <2> QED BY <1>1, <2>2, <2>6 DEF InFlight
<1>7. InStep'
  <2>1. Stream \in Frames /\ Consumed \in Nat /\ InFlight \in Seq(Byte)
    BY <1>3, StreamFacts, ConsumedFacts
  <2>2. Follow(InFlight, Stream, Consumed)
    BY DEF IInv, InStep
  <2>3. Follow(SubSeq(InFlight, 1, n), Stream, Consumed)
    BY <1>6, <2>1, <2>2, FollowPrefix
  <2> QED BY <1>1, <1>6, <2>3, SenderFrame DEF InStep
<1> QED BY <1>1, <1>5, <1>7, SenderFrame DEF IInv

(* The part of the type invariant a step of the reader has to show. *)
LEMMA ReaderType ==
  ASSUME TypeOK, UNCHANGED <<todo, started, wbuf, closed, cut, received>>,
         wire' \in Seq(Byte), Len(wire') <= Len(wire), buf' \in Seq(Byte),
         size' \in 0 .. (Word - 1), offset' \in 0 .. (HeaderLen + size'),
         rpc' \in {"out", "header", "payload", "over"}
  PROVE  TypeOK'
<1>1. Len(wire') <= NetCap
  BY StringFramingAssumption DEF TypeOK
<1> QED BY <1>1, Zenon DEF TypeOK

(* read_on() goes on where the dropped future stopped, although it tells   *)
(* the header from the payload by the size alone.                          *)
LEMMA EnterStep ==
  ASSUME IInv, Enter
  PROVE  IInv'
<1>1. UNCHANGED <<offset, size, received, todo, wbuf, started, wire, closed, cut>>
  BY DEF Enter, server
<1>2. InStep' /\ Stream' = Stream
  BY <1>1 DEF IInv, InStep, InFlight, Consumed, Stream
<1>3. TypeOK /\ buf \in Seq(Byte) /\ HeaderLen \in Nat \ {0} /\ offset \in Nat
  BY WordFacts, FramingAssumption DEF IInv, TypeOK
<1>4. rpc = "out"
  BY DEF Enter
<1>5. TypeOK' /\ Resumable'
  <2>1. CASE size = 0
    <3>1. rpc' = "header" /\ buf' = Resize(buf, HeaderLen)
      BY <2>1 DEF Enter
    <3>2. /\ buf' \in Seq(Byte) /\ Len(buf') = HeaderLen
          /\ \A i \in 1 .. HeaderLen : i <= Len(buf) => buf'[i] = buf[i]
      BY <1>3, <3>1, ResizeSeq, Zenon
    <3>3. offset < HeaderLen
      BY <1>3, <1>4, <2>1 DEF IInv, Resumable
    <3>4. \A i \in 1 .. offset : i \in 1 .. HeaderLen /\ i <= Len(buf)
      BY <1>3, <3>3 DEF IInv, Resumable
    <3>5. TypeOK'
      BY <1>1, <1>3, <3>1, <3>2 DEF TypeOK
    <3>6. \A i \in 1 .. offset : buf'[i] = Encode(Len(started[Len(received) + 1]))[i]
      BY <3>2, <3>3, <3>4 DEF IInv, Resumable
    <3> QED BY <1>1, <1>3, <2>1, <3>1, <3>2, <3>3, <3>5, <3>6
           DEF Resumable
  <2>2. CASE size # 0
    <3>1. rpc' = "payload" /\ buf' = buf
      BY <2>2 DEF Enter
    <3>2. TypeOK'
      BY <1>1, <1>3, <3>1 DEF TypeOK
    <3> QED BY <1>1, <1>3, <1>4, <2>2, <3>1, <3>2 DEF IInv, Resumable
  <2> QED BY <2>1, <2>2
<1> QED BY <1>1, <1>2, <1>5 DEF IInv

(* The header may come in parts over several calls; when it is complete,   *)
(* the size decoded from it is the length of the string.                   *)
LEMMA ReadHeaderStep ==
  ASSUME IInv, ReadHeader
  PROVE  IInv'
<1> DEFINE s == started[Len(received) + 1]
           got(n) == Fill(buf, offset, SubSeq(wire, 1, n))
           len(n) == Decode(size, got(n))
<1>1. UNCHANGED <<received, todo, wbuf, started, closed, cut>> /\ rpc = "header"
  BY DEF ReadHeader, server
<1>2. PICK n \in 1 .. Len(wire) :
        /\ offset + n <= HeaderLen
        /\ wire' = Drop(wire, n)
        /\ offset' = offset + n
        /\ IF offset' < HeaderLen
           THEN buf' = got(n) /\ UNCHANGED <<size, rpc>>
           ELSE /\ size' = len(n)
                /\ buf' = IF TooLong(len(n)) THEN got(n) ELSE Resize(<<>>, len(n))
                /\ rpc' = IF TooLong(len(n)) THEN "over" ELSE "payload"
  BY Zenon DEF ReadHeader
<1>3. /\ TypeOK /\ wire \in Seq(Byte) /\ buf \in Seq(Byte) /\ offset \in Nat
      /\ HeaderLen \in Nat \ {0} /\ n \in Nat /\ n > 0 /\ n <= Len(wire)
      /\ n \in 0 .. Len(wire) /\ Len(wire) \in Nat
  BY WordFacts, FramingAssumption DEF IInv, TypeOK
<1>4. /\ InStep' /\ Len(received) + 1 \in 1 .. Len(started)
      /\ \A i \in 1 .. n : offset + i <= Len(Frame(s)) =>
           wire[i] = Frame(s)[offset + i]
  BY <1>1, <1>2, Reading
<1>5. s \in Strings /\ Len(s) \in 0 .. (Word - 1) /\ Len(s) \in Nat
  BY <1>3, <1>4, StreamFacts, WordFacts DEF Strings
<1>6. /\ Len(Frame(s)) = HeaderLen + Len(s)
      /\ \A i \in 1 .. HeaderLen : Frame(s)[i] = Encode(Len(s))[i]
  BY <1>5, FrameFacts
<1>7. /\ size = 0 /\ Len(buf) = HeaderLen
      /\ \A i \in 1 .. offset : buf[i] = Encode(Len(s))[i]
  BY <1>1, <1>2, <1>3 DEF IInv, Resumable
<1>8. /\ wire' \in Seq(Byte) /\ Len(wire') = Len(wire) - n
      /\ SubSeq(wire, 1, n) \in Seq(Byte) /\ Len(SubSeq(wire, 1, n)) = n
      /\ \A i \in 1 .. n : SubSeq(wire, 1, n)[i] = wire[i]
  BY <1>2, <1>3, CutSeq
<1> HIDE DEF s
<1>9. /\ got(n) \in Seq(Byte) /\ Len(got(n)) = HeaderLen
      /\ \A i \in 1 .. (offset + n) : got(n)[i] = Encode(Len(s))[i]
  <2> DEFINE w == SubSeq(wire, 1, n)
             t == Encode(Len(s))
  <2>1. w \in Seq(Byte) /\ Len(w) = n /\ offset + Len(w) <= Len(buf)
    BY <1>2, <1>3, <1>7, <1>8
  <2>2. ASSUME NEW i \in 1 .. Len(w) PROVE w[i] = t[offset + i]
    <3>1. /\ i \in 1 .. n /\ offset + i \in 1 .. HeaderLen
          /\ offset + i <= HeaderLen + Len(s)
      BY <1>2, <1>3, <1>5, <2>1
    <3> QED BY <1>4, <1>6, <1>8, <3>1
  <2> HIDE DEF w, t
  <2>3. /\ Fill(buf, offset, w) \in Seq(Byte)
        /\ Len(Fill(buf, offset, w)) = Len(buf)
        /\ Agrees(Fill(buf, offset, w), offset + Len(w), t)
    <3>1. Agrees(buf, offset, t) /\ Continues(w, offset, t)
      BY <1>7, <2>2 DEF t, Agrees, Continues
    <3> QED BY <1>3, <2>1, <3>1, FillOn, Zenon
  <2> QED BY <1>7, <2>1, <2>3 DEF w, t, Agrees
<1> HIDE DEF got
<1>10. s' = s
  BY <1>1 DEF s
<1>11. TypeOK' /\ Resumable'
  <2>1. CASE offset + n < HeaderLen
    <3>1. /\ buf' = got(n) /\ size' = 0 /\ rpc' = "header"
          /\ offset' = offset + n
      BY <1>1, <1>2, <1>7, <2>1
    <3>2. TypeOK'
      <4>1. /\ Len(wire') <= Len(wire) /\ 0 \in 0 .. (Word - 1)
            /\ offset + n \in 0 .. (HeaderLen + 0)
        BY <1>3, <1>8, <2>1, WordFacts
      <4> QED BY <1>1, <1>3, <1>8, <1>9, <3>1, <4>1, ReaderType
    <3>3. Resumable'
      BY <1>1, <1>3, <1>9, <1>10, <2>1, <3>1 DEF Resumable, s
    <3> QED BY <3>2, <3>3
  <2>2. CASE offset + n = HeaderLen
    <3>1. got(n) = Encode(Len(s))
      <4>1. Encode(Len(s)) \in Seq(Byte) /\ Len(Encode(Len(s))) = HeaderLen
        BY <1>5, EncodeFacts
      <4> QED BY <1>9, <2>2, <4>1, SameSeq
    <3>2. len(n) = Len(s)
      BY <1>5, <1>7, <3>1, RoundTrip
    <3>3. /\ size' = Len(s) /\ offset' = HeaderLen
          /\ buf' = IF TooLong(Len(s)) THEN got(n) ELSE Resize(<<>>, Len(s))
          /\ rpc' = IF TooLong(Len(s)) THEN "over" ELSE "payload"
      BY <1>2, <1>3, <2>2, <3>2
    <3>t. Len(wire') <= Len(wire) /\ HeaderLen \in 0 .. (HeaderLen + Len(s))
      BY <1>3, <1>5, <1>8
    <3>4. CASE TooLong(Len(s))
      <4>1. TypeOK'
        BY <1>1, <1>3, <1>5, <1>8, <1>9, <3>3, <3>4, <3>t, ReaderType
      <4>2. Resumable'
        BY <1>3, <3>3, <3>4 DEF Resumable
      <4> QED BY <4>1, <4>2
    <3>5. CASE ~TooLong(Len(s))
      <4>1. buf' \in Seq(Byte) /\ Len(buf') = Len(s)
        <5>1. <<>> \in Seq(Byte)
          OBVIOUS
        <5> QED BY <1>5, <3>3, <3>5, <5>1, ResizeSeq, Zenon
      <4>2. TypeOK'
        BY <1>1, <1>3, <1>5, <1>8, <3>3, <3>5, <3>t, <4>1, ReaderType
      <4>3. Len(s) <= MaxLen
        BY <1>5, <3>5, StringFramingAssumption, WordFacts DEF TooLong
      <4>4. Resumable'
        BY <1>3, <1>10, <3>3, <3>5, <4>1, <4>3 DEF Resumable, s
      <4> QED BY <4>2, <4>4
    <3> QED BY <3>4, <3>5
  <2> QED BY <1>2, <1>3, <2>1, <2>2
<1> QED BY <1>1, <1>4, <1>11 DEF IInv

(* The payload may come in parts over several calls, each put behind the   *)
(* one before.                                                             *)
LEMMA ReadPayloadStep ==
  ASSUME IInv, ReadPayload
  PROVE  IInv'
<1> DEFINE s == started[Len(received) + 1]
<1>1. UNCHANGED <<rpc, size, received, todo, wbuf, started, closed, cut>>
      /\ rpc = "payload"
  BY DEF ReadPayload, server
<1>2. PICK n \in (1 .. Missing) \cap (1 .. Len(wire)) :
        /\ buf' = Fill(buf, offset - HeaderLen, SubSeq(wire, 1, n))
        /\ wire' = Drop(wire, n)
        /\ offset' = offset + n
  BY DEF ReadPayload
<1>3. /\ TypeOK /\ wire \in Seq(Byte) /\ buf \in Seq(Byte) /\ offset \in Nat
      /\ size \in Nat /\ HeaderLen \in Nat \ {0} /\ n \in 1 .. Len(wire)
      /\ n \in 0 .. Len(wire) /\ Len(wire) \in Nat
      /\ offset + n <= size + HeaderLen
  BY WordFacts, FramingAssumption DEF IInv, TypeOK, Missing
<1>4. /\ InStep' /\ Len(received) + 1 \in 1 .. Len(started)
      /\ \A i \in 1 .. n : offset + i <= Len(Frame(s)) =>
           wire[i] = Frame(s)[offset + i]
  BY <1>1, <1>2, <1>3, Reading
<1>5. s \in Strings /\ Len(s) \in Nat
  BY <1>3, <1>4, StreamFacts DEF Strings
<1>6. /\ Len(Frame(s)) = HeaderLen + Len(s)
      /\ \A i \in 1 .. Len(s) : Frame(s)[HeaderLen + i] = s[i]
  BY <1>5, FrameFacts
<1>7. /\ offset >= HeaderLen /\ size = Len(s) /\ Len(buf) = size
      /\ size <= MaxLen
      /\ \A i \in 1 .. (offset - HeaderLen) : buf[i] = s[i]
  BY <1>1, <1>3 DEF IInv, Resumable
<1>8. /\ wire' \in Seq(Byte) /\ Len(wire') = Len(wire) - n
      /\ SubSeq(wire, 1, n) \in Seq(Byte) /\ Len(SubSeq(wire, 1, n)) = n
      /\ \A i \in 1 .. n : SubSeq(wire, 1, n)[i] = wire[i]
  BY <1>2, <1>3, CutSeq
<1> HIDE DEF s
<1>9. /\ buf' \in Seq(Byte) /\ Len(buf') = size
      /\ \A i \in 1 .. (offset + n - HeaderLen) : buf'[i] = s[i]
  <2> DEFINE w == SubSeq(wire, 1, n)
             at == offset - HeaderLen
  <2>1. /\ w \in Seq(Byte) /\ Len(w) = n /\ at + Len(w) <= Len(buf)
        /\ at \in Nat /\ at + Len(w) = offset + n - HeaderLen
    BY <1>3, <1>7, <1>8
  <2>2. ASSUME NEW i \in 1 .. Len(w) PROVE w[i] = s[at + i]
    <3>1. /\ i \in 1 .. n /\ at + i \in 1 .. Len(s)
          /\ HeaderLen + (at + i) = offset + i
          /\ offset + i <= HeaderLen + Len(s)
      BY <1>3, <1>7, <2>1
    <3>2. w[i] = Frame(s)[HeaderLen + (at + i)]
      BY <1>4, <1>6, <1>8, <3>1
    <3> HIDE DEF at
    <3> QED BY <1>6, <3>1, <3>2
  <2>3. \A i \in 1 .. at : buf[i] = s[i]
    BY <1>7
  <2>4. buf' = Fill(buf, at, w)
    BY <1>2
  <2> HIDE DEF w, at
  <2>5. /\ Fill(buf, at, w) \in Seq(Byte)
        /\ Len(Fill(buf, at, w)) = Len(buf)
        /\ Agrees(Fill(buf, at, w), at + Len(w), s)
    <3>1. Agrees(buf, at, s) /\ Continues(w, at, s)
      BY <2>2, <2>3 DEF Agrees, Continues
    <3> QED BY <1>3, <2>1, <3>1, FillOn, Zenon
  <2> QED BY <1>7, <2>1, <2>4, <2>5 DEF Agrees
<1>10. TypeOK'
  <2>1. Len(wire') <= Len(wire) /\ offset' \in 0 .. (HeaderLen + size)
    BY <1>2, <1>3, <1>8
  <2>2. size' \in 0 .. (Word - 1) /\ size' = size
        /\ rpc' \in {"out", "header", "payload", "over"}
    BY <1>1, <1>3 DEF TypeOK
  <2> QED BY <1>1, <1>3, <1>8, <1>9, <2>1, <2>2, ReaderType
<1>11. Resumable'
  <2>1. s' = s /\ offset' = offset + n /\ rpc' = "payload" /\ size' = size
    BY <1>1, <1>2 DEF s
  <2> QED BY <1>3, <1>7, <1>9, <2>1 DEF Resumable, s
<1> QED BY <1>1, <1>4, <1>10, <1>11 DEF IInv

(* What read_on() returns is the next string in full, and the reader       *)
(* stands at the end of its frame.                                         *)
LEMMA NextReceived ==
  ASSUME IInv, StringReceived
  PROVE  /\ Len(received) + 1 \in 1 .. Len(started)
         /\ buf = started[Len(received) + 1] /\ Len(buf) <= MaxLen
         /\ offset = HeaderLen + Len(buf)
<1> DEFINE s == started[Len(received) + 1]
<1>1. /\ rpc = "payload" /\ Missing = 0
  BY DEF StringReceived
<1>2. /\ TypeOK /\ InStep /\ buf \in Seq(Byte) /\ offset \in Nat /\ size \in Nat
      /\ HeaderLen \in Nat \ {0} /\ offset = size + HeaderLen
      /\ Len(received) \in Nat /\ Len(started) \in Nat
  BY <1>1, WordFacts, FramingAssumption DEF IInv, TypeOK, Missing
<1>3. Len(received) + 1 \in 1 .. Len(started)
  BY <1>2, ConsumedFacts
<1>4. s \in Strings /\ Len(s) \in Nat /\ s \in Seq(Byte)
  BY <1>2, <1>3, StreamFacts DEF Strings
<1>5. /\ size = Len(s) /\ Len(buf) = size /\ size <= MaxLen
      /\ \A i \in 1 .. (offset - HeaderLen) : buf[i] = s[i]
  BY <1>1, <1>2 DEF IInv, Resumable
<1>6. buf = s
  <2>1. offset - HeaderLen = Len(buf)
    BY <1>2, <1>5
  <2> HIDE DEF s
  <2> QED BY <1>2, <1>4, <1>5, <2>1, SameSeq
<1> QED BY <1>2, <1>3, <1>5, <1>6

(* With the string returned and the offset rewound, the reader stands at   *)
(* the start of the next frame.                                            *)
LEMMA StringReceivedStep ==
  ASSUME IInv, StringReceived
  PROVE  IInv'
<1> DEFINE k == Len(received)
           s == started[k + 1]
<1>1. /\ UNCHANGED <<todo, wbuf, started, wire, closed, cut>>
      /\ rpc = "payload" /\ Missing = 0 /\ rpc' = "out" /\ offset' = 0
      /\ size' = 0 /\ received' = Append(received, buf) /\ buf' = <<>>
  BY DEF StringReceived, Rewind, server
<1>2. /\ TypeOK /\ InStep /\ buf \in Seq(Byte) /\ offset \in Nat /\ size \in Nat
      /\ HeaderLen \in Nat \ {0} /\ offset = size + HeaderLen /\ k \in Nat
      /\ Len(started) \in Nat
  BY <1>1, WordFacts, FramingAssumption DEF IInv, TypeOK, Missing
<1>3. /\ k + 1 \in 1 .. Len(started)
      /\ buf = s /\ Len(s) <= MaxLen /\ offset = HeaderLen + Len(s)
  BY NextReceived
<1>4. s \in Strings /\ Len(s) \in Nat /\ s \in Seq(Byte)
  BY <1>2, <1>3, StreamFacts DEF Strings
<1>7. /\ received' \in Seq(Strings) /\ Len(received') = k + 1
      /\ \A i \in 1 .. k : received'[i] = received[i]
      /\ received'[k + 1] = s
  BY <1>1, <1>2, <1>3, <1>4 DEF TypeOK
<1>8. Stream' = Stream /\ InFlight' = InFlight
  BY <1>1 DEF Stream, InFlight
<1>9. Consumed' = Consumed
  <2>1. Stream \in Frames /\ Len(Stream) = Len(started) /\ Stream[k + 1] = Frame(s)
    BY <1>2, <1>3, StreamFacts
  <2>2. Len(Frame(s)) = HeaderLen + Len(s)
    BY <1>4, FrameFacts
  <2>3. /\ Ends(Stream)[(k + 1) - 1] \in Nat
        /\ Ends(Stream)[k + 1] = Ends(Stream)[(k + 1) - 1] + Len(Stream[k + 1])
    BY <1>3, <2>1, EndsAt, Zenon
  <2>4. (k + 1) - 1 = k
    BY <1>2
  <2> HIDE DEF s
  <2>5. Ends(Stream)[k + 1] + 0 = Ends(Stream)[k] + offset
    BY <1>2, <1>3, <1>4, <2>1, <2>2, <2>3, <2>4
  <2> QED BY <1>1, <1>7, <1>8, <2>5 DEF Consumed
<1>10. InStep'
  BY <1>1, <1>2, <1>8, <1>9 DEF InStep
<1>11. TypeOK'
  <2>1. 0 \in 0 .. (Word - 1) /\ 0 \in 0 .. (HeaderLen + 0) /\ <<>> \in Seq(Byte)
    BY <1>2, WordFacts
  <2> QED BY <1>1, <1>2, <1>7, <2>1 DEF TypeOK
<1>12. Resumable'
  BY <1>1, <1>2 DEF Resumable
<1>13. /\ Len(received') <= Len(started')
       /\ \A i \in 1 .. Len(received') :
            received'[i] = started'[i] /\ Len(received'[i]) <= MaxLen
  <2>1. k + 1 <= Len(started)
    BY <1>3
  <2>2. ASSUME NEW i \in 1 .. (k + 1)
        PROVE  received'[i] = started[i] /\ Len(received'[i]) <= MaxLen
    <3>1. CASE i \in 1 .. k
      BY <1>7, <3>1 DEF IInv
    <3>2. CASE i = k + 1
      BY <1>3, <1>7, <3>2
    <3>3. i \in 1 .. k \/ i = k + 1
      BY <1>2
    <3> QED BY <3>1, <3>2, <3>3, Zenon
  <2> QED BY <1>1, <1>7, <2>1, <2>2
<1> QED BY <1>10, <1>11, <1>12, <1>13 DEF IInv

(* A future dropped between two reads, and the end of the stream, leave    *)
(* everything the next call needs.                                         *)
LEMMA LeaveStep ==
  ASSUME IInv, Dropped \/ EndOfFile
  PROVE  IInv'
<1>1. /\ UNCHANGED <<offset, size, buf, received, todo, wbuf, started, wire,
                     closed, cut>>
      /\ Pending /\ rpc' \in {"out", "over"} /\ (rpc' = "out" \/ rpc' = "over")
  BY DEF Dropped, EndOfFile, server
<1>2. InStep'
  BY <1>1 DEF IInv, InStep, InFlight, Consumed, Stream
<1>3. TypeOK'
  BY <1>1 DEF IInv, TypeOK
<1>4. Resumable'
  <2>1. offset \in Nat /\ size \in Nat /\ HeaderLen \in Nat
    BY WordFacts, FramingAssumption DEF IInv, TypeOK
  <2> QED BY <1>1, <2>1 DEF IInv, Resumable, Pending, Missing
<1> QED BY <1>1, <1>2, <1>3, <1>4 DEF IInv

(* At every await, over all ways in which reads, writes, dropped futures   *)
(* and a cut of the connection can fall, the struct of read_on() and the   *)
(* bytes in flight continue the stream of frames that was sent.            *)
THEOREM StringsInvariant == Spec => []IInv
<1>1. Init => IInv
  BY InitHolds
<1>2. IInv /\ [Next]_vars => IInv'
  <2> SUFFICES ASSUME IInv, [Next]_vars PROVE IInv'
    OBVIOUS
  <2>1. CASE UNCHANGED vars
    BY <2>1 DEF vars, server, reader, IInv, TypeOK, InStep,
         Resumable,
         InFlight,
         Consumed, Stream
  <2>2. CASE ServerNext
    BY <2>2, NextStringStep, WriteToStep, CloseStep, Zenon DEF ServerNext
  <2>3. CASE Read
    BY <2>3, ReadHeaderStep, ReadPayloadStep, Zenon DEF Read
  <2> QED BY <2>1, <2>2, <2>3, CutStep, EnterStep, StringReceivedStep,
             LeaveStep, Zenon DEF Next, Finished
<1> QED BY <1>1, <1>2, PTL DEF Spec

(* The client of ResumableReadString receives exactly the strings that the *)
(* server has sent, in that order, none too long, and no part of one.      *)
THEOREM StringsReceived == Spec => []ReceivedIsSent
<1>1. IInv => ReceivedIsSent
  <2> SUFFICES ASSUME IInv PROVE ReceivedIsSent
    OBVIOUS
  <2>1. /\ received \in Seq(Strings) /\ started \in Seq(Strings)
        /\ Len(received) <= Len(started)
        /\ \A i \in 1 .. Len(received) :
             received[i] = started[i] /\ Len(received[i]) <= MaxLen
    BY DEF IInv, TypeOK
  <2>2. IsPrefix(received, started)
    BY <2>1, PrefixByItems
  <2> QED BY <2>1, <2>2 DEF ReceivedIsSent
<1> QED BY <1>1, StringsInvariant, PTL

(* The framing of hashes implements a stream of whole messages: each step  *)
(* of ResumableWriteString and ResumableReadString is a step of it, or     *)
(* invisible there.                                                        *)
THEOREM HashesAreAMessageStream == Spec => IsMessageStream
<1>1. Init => Hashes!Init
  BY DEF Init, Hashes!Init
<1>2. IInv /\ [Next]_vars => [Hashes!Send \/ Hashes!Receive]_(Hashes!vars)
  <2> SUFFICES ASSUME IInv, [Next]_vars
               PROVE  \/ Hashes!Send \/ Hashes!Receive
                      \/ UNCHANGED <<started, received>>
    BY DEF Hashes!vars
  <2>1. CASE NextString
    <3>1. /\ started \in Seq(Strings) /\ Head(todo) \in Strings
          /\ started' = Append(started, Head(todo)) /\ received' = received
      BY <2>1 DEF IInv, TypeOK, NextString, reader
    <3> QED BY <3>1 DEF Hashes!Send
  <2>2. CASE StringReceived
    <3>1. /\ received' = Append(received, buf) /\ started' = started
          /\ Len(received) \in Nat /\ Len(started) \in Nat
      BY <2>2 DEF StringReceived, server, IInv, TypeOK
    <3> QED BY <2>2, <3>1, NextReceived DEF Hashes!Receive
  <2>3. CASE WriteTo \/ Close \/ Cut \/ Enter \/ ReadHeader \/ ReadPayload
             \/ Dropped \/ EndOfFile \/ UNCHANGED vars
    BY <2>3 DEF WriteTo, Close, Cut, Enter, ReadHeader, ReadPayload, Dropped,
         EndOfFile, vars, server, reader
  <2> QED BY <2>1, <2>2, <2>3, Zenon DEF Next, ServerNext, Read, Finished
<1> QED BY <1>1, <1>2, StringsInvariant, PTL
        DEF Spec, IsMessageStream, Hashes!Spec
=============================================================================
