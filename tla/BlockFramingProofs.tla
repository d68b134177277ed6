------------------------ MODULE BlockFramingProofs --------------------------
(***************************************************************************)
(* The blocks that ResumableReadFileBlock returns are those that the       *)
(* client has sent, and the destination gets the source's bytes.  As for   *)
(* strings, the invariant says that the reader's struct, its buffer and    *)
(* the bytes in flight continue the stream of frames; here the length of a *)
(* frame is not sent, so it also needs that only the last block of the     *)
(* file can be shorter than the others.                                    *)
(***************************************************************************)
EXTENDS BlockFraming, FramingProofs

(* The constants, as the proofs use them. *)
LEMMA Constants ==
  /\ BlockSize \in Nat \ {0} /\ FileSize \in Nat \ {0} /\ FileSize < Word
  /\ Word \in Nat \ {0} /\ HeaderLen \in Nat \ {0} /\ NetCap \in Nat
  BY BlockFramingAssumption, FramingAssumption, WordFacts

(* An offset is within the file and fits the header. *)
LEMMA OffsetFacts ==
  ASSUME NEW off \in Offsets
  PROVE  off \in Nat /\ off < FileSize /\ off \in 0 .. (Word - 1)
<1> USE Constants
<1>1. PICK b \in 0 .. LastBlock : off = b * BlockSize
  BY DEF Offsets
<1>2. PICK q \in Nat, r \in Nat :
        q = LastBlock /\ FileSize - 1 = BlockSize * q + r
  <2>1. FileSize - 1 \in Nat
    OBVIOUS
  <2> QED BY <2>1, DivFacts DEF LastBlock
<1>3. PICK k \in Nat : q = b + k
  <2>1. q - b \in Nat /\ q = b + (q - b)
    BY <1>1, <1>2
  <2> QED BY <2>1
<1>4. /\ BlockSize * q = BlockSize * b + BlockSize * k
      /\ BlockSize * k \in Nat /\ BlockSize * b \in Nat
      /\ off = BlockSize * b
  BY <1>1, <1>2, <1>3
<1> QED BY <1>2, <1>4

(* Two blocks do not overlap. *)
LEMMA OffsetsApart ==
  ASSUME NEW x \in Offsets, NEW y \in Offsets, x < y
  PROVE  x + BlockSize <= y
<1> USE Constants
<1>1. PICK b \in Nat : x = b * BlockSize
  <2>1. \A b \in 0 .. LastBlock : b \in Nat
    BY DEF LastBlock
  <2> QED BY <2>1 DEF Offsets
<1>2. PICK c \in Nat : y = c * BlockSize
  <2>1. \A c \in 0 .. LastBlock : c \in Nat
    BY DEF LastBlock
  <2> QED BY <2>1 DEF Offsets
<1>3. b < c
  <2> SUFFICES ASSUME c <= b PROVE FALSE
    OBVIOUS
  <2>1. PICK k \in Nat : b = c + k
    <3>1. b - c \in Nat /\ b = c + (b - c)
      OBVIOUS
    <3> QED BY <3>1
  <2>2. /\ b * BlockSize = c * BlockSize + k * BlockSize
        /\ k * BlockSize \in Nat /\ c * BlockSize \in Nat
    BY <2>1
  <2> QED BY <1>1, <1>2, <2>2
<1>4. PICK k \in Nat : c = b + 1 + k
  <2>1. c - b - 1 \in Nat /\ c = b + 1 + (c - b - 1)
    BY <1>3
  <2> QED BY <2>1
<1>5. /\ c * BlockSize = b * BlockSize + BlockSize + k * BlockSize
      /\ k * BlockSize \in Nat /\ b * BlockSize \in Nat
  BY <1>4
<1> QED BY <1>1, <1>2, <1>5

(* A block of a file of size h: its bytes, BlockSize of them unless the    *)
(* file ends before.                                                       *)
LEMMA BlockFacts ==
  ASSUME NEW off \in Nat, NEW h \in Nat, off < h,
         \A p \in 0 .. (h - 1) : Source(p) \in Byte
  PROVE  /\ BlockOf(off, h) \in Buffers
         /\ Len(BlockOf(off, h)) =
              IF off + BlockSize <= h THEN BlockSize ELSE h - off
         /\ \A i \in 1 .. Len(BlockOf(off, h)) :
              /\ off + i - 1 \in 0 .. (h - 1)
              /\ BlockOf(off, h)[i] = Source(off + i - 1)
<1> USE Constants
<1>1. PICK len \in Nat :
        len = IF off + BlockSize <= h THEN BlockSize ELSE h - off
  <2>1. (IF off + BlockSize <= h THEN BlockSize ELSE h - off) \in Nat
    OBVIOUS
  <2> QED BY <2>1, Zenon
<1>2. len <= BlockSize /\ \A i \in 1 .. len : off + i - 1 \in 0 .. (h - 1)
  BY <1>1
<1>3. BlockOf(off, h) = [i \in 1 .. len |-> Source(off + i - 1)]
  BY <1>1 DEF BlockOf
<1> QED BY <1>1, <1>2, <1>3 DEF Buffers

(* The same for the block that the client reads. *)
LEMMA BlockAt ==
  ASSUME TypeOK, NEW off \in Nat, off < hashed_size,
         NEW i \in 1 .. Len(Block(off))
  PROVE  /\ off + i - 1 \in 0 .. (hashed_size - 1)
         /\ Block(off)[i] = Source(off + i - 1)
<1>1. /\ hashed_size \in Nat
      /\ \A p \in 0 .. (hashed_size - 1) : Source(p) \in Byte
  BY BlockFramingAssumption DEF TypeOK
<1>2. \A j \in 1 .. Len(BlockOf(off, hashed_size)) :
        /\ off + j - 1 \in 0 .. (hashed_size - 1)
        /\ BlockOf(off, hashed_size)[j] = Source(off + j - 1)
  BY <1>1, BlockFacts, Zenon
<1> QED BY <1>2, Zenon DEF Block

(* The size that the server computes for a block is that of the block in a *)
(* file of the announced size.                                             *)
LEMMA SizeFacts ==
  /\ \A off \in Nat : CurrentBlockSize(off) \in 0 .. BlockSize
  /\ \A off \in Offsets :
       CurrentBlockSize(off) =
         IF off + BlockSize <= FileSize THEN BlockSize ELSE FileSize - off
<1> USE Constants
<1>1. ASSUME NEW off \in Nat PROVE CurrentBlockSize(off) \in 0 .. BlockSize
  <2>1. PICK d \in Int : d = FileSize - off
    OBVIOUS
  <2>2. d % Word \in 0 .. (Word - 1)
    OBVIOUS
  <2> QED BY <2>1, <2>2 DEF CurrentBlockSize
<1>2. ASSUME NEW off \in Offsets
      PROVE  CurrentBlockSize(off) =
               IF off + BlockSize <= FileSize THEN BlockSize ELSE FileSize - off
  <2>1. off \in Nat /\ FileSize - off \in 0 .. (Word - 1)
    BY OffsetFacts
  <2>2. (FileSize - off) % Word = FileSize - off
    BY <2>1, ModSmall
  <2> QED BY <2>1, <2>2 DEF CurrentBlockSize
<1> QED BY <1>1, <1>2

(* The blocks that were started have an offset and bytes. *)
LEMMA StartedFacts ==
  ASSUME TypeOK, NEW i \in 1 .. Len(started)
  PROVE  /\ started[i] \in Offsets \X Seq(Byte)
         /\ started[i][1] \in Offsets /\ started[i][2] \in Seq(Byte)
  BY SMTT(60) DEF TypeOK

(* The frame of a block: the header with its offset, then its bytes. *)
LEMMA FrameFacts ==
  ASSUME NEW b \in Offsets \X Seq(Byte)
  PROVE  /\ Frame(b) \in Seq(Byte)
         /\ Len(b[2]) \in Nat /\ Len(Frame(b)) = HeaderLen + Len(b[2])
         /\ \A i \in 1 .. HeaderLen : Frame(b)[i] = Encode(b[1])[i]
         /\ \A i \in 1 .. Len(b[2]) : Frame(b)[HeaderLen + i] = b[2][i]
<1>1. PICK h \in Seq(Byte) : h = Encode(b[1]) /\ Len(h) = HeaderLen
  BY OffsetFacts, EncodeFacts, Zenon
<1>2. PICK c \in Seq(Byte) : c = b[2]
  OBVIOUS
<1>3. Frame(b) = h \o c
  BY <1>1, <1>2 DEF Frame
<1> QED BY <1>1, <1>2, <1>3, SMTT(60)

(* The stream has one frame for each block that was started. *)
LEMMA StreamFacts ==
  ASSUME TypeOK
  PROVE  /\ Stream \in Frames /\ Len(Stream) = Len(started)
         /\ Len(started) \in Nat /\ Len(received) \in Nat
         /\ \A i \in 1 .. Len(started) : Stream[i] = Frame(started[i])
<1>1. Len(started) \in Nat /\ Len(received) \in Nat
  BY DEF TypeOK
<1>2. \A i \in 1 .. Len(started) : Frame(started[i]) \in Seq(Byte)
  BY StartedFacts, FrameFacts
<1> QED BY <1>1, <1>2 DEF Stream, Frames

(* What is in flight starts with what is on the wire. *)
LEMMA FlightFacts ==
  ASSUME TypeOK
  PROVE  /\ InFlight \in Seq(Byte) /\ Len(InFlight) \in Nat
         /\ offset_bytes \o wbuf \in Seq(Byte)
         /\ Len(wire) \in Nat /\ Len(wire) <= Len(InFlight)
         /\ \A i \in 1 .. Len(wire) : InFlight[i] = wire[i]
<1>1. offset_bytes \o wbuf \in Seq(Byte)
  BY DEF TypeOK
<1>2. PICK rest \in Seq(Byte) : rest = offset_bytes \o wbuf
  BY <1>1, Zenon
<1> QED BY <1>1, <1>2 DEF InFlight, TypeOK

(* The invariant holds before anything is sent. *)
LEMMA InitHolds == Init => IInv
<1> SUFFICES ASSUME Init PROVE IInv
  OBVIOUS
<1> USE Constants
<1>1. PICK n \in 0 .. (LastBlock + 1) :
        /\ todo \in [1 .. n -> {off \in Offsets : off < hashed_size}]
        /\ \A i \in 1 .. (n - 1) : todo[i] < todo[i + 1]
  BY DEF Init
<1>2. n \in Nat /\ todo \in Seq(Offsets) /\ Len(todo) = n
  <2>1. n \in Nat
    BY DivFacts DEF LastBlock
  <2> QED BY <1>1, <2>1
<1>3. hashed_size \in HashedSizes /\ hashed_size \in Nat
  BY BlockFramingAssumption DEF Init
<1>4. Plan
  <2>1. ASSUME NEW i \in 1 .. n
        PROVE  todo[i] < hashed_size /\ (i < n => Full(todo[i]))
    <3>1. todo[i] < hashed_size /\ todo[i] \in Offsets
      BY <1>1
    <3>2. ASSUME i < n PROVE Full(todo[i])
      <4>1. i \in 1 .. (n - 1) /\ i + 1 \in 1 .. n
        BY <1>2, <3>2
      <4>2. /\ todo[i] < todo[i + 1] /\ todo[i + 1] \in Offsets
            /\ todo[i + 1] < hashed_size
        BY <1>1, <4>1
      <4>3. todo[i] + BlockSize <= todo[i + 1]
        BY <3>1, <4>2, OffsetsApart
      <4>4. todo[i] \in Nat /\ todo[i + 1] \in Nat /\ todo[i + 1] < FileSize
        BY <3>1, <4>2, OffsetFacts
      <4> QED BY <1>3, <4>2, <4>3, <4>4 DEF Full
    <3> QED BY <3>1, <3>2
  <2>2. Len(started) = 0
    BY DEF Init
  <2> QED BY <1>2, <2>1, <2>2 DEF Plan
<1>5. TypeOK
  <2>1. /\ <<>> \in Seq(Byte) /\ <<>> \in Buffers /\ Len(<<>>) = 0
        /\ <<>> \in Seq(Offsets \X Seq(Byte))
        /\ <<>> \in Seq((0 .. (Word - 1)) \X Buffers)
        /\ 0 \in 0 .. (Word - 1) /\ 0 \in 0 .. (Word + BlockSize)
        /\ 0 <= NetCap /\ ~(0 >= HeaderLen)
    BY DEF Buffers
  <2>2. dest \in [0 .. (Word + BlockSize) -> 0 .. Old]
    BY FramingAssumption DEF Init, Old
  <2> QED BY <1>2, <1>3, <2>1, <2>2, Zenon DEF Init, TypeOK
<1>6. Stream = <<>> /\ InFlight = <<>> /\ Stream \in Frames
  BY <1>5 DEF Init, Stream, InFlight, Frames
<1>7. Total(Stream) = 0 /\ Consumed = 0
  <2>1. AreEnds(Ends(Stream), Stream) /\ Len(Stream) = 0
    BY <1>6, EndsFacts
  <2> QED BY <2>1 DEF AreEnds, Total, Consumed, Init
<1>8. InStep
  <2>1. Resumable
    BY DEF Init, Resumable
  <2>2. Follow(InFlight, Stream, Consumed)
    BY <1>6, <1>7 DEF Follow
  <2> QED BY <1>6, <1>7, <2>1, <2>2 DEF InStep, Init
<1>9. Placed /\ DestIsSource
  BY DEF Init, Placed, DestIsSource
<1> QED BY <1>4, <1>5, <1>8, <1>9 DEF IInv

(* Steps that start no block leave the plan alone. *)
LEMMA PlanFrame ==
  ASSUME IInv, UNCHANGED <<hashed_size, todo, started>>
  PROVE  Plan'
  BY DEF IInv, Plan, Full, Block

(* Steps that leave the file task alone leave the destination right. *)
LEMMA FileFrame ==
  ASSUME IInv, UNCHANGED <<hashed_size, received, file>>
  PROVE  Placed' /\ DestIsSource'
  BY DEF IInv, file, Placed, DestIsSource, NotGrown

(* Once the last block has been received short, it stays so. *)
LEMMA DerailedFrame ==
  ASSUME Derailed, UNCHANGED <<hashed_size, todo, started, received>>
  PROVE  Derailed'
  BY DEF Derailed, NotGrown

(* The bytes read and the bytes in flight are within the stream; a reader  *)
(* inside a frame is inside one that has been started.                     *)
LEMMA ConsumedFacts ==
  ASSUME IInv, InStep
  PROVE  /\ Consumed \in Nat /\ Total(Stream) \in Nat
         /\ Len(received) \in 0 .. Len(started)
         /\ Ends(Stream)[Len(received)] \in Nat
         /\ Consumed + Len(InFlight) <= Total(Stream)
         /\ buf_offset > 0 => Len(received) + 1 \in 1 .. Len(started)
<1> DEFINE k == Len(received)
<1>1. /\ TypeOK /\ k \in 0 .. Len(started) /\ buf_offset \in Nat
  BY StreamFacts DEF IInv, InStep, TypeOK
<1>2. AreEnds(Ends(Stream), Stream) /\ Len(Stream) = Len(started)
  BY <1>1, StreamFacts, EndsFacts
<1>3. /\ Ends(Stream)[k] \in Nat /\ Total(Stream) \in Nat
      /\ Total(Stream) = Ends(Stream)[Len(started)]
  BY <1>1, <1>2, StreamFacts DEF AreEnds, Total
<1>4. Consumed = Ends(Stream)[k] + buf_offset
  BY DEF Consumed
<1>5. Consumed + Len(InFlight) <= Total(Stream) /\ Len(InFlight) \in Nat
  BY <1>1, FlightFacts DEF InStep, Follow
<1>6. buf_offset > 0 => k # Len(started)
  BY <1>1, <1>3, <1>4, <1>5
<1> HIDE DEF k
<1>7. k # Len(started) => k + 1 \in 1 .. Len(started)
  BY <1>1, StreamFacts
<1> QED BY <1>1, <1>3, <1>4, <1>5, <1>6, <1>7 DEF k

(* What only moves or loses bytes at the sender's end leaves the reader    *)
(* alone.                                                                  *)
LEMMA SenderFrame ==
  ASSUME InStep, UNCHANGED <<started, reader>>,
         Follow(InFlight', Stream, Consumed),
         ~closed' => Consumed + Len(InFlight') = Total(Stream)
  PROVE  InStep'
<1>1. UNCHANGED <<rpc, offset, buf_offset, receive_buffer, received>>
  BY DEF reader
<1>2. Stream' = Stream /\ Consumed' = Consumed /\ Resumable'
  BY <1>1 DEF InStep, Stream, Consumed, Resumable
<1> QED BY <1>1, <1>2 DEF InStep

(* Moving bytes to the wire changes nothing that is in flight. *)
LEMMA WriteKeeps ==
  ASSUME IInv, UNCHANGED <<hashed_size, todo, started, closed, cut, reader,
  file>>,
         InFlight' = InFlight, TypeOK'
  PROVE  IInv'
<1>1. UNCHANGED received
  BY DEF reader
<1>2. Plan' /\ Placed' /\ DestIsSource'
  BY <1>1, PlanFrame, FileFrame
<1>3. CASE InStep
  <2>1. InStep'
    BY <1>3, SenderFrame DEF InStep
  <2> QED BY <1>2, <2>1 DEF IInv
<1>4. CASE Derailed
  BY <1>1, <1>2, <1>4, DerailedFrame DEF IInv
<1> QED BY <1>3, <1>4 DEF IInv

(* A write puts no more on the wire than there is room for. *)
LEMMA WriteType ==
  ASSUME TypeOK, UNCHANGED <<hashed_size, todo, started, closed, cut, reader,
  file>>,
         NEW x \in Seq(Byte),
         NEW n \in (1 .. (NetCap - Len(wire))) \cap (1 .. Len(x)),
         wire' = wire \o SubSeq(x, 1, n),
         offset_bytes' \in Seq(Byte), wbuf' \in Seq(Byte)
  PROVE  TypeOK'
<1>1. /\ wire \in Seq(Byte) /\ SubSeq(x, 1, n) \in Seq(Byte)
      /\ Len(SubSeq(x, 1, n)) = n
  <2>1. n \in 0 .. Len(x)
    OBVIOUS
  <2> QED BY <2>1, CutSeq, SMTT(60) DEF TypeOK
<1>2. wire' \in Seq(Byte) /\ Len(wire') <= NetCap
  BY <1>1, Constants
<1> QED BY <1>2, ZenonT(60) DEF TypeOK, reader, file, Missing

(* The offset goes first, before any byte of the block. *)
LEMMA WriteOffsetStep ==
  ASSUME IInv, WriteOffset
  PROVE  IInv'
<1>1. UNCHANGED <<hashed_size, todo, wbuf, started, closed, cut, reader, file>>
      /\ ~closed
  BY DEF WriteOffset
<1>2. PICK n \in (1 .. (NetCap - Len(wire))) \cap (1 .. Len(offset_bytes)) :
        /\ wire' = wire \o SubSeq(offset_bytes, 1, n)
        /\ offset_bytes' = Drop(offset_bytes, n)
  BY Zenon DEF WriteOffset, Room
<1>3. /\ TypeOK /\ wire \in Seq(Byte) /\ offset_bytes \in Seq(Byte)
      /\ wbuf \in Seq(Byte) /\ n \in 0 .. Len(offset_bytes)
  BY DEF IInv, TypeOK
<1>4. TypeOK'
  <2>1. offset_bytes' \in Seq(Byte)
    BY <1>2, <1>3, CutSeq
  <2> QED BY <1>1, <1>2, <1>3, <2>1, WriteType, Zenon
<1>5. InFlight' = InFlight
  <2> DEFINE b == offset_bytes \o wbuf
  <2>1. SubSeq(b, 1, n) = SubSeq(offset_bytes, 1, n)
    BY <1>3, CutConcat, Zenon
  <2>2. Drop(offset_bytes, n) \o wbuf = Drop(b, n)
    BY <1>3, DropConcat, Zenon
  <2>3. b \in Seq(Byte) /\ n \in 0 .. Len(b)
    BY <1>3
  <2> HIDE DEF b
  <2>4. (wire \o SubSeq(b, 1, n)) \o Drop(b, n) = wire \o b
    BY <1>3, <2>3, Rejoin, Zenon
  <2>5. InFlight' = (wire \o SubSeq(b, 1, n)) \o Drop(b, n)
    BY <1>1, <1>2, <2>1, <2>2 DEF InFlight
  <2>6. InFlight = wire \o b
    BY <1>1 DEF InFlight, b
  <2> QED BY <2>4, <2>5, <2>6, SMTT(60)
<1> QED BY <1>1, <1>4, <1>5, WriteKeeps

(* The bytes of the block follow its offset. *)
LEMMA WritePayloadStep ==
  ASSUME IInv, WritePayload
  PROVE  IInv'
<1>1. UNCHANGED <<hashed_size, todo, offset_bytes, started, closed, cut, reader,
                  file>>
      /\ ~closed /\ offset_bytes = <<>>
  BY DEF WritePayload
<1>2. PICK n \in (1 .. (NetCap - Len(wire))) \cap (1 .. Len(wbuf)) :
        wire' = wire \o SubSeq(wbuf, 1, n) /\ wbuf' = Drop(wbuf, n)
  BY DEF WritePayload, Room
<1>3. /\ TypeOK /\ wire \in Seq(Byte) /\ offset_bytes \in Seq(Byte)
      /\ wbuf \in Seq(Byte) /\ n \in 0 .. Len(wbuf)
  BY DEF IInv, TypeOK
<1>4. wbuf' \in Seq(Byte)
  BY <1>2, <1>3, CutSeq
<1>5. TypeOK'
  BY <1>1, <1>2, <1>3, <1>4, WriteType, Zenon
<1>6. InFlight' = InFlight
  <2>1. offset_bytes \o wbuf = wbuf /\ (offset_bytes \o wbuf)' = wbuf'
    BY <1>1, <1>3, <1>4
  <2>2. (wire \o SubSeq(wbuf, 1, n)) \o Drop(wbuf, n) = wire \o wbuf
    BY <1>3, Rejoin, Zenon
  <2> QED BY <1>1, <1>2, <2>1, <2>2 DEF InFlight
<1> QED BY <1>1, <1>5, <1>6, WriteKeeps

(* When the client leaves, a tail of what is in flight may be lost, never  *)
(* bytes in the middle.                                                    *)
LEMMA LeaveStep ==
  ASSUME IInv, UNCHANGED <<client, reader, file>>, closed', ~closed,
         cut' \in BOOLEAN,
         NEW n \in 0 .. Len(wire), wire' = SubSeq(wire, 1, n)
  PROVE  IInv'
<1>1. UNCHANGED <<hashed_size, todo, offset_bytes, wbuf, started, received>>
  BY DEF client, reader
<1>2. TypeOK /\ wire \in Seq(Byte) /\ Len(wire) \in Nat /\ closed' \in BOOLEAN
  BY DEF IInv, TypeOK
<1>3. wire' \in Seq(Byte) /\ Len(wire') = n /\ n <= NetCap
      /\ \A i \in 1 .. n : wire'[i] = wire[i]
  <2>1. n <= NetCap
    BY <1>2, Constants DEF TypeOK
  <2> QED BY <1>2, <2>1, CutSeq
<1>4. TypeOK'
  BY <1>1, <1>2, <1>3 DEF TypeOK, reader, file, Missing
<1>5. Plan' /\ Placed' /\ DestIsSource'
  BY <1>1, PlanFrame, FileFrame
<1>6. CASE InStep
  <2>1. /\ InFlight \in Seq(Byte) /\ Len(InFlight) \in Nat
        /\ Len(wire) <= Len(InFlight)
        /\ \A i \in 1 .. Len(wire) : InFlight[i] = wire[i]
    BY <1>2, FlightFacts
  <2>2. n \in 0 .. Len(InFlight)
    BY <1>2, <2>1
  <2>3. /\ SubSeq(InFlight, 1, n) \in Seq(Byte)
        /\ Len(SubSeq(InFlight, 1, n)) = n
        /\ \A i \in 1 .. n : SubSeq(InFlight, 1, n)[i] = InFlight[i]
    BY <2>1, <2>2, CutSeq
  <2>4. \A i \in 1 .. n : i \in 1 .. Len(wire)
    BY <1>2
  <2>5. wire' = SubSeq(InFlight, 1, n)
    BY <1>3, <2>1, <2>3, <2>4, SameSeq
  <2>6. InFlight' = SubSeq(InFlight, 1, n)
    BY <2>5 DEF InFlight
  <2>7. Stream \in Frames /\ Consumed \in Nat
    BY <1>2, <1>6, StreamFacts, ConsumedFacts
  <2>8. Follow(SubSeq(InFlight, 1, n), Stream, Consumed)
    BY <1>6, <2>1, <2>2, <2>7, FollowPrefix, Zenon DEF InStep
  <2>9. InStep'
    BY <1>1, <1>6, <2>6, <2>8, SenderFrame
  <2> QED BY <1>4, <1>5, <2>9 DEF IInv
<1>7. CASE Derailed
  BY <1>1, <1>4, <1>5, <1>7, DerailedFrame DEF IInv
<1> QED BY <1>6, <1>7 DEF IInv

(* The client closes with nothing left in its buffers. *)
LEMMA CloseStep ==
  ASSUME IInv, Close
  PROVE  IInv'
<1>1. /\ UNCHANGED <<client, reader, file>> /\ closed' /\ ~closed
      /\ wire' = wire /\ cut' \in BOOLEAN /\ wire \in Seq(Byte)
  BY DEF Close, IInv, TypeOK
<1>2. Len(wire) \in 0 .. Len(wire) /\ wire' = SubSeq(wire, 1, Len(wire))
  BY <1>1
<1> QED BY <1>1, <1>2, LeaveStep

(* A cut connection loses a tail. *)
LEMMA CutStep ==
  ASSUME IInv, Cut
  PROVE  IInv'
<1>1. /\ UNCHANGED <<client, reader, file>> /\ closed' /\ ~closed
      /\ cut' \in BOOLEAN
  BY DEF Cut
<1>2. PICK n \in 0 .. Len(wire) : wire' = SubSeq(wire, 1, n)
  BY DEF Cut
<1> QED BY <1>1, <1>2, LeaveStep

(* The client starts the next block with both of its buffers empty, so its *)
(* frame comes behind everything that is in flight; blocks before it are   *)
(* full, since only the last block of the file is shorter.                 *)
LEMMA NextBlockStep ==
  ASSUME IInv, NextBlock
  PROVE  IInv'
<1> DEFINE off == Head(todo)
           b == <<off, Block(off)>>
<1>1. /\ Idle /\ ~closed /\ todo # <<>>
      /\ offset_bytes' = Encode(off) /\ wbuf' = Block(off)
      /\ started' = Append(started, b) /\ todo' = Tail(todo)
      /\ UNCHANGED <<hashed_size, wire, closed, cut, reader, file>>
  BY DEF NextBlock
<1>2. InStep
  BY <1>1 DEF IInv, Derailed
<1>3. /\ TypeOK /\ hashed_size \in HashedSizes /\ hashed_size \in Nat
      /\ off \in Offsets /\ off \in Nat /\ off < hashed_size
      /\ off = todo[1] /\ Len(todo) \in Nat /\ 1 \in 1 .. Len(todo)
      /\ Len(started) \in Nat /\ Len(received) \in Nat
      /\ Len(received) <= Len(started)
  <2>1. /\ TypeOK /\ hashed_size \in HashedSizes /\ off \in Offsets
        /\ off = todo[1] /\ Len(todo) \in Nat /\ 1 \in 1 .. Len(todo)
    BY <1>1 DEF IInv, TypeOK
  <2>2. off < hashed_size
    BY <2>1 DEF IInv, Plan
  <2> QED BY <1>2, <2>1, <2>2, OffsetFacts, StreamFacts,
         BlockFramingAssumption
          DEF InStep
<1>4. Block(off) \in Seq(Byte)
  <2>1. \A p \in 0 .. (hashed_size - 1) : Source(p) \in Byte
    BY <1>3, BlockFramingAssumption
  <2> QED BY <1>3, <2>1, BlockFacts, Zenon DEF Block, Buffers
<1>5. b \in Offsets \X Seq(Byte) /\ b[1] = off /\ b[2] = Block(off)
  BY <1>3, <1>4
<1> HIDE DEF b
<1>6. /\ started' \in Seq(Offsets \X Seq(Byte))
      /\ Len(started') = Len(started) + 1
      /\ \A i \in 1 .. Len(started) : started'[i] = started[i]
      /\ started'[Len(started) + 1] = b
  BY <1>1, <1>3, <1>5 DEF TypeOK
<1>7. /\ todo' \in Seq(Offsets) /\ Len(todo') = Len(todo) - 1
      /\ \A i \in 1 .. Len(todo') : i + 1 \in 1 .. Len(todo) /\ todo'[i] = todo[i + 1]
  BY <1>1, <1>3 DEF TypeOK
<1>8. TypeOK'
  <2>1. Encode(off) \in Seq(Byte)
    BY <1>3, EncodeFacts
  <2> QED BY <1>1, <1>3, <1>4, <1>6, <1>7, <2>1 DEF TypeOK, reader,
         file,
         Missing
<1>9. Plan'
  <2>1. ASSUME NEW i \in 1 .. Len(todo')
        PROVE  /\ todo'[i] < hashed_size
               /\ i < Len(todo') => Full(todo'[i])
    <3>1. PICK j \in 1 .. Len(todo) :
            j = i + 1 /\ todo'[i] = todo[j] /\ (i < Len(todo') => j < Len(todo))
      BY <1>3, <1>7
    <3>2. todo[j] < hashed_size /\ (j < Len(todo) => Full(todo[j]))
      BY DEF IInv, Plan
    <3> QED BY <3>1, <3>2
  <2>2. ASSUME NEW i \in 1 .. Len(started')
        PROVE  /\ started'[i][1] < hashed_size
               /\ started'[i][2] = Block(started'[i][1])
               /\ i < Len(started') \/ todo' # <<>> => Full(started'[i][1])
    <3>1. CASE i \in 1 .. Len(started)
      BY <1>1, <1>6, <3>1 DEF IInv, Plan
    <3>2. CASE i = Len(started) + 1
      <4>1. todo' # <<>> => Full(off)
        <5>1. todo' # <<>> => 1 < Len(todo)
          BY <1>3, <1>7
        <5> QED BY <1>3, <5>1 DEF IInv, Plan
      <4> QED BY <1>3, <1>5, <1>6, <3>2, <4>1
    <3>3. i \in 1 .. Len(started) \/ i = Len(started) + 1
      BY <1>3, <1>6
    <3> QED BY <3>1, <3>2, <3>3, Zenon
  <2> QED BY <1>1, <2>1, <2>2 DEF Plan, Full, Block
<1>10. Placed' /\ DestIsSource'
  <2>1. received' = received
    BY <1>1 DEF reader
  <2> QED BY <1>1, <2>1, FileFrame
<1>11. Stream \in Frames /\ Len(Stream) = Len(started) /\ Frame(b) \in Seq(Byte)
  BY <1>3, <1>5, StreamFacts, FrameFacts
<1>12. Stream' = Append(Stream, Frame(b))
  <2>1. /\ Stream' \in Seq(Seq(Byte)) /\ Len(Stream') = Len(started) + 1
        /\ \A i \in 1 .. (Len(started) + 1) : Stream'[i] = Frame(started'[i])
    <3>1. \A i \in 1 .. Len(started') : Frame(started'[i]) \in Seq(Byte)
      BY <1>6, FrameFacts
    <3> QED BY <1>3, <1>6, <3>1 DEF Stream
  <2>2. /\ Append(Stream, Frame(b)) \in Seq(Seq(Byte))
        /\ Len(Append(Stream, Frame(b))) = Len(started) + 1
        /\ \A i \in 1 .. Len(started) :
             Append(Stream, Frame(b))[i] = Frame(started[i])
        /\ Append(Stream, Frame(b))[Len(started) + 1] = Frame(b)
    BY <1>3, <1>11, StreamFacts DEF Frames
  <2>3. ASSUME NEW i \in 1 .. (Len(started) + 1)
        PROVE  Stream'[i] = Append(Stream, Frame(b))[i]
    <3>1. CASE i \in 1 .. Len(started)
      BY <1>6, <2>1, <2>2, <3>1, Zenon
    <3>2. CASE i = Len(started) + 1
      BY <1>6, <2>1, <2>2, <3>2
    <3>3. i \in 1 .. Len(started) \/ i = Len(started) + 1
      BY <1>3
    <3> QED BY <3>1, <3>2, <3>3, Zenon
  <2> QED BY <2>1, <2>2, <2>3, SameSeq
<1>13. UNCHANGED <<rpc, offset, buf_offset, receive_buffer, received>>
  BY <1>1 DEF reader
<1>14. Consumed' = Consumed
  <2>1. Len(received) \in 0 .. Len(Stream)
    BY <1>3, <1>11
  <2>2. Ends(Append(Stream, Frame(b)))[Len(received)] = Ends(Stream)[Len(received)]
    BY <1>11, <2>1, EndsAppend
  <2> QED BY <1>12, <1>13, <2>2 DEF Consumed
<1>15. InFlight = wire /\ InFlight' = wire \o Frame(b)
  <2>1. wire \o (<<>> \o <<>>) = wire
    BY <1>3 DEF TypeOK
  <2>2. Frame(b) = Encode(off) \o Block(off)
    BY <1>5 DEF Frame
  <2> QED BY <1>1, <2>1, <2>2 DEF InFlight, Idle
<1>16. /\ Follow(InFlight', Stream', Consumed')
       /\ Consumed' + Len(InFlight') = Total(Stream')
  <2>1. Follow(wire, Stream, Consumed) /\ Consumed + Len(wire) = Total(Stream)
    BY <1>1, <1>2, <1>15 DEF InStep
  <2>2. Consumed \in Nat /\ wire \in Seq(Byte)
    BY <1>2, <1>3, ConsumedFacts DEF TypeOK
  <2>3. /\ Follow(wire \o Frame(b), Append(Stream, Frame(b)), Consumed)
        /\ Consumed + Len(wire \o Frame(b)) = Total(Append(Stream, Frame(b)))
    BY <1>11, <2>1, <2>2, FollowMore
  <2> QED BY <1>12, <1>14, <1>15, <2>3
<1>17. Resumable'
  <2>1. Resumable /\ buf_offset \in Nat
    BY <1>2, <1>3 DEF InStep, TypeOK
  <2>2. CASE buf_offset = 0
    BY <1>13, <2>1, <2>2, Constants DEF Resumable
  <2>3. CASE buf_offset > 0
    <3>1. Len(received) + 1 \in 1 .. Len(started)
      BY <1>2, <2>3, ConsumedFacts
    <3>2. started'[Len(received) + 1] = started[Len(received) + 1]
      BY <1>6, <3>1
    <3> QED BY <1>13, <2>1, <3>2 DEF Resumable
  <2> QED BY <2>1, <2>2, <2>3
<1>18. InStep'
  <2>1. \A i \in 1 .. Len(received) : i \in 1 .. Len(started)
    BY <1>3
  <2>2. /\ Len(received') <= Len(started')
        /\ \A i \in 1 .. Len(received') :
             /\ received'[i] = started'[i]
             /\ started'[i][2] = Announced(started'[i][1])
    <3>1. Len(received) <= Len(started) + 1
      BY <1>3
    <3>2. ASSUME NEW i \in 1 .. Len(received)
          PROVE  /\ received[i] = started'[i]
                 /\ started'[i][2] = Announced(started'[i][1])
      <4>1. /\ started'[i] = started[i] /\ received[i] = started[i]
            /\ started[i][2] = Announced(started[i][1])
        BY <1>2, <1>6, <2>1 DEF InStep
      <4> QED BY <4>1, Zenon
    <3> QED BY <1>6, <1>13, <3>1, <3>2
  <2> QED BY <1>16, <1>17, <2>2 DEF InStep
<1> QED BY <1>8, <1>9, <1>10, <1>18 DEF IInv

(* The part of the type invariant a step of the reader has to show. *)
LEMMA ReaderType ==
  ASSUME TypeOK, UNCHANGED <<client, closed, cut, file, received>>,
         wire' \in Seq(Byte), Len(wire') <= Len(wire),
         rpc' \in {"out", "header", "payload", "over"},
         offset' \in 0 .. (Word - 1), buf_offset' \in Nat,
         receive_buffer' \in Seq(Byte),
         rpc' = "header" => /\ buf_offset' < HeaderLen
                            /\ Len(receive_buffer') = HeaderLen,
         rpc' = "payload" => buf_offset' >= HeaderLen,
         buf_offset' >= HeaderLen =>
           /\ Len(receive_buffer') <= BlockSize
           /\ buf_offset' <= HeaderLen + Len(receive_buffer')
  PROVE  TypeOK'
<1>1. Len(wire') <= NetCap
  BY Constants DEF TypeOK
<1>2. buf_offset' >= HeaderLen => receive_buffer' \in Buffers /\ Missing' >= 0
  BY Constants DEF Buffers, Missing
<1>3. UNCHANGED <<hashed_size, todo, offset_bytes, wbuf, started,
                  pending_disk, write_buffer, written, position, dest>>
  BY DEF client, file
<1> QED BY <1>1, <1>2, <1>3, Zenon DEF TypeOK

(* What the reader does before a block is complete touches neither plan    *)
(* nor file.                                                               *)
LEMMA RestKeeps ==
  ASSUME IInv, UNCHANGED <<client, received, file>>
  PROVE  Plan' /\ Placed' /\ DestIsSource' /\ (Derailed => Derailed')
<1>1. UNCHANGED <<hashed_size, todo, started>>
  BY DEF client
<1> QED BY <1>1, PlanFrame, FileFrame, DerailedFrame

(* read_on() goes on where the dropped future stopped; a buffer that       *)
(* served as write buffer is resized for the header.                       *)
LEMMA EnterStep ==
  ASSUME IInv, Enter
  PROVE  IInv'
<1>1. /\ UNCHANGED <<offset, buf_offset, received, client, wire, closed, cut, file>>
      /\ rpc = "out"
  BY DEF Enter
<1>2. /\ TypeOK /\ receive_buffer \in Seq(Byte) /\ buf_offset \in Nat
      /\ wire \in Seq(Byte) /\ Len(wire) \in Nat
  BY DEF IInv, TypeOK
<1>3. \/ /\ buf_offset < HeaderLen /\ rpc' = "header"
         /\ receive_buffer' = Resize(receive_buffer, HeaderLen)
         /\ receive_buffer' \in Seq(Byte) /\ Len(receive_buffer') = HeaderLen
         /\ \A i \in 1 .. HeaderLen : i <= Len(receive_buffer) =>
              receive_buffer'[i] = receive_buffer[i]
      \/ /\ buf_offset >= HeaderLen /\ rpc' = "payload"
         /\ receive_buffer' = receive_buffer
  <2>1. CASE buf_offset < HeaderLen
    <3>1. rpc' = "header" /\ receive_buffer' = Resize(receive_buffer, HeaderLen)
      BY <2>1 DEF Enter
    <3> QED BY <1>2, <2>1, <3>1, ResizeSeq, Constants, Zenon
  <2>2. CASE buf_offset >= HeaderLen
    BY <1>2, <2>2, Constants DEF Enter
  <2> QED BY <1>2, <2>1, <2>2, Constants
<1>4. TypeOK'
  <2>1. buf_offset >= HeaderLen =>
          /\ Len(receive_buffer) <= BlockSize
          /\ buf_offset <= HeaderLen + Len(receive_buffer)
    BY <1>2, Constants DEF TypeOK, Buffers, Missing
  <2>2. /\ offset' \in 0 .. (Word - 1) /\ buf_offset' \in Nat /\ wire' = wire
        /\ Len(wire') <= Len(wire)
    BY <1>1, <1>2 DEF TypeOK
  <2> QED BY <1>1, <1>2, <1>3, <2>1, <2>2, Constants, ReaderType
<1>5. InStep => InStep'
  <2> SUFFICES ASSUME InStep PROVE InStep'
    OBVIOUS
  <2>1. UNCHANGED <<started, offset_bytes, wbuf>>
    BY <1>1 DEF client
  <2>2. Stream' = Stream /\ Consumed' = Consumed /\ InFlight' = InFlight
    BY <1>1, <2>1 DEF Stream, Consumed, InFlight
  <2>3. Resumable'
    <3>1. CASE buf_offset < HeaderLen
      <4>1. \A i \in 1 .. buf_offset : receive_buffer'[i] = receive_buffer[i]
        BY <1>2, <1>3, <3>1, Constants DEF InStep, Resumable
      <4>2. Len(receive_buffer') = HeaderLen
        BY <1>2, <1>3, <3>1, Constants
      <4> QED BY <1>1, <1>2, <2>1, <3>1, <4>1, <4>2, Constants
             DEF InStep,
             Resumable
    <3>2. CASE buf_offset >= HeaderLen
      <4>1. receive_buffer' = receive_buffer
        BY <1>2, <1>3, <3>2, Constants
      <4> QED BY <1>1, <1>2, <2>1, <3>2, <4>1, Constants DEF InStep,
             Resumable
    <3> QED BY <1>2, <3>1, <3>2, Constants
  <2> QED BY <1>1, <2>1, <2>2, <2>3 DEF InStep
<1> QED BY <1>1, <1>4, <1>5, RestKeeps DEF IInv

(* A read of n bytes from the wire gets the next bytes of the current      *)
(* frame; in the last frame it cannot get more than there are.             *)
LEMMA Reading ==
  ASSUME IInv, InStep, NEW n \in 1 .. Len(wire),
         wire' = Drop(wire, n), buf_offset' = buf_offset + n,
         UNCHANGED <<client, closed, received>>
  PROVE  /\ Len(received) + 1 \in 1 .. Len(started)
         /\ Follow(InFlight', Stream', Consumed')
         /\ ~closed' => Consumed' + Len(InFlight') = Total(Stream')
         /\ \A i \in 1 .. n :
              buf_offset + i <= Len(Frame(started[Len(received) + 1])) =>
                wire[i] = Frame(started[Len(received) + 1])[buf_offset + i]
         /\ Len(received) + 1 = Len(started) =>
              buf_offset + n <= Len(Frame(started[Len(received) + 1]))
<1> DEFINE k == Len(received)
<1>1. /\ TypeOK /\ buf_offset \in Nat /\ n \in Nat /\ wire \in Seq(Byte)
      /\ offset_bytes \o wbuf \in Seq(Byte) /\ n \in 0 .. Len(wire)
  BY FlightFacts DEF IInv, TypeOK
<1>2. /\ InFlight \in Seq(Byte) /\ Len(InFlight) \in Nat
      /\ n \in 1 .. Len(InFlight) /\ n \in 0 .. Len(InFlight)
      /\ \A i \in 1 .. n : InFlight[i] = wire[i]
  BY <1>1, FlightFacts
<1>3. /\ Stream \in Frames /\ Len(Stream) = Len(started) /\ k \in 0 .. Len(Stream)
      /\ \A i \in 1 .. Len(started) : Stream[i] = Frame(started[i])
  BY <1>1, StreamFacts, ConsumedFacts
<1>4. /\ Follow(InFlight, Stream, Ends(Stream)[k] + buf_offset)
      /\ ~closed => Consumed + Len(InFlight) = Total(Stream)
  BY DEF InStep, Consumed
<1> HIDE DEF k
<1>5. /\ k + 1 \in 1 .. Len(Stream)
      /\ Follow(Drop(InFlight, n), Stream, Ends(Stream)[k] + (buf_offset + n))
      /\ \A i \in 1 .. n : buf_offset + i <= Len(Stream[k + 1]) =>
           InFlight[i] = Stream[k + 1][buf_offset + i]
  BY <1>1, <1>2, <1>3, <1>4, FrameRead
<1>6. /\ Stream' = Stream /\ Consumed' = Ends(Stream)[k] + (buf_offset + n)
      /\ Consumed' = Consumed + n
  <2>1. UNCHANGED <<started, received>>
    BY DEF client
  <2>2. Ends(Stream)[k] \in Nat
    BY ConsumedFacts DEF k
  <2>3. Stream' = Stream
    BY <2>1 DEF Stream
  <2>4. Consumed = Ends(Stream)[k] + buf_offset
    BY DEF Consumed, k
  <2>5. Consumed' = Ends(Stream)[k] + (buf_offset + n)
    BY <2>1, <2>3 DEF Consumed, k
  <2> QED BY <1>1, <2>2, <2>3, <2>4, <2>5
<1>7. InFlight' = Drop(InFlight, n)
  <2>1. UNCHANGED <<offset_bytes, wbuf, closed>>
    BY DEF client
  <2>2. Drop(wire, n) \o (offset_bytes \o wbuf) =
          Drop(wire \o (offset_bytes \o wbuf), n)
    BY <1>1, DropConcat, Zenon
  <2> QED BY <2>1, <2>2 DEF InFlight
<1>8. ~closed' => Consumed' + Len(InFlight') = Total(Stream')
  <2>1. Len(Drop(InFlight, n)) = Len(InFlight) - n
    BY <1>2, CutSeq
  <2>2. Consumed \in Nat
    BY ConsumedFacts
  <2>3. (Consumed + n) + (Len(InFlight) - n) = Consumed + Len(InFlight)
    BY <1>1, <1>2, <2>2
  <2> QED BY <1>4, <1>6, <1>7, <2>1, <2>3
<1>9. ASSUME k + 1 = Len(started) PROVE buf_offset + n <= Len(Stream[k + 1])
  <2>1. /\ Ends(Stream)[(k + 1) - 1] \in Nat /\ Len(Stream[k + 1]) \in Nat
        /\ Ends(Stream)[k + 1] = Ends(Stream)[(k + 1) - 1] + Len(Stream[k + 1])
    BY <1>3, <1>5, EndsAt, Zenon
  <2>2. (k + 1) - 1 = k /\ Total(Stream) = Ends(Stream)[k + 1]
    BY <1>3, <1>9 DEF Total
  <2>3. Ends(Stream)[k] + buf_offset + Len(InFlight) <= Total(Stream)
    BY <1>4 DEF Follow
  <2> QED BY <1>1, <1>2, <2>1, <2>2, <2>3
<1> QED BY <1>2, <1>3, <1>5, <1>6, <1>7, <1>8, <1>9 DEF k

(* Such a read keeps reader and stream in step, if what it stores is       *)
(* resumable.                                                              *)
LEMMA ReadingKeeps ==
  ASSUME IInv, InStep, NEW n \in 1 .. Len(wire),
         wire' = Drop(wire, n), buf_offset' = buf_offset + n,
         UNCHANGED <<client, closed, received>>, Resumable'
  PROVE  InStep'
<1>1. started' = started
  BY DEF client
<1> QED BY <1>1, Reading DEF InStep

(* What a read takes from the wire, and what it leaves. *)
LEMMA CutOff ==
  ASSUME NEW n \in 0 .. Len(wire), wire \in Seq(Byte), wire' = Drop(wire, n)
  PROVE  /\ wire' \in Seq(Byte) /\ Len(wire') <= Len(wire)
         /\ SubSeq(wire, 1, n) \in Seq(Byte) /\ Len(SubSeq(wire, 1, n)) = n
         /\ \A i \in 1 .. n : SubSeq(wire, 1, n)[i] = wire[i]
<1>1. /\ wire' \in Seq(Byte) /\ Len(wire') = Len(wire) - n /\ Len(wire) \in Nat
      /\ SubSeq(wire, 1, n) \in Seq(Byte) /\ Len(SubSeq(wire, 1, n)) = n
      /\ \A i \in 1 .. n : SubSeq(wire, 1, n)[i] = wire[i]
  BY CutSeq, Zenon
<1>2. Len(wire') <= Len(wire)
  BY <1>1
<1> QED BY <1>1, <1>2

(* The header may come in parts over several calls; when it is complete,   *)
(* the offset decoded from it is that of the block, and the buffer gets    *)
(* the size of the block there.                                            *)
LEMMA ReadHeaderStep ==
  ASSUME IInv, ReadHeader
  PROVE  IInv'
<1> DEFINE got(n) == Fill(receive_buffer, buf_offset, SubSeq(wire, 1, n))
<1> USE Constants
<1>1. UNCHANGED <<received, client, closed, cut, file>> /\ rpc = "header"
  BY DEF ReadHeader
<1>2. PICK n \in 1 .. Len(wire) :
        /\ buf_offset + n <= HeaderLen
        /\ wire' = Drop(wire, n)
        /\ buf_offset' = buf_offset + n
        /\ IF buf_offset' = HeaderLen
           THEN /\ offset' = Decode(offset, got(n))
                /\ receive_buffer' = Resize(<<>>, CurrentBlockSize(offset'))
                /\ rpc' = "payload"
           ELSE receive_buffer' = got(n) /\ UNCHANGED <<offset, rpc>>
  BY DEF ReadHeader
<1>3. /\ TypeOK /\ wire \in Seq(Byte) /\ receive_buffer \in Seq(Byte)
      /\ buf_offset \in Nat /\ buf_offset < HeaderLen
      /\ Len(receive_buffer) = HeaderLen /\ offset \in 0 .. (Word - 1)
      /\ n \in 0 .. Len(wire) /\ Len(wire) \in Nat
  BY <1>1 DEF IInv, TypeOK
<1>4. /\ wire' \in Seq(Byte) /\ Len(wire') <= Len(wire)
      /\ SubSeq(wire, 1, n) \in Seq(Byte) /\ Len(SubSeq(wire, 1, n)) = n
      /\ \A i \in 1 .. n : SubSeq(wire, 1, n)[i] = wire[i]
  BY <1>2, <1>3, CutOff
<1>5. got(n) \in Seq(Byte) /\ Len(got(n)) = HeaderLen
  <2>1. buf_offset + Len(SubSeq(wire, 1, n)) <= Len(receive_buffer)
    BY <1>2, <1>3, <1>4
  <2> QED BY <1>3, <1>4, <2>1, FillSeq, Zenon
<1>6. \/ /\ buf_offset' < HeaderLen /\ receive_buffer' = got(n)
         /\ UNCHANGED <<offset, rpc>>
      \/ /\ buf_offset' = HeaderLen /\ offset' = Decode(offset, got(n))
         /\ rpc' = "payload" /\ offset' \in 0 .. (Word - 1)
         /\ receive_buffer' \in Seq(Byte)
         /\ Len(receive_buffer') = CurrentBlockSize(offset')
         /\ CurrentBlockSize(offset') \in 0 .. BlockSize
  <2> HIDE DEF got
  <2>1. CASE buf_offset' = HeaderLen
    <3>1. /\ offset' = Decode(offset, got(n)) /\ rpc' = "payload"
          /\ receive_buffer' = Resize(<<>>, CurrentBlockSize(offset'))
      BY <1>2, <2>1
    <3>2. offset' \in 0 .. (Word - 1)
      <4>1. offset \in Nat /\ got(n) # <<>>
        BY <1>3, <1>5
      <4> QED BY <1>5, <3>1, <4>1, DecodeRange
    <3>3. CurrentBlockSize(offset') \in 0 .. BlockSize
      BY <3>2, SizeFacts
    <3>4. <<>> \in Seq(Byte) /\ CurrentBlockSize(offset') \in Nat
      BY <3>3
    <3>5. /\ receive_buffer' \in Seq(Byte)
          /\ Len(receive_buffer') = CurrentBlockSize(offset')
      BY <3>1, <3>4, ResizeSeq, Zenon
    <3> QED BY <2>1, <3>1, <3>2, <3>3, <3>5
  <2>2. CASE buf_offset' # HeaderLen
    BY <1>2, <1>3, <2>2
  <2> QED BY <2>1, <2>2
<1> HIDE DEF got
<1>7. TypeOK'
  BY <1>1, <1>2, <1>3, <1>4, <1>5, <1>6, ReaderType
<1>8. InStep => InStep'
  <2> SUFFICES ASSUME InStep PROVE InStep'
    OBVIOUS
  <2> DEFINE b == started[Len(received) + 1]
             t == Encode(b[1])
  <2>1. /\ Len(received) + 1 \in 1 .. Len(started)
        /\ \A i \in 1 .. n : buf_offset + i <= Len(Frame(b)) =>
             wire[i] = Frame(b)[buf_offset + i]
    BY <1>1, <1>2, Reading
  <2>2. /\ b \in Offsets \X Seq(Byte) /\ b[1] \in Offsets
        /\ b[1] \in 0 .. (Word - 1) /\ b[1] \in Nat
    BY <1>3, <2>1, StartedFacts, OffsetFacts
  <2>3. b' = b
    BY <1>1 DEF client
  <2> HIDE DEF b
  <2>4. /\ Len(b[2]) \in Nat /\ Len(Frame(b)) = HeaderLen + Len(b[2])
        /\ \A i \in 1 .. HeaderLen : Frame(b)[i] = t[i]
    BY <2>2, FrameFacts
  <2>5. t \in Seq(Byte) /\ Len(t) = HeaderLen
    BY <2>2, EncodeFacts
  <2>6. offset = 0 /\ Agrees(receive_buffer, buf_offset, t)
    BY <1>3 DEF InStep, Resumable, Agrees, b
  <2>7. Agrees(got(n), buf_offset + n, t)
    <3> DEFINE w == SubSeq(wire, 1, n)
    <3>1. w \in Seq(Byte) /\ Len(w) = n
          /\ buf_offset + Len(w) <= Len(receive_buffer)
      BY <1>2, <1>3, <1>4
    <3>2. ASSUME NEW i \in 1 .. Len(w) PROVE w[i] = t[buf_offset + i]
      <4>1. /\ i \in 1 .. n /\ buf_offset + i \in 1 .. HeaderLen
            /\ buf_offset + i <= HeaderLen + Len(b[2])
        BY <1>2, <1>3, <2>4, <3>1
      <4> HIDE DEF t
      <4> QED BY <1>4, <2>1, <2>4, <4>1
    <3>3. got(n) = Fill(receive_buffer, buf_offset, w)
      BY DEF got
    <3> HIDE DEF w, t
    <3>4. Continues(w, buf_offset, t)
      BY <3>2, Zenon DEF Continues
    <3>5. Agrees(Fill(receive_buffer, buf_offset, w), buf_offset + Len(w), t)
      BY <1>3, <2>6, <3>1, <3>4, FillOn, Zenon
    <3> QED BY <3>1, <3>3, <3>5
  <2>8. Resumable'
    <3>1. CASE buf_offset' < HeaderLen
      <4>1. receive_buffer' = got(n) /\ offset' = 0 /\ received' = received
        BY <1>1, <1>6, <2>6, <3>1
      <4> QED BY <1>2, <1>5, <2>3, <2>7, <3>1, <4>1 DEF Resumable,
             Agrees, b
    <3>2. CASE buf_offset' = HeaderLen
      <4>1. got(n) = t
        <5>1. \A i \in 1 .. HeaderLen : got(n)[i] = t[i]
          BY <1>2, <2>7, <3>2 DEF Agrees
        <5> HIDE DEF t
        <5> QED BY <1>5, <2>5, <5>1, SameSeq
      <4>2. offset' = b[1]
        BY <1>6, <2>2, <2>6, <3>2, <4>1, RoundTrip
      <4>3. Len(receive_buffer') = CurrentBlockSize(offset')
        BY <1>6, <3>2
      <4>4. buf_offset' - HeaderLen = 0
        BY <3>2
      <4> QED BY <1>1, <2>3, <3>2, <4>2, <4>3, <4>4 DEF Resumable, b
    <3> QED BY <1>6, <3>1, <3>2
  <2> QED BY <1>1, <1>2, <2>8, ReadingKeeps
<1> QED BY <1>1, <1>7, <1>8, RestKeeps DEF IInv

(* The length the client sends and the length the server expects differ in *)
(* the last block only, and there only if the file has changed its size    *)
(* since it was measured.                                                  *)
LEMMA LengthFacts ==
  ASSUME IInv, NEW i \in 1 .. Len(started)
  PROVE  /\ started[i][2] \in Buffers /\ started[i][2] = Block(started[i][1])
         /\ started[i][1] < hashed_size
         /\ i < Len(started) \/ todo # <<>> =>
              /\ Len(started[i][2]) = BlockSize
              /\ CurrentBlockSize(started[i][1]) = BlockSize
         /\ Len(started[i][2]) < CurrentBlockSize(started[i][1]) =>
              i = Len(started) /\ NotGrown
         /\ Len(started[i][2]) > CurrentBlockSize(started[i][1]) =>
              ~NotGrown
<1> USE Constants
<1> DEFINE off == started[i][1]
<1>1. TypeOK /\ off \in Offsets /\ off \in Nat /\ off < FileSize
      /\ Len(started) \in Nat
  BY StartedFacts, OffsetFacts, StreamFacts DEF IInv
<1>2. /\ off < hashed_size /\ started[i][2] = Block(off)
      /\ i < Len(started) \/ todo # <<>> => Full(off)
  BY DEF IInv, Plan
<1>3. hashed_size \in Nat /\ \A p \in 0 .. (hashed_size - 1) : Source(p) \in Byte
  BY <1>1, BlockFramingAssumption DEF TypeOK
<1> HIDE DEF off
<1>4. /\ Block(off) \in Buffers
      /\ Len(Block(off)) = IF off + BlockSize <= hashed_size THEN BlockSize
                           ELSE hashed_size - off
  BY <1>1, <1>2, <1>3, BlockFacts DEF Block
<1>5. CurrentBlockSize(off) =
        IF off + BlockSize <= FileSize THEN BlockSize ELSE FileSize - off
  BY <1>1, SizeFacts
<1>6. Full(off) => Len(Block(off)) = BlockSize /\ CurrentBlockSize(off) = BlockSize
  BY <1>4, <1>5 DEF Full
<1>7. Len(Block(off)) < CurrentBlockSize(off) => ~Full(off) /\ NotGrown
  BY <1>1, <1>2, <1>3, <1>4, <1>5 DEF Full, NotGrown
<1>8. Len(Block(off)) > CurrentBlockSize(off) => ~NotGrown
  BY <1>1, <1>2, <1>3, <1>4, <1>5 DEF NotGrown
<1> QED BY <1>1, <1>2, <1>4, <1>6, <1>7, <1>8 DEF off

(* A block as long as the server expects is the block that was announced. *)
LEMMA WholeBlock ==
  ASSUME IInv, NEW i \in 1 .. Len(started),
         Len(started[i][2]) = CurrentBlockSize(started[i][1])
  PROVE  started[i][2] = Announced(started[i][1])
<1> DEFINE off == started[i][1]
           len(h) == IF off + BlockSize <= h THEN BlockSize ELSE h - off
<1>1. off \in Offsets /\ off \in Nat /\ TypeOK
  BY StartedFacts, OffsetFacts DEF IInv
<1>2. started[i][2] = Block(off) /\ off < hashed_size
  BY LengthFacts
<1>3. /\ hashed_size \in Nat
      /\ \A p \in 0 .. (hashed_size - 1) : Source(p) \in Byte
  BY <1>1, BlockFramingAssumption DEF TypeOK
<1> HIDE DEF off
<1>4. Len(Block(off)) = len(hashed_size)
  BY <1>1, <1>2, <1>3, BlockFacts, Zenon DEF Block
<1>5. CurrentBlockSize(off) = len(FileSize)
  BY <1>1, SizeFacts
<1>6. len(hashed_size) = len(FileSize)
  <2>1. Len(started[i][2]) = CurrentBlockSize(off)
    BY DEF off
  <2> HIDE DEF len
  <2> QED BY <1>2, <1>4, <1>5, <2>1, Zenon
<1>7. ASSUME NEW h PROVE BlockOf(off, h) = [j \in 1 .. len(h) |-> Source(off + j - 1)]
  BY DEF BlockOf
<1> HIDE DEF len
<1>8. Block(off) = Announced(off)
  BY <1>6, <1>7, Zenon DEF Block, Announced
<1> QED BY <1>2, <1>8 DEF off

(* The bytes of the block may come in parts over several calls, each put   *)
(* behind the one before.                                                  *)
LEMMA ReadPayloadStep ==
  ASSUME IInv, ReadPayload
  PROVE  IInv'
<1> USE Constants
<1>1. UNCHANGED <<rpc, offset, received, client, closed, cut, file>>
      /\ rpc = "payload"
  BY DEF ReadPayload
<1>2. PICK n \in 1 .. Len(wire) :
        /\ n <= Missing
        /\ receive_buffer' = Fill(receive_buffer, buf_offset - HeaderLen,
                                  SubSeq(wire, 1, n))
        /\ wire' = Drop(wire, n)
        /\ buf_offset' = buf_offset + n
  BY DEF ReadPayload
<1>3. /\ TypeOK /\ wire \in Seq(Byte) /\ receive_buffer \in Seq(Byte)
      /\ buf_offset \in Nat /\ buf_offset >= HeaderLen
      /\ Len(receive_buffer) \in Nat /\ Len(receive_buffer) <= BlockSize
      /\ offset \in 0 .. (Word - 1) /\ n \in Nat
      /\ n \in 0 .. Len(wire) /\ Len(wire) \in Nat
  BY <1>1 DEF IInv, TypeOK, Buffers
<1>4. buf_offset + n <= HeaderLen + Len(receive_buffer)
  BY <1>2, <1>3 DEF Missing
<1>5. /\ wire' \in Seq(Byte) /\ Len(wire') <= Len(wire)
      /\ SubSeq(wire, 1, n) \in Seq(Byte) /\ Len(SubSeq(wire, 1, n)) = n
      /\ \A i \in 1 .. n : SubSeq(wire, 1, n)[i] = wire[i]
  BY <1>2, <1>3, CutOff
<1> DEFINE w == SubSeq(wire, 1, n)
           at == buf_offset - HeaderLen
<1>6. /\ w \in Seq(Byte) /\ Len(w) = n /\ at \in Nat
      /\ at + Len(w) <= Len(receive_buffer)
      /\ at + Len(w) = (buf_offset + n) - HeaderLen
      /\ receive_buffer' = Fill(receive_buffer, at, w)
  BY <1>2, <1>3, <1>4, <1>5
<1>7. receive_buffer' \in Seq(Byte) /\ Len(receive_buffer') = Len(receive_buffer)
  <2> HIDE DEF w, at
  <2> QED BY <1>3, <1>6, FillSeq
<1>8. TypeOK'
  <2>1. /\ buf_offset' \in Nat /\ buf_offset' >= HeaderLen
        /\ rpc' = "payload" /\ offset' \in 0 .. (Word - 1)
        /\ buf_offset' <= HeaderLen + Len(receive_buffer')
        /\ Len(receive_buffer') <= BlockSize
    BY <1>1, <1>2, <1>3, <1>4, <1>7
  <2> QED BY <1>1, <1>3, <1>5, <1>7, <2>1, ReaderType
<1>9. InStep => InStep'
  <2> SUFFICES ASSUME InStep PROVE InStep'
    OBVIOUS
  <2> DEFINE k == Len(received)
             b == started[k + 1]
  <2>1. /\ k + 1 \in 1 .. Len(started)
        /\ \A i \in 1 .. n : buf_offset + i <= Len(Frame(b)) =>
             wire[i] = Frame(b)[buf_offset + i]
        /\ k + 1 = Len(started) => buf_offset + n <= Len(Frame(b))
    BY <1>1, <1>2, Reading
  <2>2. b \in Offsets \X Seq(Byte) /\ b' = b /\ Len(started) \in Nat
    BY <1>1, <1>3, <2>1, StartedFacts, StreamFacts DEF client
  <2>3. /\ offset = b[1] /\ Len(receive_buffer) = CurrentBlockSize(offset)
        /\ Agrees(receive_buffer, at, b[2])
    BY <1>3 DEF InStep, Resumable, Agrees
  <2>4. k + 1 < Len(started) => Len(b[2]) = Len(receive_buffer)
    BY <2>1, <2>3, LengthFacts
  <2> HIDE DEF b
  <2>5. /\ Len(b[2]) \in Nat /\ Len(Frame(b)) = HeaderLen + Len(b[2])
        /\ \A i \in 1 .. Len(b[2]) : Frame(b)[HeaderLen + i] = b[2][i]
    BY <2>2, FrameFacts
  <2>6. buf_offset + n <= HeaderLen + Len(b[2])
    <3>1. CASE k + 1 = Len(started)
      BY <2>1, <2>5, <3>1
    <3>2. CASE k + 1 < Len(started)
      BY <1>4, <2>4, <3>2
    <3> QED BY <2>1, <2>2, <3>1, <3>2
  <2>7. ASSUME NEW i \in 1 .. Len(w) PROVE w[i] = b[2][at + i]
    <3>1. /\ i \in 1 .. n /\ at + i \in 1 .. Len(b[2])
          /\ HeaderLen + (at + i) = buf_offset + i
          /\ buf_offset + i <= Len(Frame(b))
      <4>1. PICK L \in Nat : L = Len(b[2]) /\ Len(Frame(b)) = HeaderLen + L
        BY <2>5
      <4>2. i \in 1 .. n
        BY <1>6
      <4> QED BY <1>3, <2>6, <4>1, <4>2
    <3>2. w[i] = Frame(b)[HeaderLen + (at + i)]
      BY <1>5, <2>1, <3>1
    <3> HIDE DEF at
    <3> QED BY <2>5, <3>1, <3>2
  <2>8. Agrees(receive_buffer', (buf_offset + n) - HeaderLen, b[2])
    <3> HIDE DEF w, at
    <3>1. Continues(w, at, b[2])
      BY <2>7, Zenon DEF Continues
    <3>2. Agrees(Fill(receive_buffer, at, w), at + Len(w), b[2])
      BY <1>3, <1>6, <2>3, <3>1, FillOn, Zenon
    <3> QED BY <1>6, <3>2
  <2>9. Resumable'
    <3>1. /\ offset' = b[1] /\ Len(receive_buffer') = CurrentBlockSize(offset')
          /\ buf_offset' >= HeaderLen /\ ~(buf_offset' < HeaderLen)
          /\ received' = received
      BY <1>1, <1>2, <1>3, <1>7, <2>3
    <3>2. \A i \in 1 .. (buf_offset' - HeaderLen) : receive_buffer'[i] = b[2][i]
      <4>0. buf_offset' = buf_offset + n
        BY <1>2
      <4>1. Agrees(receive_buffer', buf_offset' - HeaderLen, b[2])
        BY <2>8, <4>0, Zenon
      <4> QED BY <4>1, Zenon DEF Agrees
    <3>3. started'[Len(received') + 1] = b
      BY <2>2, <3>1 DEF b
    <3> QED BY <3>1, <3>2, <3>3 DEF Resumable
  <2> QED BY <1>1, <1>2, <2>9, ReadingKeeps
<1> QED BY <1>1, <1>8, <1>9, RestKeeps DEF IInv

(* A future dropped between two reads, and the end of the stream, leave    *)
(* everything the next call needs.                                         *)
LEMMA PausedStep ==
  ASSUME IInv, Dropped \/ EndOfFile
  PROVE  IInv'
<1>1. /\ UNCHANGED <<offset, buf_offset, receive_buffer, received, client, wire,
                     closed, cut, file>>
      /\ rpc' \in {"out", "over"}
  BY DEF Dropped, EndOfFile
<1>2. UNCHANGED <<hashed_size, todo, offset_bytes, wbuf, started,
                  pending_disk, write_buffer, written, position, dest>>
  BY <1>1 DEF client, file
<1>3. TypeOK'
  BY <1>1, <1>2 DEF IInv, TypeOK, Missing
<1>4. InStep => InStep'
  BY <1>1, <1>2, Zenon DEF InStep, Stream, Consumed, InFlight, Resumable
<1> QED BY <1>1, <1>3, <1>4, RestKeeps DEF IInv

(* A complete block: if it is as long as the client sent it, the reader    *)
(* stands at the start of the next frame; a shorter one never completes; a *)
(* longer one is the last block of a source that has grown.                *)
LEMMA BlockReceivedStep ==
  ASSUME IInv, BlockReceived
  PROVE  IInv'
<1> DEFINE k == Len(received)
           r == <<offset, receive_buffer>>
<1> USE Constants
<1>1. /\ rpc = "payload" /\ Missing = 0 /\ rpc' = "out"
      /\ offset' = 0 /\ buf_offset' = 0
      /\ receive_buffer' = write_buffer /\ write_buffer' = receive_buffer
      /\ received' = Append(received, r) /\ position' = offset
      /\ pending_disk' = TRUE /\ written' = 0
      /\ UNCHANGED <<client, wire, closed, cut, dest>>
  BY DEF BlockReceived, Rewind, Seek
<1>2. UNCHANGED <<hashed_size, todo, offset_bytes, wbuf, started>>
  BY <1>1 DEF client
<1>3. /\ TypeOK /\ receive_buffer \in Buffers /\ receive_buffer \in Seq(Byte)
      /\ write_buffer \in Seq(Byte) /\ offset \in 0 .. (Word - 1)
      /\ buf_offset \in Nat /\ buf_offset >= HeaderLen
      /\ Len(receive_buffer) \in Nat
      /\ buf_offset = HeaderLen + Len(receive_buffer)
      /\ k \in Nat /\ Len(started) \in Nat
  <2>1. /\ TypeOK /\ receive_buffer \in Buffers /\ receive_buffer \in Seq(Byte)
        /\ write_buffer \in Seq(Byte) /\ offset \in 0 .. (Word - 1)
        /\ buf_offset \in Nat /\ buf_offset >= HeaderLen
        /\ k \in Nat /\ Len(started) \in Nat
    BY <1>1, SMTT(60) DEF IInv, TypeOK, Buffers
  <2>2. Len(receive_buffer) \in Nat
    BY <2>1
  <2>3. buf_offset = HeaderLen + Len(receive_buffer)
    BY <1>1, <2>1, <2>2 DEF Missing
  <2> QED BY <2>1, <2>2, <2>3
<1>4. r \in (0 .. (Word - 1)) \X Buffers
  BY <1>3
<1> HIDE DEF r
<1>5. /\ received' \in Seq((0 .. (Word - 1)) \X Buffers) /\ Len(received') = k + 1
      /\ \A i \in 1 .. k : received'[i] = received[i]
      /\ received'[k + 1] = r
  BY <1>1, <1>3, <1>4 DEF TypeOK
<1>6. TypeOK'
  <2>1. 0 \in 0 .. (Word - 1) /\ ~(0 >= HeaderLen)
        /\ offset \in 0 .. (Word + BlockSize)
    BY <1>3
  <2> QED BY <1>1, <1>2, <1>3, <1>5, <2>1, Zenon DEF TypeOK
<1>7. Plan'
  BY <1>2, PlanFrame
<1>8. Placed'
  <2>1. r[1] = offset /\ r[2] = receive_buffer
    BY DEF r
  <2>2. received' # <<>> /\ received'[Len(received')] = r
    BY <1>3, <1>5
  <2>3. offset = offset + 0 /\ 0 <= Len(receive_buffer)
    BY <1>3
  <2> QED BY <1>1, <2>1, <2>2, <2>3 DEF Placed
<1>9. DestIsSource'
  BY <1>1, <1>2 DEF IInv, DestIsSource, NotGrown
<1>10. ASSUME InStep PROVE InStep' \/ Derailed'
  <2> DEFINE b == started[k + 1]
  <2>1. k + 1 \in 1 .. Len(started) /\ k \in 0 .. Len(started)
    BY <1>3, <1>10, ConsumedFacts
  <2>2. /\ b \in Offsets \X Seq(Byte) /\ b = <<b[1], b[2]>>
        /\ b[1] \in Offsets /\ b[2] \in Seq(Byte)
    BY <1>3, <2>1, StartedFacts
  <2>3. /\ offset = b[1] /\ Len(receive_buffer) = CurrentBlockSize(offset)
        /\ \A i \in 1 .. (buf_offset - HeaderLen) : receive_buffer[i] = b[2][i]
    BY <1>3, <1>10 DEF InStep, Resumable
  <2>4. \A i \in 1 .. Len(receive_buffer) : receive_buffer[i] = b[2][i]
    <3>1. buf_offset - HeaderLen = Len(receive_buffer)
      BY <1>3
    <3> QED BY <2>3, <3>1, Zenon
  <2>5. /\ b[2] = Block(b[1]) /\ b[1] < hashed_size
        /\ k + 1 < Len(started) \/ todo # <<>> =>
             Len(b[2]) = CurrentBlockSize(b[1])
        /\ Len(b[2]) < CurrentBlockSize(b[1]) => k + 1 = Len(started)
        /\ Len(b[2]) > CurrentBlockSize(b[1]) => ~NotGrown
    BY <2>1, LengthFacts
  <2>6. Stream' = Stream /\ InFlight' = InFlight
    BY <1>1, <1>2 DEF Stream, InFlight
  <2>7. /\ Stream \in Frames /\ Len(Stream) = Len(started)
        /\ Stream[k + 1] = Frame(b)
    BY <1>3, <2>1, StreamFacts
  <2>8. /\ Ends(Stream)[k] \in Nat /\ Total(Stream) \in Nat
        /\ Ends(Stream)[k + 1] = Ends(Stream)[k] + Len(Frame(b))
    <3>1. (k + 1) - 1 = k
      BY <1>3
    <3> HIDE DEF b
    <3> QED BY <2>1, <2>7, <3>1, EndsAt
  <2> HIDE DEF b
  <2>9. Len(b[2]) \in Nat /\ Len(Frame(b)) = HeaderLen + Len(b[2])
    BY <2>2, FrameFacts
  <2>10. CASE Len(b[2]) = Len(receive_buffer)
    <3>1. r = b
      <4>1. receive_buffer = b[2]
        BY <1>3, <2>2, <2>4, <2>10, SameSeq
      <4> QED BY <2>2, <2>3, <4>1 DEF r
    <3>2. Consumed' = Consumed
      BY <1>1, <1>3, <1>5, <2>6, <2>8, <2>9, <2>10 DEF Consumed
    <3>3. ASSUME NEW i \in 1 .. (k + 1)
          PROVE  /\ received'[i] = started[i]
                 /\ started[i][2] = Announced(started[i][1])
      <4>1. CASE i \in 1 .. k
        BY <1>5, <1>10, <4>1 DEF InStep
      <4>2. CASE i = k + 1
        BY <1>5, <2>1, <2>3, <2>10, <3>1, <4>2, WholeBlock DEF b
      <4>3. i \in 1 .. k \/ i = k + 1
        BY <1>3
      <4> QED BY <4>1, <4>2, <4>3, Zenon
    <3>4. Resumable'
      BY <1>1 DEF Resumable
    <3>5. /\ Len(received') <= Len(started')
          /\ \A i \in 1 .. Len(received') :
               /\ received'[i] = started'[i]
               /\ started'[i][2] = Announced(started'[i][1])
      BY <1>2, <1>5, <2>1, <3>3
    <3> QED BY <1>1, <1>10, <2>6, <3>2, <3>4, <3>5 DEF InStep
  <2>11. CASE Len(b[2]) < Len(receive_buffer)
    <3>1. k + 1 = Len(started)
      BY <2>3, <2>5, <2>11
    <3>2. Total(Stream) = Ends(Stream)[k] + HeaderLen + Len(b[2])
      BY <2>7, <2>8, <2>9, <3>1, SMTT(60) DEF Total
    <3>3. /\ Ends(Stream)[k] + buf_offset + Len(InFlight) <= Total(Stream)
          /\ Len(InFlight) \in Nat
      BY <1>3, <1>10, ConsumedFacts, FlightFacts DEF Consumed
    <3>4. PICK e \in Nat, l \in Nat, m \in Nat, f \in Nat :
            /\ e = Ends(Stream)[k] /\ l = Len(b[2])
            /\ m = Len(receive_buffer) /\ f = Len(InFlight)
      BY <1>3, <2>8, <2>9, <3>3, Zenon
    <3>5. e + (HeaderLen + m) + f <= e + HeaderLen + l /\ l < m
      BY <1>3, <2>11, <3>2, <3>3, <3>4
    <3> QED BY <3>5
  <2>12. CASE Len(b[2]) > Len(receive_buffer)
    <3>1. ~NotGrown /\ todo = <<>> /\ k + 1 = Len(started)
      BY <1>3, <2>1, <2>3, <2>5, <2>9, <2>12
    <3>2. receive_buffer = Announced(b[1])
      <4>1. /\ b[1] \in Nat /\ b[1] < FileSize /\ hashed_size \in Nat
            /\ FileSize < hashed_size
        BY <1>3, <2>2, <3>1, OffsetFacts, BlockFramingAssumption
           DEF TypeOK, NotGrown
      <4>2. /\ \A p \in 0 .. (hashed_size - 1) : Source(p) \in Byte
            /\ \A p \in 0 .. (FileSize - 1) : Source(p) \in Byte
        <5>1. \A p \in 0 .. (hashed_size - 1) : Source(p) \in Byte
          BY <1>3, BlockFramingAssumption, Zenon DEF TypeOK
        <5>2. \A p \in 0 .. (FileSize - 1) : p \in 0 .. (hashed_size - 1)
          BY <4>1
        <5> QED BY <5>1, <5>2, Zenon
      <4>3. /\ Announced(b[1]) \in Seq(Byte)
            /\ Len(Announced(b[1])) =
                 IF b[1] + BlockSize <= FileSize THEN BlockSize
                 ELSE FileSize - b[1]
            /\ \A i \in 1 .. Len(Announced(b[1])) :
                 Announced(b[1])[i] = Source(b[1] + i - 1)
        BY <4>1, <4>2, BlockFacts, ZenonT(60) DEF Announced, Buffers
      <4>4. \A i \in 1 .. Len(b[2]) : b[2][i] = Source(b[1] + i - 1)
        BY <1>3, <2>5, <4>1, BlockAt, SMTT(60)
      <4>5. Len(receive_buffer) = Len(Announced(b[1]))
        BY <2>2, <2>3, <4>3, SizeFacts
      <4>6. \A i \in 1 .. Len(receive_buffer) :
              i \in 1 .. Len(b[2]) /\ i \in 1 .. Len(Announced(b[1]))
        BY <1>3, <2>9, <2>12, <4>5
      <4>7. \A i \in 1 .. Len(receive_buffer) :
              receive_buffer[i] = Announced(b[1])[i]
        BY <2>4, <4>3, <4>4, <4>6, Zenon
      <4> QED BY <1>3, <4>3, <4>5, <4>7, SameSeq
    <3>3. ASSUME NEW i \in 1 .. (k + 1)
          PROVE  received'[i] = <<started[i][1], Announced(started[i][1])>>
      <4>1. CASE i \in 1 .. k
        <5>1. /\ started[i] = <<started[i][1], started[i][2]>>
              /\ i \in 1 .. Len(started) /\ i < Len(started)
          BY <1>3, <2>1, <4>1, StartedFacts, SMTT(60)
        <5>2. received'[i] = started[i] /\ started[i][2] = Announced(started[i][1])
          BY <1>5, <1>10, <4>1 DEF InStep
        <5> QED BY <5>1, <5>2
      <4>2. CASE i = k + 1
        BY <1>5, <2>3, <3>2, <4>2 DEF b, r
      <4>3. i \in 1 .. k \/ i = k + 1
        BY <1>3
      <4> QED BY <4>1, <4>2, <4>3, Zenon
    <3>4. Derailed'
      <4>1. started # <<>> /\ Len(received') >= Len(started)
        BY <1>3, <1>5, <3>1
      <4>2. \A i \in 1 .. Len(started) :
              received'[i] = <<started[i][1], Announced(started[i][1])>>
        BY <3>1, <3>3
      <4> QED BY <1>2, <3>1, <4>1, <4>2 DEF Derailed, NotGrown
    <3> QED BY <3>4
  <2> QED BY <1>3, <2>9, <2>10, <2>11, <2>12
<1>11. ASSUME Derailed PROVE Derailed'
  <2>1. Len(received) >= Len(started)
    BY <1>11 DEF Derailed
  <2>2. \A i \in 1 .. Len(started) : i \in 1 .. k
    BY <1>3, <2>1
  <2>3. Len(received') >= Len(started)
    BY <1>3, <1>5, <2>1
  <2> QED BY <1>2, <1>5, <1>11, <2>2, <2>3, Zenon DEF Derailed, NotGrown
<1> QED BY <1>6, <1>7, <1>8, <1>9, <1>10, <1>11 DEF IInv

(* Each write to the file continues at the position where the one before   *)
(* it ended, with the bytes of the source that belong there.               *)
LEMMA DiskWriteStep ==
  ASSUME IInv, DiskWrite
  PROVE  IInv'
<1> USE Constants
<1> DEFINE b == received[Len(received)]
<1>1. UNCHANGED <<write_buffer, client, wire, closed, cut, reader>> /\ pending_disk
  BY DEF DiskWrite
<1>2. PICK n \in 0 .. (Len(write_buffer) - written) :
        /\ dest' = [p \in DOMAIN dest |->
                      IF p \in position .. (position + n - 1)
                      THEN write_buffer[written + p - position + 1] ELSE dest[p]]
        /\ position' = position + n
        /\ written' = written + n
        /\ pending_disk' = (written + n < Len(write_buffer))
  BY DEF DiskWrite
<1>3. /\ TypeOK /\ write_buffer \in Seq(Byte) /\ Len(write_buffer) \in Nat
      /\ Len(write_buffer) <= BlockSize /\ written \in Nat /\ position \in Nat
      /\ dest \in [0 .. (Word + BlockSize) -> 0 .. Old]
      /\ Len(received) \in Nat
  <2>1. /\ TypeOK /\ write_buffer \in Buffers /\ written \in Nat
        /\ position \in 0 .. (Word + BlockSize)
        /\ dest \in [0 .. (Word + BlockSize) -> 0 .. Old]
        /\ received \in Seq((0 .. (Word - 1)) \X Buffers)
    BY Zenon DEF IInv, TypeOK
  <2> QED BY <2>1 DEF Buffers
<1>4. /\ received # <<>> /\ write_buffer = b[2]
      /\ written <= Len(write_buffer) /\ position = b[1] + written
  BY <1>1 DEF IInv, Placed
<1>5. Len(received) \in 1 .. Len(received) /\ b[1] \in 0 .. (Word - 1)
  <2>1. received \in Seq((0 .. (Word - 1)) \X Buffers)
    BY <1>3 DEF TypeOK
  <2>2. Len(received) \in 1 .. Len(received)
    BY <1>3, <1>4, <2>1
  <2>3. b \in (0 .. (Word - 1)) \X Buffers
    BY <2>1, <2>2
  <2> QED BY <2>2, <2>3
<1>6. UNCHANGED <<hashed_size, todo, offset_bytes, wbuf, started,
                  rpc, offset, buf_offset, receive_buffer, received>>
  BY <1>1 DEF client, reader
<1>n. PICK o \in 0 .. (Word - 1) :
        /\ o = b[1] /\ position = o + written
        /\ n \in Nat /\ written + n <= Len(write_buffer)
        /\ position' = position + n /\ written' = written + n
        /\ pending_disk' \in BOOLEAN
  <2>1. n \in Nat /\ written + n <= Len(write_buffer)
    BY <1>3, <1>4
  <2>2. position = b[1] + written
    BY <1>4
  <2>3. /\ position' = position + n /\ written' = written + n
        /\ pending_disk' \in BOOLEAN
    BY <1>2
  <2> HIDE DEF b
  <2> QED BY <1>5, <2>1, <2>2, <2>3, Zenon
<1>7. ASSUME NEW p \in 0 .. (Word + BlockSize), p \in position .. (position + n - 1)
      PROVE  /\ written + p - position + 1 \in 1 .. Len(write_buffer)
             /\ o + (written + p - position + 1) - 1 = p
  <2>1. /\ position = o + written /\ n \in Nat
        /\ written + n <= Len(write_buffer)
    BY <1>n
  <2> HIDE DEF b
  <2> QED BY <1>3, <1>7, <2>1
<1>8. TypeOK'
  <2>1. dest' \in [0 .. (Word + BlockSize) -> 0 .. Old]
    <3>1. ASSUME NEW p \in 0 .. (Word + BlockSize)
          PROVE  (IF p \in position .. (position + n - 1)
                  THEN write_buffer[written + p - position + 1] ELSE dest[p])
                   \in 0 .. Old
      <4>1. CASE p \in position .. (position + n - 1)
        <5>1. write_buffer[written + p - position + 1] \in Byte
          BY <1>3, <1>7, <4>1
        <5>2. Byte \subseteq 0 .. Old
          BY FramingAssumption DEF Byte, Old
        <5> QED BY <4>1, <5>1, <5>2, Zenon
      <4>2. CASE p \notin position .. (position + n - 1)
        BY <1>3, <4>2
      <4> QED BY <4>1, <4>2
    <3> QED BY <1>2, <1>3, <3>1, Zenon
  <2>2. position' \in 0 .. (Word + BlockSize) /\ written' \in Nat
        /\ pending_disk' \in BOOLEAN
    <3>1. /\ position = o + written /\ n \in Nat /\ pending_disk' \in BOOLEAN
          /\ written + n <= Len(write_buffer)
          /\ position' = position + n /\ written' = written + n
      BY <1>n
    <3> QED BY <1>3, <3>1
  <2> QED BY <1>1, <1>3, <1>6, <2>1, <2>2, Zenon DEF TypeOK, Missing
<1>9. Placed'
  <2>1. b' = b
    BY <1>6
  <2> HIDE DEF b
  <2>2. written' <= Len(write_buffer) /\ position' = b[1] + written'
    <3>1. /\ position = o + written /\ n \in Nat
          /\ written + n <= Len(write_buffer)
          /\ position' = position + n /\ written' = written + n
      BY <1>n
    <3>2. written' <= Len(write_buffer) /\ position' = o + written'
      BY <1>3, <3>1
    <3> QED BY <1>n, <3>2, Zenon
  <2> QED BY <1>1, <1>4, <1>6, <2>1, <2>2 DEF Placed, b
<1>10. DestIsSource'
  <2> SUFFICES ASSUME NotGrown, NEW p \in 0 .. (Word + BlockSize), dest'[p] # Old
               PROVE  p < FileSize /\ dest'[p] = Source(p)
    BY <1>2, <1>3, <1>6 DEF DestIsSource, NotGrown
  <2>1. CASE p \in position .. (position + n - 1)
    <3> DEFINE j == written + p - position + 1
               m == Len(received)
    <3>1. /\ j \in 1 .. Len(write_buffer) /\ o + j - 1 = p
          /\ dest'[p] = write_buffer[j]
      BY <1>2, <1>3, <1>7, <2>1, Zenon
    <3>2. InStep
      BY DEF IInv, Derailed
    <3>3. m \in 1 .. Len(started) /\ b = started[m]
      BY <1>3, <1>5, <3>2, StreamFacts DEF InStep
    <3>4. /\ b[2] = Block(b[1]) /\ b[1] < hashed_size
      BY <3>3, LengthFacts
    <3>5. /\ hashed_size \in Nat /\ hashed_size <= FileSize /\ o \in Nat
      BY <1>3, BlockFramingAssumption DEF TypeOK, NotGrown
    <3> HIDE DEF b, j
    <3>6. write_buffer = Block(o) /\ o < hashed_size
      BY <1>4, <1>n, <3>4, Zenon
    <3>7. /\ o + j - 1 \in 0 .. (hashed_size - 1)
          /\ Block(o)[j] = Source(o + j - 1)
      BY <1>3, <3>1, <3>5, <3>6, BlockAt, SMTT(60)
    <3> QED BY <3>1, <3>5, <3>6, <3>7
  <2>2. CASE p \notin position .. (position + n - 1)
    <3>1. dest'[p] = dest[p]
      BY <1>2, <1>3, <2>2
    <3> QED BY <1>3, <3>1 DEF IInv, DestIsSource
  <2> QED BY <2>1, <2>2
<1>11. Plan' /\ (Derailed => Derailed')
  BY <1>6, PlanFrame, DerailedFrame
<1>12. InStep => InStep'
  BY <1>1, <1>6, Zenon DEF InStep, Stream, Consumed, InFlight, Resumable
<1> QED BY <1>8, <1>9, <1>10, <1>11, <1>12 DEF IInv

(* At every await, over all ways in which reads, writes, dropped futures,  *)
(* disk writes and a cut of the connection can fall, the struct of         *)
(* read_on(), its buffer and the bytes in flight continue the stream of    *)
(* frames, unless the source has grown and its last block has been         *)
(* received.                                                               *)
THEOREM BlocksInvariant == Spec => []IInv
<1>1. Init => IInv
  BY InitHolds
<1>2. IInv /\ [Next]_vars => IInv'
  <2> SUFFICES ASSUME IInv, [Next]_vars PROVE IInv'
    OBVIOUS
  <2>1. CASE UNCHANGED vars
    <3>1. /\ UNCHANGED <<client, wire, closed, cut, rpc, offset, buf_offset,
                         receive_buffer, received, file>>
          /\ UNCHANGED <<hashed_size, todo, offset_bytes, wbuf, started,
                         pending_disk, write_buffer, written, position, dest>>
      BY <2>1 DEF vars, client, reader, file
    <3>2. TypeOK'
      BY <3>1 DEF IInv, TypeOK, Missing
    <3>3. InStep => InStep'
      BY <3>1, Zenon DEF InStep, Stream, Consumed, InFlight, Resumable
    <3> QED BY <3>1, <3>2, <3>3, RestKeeps DEF IInv
  <2>2. CASE ClientNext
    BY <2>2, NextBlockStep, WriteOffsetStep, WritePayloadStep, CloseStep,
         Zenon
       DEF ClientNext
  <2>3. CASE Read
    BY <2>3, ReadHeaderStep, ReadPayloadStep, Zenon DEF Read
  <2> QED BY <2>1, <2>2, <2>3, CutStep, EnterStep, BlockReceivedStep,
         PausedStep,
             DiskWriteStep, Zenon DEF Next, Finished
<1> QED BY <1>1, <1>2, PTL DEF Spec

(* The server receives exactly the blocks that the client has sent, in     *)
(* that order and whole; the last block of a source that has grown as far  *)
(* as the announced size.                                                  *)
THEOREM BlocksReceived == Spec => []ReceivedIsSent
<1>1. IInv => ReceivedIsSent
  <2> SUFFICES ASSUME IInv PROVE ReceivedIsSent
    OBVIOUS
  <2>1. /\ DOMAIN received = 1 .. Len(received)
        /\ DOMAIN started = 1 .. Len(started)
    BY DEF IInv, TypeOK
  <2>2. CASE InStep
    <3>1. ASSUME NEW i \in DOMAIN received \cap DOMAIN started
          PROVE  received[i] = <<started[i][1], Announced(started[i][1])>>
      <4>1. started[i] = <<started[i][1], started[i][2]>>
        BY <2>1, StartedFacts DEF IInv
      <4>2. received[i] = started[i] /\ started[i][2] = Announced(started[i][1])
        BY <2>1, <2>2 DEF InStep
      <4> QED BY <4>1, <4>2
    <3> QED BY <2>2, <3>1, Zenon DEF ReceivedIsSent, InStep
  <2>3. CASE Derailed
    BY <2>1, <2>3 DEF ReceivedIsSent, Derailed
  <2> QED BY <2>2, <2>3 DEF IInv
<1> QED BY <1>1, BlocksInvariant, PTL

(* Nothing but bytes of the source reaches the destination file, each at   *)
(* its own place, unless the source grows.                                 *)
THEOREM DestinationSafe == Spec => []DestIsSource
<1>1. IInv => DestIsSource
  BY DEF IInv
<1> QED BY <1>1, BlocksInvariant, PTL

(* As long as the source does not grow after it was measured, the framing  *)
(* of blocks implements a stream of whole messages, although no length is  *)
(* sent: the server knows how long each block has to be.                   *)
THEOREM BlocksAreAMessageStream == Spec /\ NotGrown => Changes!Spec
<1>1. Init => Changes!Init
  BY DEF Init, Changes!Init
<1>2. [Next]_vars /\ NotGrown => NotGrown'
  <2> SUFFICES ASSUME [Next]_vars PROVE hashed_size' = hashed_size
    BY DEF NotGrown
  <2> QED
    BY Zenon
       DEF Next, vars, client, ClientNext, NextBlock, WriteOffset,
       WritePayload,
           Close, Cut, Enter, Read, ReadHeader, ReadPayload, BlockReceived,
           Dropped, EndOfFile, DiskWrite, Finished
<1>3. IInv /\ IInv' /\ NotGrown /\ NotGrown' /\ [Next]_vars =>
        [Changes!Send \/ Changes!Receive]_(Changes!vars)
  <2> SUFFICES ASSUME IInv, IInv', NotGrown, NotGrown', [Next]_vars
               PROVE  \/ Changes!Send \/ Changes!Receive
                      \/ UNCHANGED <<started, received>>
    BY DEF Changes!vars
  <2>1. CASE NextBlock
    <3> DEFINE b == <<Head(todo), Block(Head(todo))>>
    <3>1. /\ started \in Seq(Offsets \X Seq(Byte))
          /\ started' \in Seq(Offsets \X Seq(Byte))
      BY DEF IInv, TypeOK, Buffers
    <3>2. started' = Append(started, b) /\ received' = received
      BY <2>1 DEF NextBlock, reader
    <3> HIDE DEF b
    <3>3. Len(started') = Len(started) + 1
      BY <3>1, <3>2
    <3>4. SubSeq(started', 1, Len(started)) = started
      BY <3>1, <3>2
    <3> QED BY <3>1, <3>2, <3>3, <3>4, Zenon DEF Changes!Send
  <2>2. CASE BlockReceived
    <3> DEFINE k == Len(received)
               r == <<offset, receive_buffer>>
    <3>1. InStep'
      BY DEF IInv, Derailed, NotGrown
    <3>2. /\ received' = Append(received, r) /\ started' = started
          /\ r \in (0 .. (Word - 1)) \X Buffers
      BY <2>2 DEF BlockReceived, client, IInv, TypeOK
    <3> HIDE DEF r
    <3>3. /\ received \in Seq((0 .. (Word - 1)) \X Buffers)
          /\ Len(started) \in Nat
      BY DEF IInv, TypeOK
    <3>4. k \in Nat /\ Len(received') = k + 1 /\ received'[k + 1] = r
      BY <3>2, <3>3
    <3>5. k + 1 <= Len(started) /\ received'[k + 1] = started[k + 1]
      BY <3>1, <3>2, <3>4 DEF InStep
    <3> QED BY <3>2, <3>3, <3>4, <3>5 DEF Changes!Receive
  <2>3. CASE WriteOffset \/ WritePayload \/ Close \/ Cut \/ Enter \/ ReadHeader
             \/ ReadPayload \/ Dropped \/ EndOfFile \/ DiskWrite
             \/ UNCHANGED vars
    BY <2>3, Zenon
       DEF WriteOffset, WritePayload, Close, Cut, Enter, ReadHeader,
       ReadPayload,
           Dropped, EndOfFile, DiskWrite, vars, client, reader
  <2> QED BY <2>1, <2>2, <2>3, Zenon DEF Next, ClientNext, Read, Finished
<1> QED BY <1>1, <1>2, <1>3, BlocksInvariant, PTL DEF Spec, Changes!Spec
=============================================================================
