--------------------------- MODULE BlockFraming -----------------------------
(***************************************************************************)
(* How diverging blocks travel, byte by byte: ResumableWriteFileBlock on   *)
(* the client, ResumableReadFileBlock and ResumableAsyncWriteAll on the    *)
(* server (src/common.rs), with the parts of the two event loops that      *)
(* drive them.  Every read and write moves as many bytes as it pleases.    *)
(* The future of the reader is dropped whenever another branch of select!  *)
(* wins and built anew: what it knows must be in the struct or the buffer. *)
(*                                                                         *)
(* The client measures its file twice: FileSize, which it announced, and   *)
(* hashed_size, which hash_file() found and cut into blocks.               *)
(***************************************************************************)
EXTENDS Framing

CONSTANTS
  BlockSize, FileSize,
  HashedSizes,      \* what hash_file() may have found
  Source(_),        \* the byte at a position of the source
  NetCap            \* bytes the connection holds

LastBlock == (FileSize - 1) \div BlockSize       \* end_block_idx - 1
Offsets   == {b * BlockSize : b \in 0 .. LastBlock}
Old       == Base                     \* a byte of the destination, as it was

ASSUME BlockFramingAssumption ==
  /\ BlockSize \in Nat \ {0} /\ FileSize \in 1 .. (Word - 1)
  /\ HashedSizes \subseteq Nat \ {0}
  /\ \A h \in HashedSizes : \A p \in 0 .. (h - 1) : Source(p) \in Byte
  /\ NetCap \in Nat \ {0}

VARIABLES
  hashed_size,
  todo,             \* blocks_idx_to_send: offsets of the blocks to send
  offset_bytes,     \* what is left to write of the offset ...
  wbuf,             \* ... and of the block, in resumable_write_block
  wire, closed,     \* the connection, and whether the client has left
  rpc,              \* where read_on() is: "out", "header", "payload", "over"
  offset, buf_offset, receive_buffer,
  pending_disk, write_buffer, written, position,
  dest,             \* the destination, by position
  started, received, cut      \* history: blocks sent and received; a cut

client == <<hashed_size, todo, offset_bytes, wbuf, started>>
reader == <<rpc, offset, buf_offset, receive_buffer, received>>
file   == <<pending_disk, write_buffer, written, position, dest>>
vars   == <<client, wire, closed, cut, reader, file>>

(* The block at an offset of a source of some size; the one hash_file()    *)
(* has read.                                                               *)
BlockOf(off, size) ==
  LET len == IF off + BlockSize <= size THEN BlockSize ELSE size - off
  IN  [i \in 1 .. len |-> Source(off + i - 1)]
Block(off) == BlockOf(off, hashed_size)

(* Any blocks may differ, among those that hash_file() yields; they are    *)
(* sent in ascending order.                                                *)
Init ==
  /\ hashed_size \in HashedSizes
  /\ \E n \in 0 .. (LastBlock + 1) :
       /\ todo \in [1 .. n -> {off \in Offsets : off < hashed_size}]
       /\ \A i \in 1 .. (n - 1) : todo[i] < todo[i + 1]
  /\ offset_bytes = <<>> /\ wbuf = <<>>
  /\ wire = <<>> /\ closed = FALSE /\ cut = FALSE
  /\ rpc = "out" /\ offset = 0 /\ buf_offset = 0 /\ receive_buffer = <<>>
  /\ pending_disk = FALSE /\ write_buffer = <<>> /\ written = 0 /\ position = 0
  /\ dest = [p \in 0 .. (Word + BlockSize) |-> Old]
  /\ started = <<>> /\ received = <<>>

Room == 1 .. (NetCap - Len(wire))

-----------------------------------------------------------------------------
(* The client *)

Idle == offset_bytes = <<>> /\ wbuf = <<>>

(* prepare_next_write_block(), and step 0 of write_to(). *)
NextBlock ==
  /\ Idle /\ ~closed /\ todo # <<>>
  /\ offset_bytes' = Encode(Head(todo)) /\ wbuf' = Block(Head(todo))
  /\ started' = Append(started, <<Head(todo), Block(Head(todo))>>)
  /\ todo' = Tail(todo)
  /\ UNCHANGED <<hashed_size, wire, closed, cut, reader, file>>

(* Step 1 of write_to(): the offset; copy_within() shifts what is left. *)
WriteOffset ==
  /\ offset_bytes # <<>> /\ ~closed
  /\ \E n \in Room \cap 1 .. Len(offset_bytes) :
       /\ wire' = wire \o SubSeq(offset_bytes, 1, n)
       /\ offset_bytes' = Drop(offset_bytes, n)
  /\ UNCHANGED <<hashed_size, todo, wbuf, started, closed, cut, reader, file>>

(* Step 2: the block. *)
WritePayload ==
  /\ offset_bytes = <<>> /\ wbuf # <<>> /\ ~closed
  /\ \E n \in Room \cap 1 .. Len(wbuf) :
       /\ wire' = wire \o SubSeq(wbuf, 1, n)
       /\ wbuf' = Drop(wbuf, n)
  /\ UNCHANGED <<hashed_size, todo, offset_bytes, started, closed, cut, reader,
                 file>>

(* All blocks are written: the client leaves. *)
Close ==
  /\ Idle /\ todo = <<>> /\ ~closed
  /\ closed' = TRUE
  /\ UNCHANGED <<client, wire, cut, reader, file>>

(* The client dies, or the connection breaks: what is on its way is lost. *)
Cut ==
  /\ ~closed /\ ~cut
  /\ closed' = TRUE /\ cut' = TRUE
  /\ \E n \in 0 .. Len(wire) : wire' = SubSeq(wire, 1, n)
  /\ UNCHANGED <<client, reader, file>>

-----------------------------------------------------------------------------
(* The server: ResumableReadFileBlock::read_on() *)

(* A new future is polled, up to its first await. *)
Enter ==
  /\ rpc = "out" /\ ~pending_disk
  /\ IF buf_offset < HeaderLen
     THEN rpc' = "header" /\ receive_buffer' = Resize(receive_buffer, HeaderLen)
     ELSE rpc' = "payload" /\ UNCHANGED receive_buffer
  /\ UNCHANGED <<offset, buf_offset, received, client, wire, closed, cut, file>>

(* Mutant of CurrentBlockSize: the last block is as long as the others. *)
AlwaysBlockSize(off) == BlockSize

(* The length of the block to come; the subtraction wraps around. *)
CurrentBlockSize(off) ==
  LET rem == (FileSize - off) % Word
  IN  IF rem < BlockSize THEN rem ELSE BlockSize

(* read() fills a part of the header; the last part is decoded at once. *)
ReadHeader ==
  /\ rpc = "header"
  /\ \E n \in 1 .. Len(wire) :
       LET buf == Fill(receive_buffer, buf_offset, SubSeq(wire, 1, n)) IN
       /\ buf_offset + n <= HeaderLen
       /\ wire' = Drop(wire, n)
       /\ buf_offset' = buf_offset + n
       /\ IF buf_offset' = HeaderLen
          THEN /\ offset' = Decode(offset, buf)
               /\ receive_buffer' = Resize(<<>>, CurrentBlockSize(offset'))
               /\ rpc' = "payload"
          ELSE receive_buffer' = buf /\ UNCHANGED <<offset, rpc>>
  /\ UNCHANGED <<received, client, closed, cut, file>>

Missing == Len(receive_buffer) + HeaderLen - buf_offset

(* read() fills a part of the block. *)
ReadPayload ==
  /\ rpc = "payload"
  /\ \E n \in (1 .. Missing) \cap (1 .. Len(wire)) :
       /\ receive_buffer' = Fill(receive_buffer, buf_offset - HeaderLen,
                                 SubSeq(wire, 1, n))
       /\ wire' = Drop(wire, n)
       /\ buf_offset' = buf_offset + n
  /\ UNCHANGED <<rpc, offset, received, client, closed, cut, file>>

(* Mutant of Rewind: the struct is not prepared for the next block. *)
RewindOffsetOnly == offset' = 0 /\ UNCHANGED buf_offset

(* "prepare for next block" *)
Rewind == offset' = 0 /\ buf_offset' = 0

(* Mutant of Seek: the file stays where the last write has left it. *)
SeekNowhere(off) == UNCHANGED position

(* file.seek(SeekFrom::Start(offset)) *)
Seek(off) == position' = off

(* read_on() returns, with no await since the last byte: the handler swaps *)
(* the buffers, seeks, and starts a write.                                 *)
BlockReceived ==
  /\ rpc = "payload" /\ Missing = 0
  /\ rpc' = "out" /\ Rewind
  /\ receive_buffer' = write_buffer /\ write_buffer' = receive_buffer
  /\ received' = Append(received, <<offset, receive_buffer>>)
  /\ Seek(offset)
  /\ pending_disk' = TRUE /\ written' = 0
  /\ UNCHANGED <<client, wire, closed, cut, dest>>

(* Mutant of Dropped: the count of bytes read is a local of the future. *)
DroppedForgets ==
  /\ rpc = "header" \/ (rpc = "payload" /\ Missing > 0)
  /\ rpc' = "out" /\ buf_offset' = 0
  /\ UNCHANGED <<offset, receive_buffer, received, client, wire, closed, cut,
                 file>>

(* Another branch of select! wins while read() is pending. *)
Dropped ==
  /\ rpc = "header" \/ (rpc = "payload" /\ Missing > 0)
  /\ rpc' = "out"
  /\ UNCHANGED <<offset, buf_offset, receive_buffer, received, client, wire,
                 closed, cut, file>>

(* read() returns 0: the loop is left. *)
EndOfFile ==
  /\ rpc = "header" \/ (rpc = "payload" /\ Missing > 0)
  /\ wire = <<>> /\ closed
  /\ rpc' = "over"
  /\ UNCHANGED <<offset, buf_offset, receive_buffer, received, client, wire,
                 closed, cut, file>>

(* ResumableAsyncWriteAll::write_all(): a part of the buffer is written at *)
(* the position of the file; the handler drops the struct after the last.  *)
DiskWrite ==
  /\ pending_disk
  /\ \E n \in 0 .. (Len(write_buffer) - written) :
       /\ n = 0 <=> write_buffer = <<>>
       /\ dest' = [p \in DOMAIN dest |->
                     IF p \in position .. (position + n - 1)
                     THEN write_buffer[written + p - position + 1] ELSE dest[p]]
       /\ position' = position + n
       /\ written' = written + n
       /\ pending_disk' = (written + n < Len(write_buffer))
  /\ UNCHANGED <<write_buffer, client, wire, closed, cut, reader>>

Finished == rpc = "over" /\ closed /\ UNCHANGED vars

ClientNext == NextBlock \/ WriteOffset \/ WritePayload \/ Close
Read       == ReadHeader \/ ReadPayload
Next ==
  \/ ClientNext \/ Cut \/ Finished
  \/ Enter \/ Read \/ BlockReceived \/ Dropped \/ EndOfFile \/ DiskWrite

(* The reading branch is polled each time select! is entered, before those *)
(* that may win over it; what has arrived is read in that poll.            *)
Spec     == Init /\ [][Next]_vars
FairSpec ==
  /\ Spec
  /\ WF_vars(ClientNext) /\ WF_vars(Enter) /\ WF_vars(BlockReceived)
  /\ WF_vars(DiskWrite) /\ SF_vars(Read) /\ SF_vars(EndOfFile)

-----------------------------------------------------------------------------
(* Properties *)

Buffers == {b \in Seq(Byte) : Len(b) <= BlockSize}

(* The buffers hold bytes, no block is longer than the block size, and     *)
(* buf_offset stays within header and block.                               *)
TypeOK ==
  /\ hashed_size \in HashedSizes /\ todo \in Seq(Offsets)
  /\ offset_bytes \in Seq(Byte) /\ wbuf \in Seq(Byte)
  /\ wire \in Seq(Byte) /\ Len(wire) <= NetCap
  /\ closed \in BOOLEAN /\ cut \in BOOLEAN
  /\ rpc \in {"out", "header", "payload", "over"}
  /\ offset \in 0 .. (Word - 1) /\ buf_offset \in Nat
  /\ receive_buffer \in Seq(Byte) /\ write_buffer \in Buffers
  /\ rpc = "header" => /\ buf_offset < HeaderLen
                       /\ Len(receive_buffer) = HeaderLen
  /\ rpc = "payload" => buf_offset >= HeaderLen
  /\ buf_offset >= HeaderLen => receive_buffer \in Buffers /\ Missing >= 0
  /\ pending_disk \in BOOLEAN /\ written \in Nat
  /\ position \in 0 .. (Word + BlockSize)
  /\ dest \in [0 .. (Word + BlockSize) -> 0 .. Old]
  /\ started \in Seq(Offsets \X Seq(Byte))
  /\ received \in Seq((0 .. (Word - 1)) \X Buffers)

NotGrown == hashed_size <= FileSize

(* The block at an offset as far as the announced size goes. *)
Announced(off) == BlockOf(off, FileSize)

(* However reads, writes and cancellations fall, what the server receives  *)
(* is what the client has sent: the same offsets, the same bytes, in that  *)
(* order, and no block of which a part is missing.  If the source grew     *)
(* after it was measured, its last block is received as far as the size    *)
(* announced; only then can what follows it be taken for another block.    *)
ReceivedIsSent ==
  /\ \A i \in DOMAIN received \cap DOMAIN started :
       received[i] = <<started[i][1], Announced(started[i][1])>>
  /\ NotGrown => Len(received) <= Len(started)

(* Nothing but the source's bytes is written, each in its own place, and   *)
(* nothing beyond the size that was announced, also when the last block is *)
(* shorter than the others.                                                *)
DestIsSource ==
  NotGrown =>
    \A p \in DOMAIN dest :
      dest[p] # Old => p < FileSize /\ dest[p] = Source(p)

(* The stream of all frames, the place in it up to which the reader has    *)
(* read, and the bytes that it can still get.                              *)
Frame(b) == Encode(b[1]) \o b[2]
Stream   == [i \in 1 .. Len(started) |-> Frame(started[i])]
Consumed == Ends(Stream)[Len(received)] + buf_offset
InFlight == IF closed THEN wire ELSE wire \o (offset_bytes \o wbuf)

(* Only the last of the blocks to send may be shorter than BlockSize, in   *)
(* the source as announced or as hashed.                                   *)
Full(off) == off + BlockSize <= FileSize /\ off + BlockSize <= hashed_size
Plan ==
  /\ \A i \in 1 .. Len(todo) :
       todo[i] < hashed_size /\ (i < Len(todo) => Full(todo[i]))
  /\ \A i \in 1 .. Len(started) :
       LET off == started[i][1] IN
       /\ off < hashed_size /\ started[i][2] = Block(off)
       /\ i < Len(started) \/ todo # <<>> => Full(off)

(* What read_on() knows of the current block when it is cancelled: the     *)
(* part of the header, or of the block, that buf_offset says it has.       *)
Resumable ==
  LET b == started[Len(received) + 1] IN
  /\ buf_offset < HeaderLen =>
       /\ offset = 0
       /\ buf_offset = 0 \/ Len(receive_buffer) = HeaderLen
       /\ \A i \in 1 .. buf_offset : receive_buffer[i] = Encode(b[1])[i]
  /\ buf_offset >= HeaderLen =>
       /\ offset = b[1] /\ Len(receive_buffer) = CurrentBlockSize(offset)
       /\ \A i \in 1 .. (buf_offset - HeaderLen) : receive_buffer[i] = b[2][i]

(* Nothing on the way is lost, repeated or out of order: what follows the  *)
(* last byte read is in flight, to the end unless the client has left.     *)
InStep ==
  /\ Len(received) <= Len(started)
  /\ \A i \in 1 .. Len(received) :
       received[i] = started[i] /\ started[i][2] = Announced(started[i][1])
  /\ Follow(InFlight, Stream, Consumed)
  /\ ~closed => Consumed + Len(InFlight) = Total(Stream)
  /\ Resumable

(* The source has grown, and the server has read its last block as far as  *)
(* the announced size: the rest of it comes where an offset is expected.   *)
Derailed ==
  /\ ~NotGrown /\ todo = <<>> /\ started # <<>>
  /\ Len(received) >= Len(started)
  /\ \A i \in 1 .. Len(started) :
       received[i] = <<started[i][1], Announced(started[i][1])>>

(* The file is where the part of the last block still to be written goes. *)
Placed ==
  pending_disk =>
    LET b == received[Len(received)] IN
    /\ received # <<>> /\ write_buffer = b[2]
    /\ written <= Len(write_buffer) /\ position = b[1] + written

(* The inductive invariant: at every await the reader's struct, its buffer *)
(* and the bytes in flight together continue the stream of frames, unless  *)
(* the source has grown and its last block has been read.                  *)
IInv ==
  /\ TypeOK /\ Plan /\ (InStep \/ Derailed)
  /\ Placed /\ DestIsSource

Changes == INSTANCE MessageStream
             WITH Messages <- Offsets \X Seq(Byte),
                  sent <- started, got <- received

(* Every block that differs reaches the destination in full, unless the    *)
(* connection is cut or the source has changed its size.                   *)
AllWritten ==
  <>(\/ cut \/ hashed_size # FileSize
     \/ /\ rpc = "over" /\ ~pending_disk
        /\ \A i \in DOMAIN started : \E j \in DOMAIN received :
             received[j] = started[i]
        /\ \A i \in DOMAIN received : \A k \in DOMAIN received[i][2] :
             dest[received[i][1] + k - 1] = received[i][2][k])
=============================================================================
