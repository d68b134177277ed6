--------------------------- MODULE StringFraming ----------------------------
(***************************************************************************)
(* How hashes travel, byte by byte: ResumableWriteString on the server and *)
(* ResumableReadString on the client (src/common.rs).  As in BlockFraming  *)
(* any number of bytes moves at a time and the reader's future is dropped  *)
(* at any await.  Here a single field, size, says both how long the string *)
(* is and whether its header has been read.                                *)
(*                                                                         *)
(* The bytes written are those of a String, so from_utf8() never fails.    *)
(***************************************************************************)
EXTENDS Framing, SequencesExt

CONSTANTS
  Plans,            \* sequences of strings the server may send
  MaxLen,           \* the max_len of the reader
  NetCap            \* bytes the connection holds

Strings == {s \in Seq(Byte) : Len(s) < Word}    \* the length is a usize

ASSUME StringFramingAssumption ==
  /\ Plans \subseteq Seq(Strings)
  /\ MaxLen \in 0 .. (Word - 1) /\ NetCap \in Nat \ {0}

VARIABLES
  todo,             \* strings still to be sent
  wbuf,             \* what is left of the buffer of resumable_write_hash
  wire, closed,     \* the connection, and whether the server has left
  rpc,              \* where read_on() is: "out", "header", "payload", "over"
  offset, size, buf,
  started, received, cut      \* history: strings sent and received; a cut

server == <<todo, wbuf, started>>
reader == <<rpc, offset, size, buf, received>>
vars   == <<server, wire, closed, cut, reader>>

Init ==
  /\ todo \in Plans /\ wbuf = <<>>
  /\ wire = <<>> /\ closed = FALSE /\ cut = FALSE
  /\ rpc = "out" /\ offset = 0 /\ size = 0 /\ buf = <<>>
  /\ started = <<>> /\ received = <<>>

(* ResumableWriteString::new() *)
Frame(s) == Encode(Len(s)) \o s

NextString ==
  /\ wbuf = <<>> /\ ~closed /\ todo # <<>>
  /\ wbuf' = Frame(Head(todo))
  /\ started' = Append(started, Head(todo))
  /\ todo' = Tail(todo)
  /\ UNCHANGED <<wire, closed, cut, reader>>

(* ResumableWriteString::write_to() *)
WriteTo ==
  /\ wbuf # <<>> /\ ~closed
  /\ \E n \in (1 .. Len(wbuf)) \cap (1 .. (NetCap - Len(wire))) :
       /\ wire' = wire \o SubSeq(wbuf, 1, n)
       /\ wbuf' = Drop(wbuf, n)
  /\ UNCHANGED <<todo, started, closed, cut, reader>>

(* The server leaves after the last hash, or is cut off before. *)
Close ==
  /\ wbuf = <<>> /\ todo = <<>> /\ ~closed
  /\ closed' = TRUE
  /\ UNCHANGED <<server, wire, cut, reader>>

Cut ==
  /\ ~closed
  /\ closed' = TRUE /\ cut' = TRUE
  /\ \E n \in 0 .. Len(wire) : wire' = SubSeq(wire, 1, n)
  /\ UNCHANGED <<server, reader>>

-----------------------------------------------------------------------------
(* ResumableReadString::read_on() *)

(* A new future is polled, up to its first await: it resumes the header,   *)
(* if it has no size yet, and the payload otherwise.                       *)
Enter ==
  /\ rpc = "out"
  /\ IF size = 0 THEN rpc' = "header" /\ buf' = Resize(buf, HeaderLen)
     ELSE rpc' = "payload" /\ UNCHANGED buf
  /\ UNCHANGED <<offset, size, received, server, wire, closed, cut>>

(* Mutant of TooLong: a string of max_len bytes is refused. *)
TooLongEarly(n) == n >= MaxLen

TooLong(n) == n > MaxLen

(* read() fills a part of the header; the last part is decoded at once. *)
ReadHeader ==
  /\ rpc = "header"
  /\ \E n \in 1 .. Len(wire) :
       LET got == Fill(buf, offset, SubSeq(wire, 1, n))
           len == Decode(size, got)
       IN
       /\ offset + n <= HeaderLen
       /\ wire' = Drop(wire, n)
       /\ offset' = offset + n
       /\ IF offset' < HeaderLen THEN buf' = got /\ UNCHANGED <<size, rpc>>
          ELSE /\ size' = len
               /\ buf' = IF TooLong(len) THEN got ELSE Resize(<<>>, len)
               /\ rpc' = IF TooLong(len) THEN "over" ELSE "payload"
  /\ UNCHANGED <<received, server, closed, cut>>

Missing == size + HeaderLen - offset

ReadPayload ==
  /\ rpc = "payload"
  /\ \E n \in (1 .. Missing) \cap (1 .. Len(wire)) :
       /\ buf' = Fill(buf, offset - HeaderLen, SubSeq(wire, 1, n))
       /\ wire' = Drop(wire, n)
       /\ offset' = offset + n
  /\ UNCHANGED <<rpc, size, received, server, closed, cut>>

(* Mutant of Rewind: the position in the last string is kept. *)
RewindSizeOnly == size' = 0 /\ UNCHANGED offset

(* "prepare for next string" *)
Rewind == offset' = 0 /\ size' = 0

(* read_on() returns, with no await since the last byte. *)
StringReceived ==
  /\ rpc = "payload" /\ Missing = 0
  /\ rpc' = "out" /\ Rewind
  /\ received' = Append(received, buf)
  /\ buf' = <<>>
  /\ UNCHANGED <<server, wire, closed, cut>>

Pending == rpc = "header" \/ (rpc = "payload" /\ Missing > 0)

(* Mutant of Dropped: the count of bytes read is a local of the future. *)
DroppedForgets ==
  /\ Pending
  /\ rpc' = "out" /\ offset' = IF size = 0 THEN 0 ELSE HeaderLen
  /\ UNCHANGED <<size, buf, received, server, wire, closed, cut>>

(* Another branch of select! wins while read() is pending. *)
Dropped ==
  /\ Pending
  /\ rpc' = "out"
  /\ UNCHANGED <<offset, size, buf, received, server, wire, closed, cut>>

(* read() returns 0. *)
EndOfFile ==
  /\ Pending
  /\ wire = <<>> /\ closed
  /\ rpc' = "over"
  /\ UNCHANGED <<offset, size, buf, received, server, wire, closed, cut>>

(* The client has set remote_hashes_done, and reads no more. *)
Finished == rpc = "over" /\ UNCHANGED vars

ServerNext == NextString \/ WriteTo \/ Close
Read       == ReadHeader \/ ReadPayload
Next ==
  \/ ServerNext \/ Cut \/ Finished
  \/ Enter \/ Read \/ StringReceived \/ Dropped \/ EndOfFile

(* As in BlockFraming: what has arrived is read when select! polls. *)
Spec     == Init /\ [][Next]_vars
FairSpec ==
  /\ Spec
  /\ WF_vars(ServerNext) /\ WF_vars(Enter) /\ WF_vars(StringReceived)
  /\ SF_vars(Read) /\ SF_vars(EndOfFile)

-----------------------------------------------------------------------------
(* Properties *)

(* Bytes are bytes, strings have lengths that fit into the header, and     *)
(* positions stay within header and string.                                *)
TypeOK ==
  /\ todo \in Seq(Strings) /\ started \in Seq(Strings)
  /\ wbuf \in Seq(Byte) /\ wire \in Seq(Byte) /\ Len(wire) <= NetCap
  /\ closed \in BOOLEAN /\ cut \in BOOLEAN
  /\ rpc \in {"out", "header", "payload", "over"}
  /\ buf \in Seq(Byte) /\ size \in 0 .. (Word - 1)
  /\ offset \in 0 .. (HeaderLen + size)
  /\ received \in Seq(Strings)

(* The stream of all frames, the place in it up to which the reader has    *)
(* read, and the bytes that it can still get.                              *)
Stream   == [i \in 1 .. Len(started) |-> Frame(started[i])]
Consumed == Ends(Stream)[Len(received)] + offset
InFlight == IF closed THEN wire ELSE wire \o wbuf

(* Nothing on the way is lost, repeated or out of order: what follows the  *)
(* last byte read is in flight, to the end unless the server has left.     *)
InStep ==
  /\ Follow(InFlight, Stream, Consumed)
  /\ ~closed => Consumed + Len(InFlight) = Total(Stream)

(* What read_on() knows of the current string when it is cancelled: the    *)
(* part of the header, or of the string, that the offset says it has.      *)
Resumable ==
  LET s == started[Len(received) + 1] IN
  /\ offset < HeaderLen =>
       /\ size = 0 /\ rpc # "payload"
       /\ Len(buf) = HeaderLen \/ (rpc = "out" /\ offset = 0)
       /\ \A i \in 1 .. offset : buf[i] = Encode(Len(s))[i]
  /\ offset >= HeaderLen /\ rpc # "over" =>
       /\ size = Len(s) /\ size <= MaxLen /\ Len(buf) = size
       /\ rpc = "payload" \/ (rpc = "out" /\ offset < HeaderLen + size)
       /\ \A i \in 1 .. (offset - HeaderLen) : buf[i] = s[i]

(* The client gets the hashes the server has sent, complete and in order,  *)
(* the empty string included, however reads, writes and cancellations fall.*)
(* A string that is too long is not returned, and none after it.           *)
ReceivedIsSent ==
  /\ IsPrefix(received, started)
  /\ \A i \in DOMAIN received : Len(received[i]) <= MaxLen

(* The inductive invariant: at every await the reader's struct, its buffer *)
(* and the bytes in flight together continue the stream of frames without  *)
(* a gap, so that a new future can go on where the last one was dropped.   *)
IInv ==
  /\ TypeOK /\ InStep /\ Resumable
  /\ Len(received) <= Len(started)
  /\ \A i \in 1 .. Len(received) :
       received[i] = started[i] /\ Len(received[i]) <= MaxLen

Hashes == INSTANCE MessageStream
            WITH Messages <- Strings, sent <- started, got <- received

(* For the event loops the bytes, the buffers and the cancelled futures do *)
(* not exist: ResumableWriteString and ResumableReadString implement a     *)
(* stream of whole messages.                                               *)
IsMessageStream == Hashes!Spec

(* Every hash arrives, unless the connection is cut or one is too long. *)
AllReceived ==
  <>(\/ cut \/ \E i \in DOMAIN started : Len(started[i]) > MaxLen
     \/ rpc = "over" /\ todo = <<>> /\ received = started)
=============================================================================
