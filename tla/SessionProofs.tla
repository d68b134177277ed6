--------------------------- MODULE SessionProofs ---------------------------
(***************************************************************************)
(* What module Session says is safe holds for any number of blocks, of     *)
(* workers and of sessions, any capacity of the connection, any hash       *)
(* function and any faults.                                                *)
(*                                                                         *)
(* The invariant IInv of Session is inductive.  Its conjuncts are          *)
(*    Shapes       what queues, buffers and messages look like             *)
(*    OnTheWay     blocks on their way differ, and were hashed before      *)
(*    HashFlow     hashes arrive in order: the client's counter is right   *)
(*    BlockFlow    offsets and bytes alternate, from client to server      *)
(*    OnDisk       what the destination holds, write in flight included    *)
(*    Kept         what was received is written, unless the disk failed    *)
(*    NothingLost  without faults, a divergent block is always somewhere   *)
(* One lemma per action shows that it is preserved: for the client in      *)
(* SessionClientProofs; for the server, src/server.rs, for the threads     *)
(* that hash and write files, for faults and for new sessions here.  A     *)
(* conjunct whose variables the action leaves alone is dealt with by its   *)
(* frame lemma in SessionClientProofs.                                     *)
(***************************************************************************)
EXTENDS SessionClientProofs

USE DEF ctask, stask, compare, writes, incoming, outgoing, cstream, sstream,
        disk, net, cvars, svars, run

-----------------------------------------------------------------------------
(* The server *)

(* The seek after a block was received. *)
LEMMA SSeekStep ==
  ASSUME IInv, SSeek, UNCHANGED <<cvars, run>>
  PROVE  IInv'
<1>1. Shapes'
  BY Zenon DEF IInv, Shapes, TypeOK, SSeek
<1>2. OnTheWay'
  BY OnTheWayFrame, Zenon DEF IInv, SSeek
<1>3. HashFlow'
  BY Zenon DEF IInv, HashFlow, InHand, SSeek
<1>4. BlockFlow'
  BY Zenon DEF IInv, BlockFlow, Begun, SSeek
<1>5. OnDisk'
  BY OnDiskFrame, Zenon DEF IInv, SSeek
<1>6. Kept'
  BY Zenon DEF IInv, Kept, SSeek
<1>7. NothingLost'
  BY Zenon DEF IInv, NothingLost, InHand, Queued, SSeek
<1> QED
  BY <1>1, <1>2, <1>3, <1>4, <1>5, <1>6, <1>7, ZenonT(60) DEF IInv

(* The server sees the end of the connection. *)
LEMMA SEofStep ==
  ASSUME IInv, SEof, UNCHANGED <<cvars, run>>
  PROVE  IInv'
<1>1. Shapes'
  BY Zenon DEF IInv, Shapes, TypeOK, SEof, Eof, ReadsBlocks, ClientGone
<1>2. OnTheWay'
  BY OnTheWayFrame, Zenon DEF IInv, SEof, Eof, ReadsBlocks, ClientGone
<1>3. HashFlow'
  BY Zenon DEF IInv, HashFlow, InHand, SEof, Eof, ReadsBlocks, ClientGone
<1>4. BlockFlow'
  BY Zenon DEF IInv, BlockFlow, Begun, SEof, Eof, ReadsBlocks, ClientGone
<1>5. OnDisk'
  BY OnDiskFrame, Zenon DEF IInv, SEof, Eof, ReadsBlocks, ClientGone
<1>6. Kept'
  BY Zenon DEF IInv, Kept, SEof, Eof, ReadsBlocks, ClientGone
<1>7. NothingLost'
  BY Zenon DEF IInv, NothingLost, InHand, Queued, SEof, Eof, ReadsBlocks,
       ClientGone
<1> QED
  BY <1>1, <1>2, <1>3, <1>4, <1>5, <1>6, <1>7, Zenon DEF IInv

(* The server flushes: Ack only if no error is kept. *)
LEMMA SFlushStep ==
  ASSUME IInv, SFlush, UNCHANGED <<cvars, run>>
  PROVE  IInv'
<1>1. Shapes'
  BY Zenon DEF IInv, Shapes, TypeOK, SFlush
<1>2. OnTheWay'
  BY OnTheWayFrame, Zenon DEF IInv, SFlush
<1>3. HashFlow'
  BY Zenon DEF IInv, HashFlow, InHand, SFlush
<1>4. BlockFlow'
  BY Zenon DEF IInv, BlockFlow, Begun, SFlush
<1>5. OnDisk'
  <2>1. dblock = None /\ dblock' = None
    BY Zenon DEF IInv, Kept, SFlush
  <2>2. UNCHANGED <<dest, fop, late, dblock, orig, faulty, sh_hashed, image>>
    BY Zenon DEF SFlush
  <2> QED
    BY <2>1, <2>2, ZenonT(60) DEF IInv, OnDisk, HashesOfOriginal, Alone,
       HalfDone, Divergent
<1>6. Kept'
  <2>1. dblock = None /\ fop = None
    BY Zenon DEF IInv, Kept, SFlush
  <2>2. CASE ferr
    BY <2>1, <2>2, Zenon DEF IInv, Kept, SFlush
  <2>3. CASE ~ferr
    <3>1. sresult' = "ack" /\ spc' = "leaving" /\ ferr' = FALSE
      BY <2>3, Zenon DEF SFlush
    <3> QED
      BY <2>1, <2>3, <3>1, Zenon DEF IInv, Kept, SFlush
  <2> QED
    BY <2>2, <2>3, Zenon
<1>7. NothingLost'
  BY Zenon DEF IInv, Kept, NothingLost, InHand, Queued, SFlush
<1> QED
  BY <1>1, <1>2, <1>3, <1>4, <1>5, <1>6, <1>7, Zenon DEF IInv

(* A hash enters the connection. *)
LEMMA SHashWrittenStep ==
  ASSUME IInv, SHashWritten, UNCHANGED <<cvars, run>>
  PROVE  IInv'
<1>0. /\ whash = <<Digest(image[sh_yielded - 1])>>
      /\ sh_yielded \in Nat /\ sh_yielded > 0 /\ sh_yielded - 1 \in Blocks
      /\ Digest(image[sh_yielded - 1]) \in Digests
  <2>1. /\ whash = <<Digest(image[sh_yielded - 1])>> /\ sh_yielded > 0
        /\ sh_yielded \in 0 .. NumBlocks
    BY Zenon DEF IInv, Shapes, HashFlow, SHashWritten
  <2>2. sh_yielded - 1 \in Blocks /\ sh_yielded - 1 < sh_yielded
    BY <2>1, SessionAssumption DEF Blocks
  <2>3. image[sh_yielded - 1] \in Halves \X Halves
    BY <2>2, Zenon DEF IInv, Shapes
  <2> QED
    BY <2>1, <2>2, <2>3, SessionAssumption DEF Digests
<1>a. /\ Len(s2c) \in Nat
      /\ s2c' \in Seq(Digests) /\ Len(s2c') = Len(s2c) + 1
      /\ \A k \in 1 .. Len(s2c) : s2c'[k] = s2c[k]
      /\ s2c'[Len(s2c) + 1] = Digest(image[sh_yielded - 1])
  <2>1. /\ s2c \in Seq(Digests)
        /\ s2c' = Append(s2c, Digest(image[sh_yielded - 1]))
    BY <1>0, ZenonT(60) DEF IInv, Shapes, SHashWritten
  <2> QED
    BY <1>0, <2>1, LengthZero, AppendSeq
<1>1. Shapes'
  BY <1>a, SessionAssumption DEF IInv, Shapes, TypeOK, SHashWritten
<1>2. OnTheWay'
  BY OnTheWayFrame, Zenon DEF IInv, SHashWritten
<1>3. HashFlow'
  <2>1. SUFFICES ASSUME cpc \in {"loop", "compare"} PROVE HashFlow'
    BY Zenon DEF IInv, HashFlow, SHashWritten
  <2> DEFINE n == block_idx + Len(remote_hashes)
  <2>2. n \in Nat
    BY LengthZero DEF IInv, Shapes
  <2>3. /\ n + Len(s2c) + 1 = sh_yielded
        /\ InHand' = 0
    BY <2>1, Zenon DEF IInv, HashFlow, InHand, SHashWritten
  <2>4. \A k \in 1 .. Len(s2c') :
          n + k <= sh_yielded /\ s2c'[k] = Digest(image[n + k - 1])
    <3>1. TAKE k \in 1 .. Len(s2c')
    <3>2. CASE k \in 1 .. Len(s2c)
      BY <1>a, <2>1, <3>2, Zenon DEF IInv, HashFlow
    <3>3. CASE k = Len(s2c) + 1
      <4>1. n + k = sh_yielded /\ n + k - 1 = sh_yielded - 1
        <5>1. Len(s2c) \in Nat
          BY <1>a, Zenon
        <5> HIDE DEF n
        <5> QED
          BY <2>2, <2>3, <3>3, <5>1
      <4> QED
        BY <1>0, <1>a, <3>3, <4>1
    <3> QED
      BY <1>a, <3>1, <3>2, <3>3
  <2>5. n + Len(s2c') + InHand' = sh_yielded
    BY <1>a, <2>2, <2>3
  <2> QED
    BY <2>1, <2>4, <2>5, ZenonT(60) DEF IInv, HashFlow, SHashWritten
<1>4. BlockFlow'
  BY BlockFlowFrame, Zenon DEF IInv, SHashWritten
<1>5. OnDisk'
  BY OnDiskFrame, Zenon DEF IInv, SHashWritten
<1>6. Kept'
  BY KeptFrame, Zenon DEF IInv, SHashWritten
<1>7. NothingLost'
  <2>1. whash # None => InHand = 1
    BY Zenon DEF InHand
  <2>2. faulty = {} => cresult = "none"
    BY <2>1 DEF IInv, NothingLost, SHashWritten
  <2> QED
    BY <2>2, Zenon DEF IInv, NothingLost, Queued, SHashWritten
<1> QED
  BY <1>1, <1>2, <1>3, <1>4, <1>5, <1>6, <1>7, Zenon DEF IInv

(* A hash cannot be written: the client is gone. *)
LEMMA SHashErrorStep ==
  ASSUME IInv, SHashError, UNCHANGED <<cvars, run>>
  PROVE  IInv'
<1>1. Shapes'
  BY Zenon DEF IInv, Shapes, TypeOK, SHashError, ClientGone
<1>2. OnTheWay'
  BY OnTheWayFrame, Zenon DEF IInv, SHashError, ClientGone
<1>3. HashFlow'
  BY Zenon DEF IInv, HashFlow, InHand, SHashError, ClientGone
<1>4. BlockFlow'
  BY BlockFlowFrame, Zenon DEF IInv, SHashError, ClientGone
<1>5. OnDisk'
  BY OnDiskFrame, Zenon DEF IInv, SHashError, ClientGone
<1>6. Kept'
  BY KeptFrame, Zenon DEF IInv, SHashError, ClientGone
<1>7. NothingLost'
  BY Zenon DEF IInv, NothingLost, InHand, Queued, SHashError, ClientGone
<1> QED
  BY <1>1, <1>2, <1>3, <1>4, <1>5, <1>6, <1>7, Zenon DEF IInv

(* The server's next block. *)
LEMMA SYieldStep ==
  ASSUME IInv, SYield, UNCHANGED <<cvars, run>>
  PROVE  IInv'
<1>0. /\ sh_yielded \in Nat /\ sh_yielded \in Blocks
      /\ sh_yielded' = sh_yielded + 1 /\ sh_hashed' = sh_hashed
      /\ sh_yielded' \in 0 .. NumBlocks
      /\ spc = "loop" /\ spc' = "hash" /\ whash = None /\ whash' = None
      /\ UNCHANGED <<sh_failed, sh_status, image>>
  BY SessionAssumption DEF IInv, Shapes, Blocks, SYield, Hashing, SH!Yield
<1>1. Shapes'
  <2>1. \A b \in Blocks : b < sh_yielded' => b \in sh_hashed
    <3>1. TAKE b \in Blocks
    <3>2. b < sh_yielded' => b < sh_yielded \/ b = sh_yielded
      BY <1>0 DEF Blocks
    <3> QED
      BY <3>2, Zenon DEF IInv, Shapes, SYield, SH!Yield
  <2> QED
    BY <1>0, <2>1, Zenon DEF IInv, Shapes, TypeOK, SYield
<1>2. OnTheWay'
  BY <1>0, OnTheWayFrame, Zenon DEF IInv, SYield
<1>3. HashFlow'
  <2>1. InHand = 0 /\ InHand' = 1
    BY <1>0, ZenonT(60) DEF InHand
  <2>2. SUFFICES ASSUME cpc \in {"loop", "compare"} PROVE HashFlow'
    BY <1>0 DEF IInv, HashFlow, SYield
  <2> DEFINE n == block_idx + Len(remote_hashes)
  <2>3. n \in Nat /\ Len(s2c) \in Nat /\ Len(remote_hashes) \in Nat
          /\ block_idx \in Nat
    BY LengthZero, SMTT(60) DEF IInv, Shapes
  <2>4. \A k \in 1 .. Len(remote_hashes) :
          /\ block_idx + k <= sh_yielded'
          /\ remote_hashes[k] = Digest(image[block_idx + k - 1])
    BY <1>0, <2>2, <2>3 DEF IInv, HashFlow
  <2>5. \A k \in 1 .. Len(s2c) :
          n + k <= sh_yielded' /\ s2c[k] = Digest(image[n + k - 1])
    BY <1>0, <2>2, <2>3 DEF IInv, HashFlow
  <2>6. net_up => n + Len(s2c) + InHand' = sh_yielded'
    <3>1. net_up => n + Len(s2c) + InHand = sh_yielded
      BY <1>0, <2>2, Zenon DEF IInv, HashFlow
    <3> HIDE DEF n
    <3> QED
      BY <1>0, <2>1, <2>3, <3>1
  <2>7. sh_yielded' > 0
    BY <1>0
  <2> QED
    BY <1>0, <2>4, <2>5, <2>6, <2>7, Zenon DEF HashFlow, SYield
<1>4. BlockFlow'
  BY <1>0, Zenon DEF IInv, BlockFlow, Begun, SYield
<1>5. OnDisk'
  BY <1>0, OnDiskFrame, Zenon DEF IInv, SYield
<1>6. Kept'
  BY <1>0, Zenon DEF IInv, Kept, SYield
<1>7. NothingLost'
  <2>1. sh_yielded # NumBlocks
    BY <1>0, SessionAssumption DEF Blocks
  <2> QED
    BY <1>0, <2>1, Zenon DEF IInv, NothingLost, Queued, SYield
<1> QED
  BY <1>1, <1>2, <1>3, <1>4, <1>5, <1>6, <1>7, ZenonT(60) DEF IInv

(* Its hash is that of what its worker read. *)
LEMMA SHashStep ==
  ASSUME IInv, SHash, UNCHANGED <<cvars, run>>
  PROVE  IInv'
<1>1. Shapes'
  BY Zenon DEF IInv, Shapes, TypeOK, SHash, SH!Release
<1>2. OnTheWay'
  BY OnTheWayFrame, Zenon DEF IInv, SHash, SH!Release
<1>3. HashFlow'
  <2> DEFINE b == sh_yielded - 1
  <2>1. b \in Blocks /\ b \in sh_hashed /\ sh_yielded > 0 /\ whash = None
    <3>1. sh_yielded > 0 /\ sh_yielded \in 0 .. NumBlocks /\ whash = None
      BY Zenon DEF IInv, Shapes, HashFlow, SHash
    <3>2. b \in Blocks /\ b < sh_yielded
      BY <3>1, SessionAssumption DEF Blocks
    <3> QED
      BY <3>1, <3>2, ZenonT(60) DEF IInv, Shapes
  <2>2. whash' = <<Digest(image[b])>> /\ whash' # None
    BY <2>1, NotNone, Zenon DEF SHash
  <2>3. InHand' = InHand
    BY <2>2, Zenon DEF InHand, SHash
  <2> QED
    BY <2>1, <2>2, <2>3, Zenon DEF IInv, HashFlow, SHash, SH!Release
<1>4. BlockFlow'
  BY Zenon DEF IInv, BlockFlow, Begun, SHash, SH!Release
<1>5. OnDisk'
  BY OnDiskFrame, Zenon DEF IInv, SHash, SH!Release
<1>6. Kept'
  BY Zenon DEF IInv, Kept, SHash, SH!Release
<1>7. NothingLost'
  <2>1. InHand = 1
    BY Zenon DEF InHand, SHash
  <2>2. faulty = {} => cresult = "none"
    BY <2>1 DEF IInv, NothingLost
  <2> QED
    BY <2>2, Zenon DEF IInv, NothingLost, Queued, SHash, SH!Release
<1> QED
  BY <1>1, <1>2, <1>3, <1>4, <1>5, <1>6, <1>7, ZenonT(60) DEF IInv

(* The server's stream ends: all hashes are sent, or a fault. *)
LEMMA SHashEndStep ==
  ASSUME IInv, SHashEnd, UNCHANGED <<cvars, run>>
  PROVE  IInv'
<1>1. Shapes'
  BY DEF IInv, Shapes, TypeOK, SHashEnd, Hashing, SH!End
<1>2. OnTheWay'
  BY OnTheWayFrame, Zenon DEF IInv, SHashEnd, Hashing, SH!End
<1>3. HashFlow'
  BY HashFlowFrame, Zenon DEF IInv, SHashEnd, Hashing, SH!End
<1>4. BlockFlow'
  BY BlockFlowFrame, Zenon DEF IInv, SHashEnd, Hashing, SH!End
<1>5. OnDisk'
  BY OnDiskFrame, Zenon DEF IInv, SHashEnd, Hashing, SH!End
<1>6. Kept'
  BY KeptFrame, Zenon DEF IInv, SHashEnd, Hashing, SH!End
<1>7. NothingLost'
  <2>1. /\ sh_status' = "end"
        /\ UNCHANGED <<sh_yielded, sh_failed>>
    BY Zenon DEF SHashEnd, SH!End
  <2> QED
    BY <2>1, ZenonT(60) DEF IInv, NothingLost, InHand, Queued, SHashEnd
<1> QED
  BY <1>1, <1>2, <1>3, <1>4, <1>5, <1>6, <1>7, ZenonT(60) DEF IInv

(* The server's stream fails. *)
LEMMA SErrorStep ==
  ASSUME IInv, SError, UNCHANGED <<cvars, run>>
  PROVE  IInv'
<1>1. Shapes'
  BY Zenon DEF IInv, Shapes, TypeOK, SError, Hashing, SH!Error
<1>2. OnTheWay'
  BY OnTheWayFrame, Zenon DEF IInv, SError, Hashing, SH!Error
<1>3. HashFlow'
  BY Zenon DEF IInv, HashFlow, InHand, SError, Hashing, SH!Error
<1>4. BlockFlow'
  BY Zenon DEF IInv, BlockFlow, Begun, SError, Hashing, SH!Error
<1>5. OnDisk'
  BY OnDiskFrame, Zenon DEF IInv, SError, Hashing, SH!Error
<1>6. Kept'
  BY Zenon DEF IInv, Kept, SError, Hashing, SH!Error
<1>7. NothingLost'
  BY Zenon DEF IInv, NothingLost, InHand, Queued, SError, Hashing, SH!Error
<1> QED
  BY <1>1, <1>2, <1>3, <1>4, <1>5, <1>6, <1>7, ZenonT(60) DEF IInv

(* The server drops its stream: unless something failed, all the blocks    *)
(* were received, and none is left in the channel.                         *)
LEMMA SDropStep ==
  ASSUME IInv, SDrop, UNCHANGED <<cvars, run>>
  PROVE  IInv'
<1>0. UNCHANGED <<sh_hashed, sh_yielded, sh_held, sh_failed>>
  BY Zenon DEF SDrop, SH!Close
<1>1. Shapes'
  BY <1>0, ZenonT(60) DEF IInv, Shapes, TypeOK, SDrop
<1>2. OnTheWay'
  BY <1>0, OnTheWayFrame, Zenon DEF IInv, SDrop
<1>3. HashFlow'
  BY <1>0, HashFlowFrame, Zenon DEF IInv, SDrop
<1>4. BlockFlow'
  BY BlockFlowFrame, Zenon DEF IInv, SDrop
<1>5. OnDisk'
  BY <1>0, OnDiskFrame, Zenon DEF IInv, SDrop
<1>6. Kept'
  BY <1>0, KeptFrame, Zenon DEF IInv, SDrop
<1>7. NothingLost'
  <2>1. SUFFICES ASSUME faulty = {} PROVE NothingLost'
    BY Zenon DEF NothingLost
  <2>2. sh_yielded = NumBlocks /\ sh_hashed \subseteq Blocks
    BY <2>1, Zenon DEF IInv, Shapes, NothingLost, SDrop
  <2>3. sh_yielded \notin sh_hashed
    BY <2>2, SessionAssumption, SMTT(60) DEF Blocks
  <2>4. sh_status' = "closing"
    BY <2>3, Zenon DEF SDrop, SH!Close, SH!MayBeBuffered
  <2> QED
    BY <1>0, <2>1, <2>4, ZenonT(60) DEF IInv, NothingLost, InHand, Queued,
         SDrop
<1> QED
  BY <1>1, <1>2, <1>3, <1>4, <1>5, <1>6, <1>7, ZenonT(60) DEF IInv

(* The workers are joined, and the server leaves. *)
LEMMA SExitStep ==
  ASSUME IInv, SExit, UNCHANGED <<cvars, run>>
  PROVE  IInv'
<1>0. /\ s2c' \in Seq(Digests) /\ Len(s2c') \in Nat
      /\ Len(s2c') <= Len(s2c)
      /\ \A k \in 1 .. Len(s2c') : s2c'[k] = s2c[k]
  <2>1. s2c \in Seq(Digests)
    BY Zenon DEF IInv, Shapes
  <2>2. CASE c2s = <<>>
    BY <2>1, <2>2, LengthZero DEF SExit
  <2>3. CASE c2s # <<>>
    BY <2>1, <2>3, LengthZero, PrefixSeq, Zenon DEF SExit
  <2> QED
    BY <2>2, <2>3, Zenon
<1>a. Len(s2c) \in Nat
  BY LengthZero, ZenonT(60) DEF IInv, Shapes
<1>1. Shapes'
  BY <1>0, <1>a, SessionAssumption, SMTT(60) DEF IInv, Shapes, TypeOK, SExit,
       SH!Joined
<1>2. OnTheWay'
  BY OnTheWayFrame, ZenonT(60) DEF IInv, SExit, SH!Joined
<1>3. HashFlow'
  BY <1>0, <1>a DEF IInv, HashFlow, SExit, SH!Joined
<1>4. BlockFlow'
  BY Zenon DEF IInv, BlockFlow, Begun, SExit, SH!Joined
<1>5. OnDisk'
  BY OnDiskFrame, Zenon DEF IInv, SExit, SH!Joined
<1>6. Kept'
  BY Zenon DEF IInv, Kept, SExit, SH!Joined
<1>7. NothingLost'
  BY Zenon DEF IInv, NothingLost, InHand, Queued, SExit, SH!Joined
<1> QED
  BY <1>1, <1>2, <1>3, <1>4, <1>5, <1>6, <1>7, ZenonT(60) DEF IInv

(* A late error: the disk has failed. *)
LEMMA SDiskErrorStep ==
  ASSUME IInv, SDiskError, UNCHANGED <<cvars, run>>
  PROVE  IInv'
<1>1. Shapes'
  BY Zenon DEF IInv, Shapes, TypeOK, SDiskError
<1>2. OnTheWay'
  BY Zenon DEF IInv, OnTheWay, Divergent, SDiskError
<1>3. HashFlow'
  BY HashFlowFrame, Zenon DEF IInv, SDiskError
<1>4. BlockFlow'
  BY BlockFlowFrame, Zenon DEF IInv, SDiskError
<1>5. OnDisk'
  <2>1. dblock' = None /\ fop = None /\ "disk" \in faulty
    BY Zenon DEF IInv, Kept, SDiskError
  <2>2. UNCHANGED <<dest, fop, late, orig, faulty, sh_hashed, image>>
    BY Zenon DEF SDiskError
  <2> QED
    BY <2>1, <2>2, ZenonT(60) DEF IInv, OnDisk, HashesOfOriginal, Alone,
       HalfDone, Divergent
<1>6. Kept'
  BY Zenon DEF IInv, Kept, SDiskError
<1>7. NothingLost'
  BY NothingLostFrame, Zenon DEF IInv, SDiskError
<1> QED
  BY <1>1, <1>2, <1>3, <1>4, <1>5, <1>6, <1>7, ZenonT(60) DEF IInv

(* An offset leaves the connection. *)
LEMMA SReadOffsetStep ==
  ASSUME IInv, SReadOffset, UNCHANGED <<cvars, run>>
  PROVE  IInv'
<1>0. /\ Len(c2s) \in Nat /\ Len(c2s) > 0 /\ c2s \in Seq(Messages)
      /\ c2s' \in Seq(Messages) /\ Len(c2s') = Len(c2s) - 1
      /\ c2s' = <<>> <=> Len(c2s') = 0
      /\ \A k \in 1 .. Len(c2s') : k + 1 \in 1 .. Len(c2s) /\ c2s'[k] = c2s[k + 1]
      /\ Head(c2s) = c2s[1]
  <2>1. c2s \in Seq(Messages) /\ c2s # <<>> /\ c2s' = Tail(c2s)
    BY Zenon DEF IInv, Shapes, SReadOffset
  <2>2. /\ Len(c2s) \in Nat /\ Len(c2s) > 0 /\ Tail(c2s) \in Seq(Messages)
        /\ Len(Tail(c2s)) = Len(c2s) - 1 /\ Head(c2s) = c2s[1]
        /\ \A k \in 1 .. (Len(c2s) - 1) : Tail(c2s)[k] = c2s[k + 1]
    BY <2>1, LengthZero, TailSeq, Zenon
  <2>3. c2s' = <<>> <=> Len(c2s') = 0
    BY <2>1, <2>2, LengthZero, Zenon
  <2> QED
    BY <2>1, <2>2, <2>3

<1>a. PICK b \in Blocks : c2s[1] = <<"offset", b>>
  <2>1. Fits(rblock, c2s[1]) /\ rblock = None
    BY <1>0, LengthZero, ZenonT(60) DEF IInv, BlockFlow, SReadOffset,
         ReadsBlocks
  <2> QED
    BY <2>1, NotNone, Zenon DEF Fits
<1>b. rblock' = <<b>>
  BY <1>0, <1>a, SMTT(60) DEF SReadOffset
<1>1. Shapes'
  BY <1>0, SessionAssumption, SMTT(30) DEF IInv, Shapes, TypeOK, SReadOffset
<1>2. OnTheWay'
  <2>1. Divergent(b)
    <3>1. 1 \in 1 .. Len(c2s) /\ c2s[1][1] = "offset" /\ c2s[1][2] = b
      BY <1>0, <1>a, SMTT(60)
    <3> QED
      BY <3>1, Zenon DEF IInv, OnTheWay
  <2>2. \A k \in 1 .. Len(c2s') :
          c2s'[k][1] = "offset" => Divergent(c2s'[k][2])
    BY <1>0, SMTT(30) DEF IInv, OnTheWay
  <2>3. \A c : Divergent(c)' <=> Divergent(c)
    BY Zenon DEF Divergent, SReadOffset
  <2> QED
    BY <1>b, <2>1, <2>2, <2>3, Zenon DEF IInv, OnTheWay, SReadOffset
<1>3. HashFlow'
  BY HashFlowFrame, Zenon DEF IInv, SReadOffset, ReadsBlocks
<1>4. BlockFlow'
  <2>1. /\ \A k \in 1 .. (Len(c2s) - 1) : Fits(Expects(c2s[k]), c2s[k + 1])
        /\ net_up /\ cpc \in {"loop", "compare"} =>
             Begun = Expects(c2s[Len(c2s)])
    BY <1>0, Zenon DEF IInv, BlockFlow, SReadOffset, ReadsBlocks
  <2>2. Expects(c2s[1]) = <<b>>
    BY <1>a DEF Expects
  <2>3. c2s' # <<>> => Fits(<<b>>, c2s'[1])
    BY <1>0, <2>1, <2>2
  <2>4. \A k \in 1 .. (Len(c2s') - 1) : Fits(Expects(c2s'[k]), c2s'[k + 1])
    <3>1. TAKE k \in 1 .. (Len(c2s') - 1)
    <3>2. /\ k + 1 \in 1 .. (Len(c2s) - 1)
          /\ c2s'[k] = c2s[k + 1] /\ c2s'[k + 1] = c2s[(k + 1) + 1]
      BY <1>0, <3>1
    <3> QED
      BY <2>1, <3>2, Zenon
  <2>5. IF c2s' = <<>> THEN Len(c2s) = 1 ELSE c2s'[Len(c2s')] = c2s[Len(c2s)]
    BY <1>0
  <2>6. net_up /\ cpc \in {"loop", "compare"} =>
          Begun = IF c2s' = <<>> THEN <<b>> ELSE Expects(c2s'[Len(c2s')])
    BY <2>1, <2>2, <2>5, Zenon
  <2>7. Begun' = Begun
    BY Zenon DEF Begun
  <2> QED
    BY <1>b, <2>3, <2>4, <2>6, <2>7, Zenon DEF BlockFlow, SReadOffset,
         ReadsBlocks
<1>5. OnDisk'
  BY OnDiskFrame, Zenon DEF IInv, SReadOffset, ReadsBlocks
<1>6. Kept'
  BY KeptFrame, Zenon DEF IInv, SReadOffset, ReadsBlocks
<1>7. NothingLost'
  <2>1. SUFFICES ASSUME faulty = {} PROVE NothingLost'
    BY Zenon DEF NothingLost
  <2>2. \A c \in sent :
          \/ c \in received
          \/ \E k \in 1 .. Len(c2s') : c2s'[k] = <<"bytes", Source(c)>>
    <3>1. SUFFICES ASSUME NEW c \in sent, NEW k \in 1 .. Len(c2s),
                          c2s[k] = <<"bytes", Source(c)>>
                   PROVE  \E j \in 1 .. Len(c2s') :
                            c2s'[j] = <<"bytes", Source(c)>>
      BY <2>1, ZenonT(60) DEF IInv, NothingLost
    <3>2. k # 1
      BY <1>a, <3>1, SMTT(30)
    <3>3. k - 1 \in 1 .. Len(c2s') /\ c2s'[k - 1] = c2s[k]
      BY <1>0, <3>2
    <3> QED
      BY <3>1, <3>3, Zenon
  <2> QED
    BY <2>1, <2>2, ZenonT(60) DEF IInv, NothingLost, InHand, Queued,
         SReadOffset,
       ReadsBlocks
<1> QED
  BY <1>1, <1>2, <1>3, <1>4, <1>5, <1>6, <1>7, ZenonT(60) DEF IInv

(* The bytes leave it: they are those of the block at that offset. *)
LEMMA SReadBytesStep ==
  ASSUME IInv, SReadBytes, UNCHANGED <<cvars, run>>
  PROVE  IInv'
<1>0. /\ Len(c2s) \in Nat /\ Len(c2s) > 0 /\ c2s \in Seq(Messages)
      /\ c2s' \in Seq(Messages) /\ Len(c2s') = Len(c2s) - 1
      /\ c2s' = <<>> <=> Len(c2s') = 0
      /\ \A k \in 1 .. Len(c2s') : k + 1 \in 1 .. Len(c2s) /\ c2s'[k] = c2s[k + 1]
      /\ Head(c2s) = c2s[1]
  <2>1. c2s \in Seq(Messages) /\ c2s # <<>> /\ c2s' = Tail(c2s)
    BY Zenon DEF IInv, Shapes, SReadBytes
  <2>2. /\ Len(c2s) \in Nat /\ Len(c2s) > 0 /\ Tail(c2s) \in Seq(Messages)
        /\ Len(Tail(c2s)) = Len(c2s) - 1 /\ Head(c2s) = c2s[1]
        /\ \A k \in 1 .. (Len(c2s) - 1) : Tail(c2s)[k] = c2s[k + 1]
    BY <2>1, LengthZero, TailSeq, Zenon
  <2>3. c2s' = <<>> <=> Len(c2s') = 0
    BY <2>1, <2>2, LengthZero, Zenon
  <2> QED
    BY <2>1, <2>2, <2>3

<1>a. PICK b \in Blocks : /\ rblock = <<b>> /\ Divergent(b)
                          /\ c2s[1] = <<"bytes", Source(b)>>
  <2>1. PICK b \in Blocks : rblock = <<b>> /\ Divergent(b)
    BY Zenon DEF IInv, OnTheWay, SReadBytes
  <2>2. PICK c \in Blocks : rblock = <<c>> /\ c2s[1] = <<"bytes", Source(c)>>
    BY <1>0, ZenonT(60) DEF IInv, BlockFlow, Fits, SReadBytes, ReadsBlocks
  <2>3. b = c
    BY <2>1, <2>2, SMTT(60)
  <2> QED
    BY <2>1, <2>2, <2>3, Zenon
<1>b. /\ rblock' = None /\ dblock' = <<b, Source(b), 1>> /\ dblock' # None
      /\ received' = received \cup {b}
      /\ dblock = None
  BY <1>0, <1>a, NotNone, SMTT(60) DEF SReadBytes, ReadsBlocks, WriteFrom
<1>1. Shapes'
  BY <1>0, <1>b, SessionAssumption, SMTT(60) DEF IInv, Shapes, TypeOK,
       SReadBytes
<1>2. OnTheWay'
  <2>1. \A k \in 1 .. Len(c2s') :
          c2s'[k][1] = "offset" => Divergent(c2s'[k][2])
    BY <1>0, SMTT(30) DEF IInv, OnTheWay
  <2>2. \A c : Divergent(c)' <=> Divergent(c)
    BY Zenon DEF Divergent, SReadBytes
  <2> QED
    BY <1>a, <1>b, <2>1, <2>2, ZenonT(60) DEF IInv, OnTheWay, SReadBytes
<1>3. HashFlow'
  BY Zenon DEF IInv, HashFlow, InHand, SReadBytes, ReadsBlocks
<1>4. BlockFlow'
  <2>1. /\ \A k \in 1 .. (Len(c2s) - 1) : Fits(Expects(c2s[k]), c2s[k + 1])
        /\ net_up /\ cpc \in {"loop", "compare"} =>
             Begun = Expects(c2s[Len(c2s)])
    BY <1>0, ZenonT(60) DEF IInv, BlockFlow, SReadBytes, ReadsBlocks
  <2>2. Expects(c2s[1]) = None
    BY <1>a DEF Expects
  <2>3. c2s' # <<>> => Fits(None, c2s'[1])
    BY <1>0, <2>1, <2>2
  <2>4. \A k \in 1 .. (Len(c2s') - 1) : Fits(Expects(c2s'[k]), c2s'[k + 1])
    <3>1. TAKE k \in 1 .. (Len(c2s') - 1)
    <3>2. /\ k + 1 \in 1 .. (Len(c2s) - 1)
          /\ c2s'[k] = c2s[k + 1] /\ c2s'[k + 1] = c2s[(k + 1) + 1]
      BY <1>0, <3>1
    <3> QED
      BY <2>1, <3>2, Zenon
  <2>5. IF c2s' = <<>> THEN Len(c2s) = 1 ELSE c2s'[Len(c2s')] = c2s[Len(c2s)]
    BY <1>0
  <2>6. net_up /\ cpc \in {"loop", "compare"} =>
          Begun = IF c2s' = <<>> THEN None ELSE Expects(c2s'[Len(c2s')])
    BY <2>1, <2>2, <2>5, Zenon
  <2>7. Begun' = Begun
    BY Zenon DEF Begun
  <2> QED
    BY <1>b, <2>3, <2>4, <2>6, <2>7, Zenon DEF BlockFlow, SReadBytes,
         ReadsBlocks
<1>5. OnDisk'
  <2>1. /\ UNCHANGED <<dest, fop, ferr, late, orig, faulty, sh_hashed, image>>
        /\ dblock'[3] = 1
    BY <1>b, SMTT(60) DEF SReadBytes
  <2>2. \A c, d : dblock # <<c, d, 2>>
    BY <1>b, NotNone, Zenon
  <2>3. ~(fop # None /\ fop[3] = 1 /\ PieceHalves = 1)
    BY <2>2, Zenon DEF IInv, OnDisk
  <2>4. faulty \cap {"disk", "server_crash", "late_write"} = {} =>
          \A c \in Blocks :
            dest[c] \in {orig[c], Source(c)} \/ fop = <<c, Source(c), 2>>
    BY <2>2, ZenonT(60) DEF IInv, OnDisk
  <2> QED
    BY <2>1, <2>3, <2>4, SMTT(60) DEF IInv, OnDisk, HashesOfOriginal, Alone,
       HalfDone, Divergent
<1>6. Kept'
  <2>1. dblock'[1] = b
    BY <1>b, Zenon
  <2> QED
    BY <1>b, <2>1, Zenon DEF IInv, Kept, SReadBytes, ReadsBlocks
<1>7. NothingLost'
  <2>1. SUFFICES ASSUME faulty = {} PROVE NothingLost'
    BY Zenon DEF NothingLost
  <2>2. \A c \in sent :
          \/ c \in received'
          \/ \E k \in 1 .. Len(c2s') : c2s'[k] = <<"bytes", Source(c)>>
    <3>1. SUFFICES ASSUME NEW c \in sent, NEW k \in 1 .. Len(c2s),
                          c2s[k] = <<"bytes", Source(c)>>
                   PROVE  \/ c = b
                          \/ \E j \in 1 .. Len(c2s') :
                               c2s'[j] = <<"bytes", Source(c)>>
      BY <1>b, <2>1, ZenonT(60) DEF IInv, NothingLost
    <3>2. CASE k = 1
      BY <1>a, <3>1, <3>2 DEF Source
    <3>3. CASE k # 1
      <4>1. k - 1 \in 1 .. Len(c2s') /\ c2s'[k - 1] = c2s[k]
        BY <1>0, <3>3
      <4> QED
        BY <3>1, <4>1, Zenon
    <3> QED
      BY <3>2, <3>3, Zenon
  <2> QED
    BY <2>1, <2>2, ZenonT(60) DEF IInv, NothingLost, InHand, Queued,
         SReadBytes,
       ReadsBlocks
<1> QED
  BY <1>1, <1>2, <1>3, <1>4, <1>5, <1>6, <1>7, ZenonT(60) DEF IInv

(* What is left of a block, or of a piece, when a part of it is written. *)
LEMMA PieceFacts ==
  ASSUME NEW b, NEW s, NEW h \in {1, 2}
  PROVE  /\ PieceHalves = 1 /\ h = 1 =>
              /\ After(<<b, s, h>>, PieceHalves) = <<b, s, 2>>
              /\ Rest(<<b, s, h>>) = None
         /\ PieceHalves = 2 /\ h = 1 =>
              /\ After(<<b, s, h>>, PieceHalves) = None
              /\ Rest(<<b, s, h>>) = <<b, s, 2>>
         /\ h = 2 => /\ After(<<b, s, h>>, PieceHalves) = None
                     /\ Rest(<<b, s, h>>) = None
         /\ ~(PieceHalves = 1 /\ h = 1) =>
              After(<<b, s, h>>, PieceHalves) = None
  BY SessionAssumption DEF After, Rest

(* A piece of a block is handed over: its first half, or both. *)
LEMMA SDiskWriteStep ==
  ASSUME IInv, SDiskWrite, UNCHANGED <<cvars, run>>
  PROVE  IInv'
<1>0. PICK b \in Blocks, h \in {1, 2} :
        dblock = <<b, Source(b), h>> /\ Divergent(b)
  BY Zenon DEF IInv, OnTheWay, SDiskWrite
<1>a. /\ fop = None /\ fop' = <<b, Source(b), h>> /\ fop' # None
      /\ fop'[1] = b /\ fop'[2] = Source(b) /\ fop'[3] = h
      /\ dblock # None /\ dblock[1] = b /\ dblock[3] = h
  BY <1>0, NotNone DEF SDiskWrite
<1>b. /\ PieceHalves = 1 /\ h = 1 => dblock' = <<b, Source(b), 2>>
      /\ ~(PieceHalves = 1 /\ h = 1) => dblock' = None
  BY <1>0, PieceFacts, Zenon DEF SDiskWrite
<1>c. UNCHANGED <<dest, ferr, late, orig, faulty, sh_hashed, image>>
  BY Zenon DEF SDiskWrite
<1>g. \A c : Divergent(c)' <=> Divergent(c)
  BY <1>c, Zenon DEF Divergent
<1>1. Shapes'
  BY DEF IInv, Shapes, TypeOK, SDiskWrite
<1>2. OnTheWay'
  <2>1. \/ dblock' = None
        \/ \E c \in Blocks, j \in {1, 2} : dblock' = <<c, Source(c), j>> /\ Divergent(c)
    BY <1>0, <1>b, Zenon
  <2> QED
    BY <1>0, <1>a, <1>c, <1>g, <2>1, ZenonT(60) DEF IInv, OnTheWay, SDiskWrite
<1>3. HashFlow'
  BY HashFlowFrame, Zenon DEF IInv, SDiskWrite
<1>4. BlockFlow'
  BY BlockFlowFrame, ZenonT(60) DEF IInv, SDiskWrite
<1>5. OnDisk'
  <2>1. \A c : fop # <<c, Source(c), 2>>
    BY <1>a, NotNone, Zenon
  <2>2. fop'[3] = 2 => HalfDone(fop)'
    <3>1. SUFFICES ASSUME h = 2 PROVE dest[b][1] = b
      BY <1>a, <1>c, Zenon DEF HalfDone
    <3>2. fop # <<dblock[1], dblock[2], 1>>
      BY <1>a, NotNone, Zenon
    <3>3. ~ferr /\ "server_crash" \notin faulty
      BY Zenon DEF IInv, Kept, SDiskWrite
    <3>4. HalfDone(dblock)
      BY <1>a, <3>1, <3>2, <3>3, Zenon DEF IInv, OnDisk
    <3> QED
      BY <1>a, <3>4, Zenon DEF HalfDone
  <2>3. fop'[3] = 1 /\ PieceHalves = 1 => dblock' = <<fop'[1], fop'[2], 2>>
    BY <1>a, <1>b, Zenon
  <2>4. dblock' # None /\ dblock'[3] = 2 =>
          PieceHalves = 1 /\ fop' = <<dblock'[1], dblock'[2], 1>>
    <3>1. CASE PieceHalves = 1 /\ h = 1
      <4>1. dblock'[1] = b /\ dblock'[2] = Source(b)
        BY <1>b, <3>1
      <4> QED
        BY <1>a, <3>1, <4>1, Zenon
    <3>2. CASE ~(PieceHalves = 1 /\ h = 1)
      BY <1>b, <3>2, Zenon
    <3> QED
      BY <3>1, <3>2, Zenon
  <2>5. ASSUME faulty \cap {"disk", "server_crash", "late_write"} = {},
               NEW c \in Blocks
        PROVE  \/ dest[c] \in {orig[c], Source(c)}
               \/ <<c, Source(c), 2>> \in {fop', dblock'}
    <3>1. CASE dblock = <<c, Source(c), 2>>
      BY <3>1, Zenon DEF SDiskWrite
    <3>2. CASE dblock # <<c, Source(c), 2>>
      BY <2>1, <2>5, <3>2, ZenonT(60) DEF IInv, OnDisk
    <3> QED
      BY <3>1, <3>2, Zenon
  <2>6. HashesOfOriginal'
    BY <1>c, Zenon DEF IInv, OnDisk, HashesOfOriginal, Alone
  <2>7. /\ Alone' => late' = {} /\ \A c \in Blocks : dest'[c] # orig'[c] => Divergent(c)'
        /\ \A c \in Blocks, j \in {1, 2} : dest'[c][j] \in {orig'[c][j], c}
    BY <1>c, <1>g, ZenonT(60) DEF IInv, OnDisk, Alone
  <2> QED
    BY <1>c, <2>2, <2>3, <2>4, <2>5, <2>6, <2>7, ZenonT(60) DEF OnDisk
<1>6. Kept'
  BY <1>a, Zenon DEF IInv, Kept, SDiskWrite
<1>7. NothingLost'
  BY NothingLostFrame, Zenon DEF IInv, SDiskWrite
<1> QED
  BY <1>1, <1>2, <1>3, <1>4, <1>5, <1>6, <1>7, ZenonT(60) DEF IInv

-----------------------------------------------------------------------------
(* The threads *)

(* A worker of the client hashes a block. *)
LEMMA CWorkerStep ==
  ASSUME IInv, CWorker
  PROVE  IInv'
<1>1. Shapes'
  BY DEF IInv, Shapes, TypeOK, CWorker, CH!Hash
<1>2. OnTheWay'
  BY OnTheWayFrame, Zenon DEF IInv, CWorker, CH!Hash
<1>3. HashFlow'
  BY HashFlowFrame, Zenon DEF IInv, CWorker, CH!Hash
<1>4. BlockFlow'
  BY BlockFlowFrame, Zenon DEF IInv, CWorker, CH!Hash
<1>5. OnDisk'
  BY OnDiskFrame, Zenon DEF IInv, CWorker, CH!Hash
<1>6. Kept'
  BY KeptFrame, Zenon DEF IInv, CWorker, CH!Hash
<1>7. NothingLost'
  BY NothingLostFrame, Zenon DEF IInv, CWorker, CH!Hash
<1> QED
  BY <1>1, <1>2, <1>3, <1>4, <1>5, <1>6, <1>7, ZenonT(60) DEF IInv

(* A worker of the server hashes a block: nobody writes to that block      *)
(* before its hash was sent.                                               *)
LEMMA SWorkerStep ==
  ASSUME IInv, SWorker
  PROVE  IInv'
<1>0. PICK b \in Blocks : SH!Hash(b) /\ image' = [image EXCEPT ![b] = dest[b]]
  BY Zenon DEF SWorker
<1>a. /\ b \notin sh_hashed /\ sh_hashed' = sh_hashed \cup {b}
      /\ UNCHANGED <<sh_yielded, sh_held, sh_failed, sh_status>>
  BY <1>0, Zenon DEF SH!Hash
<1>i. /\ image'[b] = dest[b] /\ dest[b] \in Halves \X Halves
      /\ \A c \in sh_hashed : image'[c] = image[c]
      /\ image' \in [Blocks -> (Halves \X Halves) \cup {None}]
  <2>1. /\ image \in [Blocks -> (Halves \X Halves) \cup {None}]
        /\ dest[b] \in Halves \X Halves /\ sh_hashed \subseteq Blocks
    BY ZenonT(60) DEF IInv, Shapes, TypeOK
  <2> QED
    BY <1>0, <1>a, <2>1, ZenonT(60)
<1>b. \A c : Divergent(c) => Divergent(c)'
  BY <1>a, <1>i, ZenonT(60) DEF Divergent
<1>1. Shapes'
  <2>1. \A c \in sh_hashed' : image'[c] \in Halves \X Halves
    BY <1>a, <1>i, ZenonT(60) DEF IInv, Shapes
  <2> QED
    BY <1>a, <1>i, <2>1, SMTT(60) DEF IInv, Shapes, TypeOK, SWorker
<1>2. OnTheWay'
  BY <1>b, Zenon DEF IInv, OnTheWay, SWorker
<1>3. HashFlow'
  <2>1. UNCHANGED <<cpc, remote_hashes, block_idx, s2c, spc, whash, net_up,
                    sh_yielded>>
    BY <1>a, Zenon DEF SWorker
  <2>2. \A n \in Nat : n < sh_yielded => image'[n] = image[n]
    <3>1. SUFFICES ASSUME NEW n \in Nat, n < sh_yielded PROVE n \in sh_hashed
      BY <1>i, Zenon
    <3>2. n \in Blocks
      BY <3>1, SessionAssumption DEF IInv, Shapes, Blocks
    <3> QED
      BY <3>1, <3>2, Zenon DEF IInv, Shapes
  <2>3. /\ sh_yielded \in Nat /\ block_idx \in Nat
        /\ Len(remote_hashes) \in Nat /\ Len(s2c) \in Nat
    BY LengthZero, SessionAssumption DEF IInv, Shapes
  <2>4. whash # None => image'[sh_yielded - 1] = image[sh_yielded - 1]
    BY <2>2, <2>3 DEF IInv, HashFlow
  <2>5. ASSUME cpc \in {"loop", "compare"}
        PROVE  /\ \A k \in 1 .. Len(remote_hashes) :
                    image'[block_idx + k - 1] = image[block_idx + k - 1]
               /\ \A k \in 1 .. Len(s2c) :
                    image'[block_idx + Len(remote_hashes) + k - 1]
                      = image[block_idx + Len(remote_hashes) + k - 1]
    BY <2>2, <2>3, <2>5, SMTT(60) DEF IInv, HashFlow
  <2> QED
    BY <2>1, <2>4, <2>5, ZenonT(60) DEF IInv, HashFlow, InHand
<1>4. BlockFlow'
  BY BlockFlowFrame, Zenon DEF IInv, SWorker, SH!Hash
<1>5. OnDisk'
  <2>1. Alone => dest[b] = orig[b]
    BY <1>a, ZenonT(60) DEF IInv, OnDisk, Divergent
  <2>2. Alone => \A c \in sh_hashed' : image'[c] = orig[c]
    BY <1>a, <1>i, <2>1, ZenonT(60) DEF IInv, OnDisk, HashesOfOriginal
  <2>3. UNCHANGED <<dest, fop, ferr, late, dblock, orig, faulty>>
    BY Zenon DEF SWorker
  <2> QED
    BY <1>b, <2>2, <2>3, ZenonT(60) DEF IInv, OnDisk, HashesOfOriginal, Alone,
       HalfDone
<1>6. Kept'
  BY KeptFrame, Zenon DEF IInv, SWorker, SH!Hash
<1>7. NothingLost'
  BY <1>a, NothingLostFrame, Zenon DEF IInv, SWorker
<1> QED
  BY <1>1, <1>2, <1>3, <1>4, <1>5, <1>6, <1>7, ZenonT(60) DEF IInv

(* What half a block does to the file, whoever sent it. *)
LEMMA WrittenFacts ==
  ASSUME IInv, NEW b \in Blocks, NEW h \in {1, 2},
         dest' = Written(<<b, Source(b), h>>)
  PROVE  /\ dest' \in [Blocks -> Halves \X Halves]
         /\ dest'[b][h] = b
         /\ \A c \in Blocks : c # b => dest'[c] = dest[c]
         /\ \A c \in Blocks, j \in {1, 2} : dest'[c][j] \in {orig[c][j], c}
         /\ \A c \in Blocks : dest[c][1] = c => dest'[c][1] = c
         /\ \A c \in Blocks : dest[c] = Source(c) => dest'[c] = Source(c)
         /\ h = 2 /\ dest[b][1] = b => dest'[b] = Source(b)
<1>a. dest' = [dest EXCEPT ![b] = [dest[b] EXCEPT ![h] = b]]
  <2>1. Source(b)[h] = b
    BY DEF Source
  <2> QED
    BY <2>1, ZenonT(60) DEF Written
<1>b. /\ dest \in [Blocks -> Halves \X Halves]
      /\ b \in Halves
  BY Zenon DEF IInv, Shapes, TypeOK, Halves
<1>c. /\ dest' \in [Blocks -> Halves \X Halves]
      /\ dest'[b][h] = b
      /\ \A c \in Blocks : c # b => dest'[c] = dest[c]
      /\ \A j \in {1, 2} : j # h => dest'[b][j] = dest[b][j]
  <2>1. [dest[b] EXCEPT ![h] = b] \in Halves \X Halves
    BY <1>b
  <2>2. dest'[b] = [dest[b] EXCEPT ![h] = b]
    BY <1>a, <1>b, Zenon
  <2>3. dest[b] \in Halves \X Halves
    BY <1>b, ZenonT(60)
  <2>4. \A c \in Blocks : c # b => dest'[c] = dest[c]
    BY <1>a, <1>b, Zenon
  <2>6. dest' \in [Blocks -> Halves \X Halves]
    BY <1>a, <1>b, <2>1, Zenon
  <2>5. /\ dest'[b][h] = b
        /\ \A j \in {1, 2} : j # h => dest'[b][j] = dest[b][j]
    BY <2>2, <2>3, SMTT(60)
  <2> QED
    BY <2>4, <2>5, <2>6, Zenon
<1>1. \A c \in Blocks, j \in {1, 2} : dest'[c][j] = dest[c][j] \/ dest'[c][j] = c
  BY <1>c, ZenonT(60)
<1>2. \A c \in Blocks, j \in {1, 2} : dest'[c][j] \in {orig[c][j], c}
  BY <1>1, ZenonT(60) DEF IInv, OnDisk
<1>3. \A c \in Blocks : dest[c][1] = c => dest'[c][1] = c
  BY <1>1, Zenon
<1>4. \A c \in Blocks : dest'[c][1] = c /\ dest'[c][2] = c => dest'[c] = Source(c)
  BY <1>c, SMTT(60) DEF Source
<1>5. \A c \in Blocks : dest[c] = Source(c) => dest'[c] = Source(c)
  <2>1. SUFFICES ASSUME NEW c \in Blocks, dest[c] = Source(c)
                 PROVE  dest'[c] = Source(c)
    BY Zenon
  <2>2. dest[c][1] = c /\ dest[c][2] = c
    BY <2>1 DEF Source
  <2> QED
    BY <1>1, <1>4, <2>2, Zenon
<1>6. h = 2 /\ dest[b][1] = b => dest'[b] = Source(b)
  BY <1>c, <1>3, <1>4, Zenon
<1> QED
  BY <1>c, <1>2, <1>3, <1>5, <1>6, Zenon

(* Half a block reaches the file. *)
LEMMA FWriteStep ==
  ASSUME IInv, FWrite
  PROVE  IInv'
<1>0. PICK b \in Blocks, h \in {1, 2} :
        fop = <<b, Source(b), h>> /\ Divergent(b)
  BY Zenon DEF IInv, OnTheWay, FWrite
<1>a. fop # None /\ fop[1] = b /\ fop[2] = Source(b) /\ fop[3] = h
  BY <1>0, NotNone
<1>c. /\ dest' \in [Blocks -> Halves \X Halves]
      /\ dest'[b][h] = b
      /\ \A c \in Blocks : c # b => dest'[c] = dest[c]
      /\ \A c \in Blocks, j \in {1, 2} : dest'[c][j] \in {orig[c][j], c}
      /\ \A c \in Blocks : dest[c][1] = c => dest'[c][1] = c
      /\ \A c \in Blocks : dest[c] = Source(c) => dest'[c] = Source(c)
      /\ h = 2 /\ dest[b][1] = b => dest'[b] = Source(b)
  <2>1. dest' = Written(<<b, Source(b), h>>)
    BY <1>0, Zenon DEF FWrite
  <2> QED
    BY <2>1, WrittenFacts, Zenon
<1>d. /\ h = 1 /\ PieceHalves = 2 =>
           fop' = <<b, Source(b), 2>> /\ fop' # None /\ fop'[1] = b
      /\ h = 2 \/ PieceHalves = 1 => fop' = None
  <2>1. fop' = Rest(<<b, Source(b), h>>)
    BY <1>0, Zenon DEF FWrite
  <2>2. <<b, Source(b), 2>> # None /\ <<b, Source(b), 2>>[1] = b
    BY NotNone
  <2> QED
    BY <2>1, <2>2, PieceFacts, Zenon
<1>e. h = 2 => dest'[b] = Source(b)
  BY <1>a, <1>c, Zenon DEF IInv, OnDisk, HalfDone
<1>g. \A c : Divergent(c)' <=> Divergent(c)
  BY ZenonT(60) DEF Divergent, FWrite
<1>h. h = 1 /\ PieceHalves = 1 =>
        dblock = <<b, Source(b), 2>> /\ dblock # None /\ dblock[1] = b
  <2>1. <<b, Source(b), 2>> # None /\ <<b, Source(b), 2>>[1] = b
    BY NotNone
  <2> QED
    BY <1>a, <2>1, Zenon DEF IInv, OnDisk
<1>p. PieceHalves \in {1, 2}
  BY SessionAssumption
<1>1. Shapes'
  BY <1>c, SMTT(60) DEF IInv, Shapes, TypeOK, FWrite
<1>2. OnTheWay'
  BY <1>0, <1>d, <1>g, <1>p, ZenonT(60) DEF IInv, OnTheWay, FWrite
<1>3. HashFlow'
  BY HashFlowFrame, Zenon DEF IInv, FWrite
<1>4. BlockFlow'
  BY BlockFlowFrame, ZenonT(60) DEF IInv, FWrite
<1>5. OnDisk'
  <2>1. Alone' => late' = {} /\ \A c \in Blocks : dest'[c] # orig[c] => Divergent(c)'
    BY <1>0, <1>c, <1>g, ZenonT(60) DEF IInv, OnDisk, Alone, FWrite
  <2>2. fop' # None => fop'[3] = 2 /\ HalfDone(fop)'
    <3>1. SUFFICES ASSUME fop' # None PROVE fop'[3] = 2 /\ dest'[fop'[1]][1] = fop'[1]
      BY Zenon DEF HalfDone
    <3>2. h = 1 /\ fop' = <<b, Source(b), 2>> /\ fop'[1] = b
      BY <1>d, <1>p, <3>1, Zenon
    <3> QED
      BY <1>c, <3>2
  <2>3. dblock # None /\ dblock[3] = 2 =>
          /\ PieceHalves = 1
          /\ HalfDone(dblock)' \/ ferr \/ "server_crash" \in faulty
    <3>1. SUFFICES ASSUME dblock # None, dblock[3] = 2,
                          ~ferr, "server_crash" \notin faulty
                   PROVE  dest'[dblock[1]][1] = dblock[1]
      BY Zenon DEF HalfDone, FWrite, IInv, OnDisk
    <3>2. dblock[1] \in Blocks
      <4>1. PICK c \in Blocks, j \in {1, 2} : dblock = <<c, Source(c), j>>
        BY <3>1, Zenon DEF IInv, OnTheWay
      <4> QED
        BY <4>1
    <3>3. CASE HalfDone(dblock)
      BY <1>c, <3>2, <3>3, Zenon DEF HalfDone
    <3>4. CASE fop = <<dblock[1], dblock[2], 1>>
      <4>1. dblock[1] = b /\ h = 1
        BY <1>a, <3>4
      <4> QED
        BY <1>c, <4>1, Zenon
    <3> QED
      BY <3>1, <3>3, <3>4, Zenon DEF IInv, OnDisk
  <2>4. ASSUME faulty \cap {"disk", "server_crash", "late_write"} = {},
               NEW c \in Blocks
        PROVE  \/ dest'[c] \in {orig[c], Source(c)}
               \/ <<c, Source(c), 2>> \in {fop', dblock}
    <3>1. CASE c = b
      BY <1>d, <1>e, <1>h, <1>p, <3>1, Zenon
    <3>2. CASE c # b
      <4>1. fop # <<c, Source(c), 2>>
        BY <1>0, <3>2, Zenon
      <4> QED
        BY <1>c, <2>4, <3>2, <4>1, ZenonT(60) DEF IInv, OnDisk
    <3> QED
      BY <3>1, <3>2, Zenon
  <2>5. HashesOfOriginal'
    BY Zenon DEF IInv, OnDisk, HashesOfOriginal, Alone, FWrite
  <2>6. orig' = orig /\ faulty' = faulty /\ dblock' = dblock /\ ferr' = ferr
    BY Zenon DEF FWrite
  <2>7. ~(fop' # None /\ fop'[3] = 1)
    BY <2>2
  <2> QED
    BY <1>c, <2>1, <2>2, <2>3, <2>4, <2>5, <2>6, <2>7, ZenonT(60) DEF OnDisk
<1>6. Kept'
  <2>1. sresult # "ack"
    BY Zenon DEF IInv, Kept, FWrite
  <2>2. ASSUME "disk" \notin faulty, sresult = "none", NEW c \in received
        PROVE  \/ dest'[c] = Source(c)
               \/ dblock # None /\ dblock[1] = c
               \/ fop' # None /\ fop'[1] = c
    <3>1. c \in Blocks
      BY <2>2, ZenonT(60) DEF IInv, Shapes, TypeOK
    <3>2. CASE c = b
      BY <1>d, <1>e, <1>h, <1>p, <3>2, Zenon
    <3>3. CASE c # b
      BY <1>a, <1>c, <2>2, <3>1, <3>3, ZenonT(60) DEF IInv, Kept
    <3> QED
      BY <3>2, <3>3, ZenonT(60)
  <2> QED
    BY <2>1, <2>2, ZenonT(60) DEF IInv, Kept, FWrite
<1>7. NothingLost'
  BY NothingLostFrame, Zenon DEF IInv, FWrite
<1> QED
  BY <1>1, <1>2, <1>3, <1>4, <1>5, <1>6, <1>7, ZenonT(60) DEF IInv

(* Half a block of an earlier session reaches the file: then this session  *)
(* was not alone from its beginning.                                       *)
LEMMA LateWriteStep ==
  ASSUME IInv, LateWrite
  PROVE  IInv'
<1>0. PICK w \in late : /\ dest' = Written(w)
                        /\ late' = (late \ {w}) \cup ({Rest(w)} \ {None})
  BY Zenon DEF LateWrite
<1>1. PICK b \in Blocks, h \in {1, 2} : w = <<b, Source(b), h>>
  BY <1>0, Zenon DEF IInv, OnTheWay
<1>c. /\ dest' \in [Blocks -> Halves \X Halves]
      /\ \A c \in Blocks, j \in {1, 2} : dest'[c][j] \in {orig[c][j], c}
      /\ \A c \in Blocks : dest[c][1] = c => dest'[c][1] = c
      /\ \A c \in Blocks : dest[c] = Source(c) => dest'[c] = Source(c)
  BY <1>0, <1>1, WrittenFacts, Zenon
<1>d. UNCHANGED <<cvars, svars, fop, ferr, net, run>>
  BY Zenon DEF LateWrite
<1>2. Shapes'
  BY <1>c, <1>d, SMTT(60) DEF IInv, Shapes, TypeOK
<1>3. OnTheWay'
  <2>1. \A v \in late' : \E c \in Blocks, j \in {1, 2} : v = <<c, Source(c), j>>
    <3>1. Rest(w) \in {None, <<b, Source(b), 2>>}
      <4>1. PieceHalves \in {1, 2}
        BY SessionAssumption
      <4> QED
        BY <1>1, <4>1, PieceFacts, Zenon
    <3> QED
      BY <1>0, <3>1, ZenonT(60) DEF IInv, OnTheWay
  <2>2. \A c : Divergent(c)' <=> Divergent(c)
    BY <1>d, Zenon DEF Divergent
  <2> QED
    BY <1>d, <2>1, <2>2, ZenonT(60) DEF IInv, OnTheWay
<1>4. HashFlow'
  BY <1>d, HashFlowFrame, Zenon DEF IInv
<1>5. BlockFlow'
  BY <1>d, BlockFlowFrame, Zenon DEF IInv
<1>6. OnDisk'
  <2>1. "late_write" \in faulty
    BY <1>0, Zenon DEF IInv, OnDisk, Alone
  <2>2. ASSUME NEW v, v # None,
               v = fop \/ v = dblock, dest[v[1]][1] = v[1]
        PROVE  dest'[v[1]][1] = v[1]
    <3>1. PICK c \in Blocks, j \in {1, 2} : v = <<c, Source(c), j>>
      BY <2>2, Zenon DEF IInv, OnTheWay
    <3>2. v[1] \in Blocks
      BY <3>1
    <3> QED
      BY <1>c, <2>2, <3>2, Zenon
  <2>3. faulty' = faulty /\ fop' = fop /\ dblock' = dblock /\ ferr' = ferr /\ orig' = orig
    BY <1>d, Zenon
  <2>4. /\ fop # None /\ fop[3] = 2 => HalfDone(fop)'
        /\ dblock # None /\ HalfDone(dblock) => HalfDone(dblock)'
    BY <2>2, <2>3, Zenon DEF IInv, OnDisk, HalfDone
  <2> QED
    BY <1>c, <2>1, <2>3, <2>4, ZenonT(60) DEF IInv, OnDisk, HashesOfOriginal,
       Alone
<1>7. Kept'
  <2>1. received \subseteq Blocks
    BY Zenon DEF IInv, Shapes, TypeOK
  <2> QED
    BY <1>c, <1>d, <2>1, ZenonT(60) DEF IInv, Kept
<1>8. NothingLost'
  BY <1>d, NothingLostFrame, Zenon DEF IInv
<1> QED
  BY <1>2, <1>3, <1>4, <1>5, <1>6, <1>7, <1>8, ZenonT(60) DEF IInv

(* A late write fails. *)
LEMMA LateFailsStep ==
  ASSUME IInv, LateFails
  PROVE  IInv'
<1>0. late' \subseteq late
  BY Zenon DEF LateFails
<1>d. UNCHANGED <<cvars, svars, dest, fop, ferr, net, run>>
  BY Zenon DEF LateFails
<1>1. Shapes'
  BY <1>d, SMTT(60) DEF IInv, Shapes, TypeOK
<1>2. OnTheWay'
  BY <1>0, <1>d, ZenonT(60) DEF IInv, OnTheWay, Divergent
<1>3. HashFlow'
  BY <1>d, HashFlowFrame, Zenon DEF IInv
<1>4. BlockFlow'
  BY <1>d, BlockFlowFrame, Zenon DEF IInv
<1>5. OnDisk'
  <2>1. "late_write" \in faulty
    BY Zenon DEF IInv, OnDisk, Alone, LateFails
  <2> QED
    BY <1>d, <2>1, ZenonT(60) DEF IInv, OnDisk, HashesOfOriginal, Alone,
         HalfDone
<1>6. Kept'
  BY <1>d, KeptFrame, Zenon DEF IInv
<1>7. NothingLost'
  BY <1>d, NothingLostFrame, Zenon DEF IInv
<1> QED
  BY <1>1, <1>2, <1>3, <1>4, <1>5, <1>6, <1>7, ZenonT(60) DEF IInv

-----------------------------------------------------------------------------
(* Faults and new sessions *)

(* A fault can only weaken what depends on there being none. *)
LEMMA FaultFrame ==
  ASSUME IInv, NEW kind, Fault(kind)
  PROVE  /\ NothingLost'
         /\ UNCHANGED <<dest, fop, ferr, late, dblock, sh_hashed, image>> => OnDisk'
         /\ /\ kind # "server_crash" /\ (sh_failed' => sh_failed \/ kind = "server_hash")
            /\ UNCHANGED <<spc, sresult, dblock, fop, ferr, received, dest>>
            => Kept'
<1>1. faulty' = faulty \cup {kind} /\ orig' = orig
  BY Zenon DEF Fault
<1>2. NothingLost'
  BY <1>1, Zenon DEF NothingLost
<1>3. /\ faulty' \cap {"disk", "server_crash", "late_write"} = {} =>
           faulty \cap {"disk", "server_crash", "late_write"} = {}
      /\ "disk" \notin faulty' => "disk" \notin faulty
  BY <1>1, Zenon
<1>4. ASSUME UNCHANGED <<dest, fop, ferr, late, dblock, sh_hashed, image>>
      PROVE  OnDisk'
  <2>1. "late_write" \notin faulty' => "late_write" \notin faulty
    BY <1>1, Zenon
  <2>2. "server_crash" \in faulty => "server_crash" \in faulty'
    BY <1>1, Zenon
  <2> QED
    BY <1>1, <1>3, <1>4, <2>1, <2>2, ZenonT(60) DEF IInv, OnDisk,
       HashesOfOriginal, Divergent, Alone, HalfDone
<1>5. ASSUME kind # "server_crash", sh_failed' => sh_failed \/ kind = "server_hash",
             UNCHANGED <<spc, sresult, dblock, fop, ferr, received, dest>>
      PROVE  Kept'
  <2>1. /\ "server_crash" \in faulty' <=> "server_crash" \in faulty
        /\ "server_hash" \in faulty => "server_hash" \in faulty'
        /\ "disk" \in faulty => "disk" \in faulty'
        /\ kind \in faulty'
    BY <1>1, <1>5, Zenon
  <2> QED
    BY <1>3, <1>5, <2>1, ZenonT(60) DEF IInv, Kept
<1> QED
  BY <1>2, <1>4, <1>5, Zenon

(* A worker of the client fails. *)
LEMMA CHashFailsStep ==
  ASSUME IInv, CHashFails
  PROVE  IInv'
<1>f. Fault("client_hash")
  BY Zenon DEF CHashFails
<1>o. orig' = orig
  BY ZenonT(60) DEF CHashFails, Fault
<1>1. Shapes'
  BY <1>o DEF IInv, Shapes, TypeOK, CHashFails, CH!Fail
<1>2. OnTheWay'
  BY <1>o, OnTheWayFrame, Zenon DEF IInv, CHashFails, CH!Fail
<1>3. HashFlow'
  BY <1>o, HashFlowFrame, Zenon DEF IInv, CHashFails, CH!Fail
<1>4. BlockFlow'
  BY BlockFlowFrame, Zenon DEF IInv, CHashFails, CH!Fail
<1>5. OnDisk'
  BY <1>f, FaultFrame, Zenon DEF CHashFails, CH!Fail
<1>6. Kept'
  <2>1. "client_hash" # "server_crash"
    OBVIOUS
  <2> QED
    BY <1>f, <2>1, FaultFrame, Zenon DEF CHashFails, CH!Fail
<1>7. NothingLost'
  BY <1>f, FaultFrame, Zenon
<1> QED
  BY <1>1, <1>2, <1>3, <1>4, <1>5, <1>6, <1>7, ZenonT(60) DEF IInv

(* A worker of the server fails. *)
LEMMA SHashFailsStep ==
  ASSUME IInv, SHashFails
  PROVE  IInv'
<1>f. Fault("server_hash")
  BY Zenon DEF SHashFails
<1>o. orig' = orig
  BY ZenonT(60) DEF SHashFails, Fault
<1>1. Shapes'
  BY <1>o DEF IInv, Shapes, TypeOK, SHashFails, SH!Fail
<1>2. OnTheWay'
  BY <1>o, OnTheWayFrame, Zenon DEF IInv, SHashFails, SH!Fail
<1>3. HashFlow'
  BY <1>o, HashFlowFrame, Zenon DEF IInv, SHashFails, SH!Fail
<1>4. BlockFlow'
  BY BlockFlowFrame, Zenon DEF IInv, SHashFails, SH!Fail
<1>5. OnDisk'
  BY <1>f, FaultFrame, Zenon DEF SHashFails, SH!Fail
<1>6. Kept'
  <2>1. "server_hash" # "server_crash"
    OBVIOUS
  <2> QED
    BY <1>f, <2>1, FaultFrame, Zenon DEF SHashFails, SH!Fail
<1>7. NothingLost'
  BY <1>f, FaultFrame, Zenon
<1> QED
  BY <1>1, <1>2, <1>3, <1>4, <1>5, <1>6, <1>7, ZenonT(60) DEF IInv

(* The connection breaks. *)
LEMMA NetBreaksStep ==
  ASSUME IInv, NetBreaks
  PROVE  IInv'
<1>f. Fault("network")
  BY Zenon DEF NetBreaks
<1>o. orig' = orig
  BY Zenon DEF NetBreaks, Fault
<1>a. Len(s2c) \in Nat
  BY LengthZero, Zenon DEF IInv, Shapes
<1>b. /\ s2c' \in Seq(Digests) /\ Len(s2c') \in Nat
      /\ Len(s2c') <= Len(s2c)
      /\ \A k \in 1 .. Len(s2c') : s2c'[k] = s2c[k]
  <2>1. s2c \in Seq(Digests) /\ s2c' \in Prefixes(s2c)
    BY Zenon DEF IInv, Shapes, NetBreaks
  <2> QED
    BY <2>1, LengthZero, PrefixSeq, Zenon
<1>c. Len(c2s) \in Nat /\ (c2s = <<>> <=> Len(c2s) = 0)
  BY LengthZero, Zenon DEF IInv, Shapes
<1>d. /\ c2s' \in Seq(Messages) /\ Len(c2s') \in Nat
      /\ Len(c2s') <= Len(c2s)
      /\ \A k \in 1 .. Len(c2s') : c2s'[k] = c2s[k]
      /\ c2s' = <<>> <=> Len(c2s') = 0
  <2>1. c2s \in Seq(Messages) /\ c2s' \in Prefixes(c2s)
    BY ZenonT(60) DEF IInv, Shapes, NetBreaks
  <2> QED
    BY <2>1, LengthZero, PrefixSeq, Zenon
<1>1. Shapes'
  BY <1>a, <1>b, <1>c, <1>d, <1>o, SessionAssumption, SMTT(60) DEF IInv,
       Shapes, TypeOK,
     NetBreaks
<1>2. OnTheWay'
  <2>1. UNCHANGED <<blocks_idx_to_send, wblock, rblock, dblock, fop, late,
                    sh_hashed, image>>
    BY Zenon DEF NetBreaks
  <2>3. \A k \in 1 .. Len(c2s') : k \in 1 .. Len(c2s)
    BY <1>c, <1>d
  <2>4. \A k \in 1 .. Len(c2s') : c2s'[k][1] = "offset" => Divergent(c2s'[k][2])
    BY <1>d, <2>3, Zenon DEF IInv, OnTheWay
  <2> HIDE DEF NetBreaks
  <2> QED
    BY <1>o, <2>1, <2>4, ZenonT(60) DEF IInv, OnTheWay, Divergent, Differs
<1>3. HashFlow'
  <2>1. /\ UNCHANGED <<cpc, remote_hashes, block_idx, spc, whash, sh_yielded,
                       image>>
        /\ ~net_up'
    BY Zenon DEF NetBreaks
  <2>2. \A k \in 1 .. Len(s2c') : k \in 1 .. Len(s2c) /\ s2c'[k] = s2c[k]
    BY <1>a, <1>b
  <2> QED
    BY <1>o, <2>1, <2>2, Zenon DEF IInv, HashFlow
<1>4. BlockFlow'
  BY <1>c, <1>d, SMTT(60) DEF IInv, BlockFlow, NetBreaks
<1>5. OnDisk'
  BY <1>f, FaultFrame, Zenon DEF NetBreaks
<1>6. Kept'
  <2>1. "network" # "server_crash"
    OBVIOUS
  <2> QED
    BY <1>f, <2>1, FaultFrame, Zenon DEF NetBreaks
<1>7. NothingLost'
  BY <1>f, FaultFrame, Zenon
<1> QED
  BY <1>1, <1>2, <1>3, <1>4, <1>5, <1>6, <1>7, ZenonT(60) DEF IInv

(* A write fails. *)
LEMMA DiskFailsStep ==
  ASSUME IInv, DiskFails
  PROVE  IInv'
<1>f. Fault("disk")
  BY Zenon DEF DiskFails
<1>o. orig' = orig
  BY ZenonT(60) DEF DiskFails, Fault
<1>1. Shapes'
  BY <1>o, SMTT(60) DEF IInv, Shapes, TypeOK, DiskFails
<1>2. OnTheWay'
  BY <1>o, ZenonT(60) DEF IInv, OnTheWay, Divergent, DiskFails
<1>3. HashFlow'
  BY <1>o, HashFlowFrame, Zenon DEF IInv, DiskFails
<1>4. BlockFlow'
  BY BlockFlowFrame, Zenon DEF IInv, DiskFails
<1>5. OnDisk'
  <2>1. "disk" \in faulty'
    BY Zenon DEF DiskFails, Fault
  <2> QED
    BY <1>f, <1>o, <2>1, ZenonT(60) DEF IInv, OnDisk, HashesOfOriginal,
         Divergent,
         DiskFails, Alone, HalfDone, Fault
<1>6. Kept'
  <2>1. /\ "disk" \in faulty'
        /\ "server_crash" \in faulty' <=> "server_crash" \in faulty
        /\ "server_hash" \in faulty => "server_hash" \in faulty'
    BY Zenon DEF DiskFails, Fault
  <2> QED
    BY <2>1, ZenonT(60) DEF IInv, Kept, DiskFails
<1>7. NothingLost'
  BY <1>f, FaultFrame, Zenon
<1> QED
  BY <1>1, <1>2, <1>3, <1>4, <1>5, <1>6, <1>7, ZenonT(60) DEF IInv

(* seek(), flush() or sync_data() fails. *)
LEMMA SFileFailsStep ==
  ASSUME IInv, SFileFails
  PROVE  IInv'
<1>f. Fault("disk")
  BY Zenon DEF SFileFails
<1>o. orig' = orig
  BY ZenonT(60) DEF SFileFails, Fault
<1>1. Shapes'
  BY <1>o, ZenonT(60) DEF IInv, Shapes, TypeOK, SFileFails
<1>2. OnTheWay'
  BY <1>o, OnTheWayFrame, ZenonT(60) DEF IInv, SFileFails
<1>3. HashFlow'
  BY <1>o, ZenonT(60) DEF IInv, HashFlow, InHand, SFileFails
<1>4. BlockFlow'
  BY Zenon DEF IInv, BlockFlow, Begun, SFileFails
<1>5. OnDisk'
  BY <1>f, FaultFrame, ZenonT(60) DEF SFileFails
<1>6. Kept'
  <2>1. /\ "disk" \in faulty'
        /\ "server_crash" \in faulty' <=> "server_crash" \in faulty
        /\ "server_hash" \in faulty => "server_hash" \in faulty'
    BY Zenon DEF SFileFails, Fault
  <2> QED
    BY <2>1, Zenon DEF IInv, Kept, SFileFails
<1>7. NothingLost'
  BY <1>f, FaultFrame, Zenon
<1> QED
  BY <1>1, <1>2, <1>3, <1>4, <1>5, <1>6, <1>7, ZenonT(60) DEF IInv

(* The client dies. *)
LEMMA CCrashStep ==
  ASSUME IInv, CCrash
  PROVE  IInv'
<1>f. Fault("client_crash")
  BY Zenon DEF CCrash
<1>o. orig' = orig
  BY Zenon DEF CCrash, Fault
<1>c. Len(c2s) \in Nat /\ (c2s = <<>> <=> Len(c2s) = 0)
  BY LengthZero, Zenon DEF IInv, Shapes
<1>d. /\ c2s' \in Seq(Messages) /\ Len(c2s') \in Nat
      /\ Len(c2s') <= Len(c2s)
      /\ \A k \in 1 .. Len(c2s') : c2s'[k] = c2s[k]
      /\ c2s' = <<>> <=> Len(c2s') = 0
  <2>1. c2s \in Seq(Messages) /\ c2s' \in Prefixes(c2s)
    BY ZenonT(60) DEF IInv, Shapes, CCrash
  <2> QED
    BY <2>1, LengthZero, PrefixSeq, ZenonT(60)
<1>1. Shapes'
  BY <1>c, <1>d, <1>o, SessionAssumption, SMTT(60) DEF IInv, Shapes, TypeOK,
       CCrash
<1>2. OnTheWay'
  BY <1>c, <1>d, <1>o, SMTT(60) DEF IInv, OnTheWay, Divergent, CCrash
<1>3. HashFlow'
  BY <1>o, ZenonT(60) DEF IInv, HashFlow, CCrash
<1>4. BlockFlow'
  BY <1>c, <1>d DEF IInv, BlockFlow, CCrash
<1>5. OnDisk'
  BY <1>f, FaultFrame, Zenon DEF CCrash
<1>6. Kept'
  <2>1. "client_crash" # "server_crash"
    OBVIOUS
  <2> QED
    BY <1>f, <2>1, FaultFrame, Zenon DEF CCrash
<1>7. NothingLost'
  BY <1>f, FaultFrame, Zenon
<1> QED
  BY <1>1, <1>2, <1>3, <1>4, <1>5, <1>6, <1>7, ZenonT(60) DEF IInv

(* The server dies, perhaps inside a write. *)
LEMMA SCrashStep ==
  ASSUME IInv, SCrash
  PROVE  IInv'
<1>f. Fault("server_crash")
  BY Zenon DEF SCrash
<1>o. orig' = orig
  BY Zenon DEF SCrash, Fault
<1>a. Len(s2c) \in Nat
  BY LengthZero, ZenonT(60) DEF IInv, Shapes
<1>b. /\ s2c' \in Seq(Digests) /\ Len(s2c') \in Nat
      /\ Len(s2c') <= Len(s2c)
      /\ \A k \in 1 .. Len(s2c') : s2c'[k] = s2c[k]
  <2>1. s2c \in Seq(Digests) /\ s2c' \in Prefixes(s2c)
    BY ZenonT(60) DEF IInv, Shapes, SCrash
  <2> QED
    BY <2>1, LengthZero, PrefixSeq, ZenonT(60)
<1>1. Shapes'
  BY <1>a, <1>b, <1>o, SessionAssumption, SMTT(60) DEF IInv, Shapes, TypeOK,
       SCrash
<1>2. OnTheWay'
  BY <1>o, ZenonT(60) DEF IInv, OnTheWay, Divergent, SCrash
<1>3. HashFlow'
  BY <1>a, <1>b, <1>o, SMTT(60) DEF IInv, HashFlow, SCrash
<1>4. BlockFlow'
  BY Zenon DEF IInv, BlockFlow, Begun, SCrash
<1>5. OnDisk'
  <2>1. "server_crash" \in faulty'
    BY Zenon DEF SCrash, Fault
  <2> QED
    BY <1>f, <1>o, <2>1, ZenonT(60) DEF IInv, OnDisk, HashesOfOriginal,
         Divergent,
         SCrash, Alone, HalfDone, Fault
<1>6. Kept'
  <2>1. /\ "disk" \notin faulty' => "disk" \notin faulty
        /\ "server_hash" \in faulty => "server_hash" \in faulty'
        /\ "server_crash" \in faulty'
    BY Zenon DEF SCrash, Fault
  <2> QED
    BY <2>1, Zenon DEF IInv, Kept, SCrash
<1>7. NothingLost'
  BY <1>f, FaultFrame, Zenon
<1> QED
  BY <1>1, <1>2, <1>3, <1>4, <1>5, <1>6, <1>7, ZenonT(60) DEF IInv

(* The invariant holds when a session begins. *)
LEMMA FreshInv ==
  ASSUME InitClient, InitServer, InitNet, orig = dest, faulty = {}, late = {},
         dest \in [Blocks -> Halves \X Halves]
  PROVE  IInv
<1> USE SessionAssumption DEF InitClient, InitServer, InitNet, CH!Init, SH!Init
<1>1. Shapes
  <2>1. /\ <<>> \in Seq(Digests) /\ <<>> \in Seq(Messages)
        /\ <<>> \in Seq({<<b, b>> : b \in Blocks}) /\ Len(<<>>) = 0
    OBVIOUS
  <2>2. image \in [Blocks -> (Halves \X Halves) \cup {None}]
    BY ZenonT(60)
  <2> QED
    BY <2>1, <2>2 DEF Shapes, TypeOK, Blocks
<1>2. OnTheWay
  BY DEF OnTheWay
<1>3. HashFlow
  BY DEF HashFlow, InHand
<1>4. BlockFlow
  BY DEF BlockFlow, Begun
<1>5. OnDisk
  BY Zenon DEF OnDisk, HashesOfOriginal, Alone
<1>6. Kept
  BY ZenonT(60) DEF Kept
<1>7. NothingLost
  BY DEF NothingLost, Blocks
<1> QED
  BY <1>1, <1>2, <1>3, <1>4, <1>5, <1>6, <1>7, ZenonT(60) DEF IInv

(* The client is run again. *)
LEMMA NewSessionStep ==
  ASSUME IInv, NewSession
  PROVE  IInv'
<1> USE SessionAssumption DEF NewSession
<1>0. dest' = dest /\ orig' = dest /\ dest \in [Blocks -> Halves \X Halves]
  BY ZenonT(60) DEF IInv, Shapes, TypeOK
<1>1. Shapes'
  <2>1. /\ <<>> \in Seq(Digests) /\ <<>> \in Seq(Messages)
        /\ <<>> \in Seq({<<b, b>> : b \in Blocks}) /\ Len(<<>>) = 0
    OBVIOUS
  <2>2. image' \in [Blocks -> (Halves \X Halves) \cup {None}]
    BY ZenonT(60)
  <2> QED
    BY <1>0, <2>1, <2>2, SMTT(60) DEF Shapes, TypeOK, Blocks, Halves
<1>2. OnTheWay'
  <2>1. \A w \in late' : \E b \in Blocks, h \in {1, 2} : w = <<b, Source(b), h>>
    <3>1. late' = late \cup ({fop} \ {None})
      BY Zenon
    <3>2. fop # None =>
            \E b \in Blocks, h \in {1, 2} : fop = <<b, Source(b), h>>
      BY Zenon DEF IInv, OnTheWay
    <3>3. \A w \in late : \E b \in Blocks, h \in {1, 2} : w = <<b, Source(b), h>>
      BY Zenon DEF IInv, OnTheWay
    <3> HIDE DEF NewSession
    <3> QED
      BY <3>1, <3>2, <3>3, ZenonT(60)
  <2>2. \A k : k \notin 1 .. Len(blocks_idx_to_send') /\ k \notin 1 .. Len(c2s')
    <3>1. blocks_idx_to_send' = <<>> /\ c2s' = <<>>
      BY Zenon
    <3> HIDE DEF NewSession
    <3> QED
      BY <3>1
  <2>3. wblock' = None /\ rblock' = None /\ dblock' = None /\ fop' = None
    BY Zenon
  <2> HIDE DEF NewSession
  <2> QED
    BY <2>1, <2>2, <2>3, Zenon DEF OnTheWay
<1>3. HashFlow'
  BY SMTT(60) DEF HashFlow, InHand
<1>4. BlockFlow'
  BY DEF BlockFlow, Begun
<1>5. OnDisk'
  BY <1>0, Zenon DEF OnDisk, HashesOfOriginal, Alone
<1>6. Kept'
  BY ZenonT(60) DEF Kept
<1>7. NothingLost'
  BY DEF NothingLost, Blocks
<1> QED
  BY <1>1, <1>2, <1>3, <1>4, <1>5, <1>6, <1>7, Zenon DEF IInv

-----------------------------------------------------------------------------
(* The invariant holds *)

(* The invariant holds at first. *)
LEMMA InitInv == Init => IInv
<1>1. SUFFICES ASSUME Init PROVE IInv
  BY Zenon
<1>2. dest \in [Blocks -> Halves \X Halves]
  BY <1>1 DEF Init, Halves
<1> QED
  BY <1>1, <1>2, FreshInv, Zenon DEF Init

(* Every step preserves the invariant. *)
LEMMA StepInv == IInv /\ [Next]_vars => IInv'
<1>1. SUFFICES ASSUME IInv, [Next]_vars PROVE IInv'
  BY Zenon
<1>2. CASE ClientNext
  BY <1>1, <1>2, CWriteOffsetStep, CWriteBytesStep, CWriteErrorStep,
     CReadHashStep, CReadEndStep, CYieldStep, CCompareStep, CEndStep,
     CErrorStep, CHangUpStep, CDropLoanStep, CDropStep, CExitStep, Zenon
     DEF ClientNext
<1>3. CASE ServerNext
  BY <1>1, <1>3, SReadOffsetStep, SReadBytesStep, SSeekStep, SDiskWriteStep,
     SDiskErrorStep, SEofStep, SFlushStep, SHashWrittenStep, SHashErrorStep,
     SYieldStep, SHashStep, SHashEndStep, SErrorStep, SDropStep, SExitStep,
     Zenon DEF ServerNext
<1>4. CASE CWorker \/ SWorker \/ FWrite \/ LateWrite \/ LateFails
  BY <1>1, <1>4, CWorkerStep, SWorkerStep, FWriteStep, LateWriteStep,
     LateFailsStep, Zenon
<1>5. CASE FaultNext
  BY <1>1, <1>5, CHashFailsStep, SHashFailsStep, NetBreaksStep, DiskFailsStep,
     SFileFailsStep, CCrashStep, SCrashStep, Zenon DEF FaultNext
<1>6. CASE NewSession
  BY <1>1, <1>6, NewSessionStep, Zenon
<1>7. CASE UNCHANGED vars
  <2>1. Shapes'
    BY <1>1, <1>7, SMTT(60) DEF vars, IInv, Shapes, TypeOK
  <2>2. /\ OnTheWay' /\ HashFlow' /\ BlockFlow' /\ OnDisk' /\ Kept'
        /\ NothingLost'
    BY <1>1, <1>7, OnTheWayFrame, HashFlowFrame, BlockFlowFrame, OnDiskFrame,
       KeptFrame, NothingLostFrame, Zenon DEF vars, IInv
  <2> QED
    BY <2>1, <2>2, ZenonT(60) DEF IInv
<1> QED
  BY <1>1, <1>2, <1>3, <1>4, <1>5, <1>6, <1>7, ZenonT(60) DEF Next, Finished

-----------------------------------------------------------------------------
(* The invariant implies the properties *)

(* What the code relies on holds in every state, whatever fails, for every *)
(* number of blocks and of workers, every capacity of the connection and   *)
(* every hash function.                                                    *)
THEOREM SessionInvariant == Spec => []IInv
  BY InitInv, StepInv, PTL DEF Spec

(* The invariant implies what is checked of the session. *)
LEMMA IInvImplies ==
  ASSUME IInv
  PROVE  /\ TypeOK /\ HashesOfOriginal /\ OnlyDivergentWritten /\ WholeBlocks
         /\ AckUnlessDiskFails /\ OkUnlessCut /\ Converges /\ DropsReturn
<1>1. TypeOK /\ HashesOfOriginal
  BY ZenonT(60) DEF IInv, Shapes, OnDisk
<1>2. OnlyDivergentWritten
  <2>1. \A b \in Blocks, h \in {1, 2} : Source(b)[h] = b
    BY DEF Source
  <2>2. Alone => \A b \in Blocks : dest[b] # orig[b] => Differs(b, orig[b])
    BY Zenon DEF IInv, OnDisk, HashesOfOriginal, Divergent
  <2>3. \A b \in Blocks, h \in {1, 2} : dest[b][h] \in {orig[b][h], b}
    BY Zenon DEF IInv, OnDisk
  <2> QED
    BY <2>1, <2>2, <2>3, Zenon DEF OnlyDivergentWritten
<1>3. WholeBlocks
  <2>1. SUFFICES ASSUME spc = "done", fop = None, faulty \cap Tearing = {},
                        NEW b \in Blocks
                 PROVE  dest[b] \in {orig[b], Source(b)}
    BY Zenon DEF WholeBlocks
  <2>2. /\ "disk" \notin faulty /\ "server_crash" \notin faulty
        /\ faulty \cap {"disk", "server_crash", "late_write"} = {}
        /\ PieceHalves = 1 => "server_hash" \notin faulty
    BY <2>1, SMTT(60) DEF Tearing
  <2>3. PieceHalves = 1 => dblock = None
    <3>1. PieceHalves = 1 => sresult = "ack"
      BY <2>1, <2>2, ZenonT(60) DEF IInv, Shapes, TypeOK, Kept
    <3> QED
      BY <3>1, Zenon DEF IInv, Kept
  <2>4. dblock # <<b, Source(b), 2>>
    <3>1. <<b, Source(b), 2>> # None /\ <<b, Source(b), 2>>[3] = 2
      BY NotNone
    <3> QED
      BY <2>3, <3>1, Zenon DEF IInv, OnDisk
  <2>5. fop # <<b, Source(b), 2>>
    BY <2>1, NotNone, Zenon
  <2> QED
    BY <2>2, <2>4, <2>5, ZenonT(60) DEF IInv, OnDisk
<1>4. AckUnlessDiskFails
  BY Zenon DEF IInv, Kept, AckUnlessDiskFails, AckMeansWritten
<1>5. \A b : ~Queued(b) \/ wblock # None \/ blocks_idx_to_send # <<>>
  BY SMTT(60) DEF Queued
<1>6. OkUnlessCut
  <2>1. SUFFICES ASSUME faulty = {}, cresult = "ok"
                 PROVE  /\ block_idx = NumBlocks
                        /\ \A b \in Blocks : Differs(b, orig[b]) => b \in sent
    BY ZenonT(60) DEF OkUnlessCut, OkMeansAllSent
  <2>2. block_idx = NumBlocks /\ wblock = None /\ blocks_idx_to_send = <<>>
    BY <2>1, ZenonT(60) DEF IInv, NothingLost
  <2>3. \A b \in Blocks : b < block_idx
    BY <2>2, SessionAssumption DEF Blocks
  <2> QED
    BY <1>5, <2>1, <2>2, <2>3, ZenonT(60) DEF IInv, NothingLost
<1>7. Converges
  <2>1. SUFFICES ASSUME cpc = "done", spc = "done", fop = None, faulty = {},
                        NEW b \in Blocks
                 PROVE  dest[b] = IF Differs(b, orig[b]) THEN Source(b)
                                  ELSE orig[b]
    BY Zenon DEF Converges
  <2>2. CASE ~Differs(b, orig[b])
    <3>1. Alone
      BY <2>1, Zenon DEF Alone
    <3> QED
      BY <2>2, <3>1, ZenonT(60) DEF IInv, OnDisk, HashesOfOriginal, Divergent
  <2>3. CASE Differs(b, orig[b])
    <3>1. /\ block_idx = NumBlocks /\ wblock = None
          /\ blocks_idx_to_send = <<>> /\ c2s = <<>> /\ sresult = "ack"
      BY <2>1, ZenonT(60) DEF IInv, NothingLost
    <3>2. b < block_idx
      BY <3>1, SessionAssumption, SMTT(60) DEF Blocks
    <3>3. b \in sent
      BY <1>5, <2>1, <2>3, <3>1, <3>2, ZenonT(60) DEF IInv, NothingLost
    <3>4. b \in received
      BY <2>1, <3>1, <3>3, SMTT(60) DEF IInv, NothingLost
    <3> QED
      BY <2>1, <2>3, <3>1, <3>4, ZenonT(60) DEF IInv, Kept
  <2> QED
    BY <2>2, <2>3, Zenon
<1>8. DropsReturn
  BY Zenon DEF IInv, NothingLost, DropsReturn
<1> QED
  BY <1>1, <1>2, <1>3, <1>4, <1>6, <1>7, <1>8, ZenonT(60)

(* Counters, queues and buffers of both event loops stay within bounds. *)
THEOREM SessionTypes == Spec => []TypeOK
  BY SessionInvariant, IInvImplies, PTL

(* The server never sends the hash of a block that it has already written  *)
(* to, although its workers read the file while it is being written.       *)
THEOREM HashesAreOfOriginal == Spec => []HashesOfOriginal
  BY SessionInvariant, IInvImplies, PTL

(* Whatever fails, the server writes nothing but blocks of the source,     *)
(* each at its own place, and only where the hashes differed.              *)
THEOREM OnlyDivergentBlocksWritten == Spec => []OnlyDivergentWritten
  BY SessionInvariant, IInvImplies, PTL

(* An interrupted synchronisation leaves no half-written block, however    *)
(* many pieces a block is written in, unless the disk or the server fails, *)
(* a write of an earlier session comes late or, if a block takes more than *)
(* one piece, the server's own hasher fails.                               *)
THEOREM NoTornBlocks == Spec => []WholeBlocks
  BY SessionInvariant, IInvImplies, PTL

(* A server that says Ack has every block it received in the file, unless  *)
(* the disk failed.                                                        *)
THEOREM AckedBlocksAreWritten == Spec => []AckUnlessDiskFails
  BY SessionInvariant, IInvImplies, PTL

(* A client that returns Ok has sent all that differs, if nothing failed.  *)
THEOREM OkMeansAllWereSent == Spec => []OkUnlessCut
  BY SessionInvariant, IInvImplies, PTL

(* In a session in which nothing failed neither side hangs in the drop of  *)
(* its HashStream: no hashed block is left in the channel.                 *)
THEOREM CleanDropsReturn == Spec => []DropsReturn
  BY SessionInvariant, IInvImplies, PTL

(* A synchronisation in which nothing fails makes the destination equal to *)
(* the source, in every block whose hash differed.                         *)
THEOREM SynchronisationConverges == Spec => []Converges
  BY SessionInvariant, IInvImplies, PTL
=============================================================================
