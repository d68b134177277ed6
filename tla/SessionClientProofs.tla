------------------------ MODULE SessionClientProofs -------------------------
(***************************************************************************)
(* The steps of the client, src/client.rs, preserve the invariant IInv of  *)
(* module Session: one lemma per action.  They come after what all proofs  *)
(* about Session share: facts about sequences and tuples, and a frame      *)
(* lemma for each conjunct of IInv, which names the variables that the     *)
(* conjunct depends on.                                                    *)
(***************************************************************************)
EXTENDS Session, TLAPS

-----------------------------------------------------------------------------
(* Sequences and tuples *)

(* Only the empty sequence has length 0. *)
LEMMA LengthZero ==
  ASSUME NEW S, NEW s \in Seq(S)
  PROVE  /\ Len(s) \in Nat
         /\ s = <<>> <=> Len(s) = 0
  OBVIOUS

(* Append adds an element at the end. *)
LEMMA AppendSeq ==
  ASSUME NEW S, NEW s \in Seq(S), NEW e \in S
  PROVE  /\ Append(s, e) \in Seq(S)
         /\ Len(Append(s, e)) = Len(s) + 1
         /\ Append(s, e) # <<>>
         /\ \A k \in 1 .. Len(s) : Append(s, e)[k] = s[k]
         /\ Append(s, e)[Len(s) + 1] = e
  OBVIOUS

(* Tail removes the first element. *)
LEMMA TailSeq ==
  ASSUME NEW S, NEW s \in Seq(S), s # <<>>
  PROVE  /\ Len(s) > 0
         /\ Head(s) = s[1] /\ Head(s) \in S
         /\ Tail(s) \in Seq(S)
         /\ Len(Tail(s)) = Len(s) - 1
         /\ \A k \in 1 .. (Len(s) - 1) : Tail(s)[k] = s[k + 1]
  OBVIOUS

(* A prefix has the same elements, as far as it goes. *)
LEMMA PrefixSeq ==
  ASSUME NEW S, NEW s \in Seq(S), NEW t \in Prefixes(s)
  PROVE  /\ t \in Seq(S)
         /\ Len(t) <= Len(s)
         /\ \A k \in 1 .. Len(t) : t[k] = s[k]
  BY DEF Prefixes

(* Sequences with the same length and the same elements are the same. *)
LEMMA SameSeq ==
  ASSUME NEW S, NEW s \in Seq(S), NEW t \in Seq(S), Len(s) = Len(t),
         \A k \in 1 .. Len(s) : s[k] = t[k]
  PROVE  s = t
  OBVIOUS

(* prepare_next_write_block() makes a triple of a pair. *)
LEMMA AppendPair ==
  \A b, c, n : Append(<<b, c>>, n) = <<b, c, n>>
<1>1. TAKE b, c, n
<1>2. /\ <<b, c>> \in Seq({b, c, n}) /\ n \in {b, c, n}
      /\ Len(<<b, c>>) = 2 /\ <<b, c>>[1] = b /\ <<b, c>>[2] = c
  OBVIOUS
<1>3. /\ Append(<<b, c>>, n) \in Seq({b, c, n})
      /\ Len(Append(<<b, c>>, n)) = 3
      /\ Append(<<b, c>>, n)[1] = b
      /\ Append(<<b, c>>, n)[2] = c
      /\ Append(<<b, c>>, n)[3] = n
  BY <1>2, AppendSeq
<1>4. /\ <<b, c, n>> \in Seq({b, c, n})
      /\ Len(<<b, c, n>>) = 3
      /\ <<b, c, n>>[1] = b /\ <<b, c, n>>[2] = c /\ <<b, c, n>>[3] = n
  OBVIOUS
<1>5. \A i \in 1 .. 3 : i = 1 \/ i = 2 \/ i = 3
  OBVIOUS
<1>6. \A i \in 1 .. Len(Append(<<b, c>>, n)) :
        Append(<<b, c>>, n)[i] = <<b, c, n>>[i]
  BY <1>3, <1>4, <1>5, Zenon
<1> QED
  BY <1>3, <1>4, <1>6, SameSeq, Zenon

(* Something is not None. *)
LEMMA NotNone ==
  \A b, c, n : <<b>> # None /\ <<b, c>> # None /\ <<b, c, n>> # None
  BY Zenon DEF None

-----------------------------------------------------------------------------
(* Frames *)

USE DEF ctask, stask, compare, writes, incoming, outgoing, cstream, sstream,
        disk, net, cvars, svars, run

(* The variables on which OnTheWay depends. *)
LEMMA OnTheWayFrame ==
  ASSUME OnTheWay,
         UNCHANGED <<blocks_idx_to_send, wblock, c2s, rblock, dblock, fop,
                     sh_hashed, image, late>>
  PROVE  OnTheWay'
  BY Zenon DEF OnTheWay, Divergent

(* The variables on which HashFlow depends. *)
LEMMA HashFlowFrame ==
  ASSUME HashFlow,
         UNCHANGED <<spc, whash, sh_yielded, image, cpc, block_idx,
                     remote_hashes, s2c, net_up>>
  PROVE  HashFlow'
  BY Zenon DEF HashFlow, InHand

(* The variables on which BlockFlow depends. *)
LEMMA BlockFlowFrame ==
  ASSUME BlockFlow, UNCHANGED <<spc, c2s, rblock, net_up, cpc, wblock>>
  PROVE  BlockFlow'
  BY Zenon DEF BlockFlow, Begun

(* The variables on which OnDisk depends. *)
LEMMA OnDiskFrame ==
  ASSUME OnDisk,
         UNCHANGED <<dest, fop, ferr, late, dblock, orig, faulty, sh_hashed,
                     image>>
  PROVE  OnDisk'
  BY Zenon DEF OnDisk, HashesOfOriginal, Alone, HalfDone, Divergent

(* The variables on which Kept depends. *)
LEMMA KeptFrame ==
  ASSUME Kept,
         UNCHANGED <<spc, sresult, dblock, fop, ferr, faulty, received, dest,
                     sh_failed>>
  PROVE  Kept'
  BY Zenon DEF Kept

(* The variables on which NothingLost depends. *)
LEMMA NothingLostFrame ==
  ASSUME NothingLost,
         UNCHANGED <<faulty, net_up, ch_failed, sh_failed, block_idx, orig,
                     sent, wblock, blocks_idx_to_send, received, c2s, cresult,
                     cpc, s2c, sh_yielded, whash, spc, sresult, ch_status,
                     sh_status>>
  PROVE  NothingLost'
  BY Zenon DEF NothingLost, InHand, Queued

-----------------------------------------------------------------------------
(* The client *)

USE DEF ctask, stask, compare, writes, incoming, outgoing, cstream, sstream,
        disk, net, cvars, svars, run

(* The connection ends: nothing but remote_hashes_done is set. *)
LEMMA CReadEndStep ==
  ASSUME IInv, CReadEnd, UNCHANGED <<svars, disk, run>>
  PROVE  IInv'
<1>1. Shapes'
  BY Zenon DEF IInv, Shapes, TypeOK, CReadEnd
<1>2. OnTheWay'
  BY OnTheWayFrame, Zenon DEF IInv, CReadEnd
<1>3. HashFlow'
  BY HashFlowFrame, Zenon DEF IInv, CReadEnd
<1>4. BlockFlow'
  BY BlockFlowFrame, Zenon DEF IInv, CReadEnd
<1>5. OnDisk'
  BY OnDiskFrame, Zenon DEF IInv, CReadEnd
<1>6. Kept'
  BY KeptFrame, Zenon DEF IInv, CReadEnd
<1>7. NothingLost'
  BY NothingLostFrame, Zenon DEF IInv, CReadEnd
<1> QED
  BY <1>1, <1>2, <1>3, <1>4, <1>5, <1>6, <1>7, Zenon DEF IInv

(* The client's stream ends: too early only after a fault. *)
LEMMA CEndStep ==
  ASSUME IInv, CEnd, UNCHANGED <<svars, disk, run>>
  PROVE  IInv'
<1>1. Shapes'
  BY Zenon DEF IInv, Shapes, TypeOK, CEnd, Comparing, CH!End, Leave
<1>2. OnTheWay'
  BY OnTheWayFrame, Zenon DEF IInv, CEnd, Comparing, CH!End, Leave
<1>3. HashFlow'
  BY Zenon DEF IInv, HashFlow, InHand, CEnd, Comparing, CH!End, Leave
<1>4. BlockFlow'
  BY Zenon DEF IInv, BlockFlow, Begun, CEnd, Comparing, CH!End, Leave
<1>5. OnDisk'
  BY OnDiskFrame, Zenon DEF IInv, CEnd, Comparing, CH!End, Leave
<1>6. Kept'
  BY KeptFrame, Zenon DEF IInv, CEnd, Comparing, CH!End, Leave
<1>7. NothingLost'
  <2>1. SUFFICES ASSUME faulty = {} PROVE FALSE
    BY Zenon DEF NothingLost, CEnd
  <2>2. /\ remote_hashes \in Seq(Digests) /\ remote_hashes # <<>>
        /\ block_idx = NumBlocks /\ sh_yielded <= NumBlocks
        /\ NumBlocks \in Nat /\ sh_yielded \in Nat
    BY <2>1, SessionAssumption
       DEF IInv, Shapes, TypeOK, NothingLost, CEnd, Comparing, CH!End
  <2>3. 1 \in 1 .. Len(remote_hashes)
    BY <2>2, LengthZero
  <2>4. block_idx + 1 <= sh_yielded
    BY <2>3, Zenon DEF IInv, HashFlow, CEnd, Comparing
  <2> QED
    BY <2>2, <2>4
<1> QED
  BY <1>1, <1>2, <1>3, <1>4, <1>5, <1>6, <1>7, Zenon DEF IInv

(* The client's stream fails. *)
LEMMA CErrorStep ==
  ASSUME IInv, CError, UNCHANGED <<svars, disk, run>>
  PROVE  IInv'
<1>1. Shapes'
  BY Zenon DEF IInv, Shapes, TypeOK, CError, Comparing, CH!Error, Leave
<1>2. OnTheWay'
  BY OnTheWayFrame, Zenon DEF IInv, CError, Comparing, CH!Error, Leave
<1>3. HashFlow'
  BY Zenon DEF IInv, HashFlow, InHand, CError, Comparing, CH!Error, Leave
<1>4. BlockFlow'
  BY Zenon DEF IInv, BlockFlow, Begun, CError, Comparing, CH!Error, Leave
<1>5. OnDisk'
  BY OnDiskFrame, Zenon DEF IInv, CError, Comparing, CH!Error, Leave
<1>6. Kept'
  BY KeptFrame, Zenon DEF IInv, CError, Comparing, CH!Error, Leave
<1>7. NothingLost'
  BY Zenon DEF IInv, NothingLost, CError, Comparing, CH!Error, Leave
<1> QED
  BY <1>1, <1>2, <1>3, <1>4, <1>5, <1>6, <1>7, Zenon DEF IInv

(* Loans are dropped at the end ... *)
LEMMA CDropLoanStep ==
  ASSUME IInv, CDropLoan, UNCHANGED <<svars, disk, run>>
  PROVE  IInv'
<1>1. Shapes'
  BY Zenon DEF IInv, Shapes, TypeOK, CDropLoan, CH!Release
<1>2. OnTheWay'
  BY OnTheWayFrame, Zenon DEF IInv, CDropLoan, CH!Release
<1>3. HashFlow'
  BY HashFlowFrame, Zenon DEF IInv, CDropLoan, CH!Release
<1>4. BlockFlow'
  BY BlockFlowFrame, Zenon DEF IInv, CDropLoan, CH!Release
<1>5. OnDisk'
  BY OnDiskFrame, Zenon DEF IInv, CDropLoan, CH!Release
<1>6. Kept'
  BY KeptFrame, Zenon DEF IInv, CDropLoan, CH!Release
<1>7. NothingLost'
  BY NothingLostFrame, Zenon DEF IInv, CDropLoan, CH!Release
<1> QED
  BY <1>1, <1>2, <1>3, <1>4, <1>5, <1>6, <1>7, Zenon DEF IInv

(* ... and then the stream: unless something failed, all its blocks were   *)
(* received, and none is left in the channel.                              *)
LEMMA CDropStep ==
  ASSUME IInv, CDrop, UNCHANGED <<svars, disk, run>>
  PROVE  IInv'
<1>0. UNCHANGED <<ch_hashed, ch_yielded, ch_held, ch_failed>>
  BY Zenon DEF CDrop, CH!Close
<1>1. Shapes'
  BY <1>0, ZenonT(60) DEF IInv, Shapes, TypeOK, CDrop
<1>2. OnTheWay'
  BY OnTheWayFrame, Zenon DEF IInv, CDrop
<1>3. HashFlow'
  BY HashFlowFrame, Zenon DEF IInv, CDrop
<1>4. BlockFlow'
  BY BlockFlowFrame, Zenon DEF IInv, CDrop
<1>5. OnDisk'
  BY OnDiskFrame, Zenon DEF IInv, CDrop
<1>6. Kept'
  BY KeptFrame, Zenon DEF IInv, CDrop
<1>7. NothingLost'
  <2>1. SUFFICES ASSUME faulty = {} PROVE NothingLost'
    BY Zenon DEF NothingLost, CDrop
  <2>2. cresult # "none" /\ block_idx = NumBlocks
    BY <2>1, Zenon DEF IInv, NothingLost, CDrop
  <2>3. ch_yielded = NumBlocks /\ ch_hashed \subseteq Blocks
    BY <2>2, SessionAssumption, SMTT(60) DEF IInv, Shapes, TypeOK, CDrop
  <2>4. ch_yielded \notin ch_hashed
    BY <2>3, SessionAssumption, SMTT(60) DEF Blocks
  <2>5. ch_status' = "closing"
    BY <2>4, Zenon DEF CDrop, CH!Close, CH!MayBeBuffered
  <2> QED
    BY <1>0, <2>1, <2>5, ZenonT(60) DEF IInv, NothingLost, InHand, Queued,
         CDrop
<1> QED
  BY <1>1, <1>2, <1>3, <1>4, <1>5, <1>6, <1>7, Zenon DEF IInv

(* The workers are joined, and the client is gone. *)
LEMMA CExitStep ==
  ASSUME IInv, CExit, UNCHANGED <<svars, disk, run>>
  PROVE  IInv'
<1>1. Shapes'
  BY Zenon DEF IInv, Shapes, TypeOK, CExit, CH!Joined
<1>2. OnTheWay'
  BY OnTheWayFrame, Zenon DEF IInv, CExit, CH!Joined
<1>3. HashFlow'
  BY Zenon DEF IInv, HashFlow, InHand, CExit, CH!Joined
<1>4. BlockFlow'
  BY Zenon DEF IInv, BlockFlow, Begun, CExit, CH!Joined
<1>5. OnDisk'
  BY OnDiskFrame, Zenon DEF IInv, CExit, CH!Joined
<1>6. Kept'
  BY KeptFrame, Zenon DEF IInv, CExit, CH!Joined
<1>7. NothingLost'
  BY Zenon DEF IInv, NothingLost, InHand, Queued, CExit, CH!Joined
<1> QED
  BY <1>1, <1>2, <1>3, <1>4, <1>5, <1>6, <1>7, Zenon DEF IInv

(* The client's next block: its number is block_idx. *)
LEMMA CYieldStep ==
  ASSUME IInv, CYield, UNCHANGED <<svars, disk, run>>
  PROVE  IInv'
<1>1. Shapes'
  BY DEF IInv, Shapes, TypeOK, CYield, Comparing, CH!Yield
<1>2. OnTheWay'
  BY OnTheWayFrame, Zenon DEF IInv, CYield, Comparing, CH!Yield
<1>3. HashFlow'
  BY Zenon DEF IInv, HashFlow, InHand, CYield, Comparing, CH!Yield
<1>4. BlockFlow'
  BY Zenon DEF IInv, BlockFlow, Begun, CYield, Comparing, CH!Yield
<1>5. OnDisk'
  BY OnDiskFrame, Zenon DEF IInv, CYield, Comparing, CH!Yield
<1>6. Kept'
  BY KeptFrame, Zenon DEF IInv, CYield, Comparing, CH!Yield
<1>7. NothingLost'
  <2>1. /\ cpc = "loop" /\ cpc' = "compare"
        /\ UNCHANGED <<cresult, ch_failed, ch_status, block_idx, sent, wblock,
                       blocks_idx_to_send, c2s, s2c, net_up>>
    BY Zenon DEF CYield, Comparing, CH!Yield
  <2> QED
    BY <2>1, ZenonT(60) DEF IInv, NothingLost, InHand, Queued
<1> QED
  BY <1>1, <1>2, <1>3, <1>4, <1>5, <1>6, <1>7, ZenonT(60) DEF IInv

(* The client leaves: without a fault, no hash is unread. *)
LEMMA CHangUpStep ==
  ASSUME IInv, CHangUp, UNCHANGED <<svars, disk, run>>
  PROVE  IInv'
<1>0. /\ c2s' \in Seq(Messages) /\ Len(c2s') \in Nat
      /\ Len(c2s') <= Len(c2s)
      /\ \A k \in 1 .. Len(c2s') : c2s'[k] = c2s[k]
  <2>1. c2s \in Seq(Messages)
    BY Zenon DEF IInv, Shapes
  <2>2. CASE s2c = <<>>
    BY <2>1, <2>2, LengthZero DEF CHangUp
  <2>3. CASE s2c # <<>>
    BY <2>1, <2>3, LengthZero, PrefixSeq, Zenon DEF CHangUp
  <2> QED
    BY <2>2, <2>3, Zenon
<1>1. Shapes'
  <2>1. Len(c2s) \in Nat
    BY LengthZero, ZenonT(60) DEF IInv, Shapes
  <2> QED
    BY <1>0, <2>1, SessionAssumption DEF IInv, Shapes, TypeOK, CHangUp
<1>2. OnTheWay'
  <2>1. Len(c2s) \in Nat
    BY LengthZero, Zenon DEF IInv, Shapes
  <2> QED
    BY <1>0, <2>1 DEF IInv, OnTheWay, Divergent, CHangUp
<1>3. HashFlow'
  BY Zenon DEF IInv, HashFlow, InHand, CHangUp
<1>4. BlockFlow'
  <2>1. Len(c2s) \in Nat /\ (c2s = <<>> <=> Len(c2s) = 0)
    BY LengthZero, Zenon DEF IInv, Shapes
  <2>2. c2s' = <<>> <=> Len(c2s') = 0
    BY <1>0, LengthZero, Zenon
  <2> QED
    BY <1>0, <2>1, <2>2 DEF IInv, BlockFlow, CHangUp
<1>5. OnDisk'
  BY OnDiskFrame, Zenon DEF IInv, CHangUp
<1>6. Kept'
  BY KeptFrame, ZenonT(60) DEF IInv, CHangUp
<1>7. NothingLost'
  <2>1. SUFFICES ASSUME faulty = {} PROVE NothingLost'
    BY Zenon DEF NothingLost, CHangUp
  <2>2. cresult # "none" /\ s2c = <<>>
    BY <2>1, Zenon DEF IInv, NothingLost, CHangUp
  <2>3. /\ c2s' = c2s /\ cpc' = "dropping"
        /\ UNCHANGED <<cresult, ch_failed, ch_status, block_idx, sent, wblock,
                       blocks_idx_to_send, s2c, net_up>>
    BY <2>2, Zenon DEF CHangUp
  <2> QED
    BY <2>1, <2>2, <2>3, ZenonT(60) DEF IInv, NothingLost, InHand, Queued
<1> QED
  BY <1>1, <1>2, <1>3, <1>4, <1>5, <1>6, <1>7, Zenon DEF IInv

(* A hash goes from the connection into remote_hashes. *)
LEMMA CReadHashStep ==
  ASSUME IInv, CReadHash, UNCHANGED <<svars, disk, run>>
  PROVE  IInv'
<1>0. /\ s2c' \in Seq(Digests) /\ Len(s2c) \in Nat /\ Len(s2c) > 0
      /\ Len(s2c') = Len(s2c) - 1
      /\ \A k \in 1 .. Len(s2c') : s2c'[k] = s2c[k + 1]
  BY LengthZero, TailSeq, ZenonT(60) DEF IInv, Shapes, CReadHash
<1>a. /\ remote_hashes' \in Seq(Digests) /\ Len(remote_hashes) \in Nat
      /\ Len(remote_hashes') = Len(remote_hashes) + 1
      /\ \A k \in 1 .. Len(remote_hashes) :
           remote_hashes'[k] = remote_hashes[k]
      /\ remote_hashes'[Len(remote_hashes) + 1] = s2c[1]
      /\ remote_hashes' # <<>>
  BY LengthZero, TailSeq, AppendSeq, SMTT(60) DEF IInv, Shapes, CReadHash
<1>b. /\ block_idx \in Nat /\ sh_yielded \in Nat /\ NumBlocks \in Nat
      /\ sh_yielded <= NumBlocks
      /\ block_idx + Len(remote_hashes) + 1 <= sh_yielded
      /\ s2c[1] = Digest(image[block_idx + Len(remote_hashes)])
  BY <1>0, <1>a, SessionAssumption, SMTT(60) DEF IInv, Shapes, HashFlow,
       CReadHash
<1>1. Shapes'
  <2>1. Len(remote_hashes') <= NumBlocks /\ Len(s2c') <= NetCap
    BY <1>0, <1>a, <1>b, SessionAssumption, SMTT(30) DEF IInv, Shapes, TypeOK
  <2> QED
    BY <1>0, <1>a, <2>1, ZenonT(60) DEF IInv, Shapes, TypeOK, CReadHash
<1>2. OnTheWay'
  BY OnTheWayFrame, Zenon DEF IInv, CReadHash
<1>3. HashFlow'
  <2>1. \A k \in 1 .. Len(remote_hashes') :
          /\ block_idx + k <= sh_yielded
          /\ remote_hashes'[k] = Digest(image[block_idx + k - 1])
    <3>1. TAKE k \in 1 .. Len(remote_hashes')
    <3>2. CASE k \in 1 .. Len(remote_hashes)
      BY <1>a, <3>2, Zenon DEF IInv, HashFlow, CReadHash
    <3>3. CASE k = Len(remote_hashes) + 1
      BY <1>a, <1>b, <3>3
    <3> QED
      BY <1>a, <3>1, <3>2, <3>3
  <2>2. \A k \in 1 .. Len(s2c') :
          /\ block_idx + Len(remote_hashes') + k <= sh_yielded
          /\ s2c'[k] = Digest(image[block_idx + Len(remote_hashes') + k - 1])
    <3>1. TAKE k \in 1 .. Len(s2c')
    <3>2. k + 1 \in 1 .. Len(s2c) /\ k \in Nat
      BY <1>0, <3>1
    <3>3. /\ block_idx + Len(remote_hashes) + (k + 1) <= sh_yielded
          /\ s2c[k + 1]
               = Digest(image[block_idx + Len(remote_hashes) + (k + 1) - 1])
      BY <3>2, Zenon DEF IInv, HashFlow, CReadHash
    <3>4. block_idx + Len(remote_hashes) + (k + 1) - 1
            = block_idx + Len(remote_hashes') + k - 1
      BY <1>a, <1>b, <3>2
    <3>5. s2c'[k] = s2c[k + 1]
      BY <1>0, <3>1, Zenon
    <3>6. block_idx + Len(remote_hashes') + k <= sh_yielded
      BY <1>a, <1>b, <3>2, <3>3
    <3> QED
      BY <3>3, <3>4, <3>5, <3>6, Zenon
  <2>3. block_idx + Len(remote_hashes') + Len(s2c')
          = block_idx + Len(remote_hashes) + Len(s2c)
    BY <1>0, <1>a, <1>b
  <2> QED
    BY <2>1, <2>2, <2>3, Zenon DEF IInv, HashFlow, InHand, CReadHash
<1>4. BlockFlow'
  BY BlockFlowFrame, Zenon DEF IInv, CReadHash
<1>5. OnDisk'
  BY OnDiskFrame, Zenon DEF IInv, CReadHash
<1>6. Kept'
  BY KeptFrame, Zenon DEF IInv, CReadHash
<1>7. NothingLost'
  BY Zenon DEF IInv, NothingLost, InHand, Queued, CReadHash
<1> QED
  BY <1>1, <1>2, <1>3, <1>4, <1>5, <1>6, <1>7, Zenon DEF IInv

(* An offset enters the connection. *)
LEMMA CWriteOffsetStep ==
  ASSUME IInv, CWriteOffset, UNCHANGED <<svars, disk, run>>
  PROVE  IInv'
<1>a. PICK b \in Blocks : wblock = <<b, b, 0>> /\ Divergent(b)
  BY DEF IInv, OnTheWay, CWriteOffset
<1>b. wblock' = <<b, b, 1>> /\ wblock' # None
  <2>1. [<<b, b, 0>> EXCEPT ![3] = 1] = <<b, b, 1>> /\ <<b, b, 1>> # None
    BY NotNone
  <2> QED
    BY <1>a, <2>1, Zenon DEF CWriteOffset
<1>c. /\ c2s \in Seq(Messages) /\ Len(c2s) \in Nat
      /\ c2s = <<>> <=> Len(c2s) = 0
      /\ c2s' \in Seq(Messages) /\ Len(c2s') = Len(c2s) + 1 /\ c2s' # <<>>
      /\ \A k \in 1 .. Len(c2s) : c2s'[k] = c2s[k]
      /\ c2s'[Len(c2s) + 1] = <<"offset", b>>
  <2>1. <<"offset", b>> \in Messages
    BY Zenon DEF Messages
  <2>2. c2s \in Seq(Messages) /\ c2s' = Append(c2s, <<"offset", b>>)
    BY <1>a, ZenonT(60) DEF IInv, Shapes, CWriteOffset
  <2> QED
    BY <2>1, <2>2, LengthZero, AppendSeq
<1>1. Shapes'
  BY <1>c, SessionAssumption, SMTT(60) DEF IInv, Shapes, TypeOK, CWriteOffset
<1>2. OnTheWay'
  <2>1. \A k \in 1 .. Len(c2s') :
          c2s'[k][1] = "offset" => Divergent(c2s'[k][2])
    <3>1. \A k \in 1 .. Len(c2s) :
            c2s'[k][1] = "offset" => Divergent(c2s'[k][2])
      BY <1>c, Zenon DEF IInv, OnTheWay
    <3>2. Divergent(c2s'[Len(c2s) + 1][2])
      BY <1>a, <1>c
    <3> QED
      BY <1>c, <3>1, <3>2
  <2> QED
    BY <1>a, <1>b, <2>1, SMTT(60) DEF IInv, OnTheWay, Divergent, CWriteOffset
<1>3. HashFlow'
  BY HashFlowFrame, Zenon DEF IInv, CWriteOffset
<1>4. BlockFlow'
  <2>1. SUFFICES ASSUME spc # "done" PROVE BlockFlow'
    BY SMTT(60) DEF BlockFlow, CWriteOffset
  <2>2. None = IF c2s = <<>> THEN rblock ELSE Expects(c2s[Len(c2s)])
    BY <1>a, <2>1 DEF IInv, BlockFlow, Begun, CWriteOffset
  <2>3. Fits(rblock, c2s'[1])
    <3>1. CASE c2s = <<>>
      BY <1>c, <2>2, <3>1 DEF Fits
    <3>2. CASE c2s # <<>>
      BY <1>c, <2>1, <3>2 DEF IInv, BlockFlow
    <3> QED
      BY <3>1, <3>2, Zenon
  <2>4. \A k \in 1 .. (Len(c2s') - 1) : Fits(Expects(c2s'[k]), c2s'[k + 1])
    <3>1. TAKE k \in 1 .. (Len(c2s') - 1)
    <3>2. CASE k \in 1 .. (Len(c2s) - 1)
      BY <1>c, <2>1, <3>2 DEF IInv, BlockFlow
    <3>3. CASE k = Len(c2s)
      BY <1>c, <2>2, <3>1, <3>3 DEF Fits
    <3> QED
      BY <1>c, <3>1, <3>2, <3>3
  <2>5. Expects(c2s'[Len(c2s')]) = <<b>>
    BY <1>c DEF Expects
  <2>6. Begun' = <<b>>
    BY <1>b, Zenon DEF Begun
  <2> QED
    BY <1>c, <2>3, <2>4, <2>5, <2>6, ZenonT(60) DEF BlockFlow, CWriteOffset
<1>5. OnDisk'
  BY OnDiskFrame, Zenon DEF IInv, CWriteOffset
<1>6. Kept'
  BY KeptFrame, Zenon DEF IInv, CWriteOffset
<1>7. NothingLost'
  <2>1. \A c : Queued(c) => Queued(c)'
    BY <1>a, <1>b DEF Queued, CWriteOffset
  <2>2. \A k \in 1 .. Len(c2s) : k \in 1 .. Len(c2s') /\ c2s'[k] = c2s[k]
    BY <1>c
  <2>3. cresult = "none" \/ faulty # {}
    BY <1>a, Zenon DEF IInv, NothingLost, CWriteOffset
  <2>4. spc \notin {"flushing", "leaving", "done"} \/ faulty # {}
    BY Zenon DEF IInv, NothingLost, CWriteOffset
  <2> QED
    BY <2>1, <2>2, <2>3, <2>4, ZenonT(60) DEF IInv, NothingLost, CWriteOffset
<1> QED
  BY <1>1, <1>2, <1>3, <1>4, <1>5, <1>6, <1>7, ZenonT(60) DEF IInv

(* prepare_next_write_block() takes a block from the queue, if there is    *)
(* one and no write is under way.                                          *)
LEMMA NextBlock ==
  ASSUME NEW q \in Seq({<<b, b>> : b \in Blocks}), NEW w,
         \A k \in 1 .. Len(q) : Divergent(q[k][1]),
         w = None
           \/ \E b \in Blocks, s \in {0, 1} : w = <<b, b, s>> /\ Divergent(b)
  PROVE  /\ NextQueue(q, w) \in Seq({<<b, b>> : b \in Blocks})
         /\ Len(NextQueue(q, w)) \in Nat /\ Len(NextQueue(q, w)) <= Len(q)
         /\ \A k \in 1 .. Len(NextQueue(q, w)) :
              Divergent(NextQueue(q, w)[k][1])
         /\ NextWrite(q, w) = None
              \/ \E b \in Blocks, s \in {0, 1} :
                   NextWrite(q, w) = <<b, b, s>> /\ Divergent(b)
         /\ w # None => NextWrite(q, w) = w
         /\ w = None /\ NextWrite(q, w) # None => NextWrite(q, w)[3] = 0
         /\ NextWrite(q, w) = None =>
              w = None /\ q = <<>> /\ NextQueue(q, w) = <<>>
<1>1. CASE w # None \/ q = <<>>
  BY <1>1, LengthZero DEF NextQueue, NextWrite
<1>2. CASE w = None /\ q # <<>>
  <2>1. PICK b \in Blocks : Head(q) = <<b, b>>
    BY <1>2, TailSeq
  <2>2. /\ Len(q) \in Nat /\ Len(q) > 0 /\ q[1] = <<b, b>>
        /\ Tail(q) \in Seq({<<c, c>> : c \in Blocks})
        /\ Len(Tail(q)) = Len(q) - 1
        /\ \A k \in 1 .. (Len(q) - 1) : Tail(q)[k] = q[k + 1]
    BY <1>2, <2>1, TailSeq, LengthZero, Zenon
  <2>3. NextQueue(q, w) = Tail(q)
    BY <1>2, Zenon DEF NextQueue
  <2>4. NextWrite(q, w) = <<b, b, 0>> /\ <<b, b, 0>> # None
    <3>1. Append(<<b, b>>, 0) = <<b, b, 0>> /\ <<b, b, 0>> # None
      BY AppendPair, NotNone
    <3> QED
      BY <1>2, <2>1, <3>1, Zenon DEF NextWrite
  <2>5. Divergent(b)
    <3>1. 1 \in 1 .. Len(q)
      BY <2>2
    <3> QED
      BY <2>2, <3>1
  <2>6. \A k \in 1 .. Len(Tail(q)) : Divergent(Tail(q)[k][1])
    BY <2>2
  <2>7. <<b, b, 0>>[3] = 0
    BY Zenon
  <2>8. /\ NextQueue(q, w) \in Seq({<<c, c>> : c \in Blocks})
        /\ Len(NextQueue(q, w)) \in Nat /\ Len(NextQueue(q, w)) <= Len(q)
        /\ \A k \in 1 .. Len(NextQueue(q, w)) :
             Divergent(NextQueue(q, w)[k][1])
    BY <2>2, <2>3, <2>6
  <2>9. /\ \E c \in Blocks, s \in {0, 1} :
             NextWrite(q, w) = <<c, c, s>> /\ Divergent(c)
        /\ NextWrite(q, w) # None /\ NextWrite(q, w)[3] = 0
    BY <2>4, <2>5, <2>7, Zenon
  <2> QED
    BY <1>2, <2>8, <2>9, Zenon
<1> QED
  BY <1>1, <1>2, Zenon

(* Block c is in hand or queued after it. *)
Survives(q, w, c) ==
  \/ NextWrite(q, w) # None /\ NextWrite(q, w)[1] = c
  \/ \E j \in 1 .. Len(NextQueue(q, w)) : NextQueue(q, w)[j][1] = c

(* No block is lost by it. *)
LEMMA NextBlockKeeps ==
  ASSUME NEW q \in Seq({<<b, b>> : b \in Blocks}), NEW w,
         NEW k \in 1 .. Len(q)
  PROVE  Survives(q, w, q[k][1])
<1> USE DEF Survives
<1>1. CASE w # None \/ q = <<>>
  BY <1>1, LengthZero, Zenon DEF NextQueue, NextWrite
<1>2. CASE w = None /\ q # <<>>
  <2>1. PICK b \in Blocks : Head(q) = <<b, b>>
    BY <1>2, TailSeq
  <2>2. /\ Len(q) \in Nat /\ q[1] = <<b, b>>
        /\ Len(Tail(q)) = Len(q) - 1
        /\ \A j \in 1 .. (Len(q) - 1) : Tail(q)[j] = q[j + 1]
    BY <1>2, <2>1, TailSeq, LengthZero, Zenon
  <2>3. NextQueue(q, w) = Tail(q)
    BY <1>2, Zenon DEF NextQueue
  <2>4. NextWrite(q, w) # None /\ NextWrite(q, w)[1] = b
    <3>1. Append(<<b, b>>, 0) = <<b, b, 0>> /\ <<b, b, 0>> # None
      BY AppendPair, NotNone, Zenon
    <3>2. NextWrite(q, w) = <<b, b, 0>>
      BY <1>2, <2>1, <3>1, ZenonT(60) DEF NextWrite
    <3> QED
      BY <3>1, <3>2
  <2>5. CASE k = 1
    BY <2>2, <2>4, <2>5
  <2>6. CASE k # 1
    <3>1. k - 1 \in 1 .. Len(Tail(q)) /\ Tail(q)[k - 1][1] = q[k][1]
      BY <2>2, <2>6
    <3> QED
      BY <2>3, <3>1, Zenon
  <2> QED
    BY <2>5, <2>6, Zenon
<1> QED
  BY <1>1, <1>2, Zenon

(* What the end of a write means to the client. *)
LEMMA AfterWriteFacts ==
  ASSUME IInv, AfterWrite
  PROVE  /\ blocks_idx_to_send' \in Seq({<<b, b>> : b \in Blocks})
         /\ Len(blocks_idx_to_send') \in Nat
         /\ Len(blocks_idx_to_send') <= Len(blocks_idx_to_send)
         /\ \A k \in 1 .. Len(blocks_idx_to_send') :
              Divergent(blocks_idx_to_send'[k][1])
         /\ wblock' = None
              \/ \E b \in Blocks, s \in {0, 1} :
                   wblock' = <<b, b, s>> /\ Divergent(b)
         /\ Begun' = None
         /\ \A b : Queued(b) => Queued(b)' \/ b = wblock[1]
         /\ \/ /\ cpc' = "leaving" /\ cresult' = "ok"
               /\ block_idx = NumBlocks
               /\ blocks_idx_to_send' = <<>> /\ wblock' = None
            \/ UNCHANGED <<cpc, cresult>>
         /\ UNCHANGED <<remote_hashes, hash_comparison_over, block_idx,
                        ch_hashed, ch_yielded, ch_failed, ch_status>>
<1> DEFINE q == blocks_idx_to_send
<1>1. /\ q \in Seq({<<b, b>> : b \in Blocks})
      /\ \A k \in 1 .. Len(q) : Divergent(q[k][1])
  BY Zenon DEF IInv, Shapes, OnTheWay
<1>2. wblock' = NextWrite(q, None) /\ q' = NextQueue(q, None)
  BY Zenon DEF AfterWrite
<1>3. /\ q' \in Seq({<<b, b>> : b \in Blocks})
      /\ Len(q') \in Nat /\ Len(q') <= Len(q)
      /\ \A k \in 1 .. Len(q') : Divergent(q'[k][1])
      /\ wblock' = None
           \/ \E b \in Blocks, s \in {0, 1} :
                wblock' = <<b, b, s>> /\ Divergent(b)
      /\ wblock' # None => wblock'[3] = 0
      /\ wblock' = None => q = <<>> /\ q' = <<>>
      /\ \A b : (\E k \in 1 .. Len(q) : q[k][1] = b) =>
                  \/ wblock' # None /\ wblock'[1] = b
                  \/ \E k \in 1 .. Len(q') : q'[k][1] = b
  <2> DEFINE w == NextWrite(q, None)
             r == NextQueue(q, None)
  <2>1. /\ r \in Seq({<<b, b>> : b \in Blocks})
        /\ Len(r) \in Nat /\ Len(r) <= Len(q)
        /\ \A k \in 1 .. Len(r) : Divergent(r[k][1])
        /\ w = None
             \/ \E b \in Blocks, s \in {0, 1} : w = <<b, b, s>> /\ Divergent(b)
        /\ w # None => w[3] = 0
        /\ w = None => q = <<>> /\ r = <<>>
        /\ \A b : (\E k \in 1 .. Len(q) : q[k][1] = b) =>
                    \/ w # None /\ w[1] = b
                    \/ \E k \in 1 .. Len(r) : r[k][1] = b
    <3> HIDE DEF q
    <3>1. /\ r \in Seq({<<b, b>> : b \in Blocks})
          /\ Len(r) \in Nat /\ Len(r) <= Len(q)
          /\ \A k \in 1 .. Len(r) : Divergent(r[k][1])
      BY <1>1, NextBlock, Zenon
    <3>2. w = None
            \/ \E b \in Blocks, s \in {0, 1} : w = <<b, b, s>> /\ Divergent(b)
      BY <1>1, NextBlock, Zenon
    <3>3. /\ w # None => w[3] = 0
          /\ w = None => q = <<>> /\ r = <<>>
      BY <1>1, NextBlock, Zenon
    <3>4. \A b : (\E k \in 1 .. Len(q) : q[k][1] = b) =>
                    \/ w # None /\ w[1] = b
                    \/ \E k \in 1 .. Len(r) : r[k][1] = b
      <4>1. SUFFICES ASSUME NEW b, NEW j \in 1 .. Len(q), q[j][1] = b
                     PROVE  \/ w # None /\ w[1] = b
                            \/ \E k \in 1 .. Len(r) : r[k][1] = b
        BY Zenon
      <4>2. Survives(q, None, q[j][1])
        <5> HIDE DEF w, r
        <5>1. q \in Seq({<<c, c>> : c \in Blocks})
          BY <1>1, Zenon
        <5> QED
          BY <4>1, <5>1, NextBlockKeeps, Zenon
      <4> QED
        BY <4>1, <4>2, Zenon DEF Survives
    <3> QED
      BY <3>1, <3>2, <3>3, <3>4, Zenon
  <2> HIDE DEF w, r
  <2> QED
    BY <1>2, <2>1, Zenon DEF w, r
<1>4. Begun' = None
  BY <1>3 DEF Begun
<1>5. \A b : Queued(b) => Queued(b)' \/ b = wblock[1]
  BY <1>3, Zenon DEF Queued
<1>6. \/ /\ cpc' = "leaving" /\ cresult' = "ok"
         /\ block_idx = NumBlocks
         /\ q' = <<>> /\ wblock' = None
      \/ UNCHANGED <<cpc, cresult>>
  <2>1. CASE AllWritten
    BY <1>2, <2>1, Zenon
       DEF AfterWrite, AllWritten, Leave, NextWrite, NextQueue, IInv, Shapes
  <2>2. CASE ~AllWritten
    BY <2>2, Zenon DEF AfterWrite, GoOn
  <2> QED
    BY <2>1, <2>2, Zenon
<1>7. UNCHANGED <<remote_hashes, hash_comparison_over, block_idx, ch_hashed,
                  ch_yielded, ch_failed, ch_status>>
  BY Zenon DEF AfterWrite, CH!Release
<1> QED
  BY <1>3, <1>4, <1>5, <1>6, <1>7, Zenon

(* After the last comparison all hashes were used. *)
LEMMA CompareDone ==
  ASSUME IInv, faulty = {}, cpc \in {"loop", "compare"},
         block_idx + Len(remote_hashes) >= NumBlocks
  PROVE  s2c = <<>> /\ sh_yielded = NumBlocks /\ InHand = 0
<1>1. /\ Len(s2c) \in Nat /\ (s2c = <<>> <=> Len(s2c) = 0)
      /\ Len(remote_hashes) \in Nat /\ block_idx \in Nat
      /\ sh_yielded \in Nat /\ sh_yielded <= NumBlocks /\ NumBlocks \in Nat
  BY LengthZero, SessionAssumption DEF IInv, Shapes
<1>2. InHand = 0 \/ InHand = 1
  BY Zenon DEF InHand
<1>3. block_idx + Len(remote_hashes) + Len(s2c) + InHand = sh_yielded
  BY Zenon DEF IInv, HashFlow, NothingLost
<1> QED
  BY <1>1, <1>2, <1>3

(* A block enters the connection, after its offset. *)
LEMMA CWriteBytesStep ==
  ASSUME IInv, CWriteBytes, UNCHANGED <<svars, disk, run>>
  PROVE  IInv'
<1>a. PICK b \in Blocks : wblock = <<b, b, 1>> /\ Divergent(b)
  BY DEF IInv, OnTheWay, CWriteBytes
<1>b. AfterWrite /\ sent' = sent \cup {b} /\ wblock[1] = b
  BY <1>a, Zenon DEF CWriteBytes
<1>c. /\ c2s \in Seq(Messages) /\ Len(c2s) \in Nat
      /\ c2s = <<>> <=> Len(c2s) = 0
      /\ c2s' \in Seq(Messages) /\ Len(c2s') = Len(c2s) + 1 /\ c2s' # <<>>
      /\ \A k \in 1 .. Len(c2s) : c2s'[k] = c2s[k]
      /\ c2s'[Len(c2s) + 1] = <<"bytes", Source(b)>>
  <2>1. <<"bytes", Source(b)>> \in Messages
    BY Zenon DEF Messages
  <2>2. c2s \in Seq(Messages) /\ c2s' = Append(c2s, <<"bytes", Source(b)>>)
    BY <1>a, Zenon DEF IInv, Shapes, CWriteBytes
  <2> QED
    BY <2>1, <2>2, LengthZero, AppendSeq
<1>d. /\ blocks_idx_to_send' \in Seq({<<c, c>> : c \in Blocks})
      /\ Len(blocks_idx_to_send') \in Nat
      /\ Len(blocks_idx_to_send') <= Len(blocks_idx_to_send)
      /\ \/ cpc' = "leaving" /\ cresult' = "ok"
         \/ UNCHANGED <<cpc, cresult>>
      /\ UNCHANGED <<remote_hashes, hash_comparison_over, block_idx,
                     ch_hashed, ch_yielded>>
  BY <1>b, AfterWriteFacts, ZenonT(60)
<1>1. Shapes'
  <2>1. /\ Len(c2s') <= NetCap /\ sent' \subseteq Blocks
        /\ Len(blocks_idx_to_send) \in Nat
    BY <1>b, <1>c, LengthZero, SessionAssumption
       DEF IInv, Shapes, TypeOK, CWriteBytes
  <2> QED
    BY <1>c, <1>d, <2>1, SessionAssumption, SMTT(60)
       DEF IInv, Shapes, TypeOK, CWriteBytes
<1>2. OnTheWay'
  <2>1. \A k \in 1 .. Len(c2s') :
          c2s'[k][1] = "offset" => Divergent(c2s'[k][2])
    <3>1. \A k \in 1 .. Len(c2s) :
            c2s'[k][1] = "offset" => Divergent(c2s'[k][2])
      BY <1>c, Zenon DEF IInv, OnTheWay
    <3>2. c2s'[Len(c2s) + 1][1] # "offset"
      BY <1>c
    <3> QED
      BY <1>c, <3>1, <3>2, SMTT(30)
  <2>2. \A c : Divergent(c)' <=> Divergent(c)
    BY Zenon DEF Divergent, CWriteBytes
  <2> QED
    BY <1>b, <2>1, <2>2, AfterWriteFacts, ZenonT(60) DEF IInv, OnTheWay,
         CWriteBytes
<1>3. HashFlow'
  BY <1>b, AfterWriteFacts, Zenon DEF IInv, HashFlow, InHand, CWriteBytes
<1>4. BlockFlow'
  <2>1. SUFFICES ASSUME spc # "done" PROVE BlockFlow'
    BY Zenon DEF BlockFlow, CWriteBytes
  <2>2. <<b>> = IF c2s = <<>> THEN rblock ELSE Expects(c2s[Len(c2s)])
    <3>1. Begun = <<b>>
      BY <1>a, NotNone, Zenon DEF Begun
    <3> QED
      BY <2>1, <3>1, Zenon DEF IInv, BlockFlow, CWriteBytes
  <2>3. Fits(rblock, c2s'[1])
    <3>1. CASE c2s = <<>>
      BY <1>c, <2>2, <3>1 DEF Fits
    <3>2. CASE c2s # <<>>
      BY <1>c, <2>1, <3>2 DEF IInv, BlockFlow
    <3> QED
      BY <3>1, <3>2, Zenon
  <2>4. \A k \in 1 .. (Len(c2s') - 1) : Fits(Expects(c2s'[k]), c2s'[k + 1])
    <3>1. TAKE k \in 1 .. (Len(c2s') - 1)
    <3>2. CASE k \in 1 .. (Len(c2s) - 1)
      BY <1>c, <2>1, <3>2 DEF IInv, BlockFlow
    <3>3. CASE k = Len(c2s)
      <4>1. /\ Expects(c2s'[k]) = <<b>>
            /\ c2s'[k + 1] = <<"bytes", Source(b)>>
        <5>1. k \in 1 .. Len(c2s) /\ c2s # <<>> /\ k + 1 = Len(c2s) + 1
          BY <1>c, <3>1, <3>3
        <5>2. c2s'[k] = c2s[k]
          BY <1>c, <5>1, ZenonT(60)
        <5> QED
          BY <1>c, <2>2, <3>3, <5>1, <5>2, ZenonT(60)
      <4> QED
        BY <4>1, Zenon DEF Fits
    <3> QED
      BY <1>c, <3>1, <3>2, <3>3
  <2>5. Expects(c2s'[Len(c2s')]) = None
    BY <1>c DEF Expects
  <2> QED
    BY <1>b, <1>c, <2>3, <2>4, <2>5, AfterWriteFacts, Zenon DEF BlockFlow,
         CWriteBytes
<1>5. OnDisk'
  BY OnDiskFrame, Zenon DEF IInv, CWriteBytes
<1>6. Kept'
  BY KeptFrame, Zenon DEF IInv, CWriteBytes
<1>7. NothingLost'
  <2>1. SUFFICES ASSUME faulty = {} PROVE NothingLost'
    BY Zenon DEF NothingLost, CWriteBytes
  <2>2. \A c \in Blocks :
          c < block_idx /\ Differs(c, orig[c]) => c \in sent' \/ Queued(c)'
    BY <1>b, <2>1, AfterWriteFacts, Zenon DEF IInv, NothingLost
  <2>3. \A c \in sent' :
          \/ c \in received
          \/ \E k \in 1 .. Len(c2s') : c2s'[k] = <<"bytes", Source(c)>>
    <3>1. \A k \in 1 .. Len(c2s) : k \in 1 .. Len(c2s')
      BY <1>c
    <3>2. Len(c2s) + 1 \in 1 .. Len(c2s')
      BY <1>c
    <3>3. TAKE c \in sent'
    <3>4. CASE c \in sent
      BY <1>c, <2>1, <3>1, <3>4, Zenon DEF IInv, NothingLost
    <3>5. CASE c = b
      BY <1>c, <3>2, <3>5, Zenon
    <3> QED
      BY <1>b, <3>3, <3>4, <3>5, Zenon
  <2>4. cresult = "none" /\ spc \notin {"flushing", "leaving", "done"}
    BY <2>1, Zenon DEF IInv, NothingLost, CWriteBytes
  <2>5. block_idx = NumBlocks =>
          s2c = <<>> /\ sh_yielded = NumBlocks /\ InHand = 0
    BY <2>1, CompareDone, LengthZero, SessionAssumption
       DEF IInv, Shapes, CWriteBytes
  <2>6. InHand' = InHand
    BY Zenon DEF InHand, CWriteBytes
  <2> QED
    BY <1>b, <2>1, <2>2, <2>3, <2>4, <2>5, <2>6, AfterWriteFacts, ZenonT(60)
       DEF IInv, NothingLost, CWriteBytes
<1> QED
  BY <1>1, <1>2, <1>3, <1>4, <1>5, <1>6, <1>7, ZenonT(60) DEF IInv

(* A write fails: only after a fault. *)
LEMMA CWriteErrorStep ==
  ASSUME IInv, CWriteError, UNCHANGED <<svars, disk, run>>
  PROVE  IInv'
<1>1. Shapes'
  <2>1. Len(blocks_idx_to_send) \in Nat
    BY LengthZero, Zenon DEF IInv, Shapes
  <2> QED
    BY <2>1, AfterWriteFacts, SessionAssumption, SMTT(60)
       DEF IInv, Shapes, TypeOK, CWriteError
<1>2. OnTheWay'
  <2>1. \A c : Divergent(c)' <=> Divergent(c)
    BY Zenon DEF Divergent, CWriteError
  <2> QED
    BY <2>1, AfterWriteFacts, Zenon DEF IInv, OnTheWay, CWriteError
<1>3. HashFlow'
  BY AfterWriteFacts, Zenon DEF IInv, HashFlow, InHand, CWriteError
<1>4. BlockFlow'
  BY Zenon DEF IInv, BlockFlow, ServerGone, CWriteError
<1>5. OnDisk'
  BY OnDiskFrame, Zenon DEF IInv, CWriteError
<1>6. Kept'
  BY KeptFrame, Zenon DEF IInv, CWriteError
<1>7. NothingLost'
  BY Zenon DEF IInv, NothingLost, ServerGone, CWriteError
<1> QED
  BY <1>1, <1>2, <1>3, <1>4, <1>5, <1>6, <1>7, ZenonT(60) DEF IInv

(* The comparison: the hash is that of the same block of the original      *)
(* destination, so that a block is queued only if it diverges.             *)
LEMMA CCompareStep ==
  ASSUME IInv, CCompare, UNCHANGED <<svars, disk, run>>
  PROVE  IInv'
<1> DEFINE b == block_idx
           differs == Digest(Source(b)) # Head(remote_hashes)
           queue == IF differs THEN Append(blocks_idx_to_send, <<b, b>>)
                    ELSE blocks_idx_to_send
<1>a. /\ b \in Nat /\ NumBlocks \in Nat /\ sh_yielded \in Nat
      /\ sh_yielded <= NumBlocks
      /\ ch_yielded - 1 = b /\ ch_yielded = b + 1
      /\ remote_hashes \in Seq(Digests) /\ remote_hashes # <<>>
  BY SessionAssumption DEF IInv, Shapes, TypeOK, CCompare
<1>b. /\ Len(remote_hashes) \in Nat /\ Len(remote_hashes) > 0
      /\ remote_hashes' \in Seq(Digests)
      /\ Len(remote_hashes') = Len(remote_hashes) - 1
      /\ \A k \in 1 .. Len(remote_hashes') :
           remote_hashes'[k] = remote_hashes[k + 1]
      /\ Head(remote_hashes) = remote_hashes[1]
  BY <1>a, LengthZero, TailSeq, ZenonT(60) DEF CCompare
<1>c. /\ b + 1 <= sh_yielded
      /\ Head(remote_hashes) = Digest(image[b])
      /\ b \in Blocks /\ b \in sh_hashed
  <2>1. /\ b + 1 <= sh_yielded
        /\ remote_hashes[1] = Digest(image[b + 1 - 1])
    BY <1>b, SMTT(30) DEF IInv, HashFlow, CCompare
  <2>2. b + 1 - 1 = b /\ b \in Blocks /\ b < sh_yielded
    BY <1>a, <2>1 DEF Blocks
  <2>3. b \in sh_hashed
    BY <2>2, Zenon DEF IInv, Shapes
  <2> QED
    BY <1>b, <2>1, <2>2, <2>3, Zenon
<1>d. differs <=> Divergent(b)
  BY <1>c, Zenon DEF Divergent, Differs
<1>e. /\ wblock' = NextWrite(queue, wblock)
      /\ blocks_idx_to_send' = NextQueue(queue, wblock)
      /\ UNCHANGED <<ch_hashed, ch_yielded, ch_failed, ch_status>>
  BY <1>a, Zenon DEF CCompare, ToSend, CH!Release
<1>f. /\ blocks_idx_to_send \in Seq({<<c, c>> : c \in Blocks})
      /\ Len(blocks_idx_to_send) \in Nat
      /\ Len(blocks_idx_to_send) <= b
      /\ \A k \in 1 .. Len(blocks_idx_to_send) :
           Divergent(blocks_idx_to_send[k][1])
      /\ wblock = None
           \/ \E c \in Blocks, s \in {0, 1} :
                wblock = <<c, c, s>> /\ Divergent(c)
  <2>1. blocks_idx_to_send \in Seq({<<c, c>> : c \in Blocks})
    BY Zenon DEF IInv, Shapes
  <2>2. Len(blocks_idx_to_send) \in Nat
    BY <2>1, LengthZero, Zenon
  <2> QED
    BY <2>1, <2>2, Zenon DEF IInv, Shapes, OnTheWay
<1>g. /\ queue \in Seq({<<c, c>> : c \in Blocks})
      /\ Len(queue) \in Nat /\ Len(queue) <= Len(blocks_idx_to_send) + 1
      /\ \A k \in 1 .. Len(queue) : Divergent(queue[k][1])
      /\ \A k \in 1 .. Len(blocks_idx_to_send) :
           k \in 1 .. Len(queue) /\ queue[k] = blocks_idx_to_send[k]
      /\ differs => \E k \in 1 .. Len(queue) : queue[k][1] = b
  <2>1. CASE ~differs
    BY <1>f, <2>1, SMTT(60)
  <2>2. CASE differs
    <3> DEFINE q == blocks_idx_to_send
    <3>1. <<b, b>> \in {<<c, c>> : c \in Blocks}
      BY <1>c, ZenonT(60)
    <3>2. /\ queue \in Seq({<<c, c>> : c \in Blocks})
          /\ Len(queue) = Len(q) + 1
          /\ \A k \in 1 .. Len(q) : queue[k] = q[k]
          /\ queue[Len(q) + 1] = <<b, b>>
      BY <1>f, <2>2, <3>1, AppendSeq, SMTT(60)
    <3> HIDE DEF queue, q
    <3>3. \A k \in 1 .. Len(queue) : Divergent(queue[k][1])
      <4>1. TAKE k \in 1 .. Len(queue)
      <4>2. CASE k \in 1 .. Len(q)
        BY <1>f, <3>2, <4>2, ZenonT(60) DEF q
      <4>3. CASE k = Len(q) + 1
        BY <1>d, <2>2, <3>2, <4>3, SMTT(60)
      <4> QED
        BY <1>f, <3>2, <4>1, <4>2, <4>3 DEF q
    <3>4. Len(q) + 1 \in 1 .. Len(queue) /\ queue[Len(q) + 1][1] = b
      BY <1>f, <3>2, SMTT(60) DEF q
    <3> QED
      BY <1>f, <3>2, <3>3, <3>4 DEF q
  <2> QED
    BY <2>1, <2>2, ZenonT(60)
<1> HIDE DEF queue
<1>h. /\ blocks_idx_to_send' \in Seq({<<c, c>> : c \in Blocks})
      /\ Len(blocks_idx_to_send') \in Nat
      /\ Len(blocks_idx_to_send') <= b + 1
      /\ \A k \in 1 .. Len(blocks_idx_to_send') :
           Divergent(blocks_idx_to_send'[k][1])
      /\ wblock' = None
           \/ \E c \in Blocks, s \in {0, 1} :
                wblock' = <<c, c, s>> /\ Divergent(c)
      /\ wblock # None => wblock' = wblock
      /\ wblock = None /\ wblock' # None => wblock'[3] = 0
      /\ wblock' = None => blocks_idx_to_send' = <<>>
  <2>1. /\ blocks_idx_to_send' \in Seq({<<c, c>> : c \in Blocks})
        /\ Len(blocks_idx_to_send') \in Nat
        /\ Len(blocks_idx_to_send') <= Len(queue)
        /\ \A k \in 1 .. Len(blocks_idx_to_send') :
             Divergent(blocks_idx_to_send'[k][1])
    BY <1>e, <1>f, <1>g, NextBlock, ZenonT(60)
  <2>2. /\ wblock' = None
             \/ \E c \in Blocks, s \in {0, 1} :
                  wblock' = <<c, c, s>> /\ Divergent(c)
        /\ wblock # None => wblock' = wblock
        /\ wblock = None /\ wblock' # None => wblock'[3] = 0
        /\ wblock' = None => blocks_idx_to_send' = <<>>
    BY <1>e, <1>f, <1>g, NextBlock, ZenonT(60)
  <2>3. Len(queue) \in Nat /\ Len(queue) <= b + 1
    BY <1>a, <1>f, <1>g, SMTT(60)
  <2>4. Len(blocks_idx_to_send') <= b + 1
    BY <1>a, <2>1, <2>3, SMTT(60)
  <2> QED
    BY <2>1, <2>2, <2>4, Zenon
<1>i. \A c : (\E k \in 1 .. Len(queue) : queue[k][1] = c) => Queued(c)'
  <2>1. SUFFICES ASSUME NEW c, NEW k \in 1 .. Len(queue), queue[k][1] = c
                 PROVE  Queued(c)'
    BY Zenon
  <2>2. queue \in Seq({<<d, d>> : d \in Blocks})
    BY <1>g, Zenon
  <2>3. Survives(queue, wblock, queue[k][1])
    BY <2>1, <2>2, NextBlockKeeps, Zenon
  <2> QED
    BY <1>e, <2>1, <2>3, Zenon DEF Queued, Survives
<1>j. \A c : Queued(c) => Queued(c)'
  <2>1. SUFFICES ASSUME NEW c, Queued(c) PROVE Queued(c)'
    BY Zenon
  <2>2. CASE wblock # None /\ wblock[1] = c
    BY <1>h, <2>2, Zenon DEF Queued
  <2>3. ASSUME NEW k \in 1 .. Len(blocks_idx_to_send),
               blocks_idx_to_send[k][1] = c
        PROVE  Queued(c)'
    BY <1>g, <1>i, <2>3, Zenon
  <2> QED
    BY <2>1, <2>2, <2>3, Zenon DEF Queued
<1>k. \/ /\ cpc' = "leaving" /\ cresult' = "ok"
         /\ b + 1 = NumBlocks /\ wblock' = None
      \/ cpc' = "loop" /\ cresult' = cresult
  BY Zenon DEF CCompare, Leave
<1>l. /\ block_idx' = b + 1
      /\ hash_comparison_over' = (b + 1 = NumBlocks)
      /\ UNCHANGED <<sent, c2s, s2c, net_up>>
  BY Zenon DEF CCompare
<1>1. Shapes'
  <2>1. /\ b + 1 \in 0 .. NumBlocks
        /\ Len(blocks_idx_to_send') <= NumBlocks
        /\ Len(remote_hashes') <= NumBlocks
    BY <1>a, <1>b, <1>c, <1>h, SMTT(60) DEF IInv, Shapes, TypeOK
  <2>2. TypeOK'
    BY <1>a, <1>e, <1>k, <1>l, <2>1, ZenonT(60) DEF IInv, Shapes, TypeOK,
         Halves
  <2> HIDE DEF b
  <2> QED
    BY <1>b, <1>e, <1>h, <1>k, <1>l, <1>a, <2>1, <2>2, ZenonT(60) DEF IInv,
         Shapes
<1>2. OnTheWay'
  <2>1. \A c : Divergent(c)' <=> Divergent(c)
    BY ZenonT(60) DEF Divergent
  <2> QED
    BY <1>h, <1>l, <2>1, Zenon DEF IInv, OnTheWay
<1>3. HashFlow'
  <2>1. \A k \in 1 .. Len(remote_hashes') :
          /\ block_idx' + k <= sh_yielded
          /\ remote_hashes'[k] = Digest(image[block_idx' + k - 1])
    <3>1. TAKE k \in 1 .. Len(remote_hashes')
    <3>2. k + 1 \in 1 .. Len(remote_hashes) /\ k \in Nat
      BY <1>b, <3>1, SMTT(30)
    <3>3. /\ b + (k + 1) <= sh_yielded
          /\ remote_hashes[k + 1] = Digest(image[b + (k + 1) - 1])
      BY <3>2, ZenonT(60) DEF IInv, HashFlow, CCompare
    <3>4. /\ b + (k + 1) - 1 = block_idx' + k - 1
          /\ b + (k + 1) = block_idx' + k
      BY <1>a, <1>l, <3>2
    <3>5. remote_hashes'[k] = remote_hashes[k + 1]
      BY <1>b, <3>1, ZenonT(60)
    <3> QED
      BY <3>3, <3>4, <3>5, Zenon
  <2>2. block_idx' + Len(remote_hashes') = block_idx + Len(remote_hashes)
    BY <1>a, <1>b, <1>l, SMTT(60)
  <2> QED
    BY <1>k, <1>l, <2>1, <2>2, SMTT(30) DEF IInv, HashFlow, InHand, CCompare
<1>4. BlockFlow'
  <2>1. Begun' = Begun
    BY <1>h DEF Begun
  <2> QED
    BY <1>k, <1>l, <2>1, SMTT(60) DEF IInv, BlockFlow, CCompare
<1>5. OnDisk'
  BY OnDiskFrame, Zenon DEF IInv, CCompare
<1>6. Kept'
  BY KeptFrame, Zenon DEF IInv, CCompare
<1>7. NothingLost'
  <2>1. SUFFICES ASSUME faulty = {} PROVE NothingLost'
    BY ZenonT(60) DEF NothingLost
  <2>2. \A c \in Blocks :
          c < b + 1 /\ Differs(c, orig[c]) => c \in sent \/ Queued(c)'
    <3>1. SUFFICES ASSUME NEW c \in Blocks, c < b + 1, Differs(c, orig[c])
                   PROVE  c \in sent \/ Queued(c)'
      BY Zenon
    <3>2. CASE c < b
      BY <1>j, <2>1, <3>1, <3>2, ZenonT(60) DEF IInv, NothingLost
    <3>3. CASE c = b
      <4>1. differs
        <5>1. image[b] = orig[b]
          BY <1>c, <2>1, Zenon DEF IInv, OnDisk, HashesOfOriginal, Alone
        <5> QED
          BY <1>c, <1>d, <3>1, <3>3, <5>1, Zenon DEF Divergent
      <4>2. PICK k \in 1 .. Len(queue) : queue[k][1] = b
        BY <1>g, <4>1, Zenon
      <4> QED
        BY <1>i, <3>3, <4>2, Zenon
    <3> QED
      BY <1>a, <3>1, <3>2, <3>3 DEF Blocks
  <2>3. cresult = "none" /\ spc \notin {"flushing", "leaving", "done"}
    BY <2>1, ZenonT(60) DEF IInv, NothingLost, CCompare
  <2>4. b + 1 = NumBlocks => s2c = <<>> /\ sh_yielded = NumBlocks /\ InHand = 0
    BY <1>a, <1>b, <2>1, CompareDone DEF CCompare
  <2>5. InHand' = InHand
    BY Zenon DEF InHand
  <2> QED
    BY <1>e, <1>h, <1>k, <1>l, <2>1, <2>2, <2>3, <2>4, <2>5, ZenonT(60)
       DEF IInv, NothingLost
<1> QED
  BY <1>1, <1>2, <1>3, <1>4, <1>5, <1>6, <1>7, ZenonT(60) DEF IInv
=============================================================================
