--------------------------- MODULE HashFileProofs ---------------------------
(***************************************************************************)
(* Any number of worker threads, on a file of any number of blocks, use    *)
(* the ordered channel as it must be used, share no buffer, and implement  *)
(* HashStream, the specification on which module Session rests.            *)
(***************************************************************************)
EXTENDS HashFile, TLAPS

(* What module OrderedChannelProofs proves of any channel. *)
Channel == INSTANCE OrderedChannelProofs
             WITH Senders <- WorkerIds, Indices <- Blocks, NoSender <- -1

-----------------------------------------------------------------------------
(* Arithmetic of strides *)

(* Quotient and remainder are unique. *)
LEMMA DivisionUnique ==
  ASSUME NEW W \in Nat \ {0}, NEW w \in 0 .. (W - 1), NEW v \in 0 .. (W - 1),
         NEW n \in Nat, NEW m \in Nat, w + n * W = v + m * W
  PROVE  w = v /\ n = m
  <1>1. ~(n < m)
    <2>1. SUFFICES ASSUME n < m PROVE FALSE
      BY Zenon
    <2>2. PICK d \in Nat \ {0} : m = n + d
      BY <2>1
    <2>3. m * W = n * W + d * W /\ d * W >= W
      BY <2>2
    <2> QED
      BY <2>3
  <1>2. ~(m < n)
    <2>1. SUFFICES ASSUME m < n PROVE FALSE
      BY Zenon
    <2>2. PICK d \in Nat \ {0} : n = m + d
      BY <2>1
    <2>3. n * W = m * W + d * W /\ d * W >= W
      BY <2>2
    <2> QED
      BY <2>3
  <1> QED
    BY <1>1, <1>2, SMTT(60)

(* Every number has one. *)
LEMMA Division ==
  ASSUME NEW W \in Nat \ {0}, NEW b \in Nat
  PROVE  \E w \in 0 .. (W - 1), n \in Nat : b % W = w /\ b = w + n * W
  <1>1. /\ b % W \in 0 .. (W - 1)
        /\ b \div W \in Nat
        /\ b = (b % W) + (b \div W) * W
    OBVIOUS
  <1> QED
    BY <1>1, Zenon

(* The next block of a worker is of the same stride ... *)
LEMMA NextOfStride ==
  ASSUME NEW W \in Nat \ {0}, NEW b \in Nat
  PROVE  (b + W) % W = b % W
  <1>1. PICK w \in 0 .. (W - 1), n \in Nat : b % W = w /\ b = w + n * W
    BY Division, Zenon
  <1>2. b + W \in Nat
    OBVIOUS
  <1>3. PICK v \in 0 .. (W - 1), m \in Nat :
          (b + W) % W = v /\ b + W = v + m * W
    BY <1>2, Division, Zenon
  <1>4. (n + 1) * W = n * W + W /\ n + 1 \in Nat
    OBVIOUS
  <1>5. w + (n + 1) * W = v + m * W
    BY <1>1, <1>3, <1>4
  <1>6. w = v
    BY <1>4, <1>5, DivisionUnique
  <1> QED
    BY <1>1, <1>3, <1>6, Zenon

(* ... and no block in between is. *)
LEMMA StrideGap ==
  ASSUME NEW W \in Nat \ {0}, NEW b \in Nat, NEW c \in Nat,
         b % W = c % W, b < c
  PROVE  b <= c - W
  <1>0. PICK w \in 0 .. (W - 1), n \in Nat : b % W = w /\ b = w + n * W
    BY Division, Zenon
  <1>a. PICK v \in 0 .. (W - 1), m \in Nat : c % W = v /\ c = v + m * W
    BY Division, Zenon
  <1>1. b = w + n * W /\ c = w + m * W
    BY <1>0, <1>a, Zenon
  <1>2. n * W < m * W
    BY <1>1
  <1>3. n < m
    <2>1. SUFFICES ASSUME m <= n PROVE FALSE
      BY <1>1
    <2>2. PICK d \in Nat : n = m + d
      BY <1>1, <2>1
    <2>3. n * W = m * W + d * W /\ d * W >= 0
      BY <1>1, <2>2
    <2> QED
      BY <1>1, <1>2, <2>3
  <1>4. PICK d \in Nat : m = n + 1 + d
    BY <1>1, <1>3
  <1>5. m * W = n * W + W + d * W /\ d * W >= 0
    BY <1>1, <1>4
  <1> QED
    BY <1>1, <1>5

(* A worker starts in its own stride. *)
LEMMA FirstOfStride ==
  ASSUME NEW W \in Nat \ {0}, NEW w \in 0 .. (W - 1)
  PROVE  w % W = w
  OBVIOUS

-----------------------------------------------------------------------------
(* The channel *)

LEMMA Constants ==
  /\ Workers \in Nat \ {0} /\ NumBlocks \in Nat
  /\ Blocks \subseteq Nat /\ -1 \notin WorkerIds
  BY HashFileAssumption DEF Blocks, WorkerIds

(* The module of the channel's proofs and the one that HashFile uses are two *)
(* instances of the same definitions.                                      *)
LEMMA SameInvariant == Channel!IInv <=> Ch!IInv
  BY Zenon DEF Channel!IInv, Ch!IInv, Channel!TypeOK, Ch!TypeOK,
     Channel!MutexInv, Ch!MutexInv, Channel!AskingInv, Ch!AskingInv,
     Channel!ClosedInv, Ch!ClosedInv, Channel!FlightInv, Ch!FlightInv,
     Channel!AcceptedInv, Ch!AcceptedInv, Channel!InFlight, Ch!InFlight,
     Channel!FreshInv, Ch!FreshInv, Channel!NoLostWakeup, Ch!NoLostWakeup,
     Channel!NoIdx, Ch!NoIdx, Channel!Returned, Ch!Returned,
     Channel!Blocked, Ch!Blocked, Channel!Capacity, Ch!Capacity

(* The theorems about the channel, for the channel used here: at first ... *)
LEMMA ChannelInit == Ch!Init => Ch!IInv
  <1>1. Channel!ChannelAssumption
    BY Constants, Zenon DEF Channel!ChannelAssumption
  <1>2. Channel!Init => Channel!IInv
    BY <1>1, Constants, Channel!InitIInv, Zenon
  <1>3. Ch!Init => Channel!Init
    BY Zenon DEF Ch!Init, Channel!Init, Ch!NoIdx, Channel!NoIdx
  <1> QED
    BY <1>2, <1>3, SameInvariant, Zenon

(* The same in the next state. *)
LEMMA SameInvariantNext == Channel!IInv' <=> Ch!IInv'
  BY Zenon DEF Channel!IInv, Ch!IInv, Channel!TypeOK, Ch!TypeOK,
     Channel!MutexInv, Ch!MutexInv, Channel!AskingInv, Ch!AskingInv,
     Channel!ClosedInv, Ch!ClosedInv, Channel!FlightInv, Ch!FlightInv,
     Channel!AcceptedInv, Ch!AcceptedInv, Channel!InFlight, Ch!InFlight,
     Channel!FreshInv, Ch!FreshInv, Channel!NoLostWakeup, Ch!NoLostWakeup,
     Channel!NoIdx, Ch!NoIdx, Channel!Returned, Ch!Returned,
     Channel!Blocked, Ch!Blocked, Channel!Capacity, Ch!Capacity

(* ... and in each step that is one of the channel's. *)
LEMMA ChannelStep == Ch!IInv /\ [Ch!Next]_(Ch!vars) => Ch!IInv'
  <1>1. Channel!ChannelAssumption
    BY Constants, Zenon DEF Channel!ChannelAssumption
  <1>2. Channel!IInv /\ [Channel!Next]_(Channel!vars) => Channel!IInv'
    BY <1>1, Constants, Channel!NextIInv, Zenon
  <1>3. UNCHANGED Ch!vars => UNCHANGED Channel!vars
    BY Zenon DEF Ch!vars, Channel!vars, Ch!shared, Channel!shared, Ch!mpsc,
       Channel!mpsc, Ch!history, Channel!history
  <1>4. Ch!Next => Channel!Next
    <2> USE DEF Ch!shared, Channel!shared, Ch!mpsc, Channel!mpsc,
                Ch!history, Channel!history, Ch!vars, Channel!vars,
                Ch!Returned, Channel!Returned, Ch!NotifyAll, Channel!NotifyAll,
                Ch!HasMutex, Channel!HasMutex, Ch!Capacity, Channel!Capacity,
                Ch!AllSendersDropped, Channel!AllSendersDropped
    <2>1. ASSUME NEW s \in WorkerIds, Ch!SenderNext(s)
          PROVE  Channel!SenderNext(s)
      BY <2>1, Zenon DEF Ch!SenderNext, Channel!SenderNext, Ch!SendStep,
         Channel!SendStep, Ch!SendCall, Channel!SendCall, Ch!SendBail,
         Channel!SendBail, Ch!SendWait, Channel!SendWait, Ch!SendReady,
         Channel!SendReady, Ch!SendPush, Channel!SendPush, Ch!SpuriousWake,
         Channel!SpuriousWake, Ch!TxClose, Channel!TxClose, Ch!TxDrop,
         Channel!TxDrop
    <2>2. Ch!ReceiverNext => Channel!ReceiverNext
      BY Zenon DEF Ch!ReceiverNext, Channel!ReceiverNext, Ch!RecvEnter,
         Channel!RecvEnter, Ch!RecvTake, Channel!RecvTake, Ch!RecvFinish,
         Channel!RecvFinish, Ch!RecvNone, Channel!RecvNone, Ch!RecvCancel,
         Channel!RecvCancel, Ch!RxClose, Channel!RxClose, Ch!RxDrop,
         Channel!RxDrop
    <2>3. Ch!Terminated => Channel!Terminated
      BY Zenon DEF Ch!Terminated, Channel!Terminated
    <2> QED
      BY <2>1, <2>2, <2>3, ZenonT(60) DEF Ch!Next, Channel!Next
  <1> QED
    BY <1>2, <1>3, <1>4, SameInvariant, SameInvariantNext, ZenonT(60)

(* The workers and the consumer take only steps of the channel; no block   *)
(* is offered twice.                                                       *)
LEMMA StepOfChannel == IInv /\ [Next]_vars => [Ch!Next]_(Ch!vars)
  <1> SUFFICES ASSUME IInv, [Next]_vars
               PROVE  [Ch!Next]_(Ch!vars)
    BY Zenon
  <1>1. UNCHANGED chvars => UNCHANGED Ch!vars
    BY Zenon DEF chvars, Ch!vars, Ch!shared, Ch!mpsc, Ch!history
  <1>2. ASSUME NEW w \in WorkerIds, WRead(w)
        PROVE  Ch!Next
    <2>1. wblk[w] \in Blocks \ offered
      <3>1. wpc[w] = "reading" /\ WorkerInv(w) /\ TypeOK
        BY <1>2, Zenon DEF IInv, WRead
      <3>2. wblk[w] \in Blocks /\ wblk[w] % Workers = w
        BY <3>1, Constants DEF TypeOK, WorkerInv, Blocks
      <3> QED
        BY <3>1, <3>2, Constants DEF TypeOK, WorkerInv, Blocks, Before
    <2>2. Ch!SendCall(w, wblk[w])
      BY <1>2, Zenon DEF WRead
    <2> QED
      BY <2>1, <2>2, Zenon DEF Ch!Next, Ch!SenderNext
  <1>3. ASSUME NEW w \in WorkerIds, WSend(w) \/ WSpurious(w)
        PROVE  Ch!Next
    BY <1>3, Zenon DEF WSend, WSpurious, Ch!Next, Ch!SenderNext
  <1>4. ASSUME NEW w \in WorkerIds, WClose(w) \/ WExit(w)
        PROVE  Ch!Next
    BY <1>4, Zenon DEF WClose, WExit, Ch!Next, Ch!SenderNext
  <1>5. ASSUME NEW w \in WorkerIds,
               WOpen(w) \/ WLoop(w) \/ WSendFailed(w) \/ WAdvance(w) \/ WFail(w)
        PROVE  UNCHANGED chvars
    BY <1>5, Zenon DEF WOpen, WLoop, WSendFailed, WAdvance, WFail
  <1>6. CPoll \/ CTake \/ CSome \/ CEnd \/ CCancel \/ CJoined => Ch!Next
    BY Zenon DEF CPoll, CTake, CSome, CEnd, CCancel, CJoined, Ch!Next,
       Ch!ReceiverNext
  <1>7. CError \/ CDrop \/ (\E b \in held : CRelease(b)) =>
          Ch!Next \/ UNCHANGED chvars
    BY Zenon DEF CError, CDrop, CRelease, CloseOnDrop, Ch!Next, Ch!ReceiverNext
  <1>8. CCall \/ Finished \/ UNCHANGED vars => UNCHANGED chvars
    BY Zenon DEF CCall, Finished, vars
  <1> QED
    BY <1>1, <1>2, <1>3, <1>4, <1>5, <1>6, <1>7, <1>8, ZenonT(60)
    DEF Next, ConsumerNext, WorkerStep

-----------------------------------------------------------------------------
(* Frames *)

USE DEF chvars, Ch!shared, Ch!mpsc, Ch!history

(* The types that the channel's invariant gives to what is used below. *)
LEMMA ChannelTypes ==
  ASSUME IInv
  PROVE  /\ spc \in [WorkerIds -> Ch!Returned \cup Ch!Blocked \cup {"dropped"}]
         /\ sidx \in [WorkerIds -> Int]
         /\ Len(delivered) \in Nat
  BY DEF IInv, Ch!IInv, Ch!TypeOK, Ch!NoIdx

(* A Loan is of a block of the file. *)
LEMMA LoansAreBlocks ==
  ASSUME TypeOK, Ch!IInv
  PROVE  LoansOut \subseteq Blocks
  <1>1. \A k \in 1 .. Len(queue) : queue[k] \in Blocks
    BY DEF Ch!IInv, Ch!TypeOK, Ch!FlightInv, Ch!FreshInv, Ch!Capacity
  <1>2. rpc = "took" => rval \in Blocks
    BY Zenon DEF Ch!IInv, Ch!FlightInv, Ch!FreshInv
  <1> QED
    BY <1>1, <1>2, Zenon DEF LoansOut, TypeOK

(* The worker of a block. *)
LEMMA WorkerOf ==
  ASSUME NEW b \in Blocks
  PROVE  b \in Nat /\ b % Workers \in WorkerIds
  <1>1. b \in Nat /\ Workers \in Nat \ {0}
    BY Constants, Zenon
  <1>2. PICK w \in 0 .. (Workers - 1), n \in Nat : b % Workers = w
    BY <1>1, Division, Zenon
  <1> QED
    BY <1>1, <1>2, Zenon DEF WorkerIds

(* No Loan is created, and no worker whose buffer is away moves. *)
LEMMA BuffersFrame ==
  ASSUME TypeOK, Ch!IInv, BuffersExclusive,
         LoansOut' \subseteq LoansOut,
         \A w \in WorkerIds :
           wpc[w] = "sending" /\ spc[w] = "sent" /\ wblk[w] \in LoansOut =>
             wpc'[w] = "sending" /\ spc'[w] = "sent" /\ wblk'[w] = wblk[w]
  PROVE  BuffersExclusive'
  <1> SUFFICES ASSUME NEW b \in LoansOut'
               PROVE  /\ wpc'[b % Workers] = "sending"
                      /\ spc'[b % Workers] = "sent"
                      /\ wblk'[b % Workers] = b
    BY Zenon DEF BuffersExclusive
  <1>1. b \in LoansOut /\ b % Workers \in WorkerIds
    BY LoansAreBlocks, WorkerOf, Zenon
  <1>2. /\ wpc[b % Workers] = "sending" /\ spc[b % Workers] = "sent"
        /\ wblk[b % Workers] = b
    BY <1>1, Zenon DEF BuffersExclusive
  <1> QED
    BY <1>1, <1>2, Zenon

(* What another worker, or the consumer, does leaves a worker alone. *)
LEMMA WorkerFrame ==
  ASSUME TypeOK, Ch!IInv, NEW w \in WorkerIds, WorkerInv(w), Ch!IInv',
         wpc'[w] = wpc[w], wblk'[w] = wblk[w], sidx'[w] = sidx[w],
         spc'[w] = spc[w] \/ (spc[w] = "waiting" /\ spc'[w] = "locking"),
         err => err', recv_closed => recv_closed', accepted \subseteq accepted',
         \A b \in offered' : b \in offered \/ b % Workers # w,
         Len(delivered) <= Len(delivered'),
         \A b \in held' : b \in held \/ b >= Len(delivered)
  PROVE  WorkerInv(w)'
  <1>0. /\ wblk[w] \in Int /\ Workers \in Int
        /\ Len(delivered) \in Int /\ Len(delivered') \in Int
    BY Constants DEF TypeOK, Ch!IInv, Ch!TypeOK
  <1>1. wpc'[w] \in {"reading", "sending"} => wblk'[w] < NumBlocks
    BY Zenon DEF WorkerInv
  <1>2. wpc'[w] = "sending" =>
          /\ spc'[w] \in Ch!Blocked \cup {"sent", "failed"}
          /\ sidx'[w] = wblk'[w]
          /\ spc'[w] = "sent" => wblk'[w] \in accepted'
          /\ spc'[w] = "failed" => recv_closed'
    BY Zenon DEF WorkerInv, Ch!Blocked
  <1>3. /\ wpc'[w] # "sending" => spc'[w] \in Ch!Returned \cup {"dropped"}
        /\ spc'[w] = "dropped" => wpc'[w] = "leaving"
        /\ wpc'[w] = "failing" => err'
    BY Zenon DEF WorkerInv, Ch!Returned
  <1>4. wpc'[w] = "leaving" => err' \/ recv_closed' \/ wblk'[w] >= NumBlocks
    BY Zenon DEF WorkerInv
  <1>5. wpc'[w] \in Before \/ (wpc'[w] = "leaving" /\ ~err' /\ ~recv_closed') =>
          wblk'[w] < Workers
            \/ (/\ wblk'[w] - Workers < Len(delivered')
                /\ wblk'[w] - Workers \notin held')
    BY <1>0 DEF WorkerInv
  <1>6. \A b \in offered' :
          b % Workers = w =>
            b < wblk'[w] \/ (b = wblk'[w] /\ wpc'[w] \notin Before)
    BY Zenon DEF WorkerInv
  <1> QED
    BY <1>1, <1>2, <1>3, <1>4, <1>5, <1>6, ZenonT(60)
    DEF WorkerInv, Ch!Returned, Ch!Blocked, Before

-----------------------------------------------------------------------------
(* One lemma per action.  The part about the channel is ChannelStep. *)

Local ==
  /\ TypeOK /\ BuffersExclusive
  /\ \A w \in WorkerIds : WorkerInv(w)
  /\ ConsumerInv

(* A worker opens the file and seeks to its first block. *)
LEMMA WOpenStep ==
  ASSUME IInv, Ch!IInv', NEW w \in WorkerIds, WOpen(w)
  PROVE  Local'
  <1>1. TypeOK'
    BY Zenon DEF IInv, TypeOK, Goto, WOpen
  <1>2. BuffersExclusive'
    BY BuffersFrame, Zenon DEF IInv, TypeOK, LoansOut, Goto, WOpen
  <1>3. WorkerInv(w)'
    BY Constants, ZenonT(60) DEF IInv, TypeOK, WorkerInv, Before, Goto, WOpen,
       Ch!IInv, Ch!TypeOK, Ch!Blocked, Ch!Returned
  <1>4. \A v \in WorkerIds \ {w} : WorkerInv(v)'
    BY WorkerFrame, Constants
    DEF IInv, TypeOK, Goto, WOpen
  <1>5. ConsumerInv'
    BY Zenon DEF IInv, ConsumerInv, Goto, WOpen
  <1> QED
    BY <1>1, <1>2, <1>3, <1>4, <1>5, ZenonT(60) DEF Local

(* It looks whether there is another block for it ... *)
LEMMA WLoopStep ==
  ASSUME IInv, Ch!IInv', NEW w \in WorkerIds, WLoop(w)
  PROVE  Local'
  <1>1. TypeOK'
    BY Zenon DEF IInv, TypeOK, Goto, WLoop
  <1>2. BuffersExclusive'
    BY BuffersFrame, Zenon DEF IInv, TypeOK, LoansOut, Goto, WLoop
  <1>3. WorkerInv(w)'
    <2>1. \/ wpc'[w] = "reading" /\ wblk[w] < NumBlocks
          \/ wpc'[w] = "leaving" /\ (wblk[w] >= NumBlocks \/ err)
      BY Constants DEF IInv, TypeOK, Goto, WLoop
    <2>2. /\ wblk'[w] = wblk[w] /\ spc' = spc /\ sidx' = sidx /\ err' = err
          /\ recv_closed' = recv_closed /\ offered' = offered
          /\ delivered' = delivered /\ held' = held /\ accepted' = accepted
          /\ wpc[w] = "looping" /\ WorkerInv(w)
      BY Zenon DEF IInv, WLoop
    <2> QED
      BY <2>1, <2>2, Constants, Zenon DEF WorkerInv, Before, Ch!Returned
  <1>4. \A v \in WorkerIds \ {w} : WorkerInv(v)'
    BY WorkerFrame, Constants
    DEF IInv, TypeOK, Goto, WLoop
  <1>5. ConsumerInv'
    BY Zenon DEF IInv, ConsumerInv, Goto, WLoop
  <1> QED
    BY <1>1, <1>2, <1>3, <1>4, <1>5, ZenonT(60) DEF Local

(* It leaves, for the channel is closed. *)
LEMMA WSendFailedStep ==
  ASSUME IInv, Ch!IInv', NEW w \in WorkerIds, WSendFailed(w)
  PROVE  Local'
  <1>1. TypeOK'
    BY Zenon DEF IInv, TypeOK, Goto, WSendFailed
  <1>2. BuffersExclusive'
    BY BuffersFrame, Zenon DEF IInv, TypeOK, LoansOut, Goto, WSendFailed
  <1>3. WorkerInv(w)'
    BY Constants, ZenonT(60) DEF IInv, TypeOK, WorkerInv, Before, Goto,
         WSendFailed,
       Ch!IInv, Ch!TypeOK, Ch!Blocked, Ch!Returned
  <1>4. \A v \in WorkerIds \ {w} : WorkerInv(v)'
    BY WorkerFrame, Constants
    DEF IInv, TypeOK, Goto, WSendFailed
  <1>5. ConsumerInv'
    BY Zenon DEF IInv, ConsumerInv, Goto, WSendFailed
  <1> QED
    BY <1>1, <1>2, <1>3, <1>4, <1>5, Zenon DEF Local

(* The buffer is back: the block was delivered, and its Loan is gone. *)
LEMMA WAdvanceStep ==
  ASSUME IInv, Ch!IInv', NEW w \in WorkerIds, WAdvance(w)
  PROVE  Local'
  <1> DEFINE b == wblk[w]
  <1>a. /\ wpc[w] = "sending" /\ spc[w] = "sent" /\ b \notin LoansOut
        /\ wblk' = [wblk EXCEPT ![w] = b + Workers] /\ Goto(w, "looping")
        /\ UNCHANGED <<err, cpc, cend, held, chvars>>
    BY ZenonT(60) DEF WAdvance, Reclaimable, Stride
  <1>b. /\ b \in Nat /\ b < NumBlocks /\ b \in accepted /\ b % Workers = w
        /\ wblk \in [WorkerIds -> 0 .. (NumBlocks + Workers - 1)]
    BY <1>a, Constants DEF IInv, TypeOK, WorkerInv
  <1>c. (b + Workers) % Workers = w
    BY <1>b, Constants, NextOfStride, Zenon
  <1>d. b < Len(delivered) /\ b \notin held
    <2>1. ~Ch!InFlight(b)
      <3>1. queue # <<b>>
        <4> SUFFICES ASSUME queue = <<b>> PROVE FALSE
          BY Zenon
        <4>1. Len(queue) = 1 /\ queue[1] = b
          BY Zenon
        <4> QED
          BY <1>a, <4>1 DEF LoansOut
      <3>2. ~(rpc = "took" /\ rval = b)
        BY <1>a, Zenon DEF LoansOut
      <3> QED
        BY <3>1, <3>2, ZenonT(60) DEF Ch!InFlight
    <2>2. rpc # "dropped"
      BY <1>a, Zenon DEF IInv, ConsumerInv
    <2>3. b \notin held
      BY <1>a, Zenon DEF LoansOut
    <2> QED
      BY <1>b, <2>1, <2>2, <2>3, ZenonT(60) DEF IInv, Ch!IInv, Ch!AcceptedInv
  <1>e. wblk'[w] = b + Workers /\ wpc'[w] = "looping"
    BY <1>a, <1>b, Zenon DEF IInv, TypeOK, Goto
  <1> HIDE DEF b
  <1>1. TypeOK'
    <2>1. wblk' \in [WorkerIds -> 0 .. (NumBlocks + Workers - 1)]
      BY <1>a, <1>b, Constants
    <2>2. \A v \in WorkerIds : wblk'[v] % Workers = v
      BY <1>a, <1>b, <1>c, Zenon DEF IInv, TypeOK
    <2> QED
      BY <1>a, <2>1, <2>2, ZenonT(60) DEF IInv, TypeOK, Goto
  <1>2. BuffersExclusive'
    BY <1>a, BuffersFrame, ZenonT(60) DEF IInv, TypeOK, LoansOut, Goto, b
  <1>3. WorkerInv(w)'
    <2>1. Len(delivered) \in Nat /\ b + Workers - Workers = b
      BY <1>b, Constants, SMTT(60) DEF IInv, Ch!IInv, Ch!TypeOK
    <2>2. \A c \in offered : c % Workers = w => c < b + Workers
      BY <1>b, Constants, SMTT(60) DEF IInv, TypeOK, WorkerInv, Blocks, b
    <2> QED
      BY <1>a, <1>b, <1>d, <1>e, <2>1, <2>2, Constants, SMTT(60)
      DEF IInv, WorkerInv, Before, Ch!Returned
  <1>4. \A v \in WorkerIds \ {w} : WorkerInv(v)'
    BY <1>a, <1>b, WorkerFrame, Constants
    DEF IInv, TypeOK, Goto
  <1>5. ConsumerInv'
    BY <1>a, Zenon DEF IInv, ConsumerInv
  <1> QED
    BY <1>1, <1>2, <1>3, <1>4, <1>5, ZenonT(60) DEF Local

(* It fails, and has written the error. *)
LEMMA WFailStep ==
  ASSUME IInv, Ch!IInv', NEW w \in WorkerIds, WFail(w)
  PROVE  Local'
  <1>1. TypeOK'
    BY Zenon DEF IInv, TypeOK, Goto, WFail
  <1>2. BuffersExclusive'
    BY BuffersFrame, ZenonT(60) DEF IInv, TypeOK, LoansOut, Goto, Reclaimable,
       WFail
  <1>3. WorkerInv(w)'
    BY Constants, ZenonT(60) DEF IInv, TypeOK, WorkerInv, Before, Goto, WFail,
       Ch!IInv, Ch!TypeOK, Ch!Blocked, Ch!Returned, Reclaimable
  <1>4. \A v \in WorkerIds \ {w} : WorkerInv(v)'
    BY WorkerFrame, Constants
    DEF IInv, TypeOK, Goto, WFail
  <1>5. ConsumerInv'
    BY Zenon DEF IInv, ConsumerInv, Goto, WFail
  <1> QED
    BY <1>1, <1>2, <1>3, <1>4, <1>5, Zenon DEF Local

(* ... reads and hashes it, and calls send(). *)
LEMMA WReadStep ==
  ASSUME IInv, Ch!IInv', NEW w \in WorkerIds, WRead(w)
  PROVE  Local'
  <1>1. TypeOK'
    <2>1. wblk[w] \in Blocks
      BY Constants DEF IInv, TypeOK, WorkerInv, WRead, Blocks
    <2> QED
      BY <2>1, Zenon DEF IInv, TypeOK, Goto, WRead, Ch!SendCall
  <1>2. BuffersExclusive'
    <2>1. wpc[w] = "reading" /\ LoansOut' = LoansOut
      BY Zenon DEF LoansOut, WRead, Ch!SendCall
    <2>2. \A v \in WorkerIds \ {w} :
            /\ wpc'[v] = wpc[v] /\ wblk'[v] = wblk[v]
            /\ spc[v] = "sent" => spc'[v] = "sent"
      BY ChannelTypes, ZenonT(60) DEF IInv, TypeOK, Goto, WRead, Ch!SendCall
    <2> QED
      BY <2>1, <2>2, BuffersFrame, Zenon DEF IInv
  <1>3. WorkerInv(w)'
    BY Constants, ZenonT(60) DEF IInv, TypeOK, WorkerInv, Before, Goto, WRead,
       Ch!SendCall, Ch!IInv, Ch!TypeOK, Ch!Blocked, Ch!Returned
  <1>4. \A v \in WorkerIds \ {w} : WorkerInv(v)'
    <2>1. /\ UNCHANGED <<wblk, err, held, recv_closed, accepted, delivered>>
          /\ \A v \in WorkerIds \ {w} :
               wpc'[v] = wpc[v] /\ spc'[v] = spc[v] /\ sidx'[v] = sidx[v]
          /\ offered' = offered \cup {wblk[w]} /\ wblk[w] % Workers = w
      BY ChannelTypes, Zenon DEF IInv, TypeOK, Goto, WRead, Ch!SendCall
    <2> QED
      BY <2>1, WorkerFrame, ChannelTypes, SMTT(60) DEF IInv
  <1>5. ConsumerInv'
    BY ZenonT(60) DEF IInv, ConsumerInv, WorkerInv, Goto, WRead,
       Ch!SendCall, Ch!IInv, Ch!TypeOK, Ch!Returned
  <1> QED
    BY <1>1, <1>2, <1>3, <1>4, <1>5, Zenon DEF Local

(* After its error it closes the channel. *)
LEMMA WCloseStep ==
  ASSUME IInv, Ch!IInv', NEW w \in WorkerIds, WClose(w)
  PROVE  Local'
  <1>1. TypeOK'
    BY Zenon DEF IInv, TypeOK, Goto, WClose, Ch!TxClose, Ch!NotifyAll
  <1>2. BuffersExclusive'
    <2>1. wpc[w] = "failing" /\ LoansOut' = LoansOut
      BY Zenon DEF LoansOut, WClose, Ch!TxClose, Ch!NotifyAll
    <2>2. \A v \in WorkerIds \ {w} :
            /\ wpc'[v] = wpc[v] /\ wblk'[v] = wblk[v]
            /\ spc[v] = "sent" => spc'[v] = "sent"
      BY ChannelTypes, ZenonT(60) DEF IInv, TypeOK, Goto, WClose, Ch!TxClose,
           Ch!NotifyAll
    <2> QED
      BY <2>1, <2>2, BuffersFrame, Zenon DEF IInv
  <1>3. WorkerInv(w)'
    BY Constants, Zenon DEF IInv, TypeOK, WorkerInv, Before, Goto, WClose,
       Ch!TxClose, Ch!NotifyAll, Ch!IInv, Ch!TypeOK, Ch!Blocked, Ch!Returned
  <1>4. \A v \in WorkerIds \ {w} : WorkerInv(v)'
    <2>1. /\ UNCHANGED <<wblk, err, held, sidx, accepted, offered, delivered>>
          /\ recv_closed => recv_closed'
          /\ \A v \in WorkerIds \ {w} :
               /\ wpc'[v] = wpc[v]
               /\ spc'[v] = spc[v] \/ (spc[v] = "waiting" /\ spc'[v] = "locking")
      BY ChannelTypes, Zenon DEF IInv, TypeOK, Goto, WClose, Ch!TxClose,
           Ch!NotifyAll
    <2>2. Len(delivered) <= Len(delivered')
      BY <2>1, ChannelTypes
    <2> QED
      BY <2>1, <2>2, WorkerFrame, Zenon DEF IInv
  <1>5. ConsumerInv'
    BY Zenon DEF IInv, ConsumerInv, WorkerInv, Goto, WClose,
       Ch!TxClose, Ch!NotifyAll, Ch!IInv, Ch!TypeOK, Ch!Returned
  <1> QED
    BY <1>1, <1>2, <1>3, <1>4, <1>5, Zenon DEF Local

(* It drops its end of the channel. *)
LEMMA WExitStep ==
  ASSUME IInv, Ch!IInv', NEW w \in WorkerIds, WExit(w)
  PROVE  Local'
  <1>1. TypeOK'
    BY Zenon DEF IInv, TypeOK, Goto, WExit, Ch!TxDrop
  <1>2. BuffersExclusive'
    <2>1. wpc[w] = "leaving" /\ LoansOut' = LoansOut
      BY Zenon DEF LoansOut, WExit, Ch!TxDrop
    <2>2. \A v \in WorkerIds \ {w} :
            /\ wpc'[v] = wpc[v] /\ wblk'[v] = wblk[v]
            /\ spc[v] = "sent" => spc'[v] = "sent"
      BY ChannelTypes, ZenonT(60) DEF IInv, TypeOK, Goto, WExit, Ch!TxDrop
    <2> QED
      BY <2>1, <2>2, BuffersFrame, Zenon DEF IInv
  <1>3. WorkerInv(w)'
    BY Constants, ZenonT(60) DEF IInv, TypeOK, WorkerInv, Before, Goto, WExit,
       Ch!TxDrop, Ch!IInv, Ch!TypeOK, Ch!Blocked, Ch!Returned
  <1>4. \A v \in WorkerIds \ {w} : WorkerInv(v)'
    <2>1. /\ UNCHANGED <<wblk, err, held, sidx, accepted, offered, delivered>>
          /\ recv_closed => recv_closed'
          /\ \A v \in WorkerIds \ {w} :
               /\ wpc'[v] = wpc[v]
               /\ spc'[v] = spc[v] \/ (spc[v] = "waiting" /\ spc'[v] = "locking")
      BY ChannelTypes, Zenon DEF IInv, TypeOK, Goto, WExit, Ch!TxDrop
    <2>2. Len(delivered) <= Len(delivered')
      BY <2>1, ChannelTypes
    <2> QED
      BY <2>1, <2>2, WorkerFrame, Zenon DEF IInv
  <1>5. ConsumerInv'
    BY Zenon DEF IInv, ConsumerInv, WorkerInv, Goto, WExit,
       Ch!TxDrop, Ch!IInv, Ch!TypeOK, Ch!Returned
  <1> QED
    BY <1>1, <1>2, <1>3, <1>4, <1>5, ZenonT(60) DEF Local

(* A step inside send() that neither accepts nor gives back a block only   *)
(* concerns the worker that takes it.                                      *)
LEMMA InsideSend ==
  ASSUME IInv, Ch!IInv', NEW w \in WorkerIds, NEW p,
         spc[w] # "sent", spc' = [spc EXCEPT ![w] = p],
         UNCHANGED <<wpc, wblk, err, held, sidx, recv_closed, queue, rpc,
                     rval, accepted, offered, delivered>>
  PROVE  BuffersExclusive' /\ \A v \in WorkerIds \ {w} : WorkerInv(v)'
  <1>1. \A v \in WorkerIds \ {w} : spc'[v] = spc[v]
    BY ChannelTypes, Zenon
  <1>2. Len(delivered) <= Len(delivered')
    BY ChannelTypes
  <1>3. BuffersExclusive'
    <2>1. LoansOut' = LoansOut
      BY Zenon DEF LoansOut
    <2> QED
      BY <1>1, <2>1, BuffersFrame, Zenon DEF IInv
  <1>4. ASSUME NEW v \in WorkerIds \ {w} PROVE WorkerInv(v)'
    <2>1. TypeOK /\ Ch!IInv /\ WorkerInv(v)
      BY Zenon DEF IInv
    <2> QED
      BY <1>1, <1>2, <2>1, WorkerFrame, Zenon
  <1> QED
    BY <1>3, <1>4, Zenon

(* It wakes up for no reason. *)
LEMMA WSpuriousStep ==
  ASSUME IInv, Ch!IInv', NEW w \in WorkerIds, WSpurious(w)
  PROVE  Local'
  <1>1. TypeOK'
    BY Zenon DEF IInv, TypeOK, Goto, WSpurious, Ch!SpuriousWake
  <1>2. BuffersExclusive'
    BY InsideSend, ZenonT(60) DEF WSpurious, Ch!SpuriousWake
  <1>3. WorkerInv(w)'
    BY Constants, Zenon DEF IInv, TypeOK, WorkerInv, Before, Goto, WSpurious,
       Ch!SpuriousWake, Ch!IInv, Ch!TypeOK, Ch!Blocked, Ch!Returned
  <1>4. \A v \in WorkerIds \ {w} : WorkerInv(v)'
    BY InsideSend, ZenonT(60) DEF WSpurious, Ch!SpuriousWake
  <1>5. ConsumerInv'
    BY Zenon DEF IInv, ConsumerInv, WorkerInv, Goto, WSpurious,
       Ch!SpuriousWake, Ch!IInv, Ch!TypeOK, Ch!Returned
  <1> QED
    BY <1>1, <1>2, <1>3, <1>4, <1>5, ZenonT(60) DEF Local

(* send() finds the channel closed ... *)
LEMMA WSendBailStep ==
  ASSUME IInv, Ch!IInv', NEW w \in WorkerIds, Ch!SendBail(w),
         UNCHANGED <<wpc, wblk, err, cpc, cend, held>>
  PROVE  Local'
  <1>1. TypeOK'
    BY Zenon DEF IInv, TypeOK, Goto, Ch!HasMutex, Ch!SendBail
  <1>2. BuffersExclusive'
    BY InsideSend, ZenonT(60) DEF Ch!HasMutex, Ch!SendBail
  <1>3. WorkerInv(w)'
    BY Constants, ZenonT(60) DEF IInv, TypeOK, WorkerInv, Before, Goto,
         Ch!HasMutex,
       Ch!SendBail, Ch!IInv, Ch!TypeOK, Ch!Blocked, Ch!Returned
  <1>4. \A v \in WorkerIds \ {w} : WorkerInv(v)'
    BY InsideSend, ZenonT(60) DEF Ch!HasMutex, Ch!SendBail
  <1>5. ConsumerInv'
    BY Zenon DEF IInv, ConsumerInv, WorkerInv, Goto, Ch!HasMutex,
       Ch!SendBail, Ch!IInv, Ch!TypeOK, Ch!Returned
  <1> QED
    BY <1>1, <1>2, <1>3, <1>4, <1>5, ZenonT(60) DEF Local

(* ... or has to wait for its index ... *)
LEMMA WSendWaitStep ==
  ASSUME IInv, Ch!IInv', NEW w \in WorkerIds, Ch!SendWait(w),
         UNCHANGED <<wpc, wblk, err, cpc, cend, held>>
  PROVE  Local'
  <1>1. TypeOK'
    BY Zenon DEF IInv, TypeOK, Goto, Ch!HasMutex, Ch!SendWait
  <1>2. BuffersExclusive'
    BY InsideSend, ZenonT(60) DEF Ch!HasMutex, Ch!SendWait
  <1>3. WorkerInv(w)'
    BY Constants, ZenonT(60) DEF IInv, TypeOK, WorkerInv, Before, Goto,
         Ch!HasMutex,
       Ch!SendWait, Ch!IInv, Ch!TypeOK, Ch!Blocked, Ch!Returned
  <1>4. \A v \in WorkerIds \ {w} : WorkerInv(v)'
    BY InsideSend, ZenonT(60) DEF Ch!HasMutex, Ch!SendWait
  <1>5. ConsumerInv'
    BY Zenon DEF IInv, ConsumerInv, WorkerInv, Goto, Ch!HasMutex,
       Ch!SendWait, Ch!IInv, Ch!TypeOK, Ch!Returned
  <1> QED
    BY <1>1, <1>2, <1>3, <1>4, <1>5, ZenonT(60) DEF Local

(* ... or takes the mutex to push. *)
LEMMA WSendReadyStep ==
  ASSUME IInv, Ch!IInv', NEW w \in WorkerIds, Ch!SendReady(w),
         UNCHANGED <<wpc, wblk, err, cpc, cend, held>>
  PROVE  Local'
  <1>1. TypeOK'
    BY Zenon DEF IInv, TypeOK, Goto, Ch!HasMutex, Ch!SendReady
  <1>2. BuffersExclusive'
    BY InsideSend, ZenonT(60) DEF Ch!HasMutex, Ch!SendReady
  <1>3. WorkerInv(w)'
    BY Constants, ZenonT(60) DEF IInv, TypeOK, WorkerInv, Before, Goto,
         Ch!HasMutex,
       Ch!SendReady, Ch!IInv, Ch!TypeOK, Ch!Blocked, Ch!Returned
  <1>4. \A v \in WorkerIds \ {w} : WorkerInv(v)'
    BY InsideSend, ZenonT(60) DEF Ch!HasMutex, Ch!SendReady
  <1>5. ConsumerInv'
    BY ZenonT(60) DEF IInv, ConsumerInv, WorkerInv, Goto, Ch!HasMutex,
       Ch!SendReady, Ch!IInv, Ch!TypeOK, Ch!Returned
  <1> QED
    BY <1>1, <1>2, <1>3, <1>4, <1>5, ZenonT(60) DEF Local

(* A Loan is made: its worker waits for it. *)
LEMMA WSendPushStep ==
  ASSUME IInv, Ch!IInv', NEW w \in WorkerIds, Ch!SendPush(w),
         UNCHANGED <<wpc, wblk, err, cpc, cend, held>>
  PROVE  Local'
  <1>1. TypeOK'
    BY ZenonT(60) DEF IInv, TypeOK, Goto, Ch!Capacity, Ch!SendPush
  <1>2. BuffersExclusive'
    <2>1. wpc[w] = "sending" /\ sidx[w] = wblk[w] /\ wblk[w] % Workers = w
      BY ZenonT(60) DEF IInv, TypeOK, WorkerInv, Ch!SendPush, Ch!Returned
    <2>2. queue = <<>> /\ queue' = <<wblk[w]>>
      <3>1. queue \in Seq(Nat) /\ Len(queue) < 1
        BY Zenon DEF IInv, Ch!IInv, Ch!TypeOK, Ch!SendPush, Ch!Capacity
      <3>2. queue' = Append(queue, wblk[w])
        BY <2>1, Zenon DEF Ch!SendPush
      <3>3. queue = <<>>
        BY <3>1
      <3> QED
        BY <3>2, <3>3
    <2>3. LoansOut' = LoansOut \cup {wblk[w]}
      BY <2>2 DEF LoansOut, Ch!SendPush
    <2>4. \A v \in WorkerIds \ {w} : spc'[v] = spc[v]
      BY ZenonT(60) DEF IInv, Ch!IInv, Ch!TypeOK, Ch!SendPush
    <2>5. spc'[w] = "sent" /\ spc[w] = "pushing"
      BY Zenon DEF IInv, Ch!IInv, Ch!TypeOK, Ch!SendPush
    <2>6. ASSUME NEW b \in LoansOut
          PROVE  LET v == b % Workers
                 IN  wpc'[v] = "sending" /\ spc'[v] = "sent" /\ wblk'[v] = b
      <3>1. b % Workers \in WorkerIds
        BY LoansAreBlocks, WorkerOf, ZenonT(60) DEF IInv
      <3>2. /\ wpc[b % Workers] = "sending" /\ spc[b % Workers] = "sent"
            /\ wblk[b % Workers] = b
        BY ZenonT(60) DEF IInv, BuffersExclusive
      <3> QED
        BY <2>4, <2>5, <3>1, <3>2, ZenonT(60)
    <2> QED
      BY <2>1, <2>3, <2>5, <2>6, SMTT(60) DEF BuffersExclusive
  <1>3. WorkerInv(w)'
    BY Constants, ZenonT(60) DEF IInv, TypeOK, WorkerInv, Before, Goto,
         Ch!Capacity,
       Ch!SendPush, Ch!IInv, Ch!TypeOK, Ch!Blocked, Ch!Returned
  <1>4. \A v \in WorkerIds \ {w} : WorkerInv(v)'
    BY WorkerFrame, ChannelTypes, Constants DEF IInv, TypeOK, Goto,
       Ch!Capacity, Ch!SendPush
  <1>5. ConsumerInv'
    BY ZenonT(60) DEF IInv, ConsumerInv, WorkerInv, Goto, Ch!Capacity,
       Ch!SendPush, Ch!IInv, Ch!TypeOK, Ch!Returned
  <1> QED
    BY <1>1, <1>2, <1>3, <1>4, <1>5, ZenonT(60) DEF Local

(* The consumer calls recv() ... *)
LEMMA CCallStep ==
  ASSUME IInv, Ch!IInv', CCall
  PROVE  Local'
  <1>1. TypeOK'
    BY ZenonT(60) DEF IInv, TypeOK, CCall
  <1>2. BuffersExclusive'
    BY BuffersFrame, ZenonT(60) DEF IInv, TypeOK, LoansOut, CCall, Ch!IInv,
         Ch!TypeOK
  <1>4. \A v \in WorkerIds : WorkerInv(v)'
    BY WorkerFrame, ChannelTypes, Constants DEF IInv, TypeOK, CCall
  <1>5. ConsumerInv'
    BY Zenon DEF IInv, ConsumerInv, CCall, Ch!IInv, Ch!TypeOK
  <1> QED
    BY <1>1, <1>2, <1>4, <1>5, Zenon DEF Local

(* ... which asks for the next index ... *)
LEMMA CPollStep ==
  ASSUME IInv, Ch!IInv', CPoll
  PROVE  Local'
  <1>1. TypeOK'
    BY ZenonT(60) DEF IInv, TypeOK, CPoll, Ch!RecvEnter, Ch!NotifyAll
  <1>2. BuffersExclusive'
    BY BuffersFrame, ZenonT(60) DEF IInv, TypeOK, LoansOut, CPoll,
         Ch!RecvEnter,
       Ch!NotifyAll, Ch!IInv, Ch!TypeOK
  <1>4. \A v \in WorkerIds : WorkerInv(v)'
    BY WorkerFrame, ChannelTypes, Constants DEF IInv, TypeOK, CPoll,
       Ch!RecvEnter, Ch!NotifyAll
  <1>5. ConsumerInv'
    BY ZenonT(60) DEF IInv, ConsumerInv, CPoll, Ch!RecvEnter, Ch!NotifyAll,
         Ch!IInv,
       Ch!TypeOK
  <1> QED
    BY <1>1, <1>2, <1>4, <1>5, ZenonT(60) DEF Local

(* ... and takes what has arrived. *)
LEMMA CTakeStep ==
  ASSUME IInv, Ch!IInv', CTake
  PROVE  Local'
  <1>1. TypeOK'
    BY Zenon DEF IInv, TypeOK, CTake, Ch!RecvTake
  <1>2. BuffersExclusive'
    <2>1. PICK q \in Nat : queue = <<q>>
      BY ZenonT(60) DEF IInv, Ch!IInv, Ch!TypeOK, Ch!FlightInv, CTake,
           Ch!RecvTake
    <2>2. queue' = <<>> /\ rval' = q
      BY <2>1 DEF CTake, Ch!RecvTake
    <2>3. LoansOut' \subseteq LoansOut
      BY <2>1, <2>2, SMTT(60) DEF LoansOut, CTake, Ch!RecvTake
    <2> QED
      BY <2>3, BuffersFrame, ZenonT(60) DEF IInv, CTake, Ch!RecvTake
  <1>4. \A v \in WorkerIds : WorkerInv(v)'
    BY WorkerFrame, ChannelTypes, Constants, SMTT(60) DEF IInv, TypeOK, CTake,
       Ch!RecvTake
  <1>5. ConsumerInv'
    BY ZenonT(60) DEF IInv, ConsumerInv, CTake, Ch!RecvTake, Ch!IInv, Ch!TypeOK
  <1> QED
    BY <1>1, <1>2, <1>4, <1>5, Zenon DEF Local

(* The block delivered is the next one. *)
LEMMA CSomeStep ==
  ASSUME IInv, Ch!IInv', CSome
  PROVE  Local'
  <1>a. rval = Len(delivered) /\ rval \in Blocks
    BY ZenonT(60) DEF IInv, CSome, Ch!RecvFinish, Ch!IInv, Ch!FlightInv,
         Ch!AskingInv,
       Ch!FreshInv
  <1>b. Len(delivered') = Len(delivered) + 1 /\ Len(delivered) \in Nat
    BY <1>a, Constants, SMTT(60) DEF IInv, CSome, Ch!RecvFinish, Ch!IInv,
         Ch!TypeOK
  <1>1. TypeOK'
    BY <1>a, ZenonT(60) DEF IInv, TypeOK, CSome, Ch!RecvFinish
  <1>2. BuffersExclusive'
    BY BuffersFrame, ZenonT(60) DEF IInv, TypeOK, LoansOut, CSome,
         Ch!RecvFinish, Ch!IInv,
       Ch!TypeOK
  <1>4. \A v \in WorkerIds : WorkerInv(v)'
    BY <1>a, <1>b, WorkerFrame, Constants
    DEF IInv, TypeOK, CSome, Ch!RecvFinish
  <1>5. ConsumerInv'
    BY <1>a, <1>b, Constants, SMTT(60)
    DEF IInv, TypeOK, ConsumerInv, CSome, Ch!RecvFinish
  <1> QED
    BY <1>1, <1>2, <1>4, <1>5, ZenonT(60) DEF Local

(* recv() returns the end of the stream ... *)
LEMMA CEndStep ==
  ASSUME IInv, Ch!IInv', CEnd
  PROVE  Local'
  <1>1. TypeOK'
    BY ZenonT(60) DEF IInv, TypeOK, CEnd, Ch!RecvNone
  <1>2. BuffersExclusive'
    BY BuffersFrame, ZenonT(60) DEF IInv, TypeOK, LoansOut, CEnd, Ch!RecvNone,
         Ch!IInv,
       Ch!TypeOK
  <1>4. \A v \in WorkerIds : WorkerInv(v)'
    BY WorkerFrame, ChannelTypes, Constants, SMTT(60) DEF IInv, TypeOK, CEnd,
         Ch!RecvNone
  <1>5. ConsumerInv'
    <2>1. \A v \in WorkerIds : spc'[v] = "dropped"
      BY Zenon DEF IInv, ConsumerInv, CEnd, Ch!RecvNone, Ch!AllSendersDropped
    <2> QED
      BY <2>1, ZenonT(60) DEF IInv, ConsumerInv, CEnd, Ch!RecvNone
  <1> QED
    BY <1>1, <1>2, <1>4, <1>5, ZenonT(60) DEF Local

(* ... or the error of a worker. *)
LEMMA CErrorStep ==
  ASSUME IInv, Ch!IInv', CError
  PROVE  Local'
  <1>1. TypeOK'
    BY ZenonT(60) DEF IInv, TypeOK, CError, Ch!RecvCancel
  <1>2. BuffersExclusive'
    BY BuffersFrame, ZenonT(60) DEF IInv, TypeOK, LoansOut, CError,
         Ch!RecvCancel,
       Ch!IInv, Ch!TypeOK
  <1>4. \A v \in WorkerIds : WorkerInv(v)'
    <2>1. /\ UNCHANGED <<wpc, wblk, err, sidx, offered, accepted, delivered>>
          /\ held' \subseteq held
          /\ spc' = spc /\ recv_closed' = recv_closed
      BY ZenonT(60) DEF CError, Ch!RecvCancel
    <2> QED
      BY <2>1, WorkerFrame, ChannelTypes DEF IInv
  <1>5. ConsumerInv'
    BY DEF IInv, ConsumerInv, CError, Ch!RecvCancel, Ch!IInv, Ch!TypeOK
  <1> QED
    BY <1>1, <1>2, <1>4, <1>5, ZenonT(60) DEF Local

(* recv() is cancelled. *)
LEMMA CCancelStep ==
  ASSUME IInv, Ch!IInv', CCancel
  PROVE  Local'
  <1>1. TypeOK'
    BY ZenonT(60) DEF IInv, TypeOK, CCancel, Ch!RecvCancel
  <1>2. BuffersExclusive'
    BY BuffersFrame, ZenonT(60) DEF IInv, TypeOK, LoansOut, CCancel,
         Ch!RecvCancel,
       Ch!IInv, Ch!TypeOK
  <1>4. \A v \in WorkerIds : WorkerInv(v)'
    BY WorkerFrame, ChannelTypes, Constants DEF IInv, TypeOK, CCancel,
       Ch!RecvCancel
  <1>5. ConsumerInv'
    BY ZenonT(60) DEF IInv, ConsumerInv, CCancel, Ch!RecvCancel, Ch!IInv,
         Ch!TypeOK
  <1> QED
    BY <1>1, <1>2, <1>4, <1>5, ZenonT(60) DEF Local

(* A Loan is dropped: its worker may have the buffer back. *)
LEMMA CReleaseStep ==
  ASSUME IInv, Ch!IInv', NEW b \in held, CRelease(b)
  PROVE  Local'
  <1>1. TypeOK'
    BY ZenonT(60) DEF IInv, TypeOK, CRelease, Ch!RecvCancel
  <1>2. BuffersExclusive'
    BY BuffersFrame, ZenonT(60) DEF IInv, TypeOK, LoansOut, CRelease,
         Ch!RecvCancel,
       Ch!IInv, Ch!TypeOK
  <1>4. \A v \in WorkerIds : WorkerInv(v)'
    <2>1. /\ UNCHANGED <<wpc, wblk, err, sidx, offered, accepted, delivered>>
          /\ held' \subseteq held
          /\ spc' = spc /\ recv_closed' = recv_closed
      BY ZenonT(60) DEF CRelease, Ch!RecvCancel
    <2> QED
      BY <2>1, WorkerFrame, ChannelTypes DEF IInv
  <1>5. ConsumerInv'
    BY DEF IInv, ConsumerInv, CRelease, Ch!RecvCancel, Ch!IInv, Ch!TypeOK
  <1> QED
    BY <1>1, <1>2, <1>4, <1>5, ZenonT(60) DEF Local

(* The consumer starts to drop the stream: the channel is closed ... *)
LEMMA CDropStep ==
  ASSUME IInv, Ch!IInv', CDrop
  PROVE  Local'
  <1>1. TypeOK'
    BY ZenonT(60) DEF IInv, TypeOK, CDrop, CloseOnDrop, Ch!RxClose,
         Ch!NotifyAll
  <1>2. BuffersExclusive'
    BY BuffersFrame, ZenonT(60) DEF IInv, TypeOK, LoansOut, CDrop, CloseOnDrop,
       Ch!RxClose, Ch!NotifyAll, Ch!IInv, Ch!TypeOK
  <1>4. \A v \in WorkerIds : WorkerInv(v)'
    <2>1. /\ UNCHANGED <<wpc, wblk, err, sidx, offered, accepted, delivered>>
          /\ held' \subseteq held
          /\ recv_closed'
          /\ \A v \in WorkerIds :
               \/ spc'[v] = spc[v]
               \/ spc[v] = "waiting" /\ spc'[v] = "locking"
      BY ChannelTypes, SMTT(60) DEF CDrop, CloseOnDrop, Ch!RxClose,
           Ch!NotifyAll
    <2> QED
      BY <2>1, WorkerFrame, ChannelTypes, SMTT(60) DEF IInv
  <1>5. ConsumerInv'
    <2>1. ASSUME NEW v \in WorkerIds, spc[v] = "dropped"
          PROVE  spc'[v] = "dropped"
      BY <2>1, SMTT(60) DEF CDrop, CloseOnDrop, Ch!RxClose, Ch!NotifyAll
    <2>2. /\ recv_closed' /\ cpc' = "joining"
          /\ UNCHANGED <<held, delivered, cend, rpc>>
      BY SMTT(60) DEF CDrop, CloseOnDrop, Ch!RxClose
    <2> QED
      BY <2>1, <2>2, ZenonT(60) DEF IInv, ConsumerInv
  <1> QED
    BY <1>1, <1>2, <1>4, <1>5, ZenonT(60) DEF Local

(* ... and, when all workers are gone, freed with what is in it. *)
LEMMA CJoinedStep ==
  ASSUME IInv, Ch!IInv', CJoined
  PROVE  Local'
  <1>1. TypeOK'
    BY ZenonT(60) DEF IInv, TypeOK, CJoined, Ch!RxDrop, Ch!AllSendersDropped
  <1>2. BuffersExclusive'
    BY BuffersFrame, SMTT(60) DEF IInv, TypeOK, LoansOut, CJoined, Ch!RxDrop,
       Ch!AllSendersDropped, Ch!IInv, Ch!TypeOK
  <1>4. \A v \in WorkerIds : WorkerInv(v)'
    BY WorkerFrame, ChannelTypes, Constants DEF IInv, TypeOK, CJoined,
       Ch!RxDrop, Ch!AllSendersDropped
  <1>5. ConsumerInv'
    BY ZenonT(60) DEF IInv, ConsumerInv, CJoined, Ch!RxDrop,
         Ch!AllSendersDropped,
       Ch!IInv, Ch!TypeOK
  <1> QED
    BY <1>1, <1>2, <1>4, <1>5, ZenonT(60) DEF Local

(* Nothing happens. *)
LEMMA StutterStep ==
  ASSUME IInv, Ch!IInv', UNCHANGED vars
  PROVE  Local'
  <1>1. TypeOK'
    BY ZenonT(60) DEF IInv, TypeOK, vars
  <1>2. BuffersExclusive'
    BY BuffersFrame, ZenonT(60) DEF IInv, TypeOK, LoansOut, vars, Ch!IInv,
         Ch!TypeOK
  <1>4. \A v \in WorkerIds : WorkerInv(v)'
    BY WorkerFrame, ChannelTypes, Constants, SMTT(60) DEF IInv, TypeOK, vars
  <1>5. ConsumerInv'
    BY ZenonT(60) DEF IInv, ConsumerInv, vars, Ch!IInv, Ch!TypeOK
  <1> QED
    BY <1>1, <1>2, <1>4, <1>5, ZenonT(60) DEF Local

-----------------------------------------------------------------------------
(* The invariant holds *)

LEMMA InitInv == Init => IInv
  <1> SUFFICES ASSUME Init PROVE IInv
    BY Zenon
  <1>1. Ch!IInv
    BY ChannelInit, Zenon DEF Init
  <1>2. /\ Workers \in Nat \ {0} /\ NumBlocks \in Nat
        /\ \A w \in WorkerIds : w \in 0 .. (NumBlocks + Workers - 1)
        /\ \A w \in WorkerIds : w % Workers = w /\ w < Workers
    BY Constants, FirstOfStride DEF WorkerIds
  <1>3. TypeOK
    BY <1>2, Zenon DEF Init, TypeOK, Ch!Init
  <1>4. BuffersExclusive
    BY DEF Init, Ch!Init, BuffersExclusive, LoansOut
  <1>5. \A w \in WorkerIds : WorkerInv(w)
    BY <1>2, Zenon DEF Init, Ch!Init, WorkerInv, Before, Ch!Returned
  <1>6. ConsumerInv
    BY Zenon DEF Init, Ch!Init, ConsumerInv
  <1> QED
    BY <1>1, <1>3, <1>4, <1>5, <1>6, ZenonT(60) DEF IInv

(* ... and every step keeps it. *)
LEMMA StepInv == IInv /\ [Next]_vars => IInv'
  <1> SUFFICES ASSUME IInv, [Next]_vars
               PROVE  IInv'
    BY Zenon
  <1>1. Ch!IInv'
    BY StepOfChannel, ChannelStep, Zenon DEF IInv
  <1>2. ASSUME NEW w \in WorkerIds, WorkerStep(w) \/ WFail(w) \/ WSpurious(w)
        PROVE  Local'
    <2>1. CASE WSend(w)
      BY <1>1, <2>1, WSendBailStep, WSendWaitStep, WSendReadyStep,
         WSendPushStep, Zenon
      DEF WSend, Ch!SendStep
    <2> QED
      BY <1>1, <1>2, <2>1, WOpenStep, WLoopStep, WReadStep, WSendFailedStep,
         WAdvanceStep, WCloseStep, WExitStep, WFailStep, WSpuriousStep, Zenon
      DEF WorkerStep
  <1>3. ASSUME ConsumerNext
        PROVE  Local'
    BY <1>1, <1>3, CCallStep, CPollStep, CTakeStep, CSomeStep, CEndStep,
       CErrorStep, CCancelStep, CReleaseStep, CDropStep, CJoinedStep, Zenon
    DEF ConsumerNext
  <1>4. ASSUME Finished \/ UNCHANGED vars
        PROVE  Local'
    BY <1>1, <1>4, StutterStep, Zenon DEF Finished
  <1>5. Local'
    BY <1>2, <1>3, <1>4, Zenon DEF Next
  <1> QED
    BY <1>1, <1>5, Zenon DEF IInv, Local

(* Whatever the number of workers and of blocks, the invariant holds in    *)
(* every state of the workers, the channel and the HashStream.             *)
THEOREM HashingInvariant == Spec => []IInv
  BY InitInv, StepInv, PTL DEF Spec

(* A worker stays within its stride of the file, src/hash_file.rs. *)
THEOREM StridesKept == Spec => []TypeOK
  <1>1. IInv => TypeOK
    BY Zenon DEF IInv
  <1> QED
    BY <1>1, HashingInvariant, PTL

(* A buffer is reused only after its Loan was dropped: blocking_reclaim()  *)
(* of src/sync.rs, between two blocks of a worker.                         *)
THEOREM BuffersAreExclusive == Spec => []BuffersExclusive
  <1>1. IInv => BuffersExclusive
    BY Zenon DEF IInv
  <1> QED
    BY <1>1, HashingInvariant, PTL

(* The worker threads and the HashStream use the ordered channel as the    *)
(* theorems about it demand: so they hold here.                            *)
THEOREM ChannelUsedWell == Spec => UsesChannelWell
  <1>1. Init => Ch!Init
    BY Zenon DEF Init
  <1> QED
    BY <1>1, StepOfChannel, HashingInvariant, PTL
    DEF Spec, UsesChannelWell, Ch!Spec

-----------------------------------------------------------------------------
(* HashStream *)

(* recv() returns Ok(None) only after the last block, unless a worker has  *)
(* failed: with all the workers gone, the one whose turn it would be has   *)
(* left the file behind it, and so has all that it sent back.              *)
LEMMA EndIsTheEnd ==
  ASSUME IInv, CEnd
  PROVE  Len(delivered) = NumBlocks \/ err
  <1> SUFFICES ASSUME ~err
               PROVE  Len(delivered) = NumBlocks
    BY Zenon
  <1> DEFINE d == Len(delivered)
  <1>1. ~recv_closed /\ \A w \in WorkerIds : spc[w] = "dropped"
    BY Zenon DEF CEnd, Ch!RecvNone, Ch!AllSendersDropped, IInv, ConsumerInv
  <1>2. d \in Nat /\ NumBlocks \in Nat /\ Workers \in Nat \ {0}
    BY ChannelTypes, Constants, Zenon
  <1>3. d <= NumBlocks
    <2>1. d = 0 \/ d - 1 \in Blocks
      BY <1>2, SMTT(60) DEF IInv, Ch!IInv, Ch!AcceptedInv, Ch!FreshInv
    <2> QED
      BY <1>2, <2>1, SMTT(60) DEF Blocks
  <1>4. ASSUME d < NumBlocks
        PROVE  FALSE
    <2> DEFINE w == d % Workers
    <2>1. d \in Blocks
      BY <1>2, <1>4 DEF Blocks
    <2>2. w \in WorkerIds
      BY <2>1, WorkerOf, ZenonT(60)
    <2>3. wpc[w] = "leaving" /\ wblk[w] >= NumBlocks
      BY <1>1, <2>2, ZenonT(60) DEF IInv, WorkerInv
    <2>4. wblk[w] \in Nat /\ wblk[w] % Workers = w
      BY <1>2, <2>2 DEF IInv, TypeOK
    <2>5. d <= wblk[w] - Workers
      <3>1. d < wblk[w] /\ d % Workers = wblk[w] % Workers
        BY <1>2, <1>4, <2>3, <2>4, SMTT(60)
      <3> HIDE DEF w, d
      <3> QED
        BY <1>2, <2>4, <3>1, StrideGap, ZenonT(60)
    <2>6. wblk[w] < Workers \/ wblk[w] - Workers < d
      BY <1>1, <2>2, <2>3, ZenonT(60) DEF IInv, WorkerInv
    <2> HIDE DEF w, d
    <2> QED
      BY <1>2, <2>4, <2>5, <2>6, SMTT(60)
  <1> QED
    BY <1>2, <1>3, <1>4

(* A value in the channel's buffer is the next block to deliver, and the   *)
(* worker that sent it waits for its Loan.                                 *)
LEMMA BufferedIsNext ==
  ASSUME IInv, queue # <<>>
  PROVE  /\ Len(delivered) \in offered
         /\ ~ \A w \in WorkerIds : spc[w] = "dropped"
  <1>1. /\ queue = <<wanted_idx>> /\ wanted_idx = Len(delivered)
        /\ wanted_idx \in offered
    BY ZenonT(60) DEF IInv, Ch!IInv, Ch!FlightInv, Ch!AskingInv, Ch!FreshInv
  <1>2. Len(delivered) \in LoansOut
    <2>1. Len(queue) = 1 /\ queue[1] = Len(delivered)
      BY <1>1, SMTT(60)
    <2> QED
      BY <2>1, SMTT(60) DEF LoansOut
  <1>3. Len(delivered) % Workers \in WorkerIds
    BY <1>2, LoansAreBlocks, WorkerOf, ZenonT(60) DEF IInv
  <1>4. spc[Len(delivered) % Workers] = "sent"
    BY <1>2, Zenon DEF IInv, BuffersExclusive
  <1>5. ASSUME \A w \in WorkerIds : spc[w] = "dropped"
        PROVE  FALSE
    BY <1>3, <1>4, <1>5, Zenon
  <1> QED
    BY <1>1, <1>5, Zenon

(* A step of the workers, the channel and the consumer is one of the stream *)
(* or none at all: sending hashes a block, the end of recv() yields it.    *)
LEMMA StreamStep == IInv /\ [Next]_vars => [Stream!Next]_(Stream!vars)
  <1> SUFFICES ASSUME IInv, [Next]_vars
               PROVE  [Stream!Next]_(Stream!vars)
    BY Zenon
  <1>1. /\ Len(delivered) \in Nat /\ NumBlocks \in Nat /\ Workers \in Nat \ {0}
        /\ Blocks = 0 .. (NumBlocks - 1)
    BY ChannelTypes, Constants, ZenonT(60) DEF Blocks
  <1>2. ASSUME UNCHANGED <<offered, delivered, held, err, cpc, cend, queue>>
        PROVE  UNCHANGED Stream!vars
    BY <1>2, Zenon DEF Stream!vars
  <1>3. ASSUME UNCHANGED <<offered, delivered, held, err, cend>>,
               cpc \in {"idle", "select"}, cpc' \in {"idle", "select"}
        PROVE  UNCHANGED Stream!vars
    BY <1>3, SMTT(60) DEF Stream!vars
  <1>4. ASSUME NEW w \in WorkerIds, WRead(w)
        PROVE  Stream!Next
    <2>1. wpc[w] = "reading" /\ wblk[w] < NumBlocks /\ wblk[w] \in Blocks
      BY <1>1, <1>4, SMTT(60) DEF WRead, IInv, TypeOK, WorkerInv
    <2>2. wblk[w] \notin offered
      <3>1. wblk[w] \in Nat /\ wblk[w] % Workers = w /\ WorkerInv(w)
        BY <1>1, <2>1, SMTT(60) DEF IInv, TypeOK
      <3> QED
        BY <2>1, <3>1, SMTT(60) DEF WorkerInv, Before
    <2>3. Stream!BufferFree(wblk[w])
      BY <2>1, ZenonT(60) DEF IInv, WorkerInv, Before, Stream!BufferFree
    <2>4. Stream!Hash(wblk[w])
      BY <1>4, <2>2, <2>3, ZenonT(60) DEF WRead, Ch!SendCall, Stream!Hash
    <2> QED
      BY <1>1, <2>1, <2>4, ZenonT(60) DEF Stream!Next
  <1>5. ASSUME NEW w \in WorkerIds, WFail(w)
        PROVE  Stream!Next
    BY <1>5, Zenon DEF WFail, Stream!Next, Stream!Fail
  <1>6. ASSUME NEW w \in WorkerIds,
               WOpen(w) \/ WLoop(w) \/ WSendFailed(w) \/ WAdvance(w)
        PROVE  UNCHANGED Stream!vars
    BY <1>2, <1>6, Zenon DEF WOpen, WLoop, WSendFailed, WAdvance
  <1>7. ASSUME NEW w \in WorkerIds,
               WClose(w) \/ WExit(w) \/ WSend(w) \/ WSpurious(w)
        PROVE  UNCHANGED Stream!vars
    <2>1. CASE Ch!SendPush(w) /\ WSend(w)
      <3>1. ~recv_closed
        BY <2>1, Zenon DEF Ch!SendPush, IInv, Ch!IInv, Ch!MutexInv
      <3>2. cpc \in {"idle", "select"}
        BY <3>1, Zenon DEF IInv, TypeOK, ConsumerInv
      <3> QED
        BY <1>3, <2>1, <3>2, ZenonT(60) DEF WSend, Ch!SendPush
    <2>2. CASE ~(Ch!SendPush(w) /\ WSend(w))
      BY <1>2, <1>7, <2>2, ZenonT(60) DEF WClose, WExit, WSend, WSpurious,
         Ch!TxClose, Ch!TxDrop, Ch!SendStep, Ch!SendBail, Ch!SendWait,
         Ch!SendReady, Ch!SpuriousWake
    <2> QED
      BY <2>1, <2>2, Zenon
  <1>8. ASSUME CCall
        PROVE  [Stream!Next]_(Stream!vars)
    <2>1. CASE err
      BY <1>8, <2>1, Zenon DEF CCall, Stream!Next, Stream!Error
    <2>2. CASE ~err
      BY <1>3, <1>8, <2>2, ZenonT(60) DEF CCall
    <2> QED
      BY <2>1, <2>2, Zenon
  <1>9. ASSUME CPoll \/ CTake \/ CCancel
        PROVE  UNCHANGED Stream!vars
    BY <1>2, <1>3, <1>9, ZenonT(60) DEF CPoll, CTake, CCancel, Ch!RecvEnter,
         Ch!RecvTake,
       Ch!RecvCancel
  <1>10. ASSUME CSome
         PROVE  Stream!Next
    <2>1. rval = Len(delivered) /\ rval \in offered
      BY <1>10, ZenonT(60) DEF IInv, CSome, Ch!RecvFinish, Ch!IInv,
           Ch!FlightInv,
         Ch!AskingInv, Ch!FreshInv
    <2>2. Len(delivered') = Len(delivered) + 1
      BY <1>1, <1>10, <2>1, SMTT(60) DEF IInv, CSome, Ch!RecvFinish, Ch!IInv,
           Ch!TypeOK
    <2>3. cend = "open" /\ cpc = "select" /\ cpc' = "idle" /\ cend' = cend
      BY <1>10, Zenon DEF IInv, ConsumerInv, CSome
    <2> QED
      BY <1>10, <2>1, <2>2, <2>3, ZenonT(60)
      DEF CSome, Ch!RecvFinish, Stream!Next, Stream!Yield
  <1>11. ASSUME CEnd
         PROVE  Stream!Next
    <2>1. Len(delivered) = NumBlocks \/ err
      BY <1>11, EndIsTheEnd, Zenon
    <2>2. cend = "open" /\ cpc = "select"
      BY <1>11, Zenon DEF IInv, ConsumerInv, CEnd
    <2> QED
      BY <1>11, <2>1, <2>2, ZenonT(60) DEF CEnd, Ch!RecvNone, Stream!Next,
           Stream!End
  <1>12. ASSUME CError
         PROVE  Stream!Next
    <2>1. cend = "open" /\ cpc = "select" /\ err
      BY <1>12, Zenon DEF IInv, ConsumerInv, CError
    <2>2. /\ UNCHANGED <<offered, delivered, held, err>>
          /\ cpc' = "idle" /\ cend' = "error"
      BY <1>12, Zenon DEF CError, Ch!RecvCancel
    <2> QED
      BY <2>1, <2>2, Zenon DEF Stream!Next, Stream!Error
  <1>13. ASSUME NEW b \in held, CRelease(b)
         PROVE  Stream!Next
    <2>1. /\ UNCHANGED <<offered, delivered, err, cend>>
          /\ held' = held \ {b}
          /\ cpc \in {"idle", "select"} /\ cpc' = "idle"
      BY <1>13, Zenon DEF CRelease, Ch!RecvCancel
    <2>2. Stream!Release(b) /\ b \in Blocks
      BY <2>1, Zenon DEF Stream!Release, IInv, TypeOK
    <2> QED
      BY <1>1, <2>2, Zenon DEF Stream!Next
  <1>14. ASSUME CDrop
         PROVE  Stream!Next
    <2>1. /\ UNCHANGED <<offered, delivered, held, err, cend, queue>>
          /\ held = {} /\ cpc = "idle" /\ cpc' = "joining"
          /\ cend \in {"open", "end", "error"}
      BY <1>14, Zenon DEF CDrop, CloseOnDrop, Ch!RxClose, IInv, TypeOK
    <2>2. CASE queue = <<>>
      BY <2>1, <2>2, SMTT(60) DEF Stream!Next, Stream!Close
    <2>3. CASE queue # <<>>
      <3>1. Len(delivered) \in offered /\ cend # "end"
        BY <2>3, BufferedIsNext, Zenon DEF IInv, ConsumerInv
      <3> QED
        BY <2>1, <2>3, <3>1, SMTT(60)
        DEF Stream!Next, Stream!Close, Stream!MayBeBuffered
    <2> QED
      BY <2>2, <2>3, Zenon
  <1>15. ASSUME CJoined
         PROVE  Stream!Next
    <2>1. queue = <<>>
      BY <1>15, BufferedIsNext, Zenon DEF CJoined, Ch!AllSendersDropped
    <2>2. /\ UNCHANGED <<offered, delivered, held, err, cend>>
          /\ cpc = "joining" /\ cpc' = "gone"
      BY <1>15, Zenon DEF CJoined, Ch!RxDrop
    <2> QED
      BY <2>1, <2>2, SMTT(60) DEF Stream!Next, Stream!Joined
  <1>16. ASSUME Finished \/ UNCHANGED vars
         PROVE  UNCHANGED Stream!vars
    BY <1>2, <1>16, ZenonT(60) DEF Finished, vars
  <1> QED
    BY <1>4, <1>5, <1>6, <1>7, <1>8, <1>9, <1>10, <1>11, <1>12, <1>13, <1>14,
       <1>15, <1>16, Zenon
    DEF Next, ConsumerNext, WorkerStep

(* hash_file() and HashStream implement the specification HashStream: all  *)
(* the blocks in order, each in a buffer that was free, then the end.      *)
THEOREM ImplementsHashStream == Spec => IsHashStream
  <1>1. Init => Stream!Init
    BY Zenon DEF Init, Ch!Init, Stream!Init
  <1> QED
    BY <1>1, StreamStep, HashingInvariant, PTL
    DEF Spec, IsHashStream, Stream!Spec
=============================================================================
