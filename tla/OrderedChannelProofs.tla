------------------------ MODULE OrderedChannelProofs ------------------------
(***************************************************************************)
(* The ordered channel is correct for any number of senders and any set    *)
(* of indices.                                                             *)
(***************************************************************************)
EXTENDS OrderedChannel, TLAPS

(* What NotifyAll does to one sender. *)
LEMMA NotifyAllFacts ==
  ASSUME TypeOK
  PROVE  /\ NotifyAll \in [Senders -> Returned \cup Blocked \cup {"dropped"}]
         /\ \A s \in Senders :
              /\ NotifyAll[s] # "waiting"
              /\ NotifyAll[s] = "pushing" <=> spc[s] = "pushing"
              /\ NotifyAll[s] \in Blocked <=> spc[s] \in Blocked
              /\ NotifyAll[s] \in Returned <=> spc[s] \in Returned
  BY DEF TypeOK, NotifyAll, Returned, Blocked

(* The initial state satisfies the inductive invariant. *)
LEMMA InitIInv == Init => IInv
  <1> SUFFICES ASSUME Init PROVE IInv
    OBVIOUS
  <1> USE ChannelAssumption
  <1>1. TypeOK
    <2>1. Len(delivered) = 0 /\ Len(queue) = 0
      BY DEF Init
    <2>2. wanted_idx \in NoIdx .. Len(delivered) /\ Len(queue) <= Capacity
      BY <2>1 DEF Init, NoIdx, Capacity
    <2>3. /\ queue \in Seq(Nat) /\ delivered \in Seq(Nat)
          /\ spc \in [Senders -> Returned \cup Blocked \cup {"dropped"}]
          /\ sidx \in [Senders -> Nat \cup {NoIdx}]
          /\ lock \in Senders \cup {NoSender}
      BY DEF Init, Returned
    <2> QED
      BY <2>2, <2>3, Zenon DEF Init, TypeOK
  <1>2. MutexInv /\ AskingInv /\ ClosedInv /\ FlightInv /\ NoLostWakeup
    BY DEF Init, MutexInv, AskingInv, ClosedInv, FlightInv, NoLostWakeup, NoIdx
  <1>3. AcceptedInv /\ FreshInv
    BY DEF Init, AcceptedInv, FreshInv, Blocked
  <1> QED
    BY <1>1, <1>2, <1>3 DEF IInv

-----------------------------------------------------------------------------
(* Steps: every action preserves the inductive invariant. *)

(* Entering send() with an index nobody used before. *)
LEMMA SendCallStep ==
  ASSUME IInv, NEW s \in Senders, NEW i \in Indices \ offered, SendCall(s, i)
  PROVE  IInv'
  <1> USE ChannelAssumption DEF IInv, SendCall, shared, mpsc, Returned, Blocked
  <1>1. TypeOK'
    BY DEF TypeOK
  <1>2. (MutexInv /\ AskingInv /\ ClosedInv /\ FlightInv /\ NoLostWakeup)'
    BY DEF TypeOK, MutexInv, AskingInv, ClosedInv, FlightInv, NoLostWakeup
  <1>3. AcceptedInv'
    BY DEF AcceptedInv, InFlight
  <1>4. FreshInv'
    BY DEF TypeOK, FreshInv
  <1> QED
    BY <1>1, <1>2, <1>3, <1>4

(* The steps of a sender that change nothing but its own place, or that    *)
(* close the channel under the mutex.                                      *)
LEMMA QuietSendStep ==
  ASSUME IInv, NEW s \in Senders,
         \/ SendBail(s) \/ SendWait(s) \/ SpuriousWake(s)
         \/ TxClose(s) \/ TxDrop(s)
  PROVE  IInv'
  <1> USE ChannelAssumption DEF IInv, SendBail, SendWait, SpuriousWake,
      TxClose,
          TxDrop, HasMutex, shared, mpsc, history, Returned, Blocked
  <1>1. TypeOK'
    BY NotifyAllFacts, Zenon DEF TypeOK
  <1>2. MutexInv' /\ NoLostWakeup'
    BY NotifyAllFacts DEF TypeOK, MutexInv, NoLostWakeup
  <1>3. (AskingInv /\ ClosedInv /\ FlightInv)'
    BY DEF AskingInv, ClosedInv, FlightInv
  <1>4. AcceptedInv'
    BY DEF AcceptedInv, InFlight
  <1>5. FreshInv'
    <2>1. /\ \A t \in Senders : spc'[t] \in Blocked => spc[t] \in Blocked
          /\ UNCHANGED <<sidx, offered, accepted>>
      BY NotifyAllFacts DEF TypeOK
    <2> QED
      BY <2>1 DEF FreshInv
  <1> QED
    BY <1>1, <1>2, <1>3, <1>4, <1>5

(* A sender finds its index wanted.  Its index was never accepted, so the  *)
(* receiver is still waiting for it.                                       *)
LEMMA SendReadyStep ==
  ASSUME IInv, NEW s \in Senders, SendReady(s)
  PROVE  IInv'
  <1> USE ChannelAssumption DEF IInv, SendReady, HasMutex, shared, mpsc,
      history,
          Returned, Blocked
  <1>1. TypeOK'
    BY DEF TypeOK
  <1>2. receiving
    BY DEF TypeOK, AskingInv, AcceptedInv, FreshInv, NoIdx
  <1>3. MutexInv' /\ NoLostWakeup'
    BY <1>2 DEF TypeOK, MutexInv, NoLostWakeup
  <1>4. (AskingInv /\ ClosedInv /\ FlightInv)'
    BY DEF AskingInv, ClosedInv, FlightInv
  <1>5. AcceptedInv'
    BY DEF AcceptedInv, InFlight
  <1>6. FreshInv'
    BY DEF TypeOK, FreshInv
  <1> QED
    BY <1>1, <1>3, <1>4, <1>5, <1>6

(* A sender that is pushing finds the buffer empty and the mpsc open. *)
LEMMA PushFindsRoom ==
  ASSUME IInv, NEW s \in Senders, spc[s] = "pushing"
  PROVE  /\ queue = <<>> /\ rpc \notin {"took", "dropped"} /\ ~inner_closed
         /\ sidx[s] = Len(delivered) /\ sidx[s] \in Nat
         /\ sidx[s] \in offered \ accepted
  <1>1. sidx[s] \in offered \ accepted /\ sidx[s] \in Nat
    BY Zenon DEF IInv, TypeOK, FreshInv, Blocked
  <1>2. receiving /\ wanted_idx = sidx[s] /\ ~recv_closed
    BY DEF IInv, MutexInv
  <1> QED
    BY <1>1, <1>2 DEF IInv, FlightInv, ClosedInv, AskingInv

(* The value goes into the buffer and the mutex is released. *)
LEMMA SendPushStep ==
  ASSUME IInv, NEW s \in Senders, SendPush(s)
  PROVE  IInv'
  <1> USE ChannelAssumption DEF SendPush, shared, Returned, Blocked
  <1>1. /\ queue = <<>> /\ rpc \notin {"took", "dropped"}
        /\ sidx[s] = Len(delivered) /\ sidx[s] \in Nat
        /\ sidx[s] \in offered \ accepted
    BY PushFindsRoom
  <1>2. queue' = <<sidx[s]>> /\ queue' \in Seq(Nat) /\ Len(queue') = 1
    BY <1>1
  <1>3. receiving /\ wanted_idx = sidx[s] /\ lock = s
    BY DEF IInv, MutexInv
  <1>4. TypeOK'
    <2>1. spc' \in [Senders -> Returned \cup Blocked \cup {"dropped"}]
      BY DEF IInv, TypeOK
    <2>2. accepted' \subseteq Nat /\ lock' \in Senders \cup {NoSender}
      BY <1>1, Zenon DEF IInv, TypeOK
    <2>3. Len(queue') <= Capacity
      BY <1>2 DEF Capacity
    <2> QED
      BY <1>2, <2>1, <2>2, <2>3 DEF IInv, TypeOK
  <1>5. MutexInv' /\ NoLostWakeup'
    BY <1>3 DEF IInv, TypeOK, MutexInv, NoLostWakeup
  <1>6. (AskingInv /\ ClosedInv)'
    BY DEF IInv, AskingInv, ClosedInv
  <1>7. FlightInv'
    BY <1>1, <1>2, <1>3 DEF FlightInv
  <1>8. AcceptedInv'
    BY <1>1, <1>2 DEF IInv, AcceptedInv, InFlight
  <1>9. FreshInv'
    BY <1>1, Zenon DEF IInv, TypeOK, FreshInv
  <1> QED
    BY <1>4, <1>5, <1>6, <1>7, <1>8, <1>9 DEF IInv

(* recv() asks for the next index, or resumes asking. *)
LEMMA RecvEnterStep ==
  ASSUME IInv, RecvEnter
  PROVE  IInv'
  <1> USE ChannelAssumption DEF IInv, RecvEnter, mpsc, history, Returned,
      Blocked
  <1>1. TypeOK'
    <2>1. wanted_idx' \in NoIdx .. Len(delivered)
      BY DEF TypeOK, AskingInv, NoIdx
    <2> QED
      BY <2>1, NotifyAllFacts, Zenon DEF TypeOK
  <1>2. queue # <<>> => receiving
    BY DEF FlightInv
  <1>3. MutexInv' /\ NoLostWakeup'
    BY NotifyAllFacts DEF TypeOK, MutexInv, NoLostWakeup
  <1>4. (AskingInv /\ ClosedInv /\ FlightInv)'
    BY <1>2 DEF TypeOK, AskingInv, ClosedInv, FlightInv
  <1>5. AcceptedInv'
    BY DEF AcceptedInv, InFlight
  <1>6. FreshInv'
    BY NotifyAllFacts DEF TypeOK, FreshInv
  <1> QED
    BY <1>1, <1>3, <1>4, <1>5, <1>6

(* The value leaves the buffer for the receiver. *)
LEMMA RecvTakeStep ==
  ASSUME IInv, RecvTake
  PROVE  IInv'
  <1> USE ChannelAssumption DEF IInv, RecvTake, shared, history, Returned,
      Blocked
  <1>1. /\ queue = <<wanted_idx>> /\ receiving /\ wanted_idx \in accepted
        /\ queue' = <<>> /\ rval' = wanted_idx
    BY DEF FlightInv, TypeOK
  <1>2. TypeOK'
    <2>1. wanted_idx \in Nat
      BY <1>1 DEF TypeOK
    <2>2. queue' \in Seq(Nat) /\ Len(queue') <= Capacity
      BY <1>1 DEF Capacity
    <2> QED
      BY <1>1, <2>1, <2>2 DEF TypeOK
  <1>3. (MutexInv /\ NoLostWakeup /\ AskingInv /\ ClosedInv /\ FreshInv)'
    BY DEF MutexInv, NoLostWakeup, AskingInv, ClosedInv, FreshInv
  <1>4. FlightInv'
    BY <1>1 DEF FlightInv
  <1>5. AcceptedInv'
    BY <1>1 DEF TypeOK, AskingInv, AcceptedInv, InFlight
  <1> QED
    BY <1>2, <1>3, <1>4, <1>5

(* recv() returns the value: it was the first one not delivered yet. *)
LEMMA RecvFinishStep ==
  ASSUME IInv, RecvFinish
  PROVE  IInv'
  <1> USE ChannelAssumption DEF RecvFinish, mpsc, Returned, Blocked
  <1>1. /\ rval = wanted_idx /\ receiving /\ rval \in accepted /\ queue = <<>>
        /\ wanted_idx = Len(delivered) /\ rval \in Nat /\ delivered \in Seq(Nat)
    BY DEF IInv, FlightInv, AskingInv, TypeOK
  <1>2. delivered' \in Seq(Nat) /\ Len(delivered') = Len(delivered) + 1
    BY <1>1
  <1>3. TypeOK'
    <2>1. wanted_idx' \in NoIdx .. Len(delivered')
      BY <1>1, <1>2 DEF NoIdx
    <2> QED
      BY <1>2, <2>1, Zenon DEF IInv, TypeOK
  <1>4. (MutexInv /\ NoLostWakeup)'
    BY DEF IInv, MutexInv, NoLostWakeup
  <1>5. (AskingInv /\ ClosedInv /\ FlightInv)'
    BY <1>1, <1>2 DEF IInv, AskingInv, ClosedInv, FlightInv
  <1>6. AcceptedInv'
    BY <1>1, <1>2 DEF IInv, TypeOK, AcceptedInv, InFlight
  <1>7. FreshInv'
    BY DEF IInv, FreshInv
  <1> QED
    BY <1>3, <1>4, <1>5, <1>6, <1>7 DEF IInv

(* Leaving recv() without a value, and closing, keep the value in flight   *)
(* where it is; only dropping the receiver loses it.                       *)
LEMMA QuietRecvStep ==
  ASSUME IInv, RecvNone \/ RecvCancel \/ RxClose \/ RxDrop
  PROVE  IInv'
  <1> USE ChannelAssumption DEF IInv, RecvNone, RecvCancel, RxClose, RxDrop,
          shared, mpsc, history, Returned, Blocked
  <1>1. TypeOK'
    <2>1. queue' \in Seq(Nat) /\ Len(queue') <= Capacity
      <3>1. queue' = <<>> \/ queue' = queue
        OBVIOUS
      <3>2. <<>> \in Seq(Nat) /\ Len(<<>>) <= Capacity
        BY DEF Capacity
      <3> QED
        BY <3>1, <3>2, Zenon DEF TypeOK
    <2>2. spc' \in [Senders -> Returned \cup Blocked \cup {"dropped"}]
      BY NotifyAllFacts DEF TypeOK
    <2> QED
      BY <2>1, <2>2, Zenon DEF TypeOK
  <1>2. MutexInv' /\ NoLostWakeup'
    BY NotifyAllFacts DEF TypeOK, MutexInv, NoLostWakeup
  <1>3. (AskingInv /\ ClosedInv /\ FlightInv)'
    BY DEF AskingInv, ClosedInv, FlightInv
  <1>4. AcceptedInv'
    BY DEF AcceptedInv, InFlight
  <1>5. FreshInv'
    BY NotifyAllFacts, Zenon DEF TypeOK, FreshInv
  <1> QED
    BY <1>1, <1>2, <1>3, <1>4, <1>5

-----------------------------------------------------------------------------
(* The invariant is inductive, and the theorems. *)

(* Every step of the channel, stuttering included, preserves the invariant. *)
LEMMA NextIInv == IInv /\ [Next]_vars => IInv'
  <1> SUFFICES ASSUME IInv, [Next]_vars PROVE IInv'
    OBVIOUS
  <1>1. ASSUME NEW s \in Senders, SenderNext(s) PROVE IInv'
    BY <1>1, SendCallStep, QuietSendStep, SendReadyStep, SendPushStep
       DEF SenderNext, SendStep
  <1>2. CASE ReceiverNext
    BY <1>2, RecvEnterStep, RecvTakeStep, RecvFinishStep, QuietRecvStep
       DEF ReceiverNext
  <1>3. CASE UNCHANGED vars
    BY <1>3, SMTT(60) DEF vars, shared, mpsc, history, IInv, TypeOK, MutexInv,
         AskingInv,
       ClosedInv, FlightInv, AcceptedInv, InFlight, FreshInv, NoLostWakeup
  <1> QED
    BY <1>1, <1>2, <1>3 DEF Next, Terminated

(* The inductive invariant holds in every reachable state of the channel   *)
(* of src/sync.rs, for any number of threads and any set of indices.       *)
THEOREM Invariance == Spec => []IInv
  <1>1. Init => IInv
    BY InitIInv
  <1>2. IInv /\ [Next]_vars => IInv'
    BY NextIInv
  <1> QED
    BY <1>1, <1>2, PTL DEF Spec

(* The fields of SharedState, the mpsc buffer and the threads keep their   *)
(* types: in particular the buffer never holds more than one value.        *)
THEOREM TypeCorrect == Spec => []TypeOK
  <1>1. IInv => TypeOK
    BY DEF IInv
  <1> QED
    BY <1>1, Invariance, PTL

(* blocking_send(), called by send() with the mutex held, never blocks and *)
(* never fails.                                                            *)
THEOREM PushNeverBlocksTheorem == Spec => []PushNeverBlocks
  <1>1. IInv => PushNeverBlocks
    BY PushFindsRoom DEF PushNeverBlocks
  <1> QED
    BY <1>1, Invariance, PTL

(* Every notify_all() that a sleeping send() needs is made. *)
THEOREM NoLostWakeupTheorem == Spec => []NoLostWakeup
  <1>1. IInv => NoLostWakeup
    BY DEF IInv
  <1> QED
    BY <1>1, Invariance, PTL

(* recv() is cancel safe: a value that send() handed over is received, or  *)
(* still to be received, until the receiver is dropped.                    *)
THEOREM NothingLostTheorem == Spec => []NothingLost
  <1>1. IInv => NothingLost
    BY DEF IInv, AcceptedInv, NothingLost
  <1> QED
    BY <1>1, Invariance, PTL

(* The channel implements OrderedDelivery: an initial state is one of      *)
(* OrderedDelivery, entering send() offers, blocking_send() accepts, the   *)
(* end of recv() delivers, and every other step stutters.                  *)
THEOREM Refinement == Spec => DeliversInOrder
  <1>1. Init => Delivery!Init
    BY DEF Init, Delivery!Init
  <1>2. ASSUME IInv, [Next]_vars PROVE [Delivery!Next]_(Delivery!vars)
    <2> USE DEF Delivery!Next, Delivery!vars
    <2>1. ASSUME NEW s \in Senders, NEW i \in Indices \ offered, SendCall(s, i)
          PROVE  Delivery!Offer(i)
      BY <2>1 DEF SendCall, Delivery!Offer
    <2>2. ASSUME NEW s \in Senders, SendPush(s)
          PROVE  Delivery!Accept(sidx[s]) /\ sidx[s] \in Indices
      BY <1>2, <2>2, PushFindsRoom
         DEF SendPush, Delivery!Accept, IInv, FreshInv
    <2>3. CASE RecvFinish
      BY <1>2, <2>3 DEF RecvFinish, Delivery!Deliver, IInv, FlightInv,
         AskingInv
    <2>4. ASSUME NEW s \in Senders,
                 \/ SendBail(s) \/ SendWait(s) \/ SendReady(s)
                 \/ SpuriousWake(s) \/ TxClose(s) \/ TxDrop(s)
          PROVE  UNCHANGED Delivery!vars
      BY <2>4 DEF SendBail, SendWait, SendReady, SpuriousWake, TxClose, TxDrop,
                  history
    <2>5. CASE RecvEnter \/ RecvTake \/ RecvNone \/ RecvCancel \/ RxClose \/ RxDrop
      BY <2>5 DEF RecvEnter, RecvTake, RecvNone, RecvCancel, RxClose, RxDrop,
         history
    <2>6. CASE UNCHANGED vars
      BY <2>6 DEF vars, history
    <2> QED
      BY <1>2, <2>1, <2>2, <2>3, <2>4, <2>5, <2>6
         DEF Next, SenderNext, SendStep, ReceiverNext, Terminated
  <1> QED
    BY <1>1, <1>2, Invariance, PTL DEF Spec, DeliversInOrder, Delivery!Spec
=============================================================================
