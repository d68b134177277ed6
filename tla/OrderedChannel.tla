--------------------------- MODULE OrderedChannel ---------------------------
(***************************************************************************)
(* The ordered channel of src/sync.rs: OrderedSender and OrderedReceiver.  *)
(*                                                                         *)
(* Each sender is a thread.  send() takes the mutex, looks at the shared   *)
(* state, and either fails, sleeps on the condition variable, or puts its  *)
(* value into a tokio mpsc channel of capacity 1 while it STILL HOLDS the  *)
(* mutex.  recv() is a future: it takes the mutex to ask for the next      *)
(* index, awaits the mpsc channel without the mutex, and takes the mutex   *)
(* again to record that it has the value.  While it awaits it may be       *)
(* cancelled, which drops the future and nothing else.                     *)
(*                                                                         *)
(* A value is identified by the index it is sent under.  A critical        *)
(* section is one step, except the one in send() that may block: there     *)
(* `lock' names the thread that owns the mutex.                            *)
(***************************************************************************)
EXTENDS Integers, Sequences

CONSTANTS
  Senders,          \* the clones of OrderedSender, one per thread
  Indices,          \* the indices that may be sent
  NoSender          \* nobody: the mutex is free

ASSUME ChannelAssumption ==
  /\ Indices \subseteq Nat
  /\ NoSender \notin Senders

VARIABLES
  wanted_idx,       \* SharedState.wanted_idx; None is NoIdx
  recv_closed,      \* SharedState.recv_closed
  receiving,        \* SharedState.receiving
  lock,             \* the sender that holds the mutex between two steps
  queue,            \* contents of the mpsc channel
  inner_closed,     \* the mpsc receiver has been closed
  spc, sidx,        \* where each sender is, and the index of its last send()
  rpc, rval,        \* where the receiver is, and the value it just took
  offered,          \* history: indices send() was called with
  accepted,         \* history: indices whose send() returned Ok
  delivered         \* history: what recv() returned, in order

shared   == <<wanted_idx, recv_closed, receiving>>
mpsc     == <<queue, inner_closed>>
history  == <<offered, accepted, delivered>>
vars     == <<shared, lock, mpsc, spc, sidx, rpc, rval, history>>

NoIdx    == -1
Capacity == 1

Returned == {"idle", "sent", "failed"}        \* outside send()
Blocked  == {"locking", "waiting", "pushing"} \* inside send()

-----------------------------------------------------------------------------

Init ==
  /\ wanted_idx = NoIdx /\ recv_closed = FALSE /\ receiving = FALSE
  /\ lock = NoSender
  /\ queue = <<>> /\ inner_closed = FALSE
  /\ spc = [s \in Senders |-> "idle"]
  /\ sidx = [s \in Senders |-> NoIdx]
  /\ rpc = "idle" /\ rval = NoIdx
  /\ offered = {} /\ accepted = {} /\ delivered = <<>>

(* Mutant of NotifyAll: the notification is forgotten. *)
NotifyNobody == spc

(* Condvar::notify_all: every sleeper goes back to asking for the mutex. *)
NotifyAll ==
  [s \in Senders |-> IF spc[s] = "waiting" THEN "locking" ELSE spc[s]]

-----------------------------------------------------------------------------
(* OrderedSender *)

(* Entering send(idx, value). *)
SendCall(s, i) ==
  /\ spc[s] \in Returned
  /\ spc' = [spc EXCEPT ![s] = "locking"]
  /\ sidx' = [sidx EXCEPT ![s] = i]
  /\ offered' = offered \cup {i}
  /\ UNCHANGED <<shared, lock, mpsc, rpc, rval, accepted, delivered>>

HasMutex(s) == spc[s] = "locking" /\ lock = NoSender

(* One turn of the loop in send(): the receiver side is closed. *)
SendBail(s) ==
  /\ HasMutex(s)
  /\ recv_closed
  /\ spc' = [spc EXCEPT ![s] = "failed"]
  /\ UNCHANGED <<shared, lock, mpsc, sidx, rpc, rval, history>>

(* One turn of the loop: not our index yet, wait() releases the mutex. *)
SendWait(s) ==
  /\ HasMutex(s)
  /\ ~recv_closed
  /\ wanted_idx # sidx[s]
  /\ spc' = [spc EXCEPT ![s] = "waiting"]
  /\ UNCHANGED <<shared, lock, mpsc, sidx, rpc, rval, history>>

(* One turn of the loop: our index is wanted, enter blocking_send() with   *)
(* the mutex held.                                                         *)
SendReady(s) ==
  /\ HasMutex(s)
  /\ ~recv_closed
  /\ wanted_idx = sidx[s]
  /\ spc' = [spc EXCEPT ![s] = "pushing"]
  /\ lock' = s
  /\ UNCHANGED <<shared, mpsc, sidx, rpc, rval, history>>

(* blocking_send() gets its slot and send() returns Ok.  The error that    *)
(* blocking_send() may return is not modelled: the mpsc channel is never   *)
(* closed while a sender is here (PushNeverBlocks).                        *)
SendPush(s) ==
  /\ spc[s] = "pushing"
  /\ ~inner_closed
  /\ Len(queue) < Capacity
  /\ queue' = Append(queue, sidx[s])
  /\ accepted' = accepted \cup {sidx[s]}
  /\ spc' = [spc EXCEPT ![s] = "sent"]
  /\ lock' = NoSender
  /\ UNCHANGED <<shared, inner_closed, sidx, rpc, rval, offered, delivered>>

(* Condvar::wait may return without a notification. *)
SpuriousWake(s) ==
  /\ spc[s] = "waiting"
  /\ spc' = [spc EXCEPT ![s] = "locking"]
  /\ UNCHANGED <<shared, lock, mpsc, sidx, rpc, rval, history>>

(* OrderedSender::close: marks the state closed, leaves the mpsc open. *)
TxClose(s) ==
  /\ spc[s] \in Returned
  /\ lock = NoSender
  /\ recv_closed' = TRUE
  /\ spc' = NotifyAll
  /\ UNCHANGED <<wanted_idx, receiving, lock, mpsc, sidx, rpc, rval, history>>

(* The clone of OrderedSender is dropped. *)
TxDrop(s) ==
  /\ spc[s] \in Returned
  /\ spc' = [spc EXCEPT ![s] = "dropped"]
  /\ UNCHANGED <<shared, lock, mpsc, sidx, rpc, rval, history>>

-----------------------------------------------------------------------------
(* OrderedReceiver *)

AllSendersDropped == \A s \in Senders : spc[s] = "dropped"

(* Mutant of RecvEnter: the `receiving' flag is not consulted. *)
RecvEnterAlways ==
  /\ rpc = "idle"
  /\ lock = NoSender
  /\ rpc' = "awaiting"
  /\ wanted_idx' = wanted_idx + 1
  /\ receiving' = TRUE
  /\ spc' = NotifyAll
  /\ UNCHANGED <<recv_closed, lock, mpsc, sidx, rval, history>>

(* First critical section of recv(): ask for the next index, unless a      *)
(* cancelled recv() has asked for it already.                              *)
RecvEnter ==
  /\ rpc = "idle"
  /\ lock = NoSender
  /\ rpc' = "awaiting"
  /\ \/ /\ ~receiving
        /\ wanted_idx' = wanted_idx + 1
        /\ receiving' = TRUE
        /\ spc' = NotifyAll
     \/ /\ receiving
        /\ UNCHANGED <<wanted_idx, receiving, spc>>
  /\ UNCHANGED <<recv_closed, lock, mpsc, sidx, rval, history>>

(* inner.recv().await yields a value: no mutex needed. *)
RecvTake ==
  /\ rpc = "awaiting"
  /\ queue # <<>>
  /\ rval' = Head(queue)
  /\ queue' = Tail(queue)
  /\ rpc' = "took"
  /\ UNCHANGED <<shared, lock, inner_closed, spc, sidx, history>>

(* Last critical section of recv(), in the same poll: return Some(value). *)
RecvFinish ==
  /\ rpc = "took"
  /\ lock = NoSender
  /\ receiving' = FALSE
  /\ delivered' = Append(delivered, rval)
  /\ rpc' = "idle"
  /\ UNCHANGED <<wanted_idx, recv_closed, lock, mpsc, spc, sidx, rval,
                 offered, accepted>>

(* inner.recv().await yields None: nothing buffered and nobody can send.   *)
(* The `?' leaves recv() with receiving still set.                         *)
RecvNone ==
  /\ rpc = "awaiting"
  /\ queue = <<>>
  /\ inner_closed \/ AllSendersDropped
  /\ rpc' = "idle"
  /\ UNCHANGED <<shared, lock, mpsc, spc, sidx, rval, history>>

(* Mutant of RecvCancel: an await point after the value was taken. *)
RecvCancelLate ==
  /\ rpc \in {"awaiting", "took"}
  /\ rpc' = "idle"
  /\ UNCHANGED <<shared, lock, mpsc, spc, sidx, rval, history>>

(* The future of recv() is dropped at its await point. *)
RecvCancel ==
  /\ rpc = "awaiting"
  /\ rpc' = "idle"
  /\ UNCHANGED <<shared, lock, mpsc, spc, sidx, rval, history>>

(* Mutant of RxClose: the state is changed without taking the mutex. *)
RxCloseUnlocked ==
  /\ rpc = "idle"
  /\ ~recv_closed
  /\ recv_closed' = TRUE
  /\ inner_closed' = TRUE
  /\ spc' = NotifyAll
  /\ UNCHANGED <<wanted_idx, receiving, lock, queue, sidx, rpc, rval, history>>

(* OrderedReceiver::close, when nobody closed before (a no-op otherwise). *)
RxClose ==
  /\ rpc = "idle"
  /\ lock = NoSender
  /\ ~recv_closed
  /\ recv_closed' = TRUE
  /\ inner_closed' = TRUE
  /\ spc' = NotifyAll
  /\ UNCHANGED <<wanted_idx, receiving, lock, queue, sidx, rpc, rval, history>>

(* The rest of dropping the receiver, once close() has run: the mpsc       *)
(* receiver goes, with whatever it still holds.                            *)
RxDrop ==
  /\ rpc = "idle"
  /\ recv_closed
  /\ rpc' = "dropped"
  /\ inner_closed' = TRUE
  /\ queue' = <<>>
  /\ UNCHANGED <<shared, lock, spc, sidx, rval, history>>

-----------------------------------------------------------------------------

SendStep(s) ==
  \/ SendBail(s) \/ SendWait(s) \/ SendReady(s) \/ SendPush(s)

SenderNext(s) ==
  \/ \E i \in Indices \ offered : SendCall(s, i)
  \/ SendStep(s)
  \/ SpuriousWake(s)
  \/ TxClose(s)
  \/ TxDrop(s)

ReceiverNext ==
  \/ RecvEnter \/ RecvTake \/ RecvFinish \/ RecvNone \/ RecvCancel
  \/ RxClose \/ RxDrop

(* Both ends are gone. *)
Terminated ==
  /\ rpc = "dropped"
  /\ AllSendersDropped
  /\ UNCHANGED vars

Next ==
  \/ \E s \in Senders : SenderNext(s)
  \/ ReceiverNext
  \/ Terminated

Spec == Init /\ [][Next]_vars

(* A thread inside send() that can run does run.  Nobody has to call,      *)
(* receive, cancel, close or drop anything.                                *)
Fairness == \A s \in Senders : WF_vars(SendStep(s))

FairSpec == Spec /\ Fairness

-----------------------------------------------------------------------------
(* Properties *)

(* Every variable has its type; the buffer respects its capacity, and the  *)
(* index asked for never runs ahead of what was delivered.                 *)
TypeOK ==
  /\ wanted_idx \in NoIdx .. Len(delivered)
  /\ recv_closed \in BOOLEAN /\ receiving \in BOOLEAN
  /\ lock \in Senders \cup {NoSender}
  /\ queue \in Seq(Nat) /\ Len(queue) <= Capacity
  /\ inner_closed \in BOOLEAN
  /\ spc \in [Senders -> Returned \cup Blocked \cup {"dropped"}]
  /\ sidx \in [Senders -> Nat \cup {NoIdx}]
  /\ rpc \in {"idle", "awaiting", "took", "dropped"}
  /\ rval \in Nat \cup {NoIdx}
  /\ offered \subseteq Nat /\ accepted \subseteq Nat
  /\ delivered \in Seq(Nat)

(* send() calls blocking_send() with the mutex held.  It never has to wait *)
(* there, and never finds the mpsc closed: otherwise recv() and close(),   *)
(* which need the mutex, would block the thread that runs all the I/O.     *)
PushNeverBlocks ==
  \A s \in Senders : spc[s] = "pushing" => queue = <<>> /\ ~inner_closed

(* No wake-up is lost: a sender that sleeps on the condition variable has  *)
(* nothing to do, neither a value to hand over nor a closed channel to     *)
(* report.                                                                 *)
NoLostWakeup ==
  \A s \in Senders :
    spc[s] = "waiting" => ~recv_closed /\ wanted_idx # sidx[s]

InFlight(i) == queue = <<i>> \/ (rpc = "took" /\ rval = i)

(* recv() is cancel safe: whatever is cancelled and whenever either side   *)
(* closes, a value whose send() returned Ok has been received or is still  *)
(* there to be received, until the receiver is dropped.                    *)
NothingLost ==
  \A i \in accepted :
    i < Len(delivered) \/ InFlight(i) \/ rpc = "dropped"

-----------------------------------------------------------------------------
(* The inductive invariant behind the properties above. *)

(* The mutex is held across steps only by the sender that is pushing, and  *)
(* that sender was asked for its value.                                    *)
MutexInv ==
  \A s \in Senders :
    /\ spc[s] = "pushing" <=> lock = s
    /\ spc[s] = "pushing" =>
         receiving /\ wanted_idx = sidx[s] /\ ~recv_closed

(* recv() asks for exactly the first index it has not returned yet. *)
AskingInv ==
  wanted_idx = IF receiving THEN Len(delivered) ELSE Len(delivered) - 1

(* Closing the mpsc, or dropping it, goes with marking the state closed. *)
ClosedInv ==
  /\ inner_closed => recv_closed
  /\ rpc = "dropped" => recv_closed

(* The one value on its way is the one that was asked for. *)
FlightInv ==
  /\ queue # <<>> => /\ queue = <<wanted_idx>>
                     /\ receiving /\ rpc # "took"
                     /\ wanted_idx \in accepted
  /\ rpc = "took" => rval = wanted_idx /\ receiving /\ rval \in accepted

(* Everything delivered was accepted, and at most one value more. *)
AcceptedInv ==
  /\ \A i \in 0 .. (Len(delivered) - 1) : i \in accepted
  /\ \A i \in accepted :
       \/ i < Len(delivered)
       \/ i = Len(delivered) /\ (InFlight(i) \/ rpc = "dropped")

(* Nobody is inside send() with an index that was accepted before, or that *)
(* another sender is sending.                                              *)
FreshInv ==
  /\ offered \subseteq Indices
  /\ accepted \subseteq offered
  /\ \A s \in Senders : spc[s] \in Blocked => sidx[s] \in offered \ accepted
  /\ \A s, t \in Senders :
       (s # t /\ spc[s] \in Blocked /\ spc[t] \in Blocked) => sidx[s] # sidx[t]

(* All of it, with the type invariant and NoLostWakeup: every step of the  *)
(* channel preserves it.                                                   *)
IInv ==
  /\ TypeOK /\ MutexInv /\ AskingInv /\ ClosedInv /\ FlightInv
  /\ AcceptedInv /\ FreshInv /\ NoLostWakeup

-----------------------------------------------------------------------------

Delivery == INSTANCE OrderedDelivery

(* The channel delivers in order: it implements OrderedDelivery, in which  *)
(* the receiver sees 0, 1, 2, ... whatever order the senders come in.      *)
DeliversInOrder == Delivery!Spec

(* A send() whose index is asked for, or that meets a closed channel,      *)
(* returns.                                                                *)
SendReturns ==
  \A s \in Senders :
    (spc[s] \in Blocked /\ (recv_closed \/ wanted_idx = sidx[s]))
      ~> (spc[s] \in Returned)
=============================================================================
