------------------------------ MODULE HashFile ------------------------------
(***************************************************************************)
(* src/hash_file.rs: the worker threads that hash a file in strides, and   *)
(* the HashStream through which an event loop gets the hashes in order.    *)
(* The buffers travel in Loans (src/sync.rs) through the ordered channel,  *)
(* which is the component OrderedChannel: worker w is its sender w.        *)
(*                                                                         *)
(* A block is its number.  Reading and hashing are one step that works or  *)
(* fails; which bytes a block holds does not matter here.                  *)
(***************************************************************************)
EXTENDS Integers, Sequences

CONSTANTS
  Workers,          \* number of worker threads
  NumBlocks,        \* number of blocks in the file
  MayFail,          \* the workers whose open, seek or read may fail
  EarlyDrop         \* may the consumer drop the stream before its end?

WorkerIds == 0 .. (Workers - 1)
Blocks    == 0 .. (NumBlocks - 1)

ASSUME HashFileAssumption ==
  /\ Workers \in Nat \ {0}
  /\ NumBlocks \in Nat
  /\ MayFail \subseteq WorkerIds
  /\ EarlyDrop \in BOOLEAN

VARIABLES
  wpc, wblk,        \* each worker: where it is, and its block_idx
  err,              \* the watch channel error_tx/error_rx holds an error
  cpc,              \* the consumer: where it is with its HashStream
  cend,             \* how the stream ended for it: "open", "end" or "error"
  held,             \* the blocks whose Loan the consumer has
  (* the ordered channel *)
  wanted_idx, recv_closed, receiving, lock, queue, inner_closed,
  spc, sidx, rpc, rval, offered, accepted, delivered

chvars == <<wanted_idx, recv_closed, receiving, lock, queue, inner_closed,
            spc, sidx, rpc, rval, offered, accepted, delivered>>
vars   == <<wpc, wblk, err, cpc, cend, held, chvars>>

Ch == INSTANCE OrderedChannel
        WITH Senders <- WorkerIds, Indices <- Blocks, NoSender <- -1

(* The Loans that exist outside of send(): in the mpsc buffer, in the hand *)
(* of recv(), or with the consumer.                                        *)
LoansOut ==
  {queue[k] : k \in 1 .. Len(queue)}
    \cup (IF rpc = "took" THEN {rval} ELSE {})
    \cup held

-----------------------------------------------------------------------------

(* hash_file(): the threads are spawned, its own OrderedSender is dropped. *)
Init ==
  /\ wpc = [w \in WorkerIds |-> "opening"]
  /\ wblk = [w \in WorkerIds |-> w]
  /\ err = FALSE
  /\ cpc = "idle" /\ cend = "open" /\ held = {}
  /\ Ch!Init

-----------------------------------------------------------------------------
(* Worker threads *)

Goto(w, p) == wpc' = [wpc EXCEPT ![w] = p]

(* File::open and the first seek succeed. *)
WOpen(w) ==
  /\ wpc[w] = "opening"
  /\ Goto(w, "looping")
  /\ UNCHANGED <<wblk, err, cpc, cend, held, chvars>>

(* Mutant of WLoop: the loop stops before the last block. *)
WLoopTooShort(w) ==
  /\ wpc[w] = "looping"
  /\ Goto(w, IF wblk[w] < NumBlocks - 1 /\ ~err THEN "reading" ELSE "leaving")
  /\ UNCHANGED <<wblk, err, cpc, cend, held, chvars>>

(* The loop condition, and the look at error_tx. *)
WLoop(w) ==
  /\ wpc[w] = "looping"
  /\ Goto(w, IF wblk[w] < NumBlocks /\ ~err THEN "reading" ELSE "leaving")
  /\ UNCHANGED <<wblk, err, cpc, cend, held, chvars>>

(* The block is read and hashed, the buffer is loaned, send() is called. *)
WRead(w) ==
  /\ wpc[w] = "reading"
  /\ Goto(w, "sending")
  /\ Ch!SendCall(w, wblk[w])
  /\ UNCHANGED <<wblk, err, cpc, cend, held>>

(* send() fails: the Loan went with the value, the worker leaves. *)
WSendFailed(w) ==
  /\ wpc[w] = "sending"
  /\ spc[w] = "failed"
  /\ Goto(w, "leaving")
  /\ UNCHANGED <<wblk, err, cpc, cend, held, chvars>>

(* Mutant of Reclaimable: the buffer is reused without waiting for it. *)
ReclaimAtOnce(w) == wpc[w] = "sending" /\ spc[w] = "sent"

(* send() worked, and blocking_reclaim() has the buffer back. *)
Reclaimable(w) ==
  /\ wpc[w] = "sending" /\ spc[w] = "sent"
  /\ wblk[w] \notin LoansOut

(* Mutant of Stride: a step of workers - 1, as in the seek. *)
StrideShort == Workers - 1

Stride == Workers

(* After blocking_reclaim(): seek to the next block of this worker. *)
WAdvance(w) ==
  /\ Reclaimable(w)
  /\ wblk' = [wblk EXCEPT ![w] = @ + Stride]
  /\ Goto(w, "looping")
  /\ UNCHANGED <<err, cpc, cend, held, chvars>>

(* Mutant of WFail: the thread just ends, as it did before version 1.2.0. *)
WFailSilently(w) ==
  /\ w \in MayFail
  /\ wpc[w] \in {"opening", "reading"} \/ Reclaimable(w)
  /\ Goto(w, "leaving")
  /\ UNCHANGED <<wblk, err, cpc, cend, held, chvars>>

(* Open, seek, read or seek to the next block fails: error_tx.send(). *)
WFail(w) ==
  /\ w \in MayFail
  /\ wpc[w] \in {"opening", "reading"} \/ Reclaimable(w)
  /\ err' = TRUE
  /\ Goto(w, "failing")
  /\ UNCHANGED <<wblk, cpc, cend, held, chvars>>

(* ... followed by tx.close(). *)
WClose(w) ==
  /\ wpc[w] = "failing"
  /\ Ch!TxClose(w)
  /\ Goto(w, "leaving")
  /\ UNCHANGED <<wblk, err, cpc, cend, held>>

(* The thread ends and drops its OrderedSender. *)
WExit(w) ==
  /\ wpc[w] = "leaving"
  /\ Ch!TxDrop(w)
  /\ UNCHANGED <<wpc, wblk, err, cpc, cend, held>>

(* The steps inside send() are those of the channel. *)
WSend(w) ==
  /\ Ch!SendStep(w)
  /\ UNCHANGED <<wpc, wblk, err, cpc, cend, held>>

WSpurious(w) ==
  /\ Ch!SpuriousWake(w)
  /\ UNCHANGED <<wpc, wblk, err, cpc, cend, held>>

WorkerStep(w) ==
  \/ WOpen(w) \/ WLoop(w) \/ WRead(w) \/ WSend(w)
  \/ WSendFailed(w) \/ WAdvance(w) \/ WClose(w) \/ WExit(w)

-----------------------------------------------------------------------------
(* HashStream::recv, the consumer's use of it, and HashStream::drop *)

(* recv() is called; it looks at the error before it selects. *)
CCall ==
  /\ cpc = "idle" /\ cend = "open"
  /\ \/ err /\ cend' = "error" /\ UNCHANGED cpc
     \/ ~err /\ cpc' = "select" /\ UNCHANGED cend
  /\ UNCHANGED <<wpc, wblk, err, held, chvars>>

(* select! polls rx.recv() for the first time. *)
CPoll ==
  /\ cpc = "select"
  /\ Ch!RecvEnter
  /\ UNCHANGED <<wpc, wblk, err, cpc, cend, held>>

(* rx.recv() finds a value. *)
CTake ==
  /\ cpc = "select"
  /\ Ch!RecvTake
  /\ UNCHANGED <<wpc, wblk, err, cpc, cend, held>>

(* recv() returns Ok(Some(value)): the consumer has the Loan. *)
CSome ==
  /\ cpc = "select"
  /\ Ch!RecvFinish
  /\ held' = held \cup {rval}
  /\ cpc' = "idle"
  /\ UNCHANGED <<wpc, wblk, err, cend>>

(* rx.recv() is ready with None: recv() returns Ok(None), even if there is *)
(* an error too, since select! polls its branches in random order.         *)
CEnd ==
  /\ cpc = "select"
  /\ Ch!RecvNone
  /\ cpc' = "idle" /\ cend' = "end"
  /\ UNCHANGED <<wpc, wblk, err, held>>

(* error_rx.changed() is ready: recv() returns Err, and the future of      *)
(* rx.recv() is dropped, whether or not it was polled.                     *)
CError ==
  /\ cpc = "select" /\ err
  /\ \/ Ch!RecvCancel
     \/ rpc = "idle" /\ UNCHANGED chvars
  /\ cpc' = "idle" /\ cend' = "error"
  /\ UNCHANGED <<wpc, wblk, err, held>>

(* Another branch of the event loop's select! wins: recv() is dropped. *)
CCancel ==
  /\ cpc = "select"
  /\ Ch!RecvCancel
  /\ cpc' = "idle"
  /\ UNCHANGED <<wpc, wblk, err, cend, held>>

(* The consumer drops the Loan of a block, and oneshot sends the buffer    *)
(* back: right after recv() returned it, or when the write of the block is *)
(* done, in which case that branch wins over a pending recv().             *)
CRelease(b) ==
  /\ b \in held
  /\ held' = held \ {b}
  /\ \/ cpc = "idle" /\ UNCHANGED chvars
     \/ cpc = "select" /\ Ch!RecvCancel
  /\ cpc' = "idle"
  /\ UNCHANGED <<wpc, wblk, err, cend>>

(* Mutant of CloseOnDrop: the threads are joined before close(). *)
JoinFirst == UNCHANGED chvars

(* rx.close(): a no-op under the mutex if a failed worker closed before. *)
CloseOnDrop ==
  \/ Ch!RxClose
  \/ recv_closed /\ lock = -1 /\ UNCHANGED chvars

(* HashStream::drop: close(), then join().  Locals are dropped in reverse  *)
(* order of declaration, so all Loans are gone by then.                    *)
CDrop ==
  /\ cpc = "idle" /\ held = {}
  /\ cend # "open" \/ EarlyDrop
  /\ CloseOnDrop
  /\ cpc' = "joining"
  /\ UNCHANGED <<wpc, wblk, err, cend, held>>

(* Every join() has returned: now the fields go, the receiver with them. *)
CJoined ==
  /\ cpc = "joining"
  /\ Ch!AllSendersDropped
  /\ Ch!RxDrop
  /\ cpc' = "gone"
  /\ UNCHANGED <<wpc, wblk, err, cend, held>>

ConsumerNext ==
  \/ CCall \/ CPoll \/ CTake \/ CSome \/ CEnd \/ CError \/ CCancel
  \/ \E b \in held : CRelease(b)
  \/ CDrop \/ CJoined

Finished == cpc = "gone" /\ UNCHANGED vars

-----------------------------------------------------------------------------

Next ==
  \/ \E w \in WorkerIds : WorkerStep(w) \/ WFail(w) \/ WSpurious(w)
  \/ ConsumerNext
  \/ Finished

Spec == Init /\ [][Next]_vars

(* Threads run, and the event loop keeps going: it calls recv() again      *)
(* after each cancellation, drops every Loan sooner or later, and drops    *)
(* the stream once it has ended.  Cancellations may go on for ever (the    *)
(* progress timer), so what they interrupt needs strong fairness: between  *)
(* two of them the future is polled, and is ready if the value is there.   *)
(* Nobody has to fail, cancel or give up early.                            *)
Fairness ==
  /\ \A w \in WorkerIds : WF_vars(WorkerStep(w))
  /\ WF_vars(CPoll) /\ WF_vars(CSome) /\ WF_vars(CJoined)
  /\ SF_vars(CCall) /\ SF_vars(CTake) /\ SF_vars(CEnd) /\ SF_vars(CError)
  /\ \A b \in Blocks : SF_vars(CRelease(b))
  /\ WF_vars(cend # "open" /\ CDrop)

FairSpec == Spec /\ Fairness

-----------------------------------------------------------------------------
(* Properties *)

(* Every variable has its type; a worker stays within its stride. *)
TypeOK ==
  /\ wpc \in [WorkerIds -> {"opening", "looping", "reading", "sending",
                            "failing", "leaving"}]
  /\ wblk \in [WorkerIds -> 0 .. (NumBlocks + Workers - 1)]
  /\ \A w \in WorkerIds : wblk[w] % Workers = w
  /\ err \in BOOLEAN
  /\ cpc \in {"idle", "select", "joining", "gone"}
  /\ cend \in {"open", "end", "error"}
  /\ held \subseteq Blocks
  /\ offered \subseteq Blocks

(* A buffer is in one place: while a Loan of it exists, its worker is      *)
(* still in blocking_reclaim() for that very block.  So no Loan ever shows *)
(* bytes of another block, and there are at most as many Loans as workers  *)
(* ("the amount of stored values will be bounded to the number of active   *)
(* senders", sync.rs).                                                     *)
BuffersExclusive ==
  \A b \in LoansOut :
    LET w == b % Workers IN wpc[w] = "sending" /\ spc[w] = "sent" /\ wblk[w] = b

(* The workers use the ordered channel as it must be used, each index      *)
(* sent once: what is proved about the channel applies to it here.         *)
UsesChannelWell == Ch!Spec

Stream == INSTANCE HashStream
            WITH hashed  <- offered,
                 yielded <- Len(delivered),
                 failed  <- err,
                 status  <- CASE cpc = "gone" -> "closed"
                              [] cpc = "joining" /\ queue = <<>> -> "closing"
                              [] cpc = "joining" /\ queue # <<>> -> "stuck"
                              [] cpc \in {"idle", "select"} -> cend

(* The threads, the channel and the Loans together implement HashStream:   *)
(* all the blocks in order, each hashed before it is delivered and only    *)
(* once its buffer was free, then the end, and an end before that only if  *)
(* a worker has failed.  Once dropped it is stuck for good exactly if the  *)
(* next block was left in the channel's buffer.                            *)
IsHashStream == Stream!Spec

(* If no worker fails and the consumer goes on, every block is hashed and  *)
(* delivered, the stream ends, and dropping it returns, whatever was       *)
(* cancelled on the way.                                                   *)
AllBlocksThenEnd ==
  \/ <>(err \/ (cpc = "joining" /\ cend = "open"))
  \/ <>(cpc = "gone" /\ cend = "end" /\ Len(delivered) = NumBlocks)

(* Whatever fails, the consumer is not left waiting: its stream ends, with *)
(* or without an error, unless it drops it first ("Fix possible deadlock   *)
(* when hasher fails to read file").                                       *)
StreamEnds == <>(cend # "open" \/ cpc = "joining")

(* Dropping the stream returns when no value was left in the channel's     *)
(* buffer: every worker is unblocked, wherever close() caught it.          *)
DropReturnsIfBufferEmpty ==
  (cpc = "joining" /\ queue = <<>>) ~> (cpc = "gone")

(* Dropping the stream always returns, as the test `dropped' says: "the    *)
(* senders should not cause deadlock because they must not have sent any   *)
(* Loan to the channel".                                                   *)
DropReturns == (cpc = "joining") ~> (cpc = "gone")

-----------------------------------------------------------------------------
(* The inductive invariant behind BuffersExclusive, UsesChannelWell and    *)
(* IsHashStream.                                                           *)

Before == {"opening", "looping", "reading"}   \* wblk[w] is still to be sent

WorkerInv(w) ==
  /\ wpc[w] \in {"reading", "sending"} => wblk[w] < NumBlocks
  /\ wpc[w] = "sending" =>
       /\ spc[w] \in Ch!Blocked \cup {"sent", "failed"} /\ sidx[w] = wblk[w]
       /\ spc[w] = "sent" => wblk[w] \in accepted
       /\ spc[w] = "failed" => recv_closed
  /\ wpc[w] # "sending" => spc[w] \in Ch!Returned \cup {"dropped"}
  /\ spc[w] = "dropped" => wpc[w] = "leaving"
  /\ wpc[w] = "failing" => err
  /\ wpc[w] = "leaving" => err \/ recv_closed \/ wblk[w] >= NumBlocks
  (* what was sent before, it has back *)
  /\ wpc[w] \in Before \/ (wpc[w] = "leaving" /\ ~err /\ ~recv_closed) =>
       wblk[w] < Workers
         \/ (wblk[w] - Workers < Len(delivered) /\ wblk[w] - Workers \notin held)
  /\ \A b \in offered :
       b % Workers = w => b < wblk[w] \/ (b = wblk[w] /\ wpc[w] \notin Before)

ConsumerInv ==
  /\ \A b \in held : b < Len(delivered)
  /\ cpc = "select" => cend = "open"
  /\ cpc \in {"idle", "select"} => ~inner_closed /\ (recv_closed => err)
  /\ rpc = "dropped" \/ cend = "end" =>
       \A w \in WorkerIds : spc[w] = "dropped"
  /\ cpc \in {"joining", "gone"} => recv_closed

IInv ==
  /\ TypeOK /\ Ch!IInv /\ BuffersExclusive
  /\ \A w \in WorkerIds : WorkerInv(w)
  /\ ConsumerInv
=============================================================================
