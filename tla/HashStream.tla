----------------------------- MODULE HashStream -----------------------------
(***************************************************************************)
(* What a HashStream promises to the event loop that reads it, without     *)
(* worker threads or channels.                                             *)
(*                                                                         *)
(* The blocks of the file come in order, each with a Loan of the buffer    *)
(* that holds its bytes.  Blocks are read ahead, into `Workers' buffers:   *)
(* block b goes into the one that held block b - Workers, once the Loan of *)
(* that block was dropped.                                                 *)
(* The stream ends after the last block.  Once a worker has failed it may  *)
(* end or report the error at any point, and may still yield a block that  *)
(* was on its way.                                                         *)
(***************************************************************************)
EXTENDS Integers

CONSTANTS
  Workers,          \* the number of buffers
  NumBlocks         \* the number of blocks of the file

VARIABLES
  hashed,           \* the blocks read and hashed so far
  yielded,          \* how many blocks recv() has returned
  held,             \* the blocks whose Loan is still alive at the consumer
  failed,           \* a worker has reported an error
  status            \* "open"; how it ended: "end" or "error"; then "closing"
                    \* and "closed", or "stuck"

vars == <<hashed, yielded, held, failed, status>>

Init ==
  /\ hashed = {}
  /\ yielded = 0
  /\ held = {}
  /\ failed = FALSE
  /\ status = "open"

(* The buffer that block b is read into is free. *)
BufferFree(b) ==
  b < Workers \/ (b - Workers < yielded /\ b - Workers \notin held)

(* A worker reads and hashes block b. *)
Hash(b) ==
  /\ b \notin hashed
  /\ BufferFree(b)
  /\ hashed' = hashed \cup {b}
  /\ UNCHANGED <<yielded, held, failed, status>>

(* recv() returns Ok(Some(block)). *)
Yield ==
  /\ status = "open"
  /\ yielded \in hashed
  /\ yielded' = yielded + 1
  /\ held' = held \cup {yielded}
  /\ UNCHANGED <<hashed, failed, status>>

(* The consumer is done with a block and drops its Loan. *)
Release(b) ==
  /\ b \in held
  /\ held' = held \ {b}
  /\ UNCHANGED <<hashed, yielded, failed, status>>

(* A worker cannot open, seek or read the file. *)
Fail ==
  /\ failed' = TRUE
  /\ UNCHANGED <<hashed, yielded, held, status>>

(* recv() returns Ok(None). *)
End ==
  /\ status = "open"
  /\ yielded = NumBlocks \/ failed
  /\ status' = "end"
  /\ UNCHANGED <<hashed, yielded, held, failed>>

(* recv() returns Err. *)
Error ==
  /\ status = "open"
  /\ failed
  /\ status' = "error"
  /\ UNCHANGED <<hashed, yielded, held, failed>>

(* The next block is hashed, and a recv() that was cancelled may have      *)
(* asked for it: its Loan may be in the channel, where nobody drops it.    *)
MayBeBuffered == status # "end" /\ yielded \in hashed

(* The consumer drops the stream, after all the Loans it took: the workers *)
(* are joined, and one of them may wait for ever for that Loan.            *)
Close ==
  /\ status \in {"open", "end", "error"}
  /\ held = {}
  /\ status' \in {"closing"} \cup (IF MayBeBuffered THEN {"stuck"} ELSE {})
  /\ UNCHANGED <<hashed, yielded, held, failed>>

(* Every worker is gone, and drop() returns. *)
Joined ==
  /\ status = "closing"
  /\ status' = "closed"
  /\ UNCHANGED <<hashed, yielded, held, failed>>

Next ==
  \/ Yield \/ Fail \/ End \/ Error \/ Close \/ Joined
  \/ \E b \in 0 .. (NumBlocks - 1) : Hash(b) \/ Release(b)

Spec == Init /\ [][Next]_vars
=============================================================================
