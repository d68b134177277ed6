------------------------------ MODULE Session -------------------------------
(***************************************************************************)
(* Synchronisations of one file, one after another: the event loops of     *)
(* src/client.rs and src/server.rs, after the handshake, joined by a TCP   *)
(* connection with bounded buffers.  Each side reads the hashes of its own *)
(* file from a HashStream (module HashStream, implemented by HashFile).    *)
(*                                                                         *)
(* A block on disk is a pair of halves, so that a write can be cut in two, *)
(* and handed to the disk in two pieces if it is too large for one.        *)
(* On the wire a hash is one message and a block is two, its offset and    *)
(* its bytes, so that a block can be cut in two as well.                   *)
(*                                                                         *)
(* One step is the handler of one branch of select! that is ready, or what *)
(* a future does while it stays pending.  The choice between branches that *)
(* are ready is left open, although the code polls them in a fixed order.  *)
(* The progress timer changes nothing and is left out, and so is the       *)
(* `else' branch of either loop: the timer never ends, and on the server   *)
(* one of the first two branches is always enabled.                        *)
(***************************************************************************)
EXTENDS Integers, Sequences, FiniteSets

CONSTANTS
  NumBlocks,        \* blocks of the file: end_block_idx
  ClientWorkers,    \* hash workers of the client
  ServerWorkers,    \* hash workers of the server
  NetCap,           \* messages the connection holds in each direction
  OldHalves,        \* what half a block of the destination may hold at first
  Digest(_),        \* hash_data() of a block
  PieceHalves,      \* halves of a block that one tokio write() takes: 2 up to
                    \* the 2 MiB of its buffer, as with the default of 1 MiB
  Faults,           \* the kinds of fault that may happen
  MaxFaults,        \* how many kinds of fault may meet in one session
  MaxSessions       \* how many times the client is run

Blocks     == 0 .. (NumBlocks - 1)
FaultKinds == {"client_hash", "server_hash", "network", "disk",
               "client_crash", "server_crash", "late_write"}

ASSUME SessionAssumption ==
  /\ NumBlocks \in Nat \ {0}     \* an empty source is refused
  /\ ClientWorkers \in Nat \ {0} /\ ServerWorkers \in Nat \ {0}
  /\ NetCap \in Nat \ {0}
  /\ Blocks \cap OldHalves = {}
  /\ PieceHalves \in {1, 2}
  /\ Faults \subseteq FaultKinds
  /\ MaxFaults \in Nat /\ MaxSessions \in Nat \ {0}

VARIABLES
  (* the client: client.rs, new_process() *)
  cpc,              \* "loop", "compare", "leaving", "dropping" or "done"
  cresult,          \* "none", "ok", "err" or "crashed"
  remote_hashes, remote_hashes_done, hash_comparison_over, block_idx,
  blocks_idx_to_send,
  wblock,           \* resumable_write_block: <<idx, block, step>> or None
  ch_hashed, ch_yielded, ch_held, ch_failed, ch_status, \* its HashStream
  (* the server: server.rs, process_new_client() *)
  spc,              \* "loop", "hash", "seeking", "flushing", "leaving", "done"
  sresult,          \* "none", "ack", "err" or "crashed"
  rblock,           \* resumable_read_file_block: <<idx>> once read, or None
  dblock,           \* write_buffer still to be written, from which half on:
                    \* <<idx, data, half>> or None
  whash,            \* resumable_write_hash: <<digest>> or None
  hashing_done,
  sh_hashed, sh_yielded, sh_held, sh_failed, sh_status, \* its HashStream
  image,            \* what its workers read of each block
  (* the destination, behind tokio::fs::File *)
  dest, fop, ferr,  \* contents, write in flight, error not yet reported
  late,             \* writes that earlier sessions have left in flight
  (* the connection *)
  c2s, s2c, net_up,
  (* history *)
  orig,             \* the destination when this session began
  sent,             \* blocks the client has written to the connection
  received,         \* blocks the server has received in full
  faulty,           \* the kinds of fault that happened in this session
  session           \* its number

cstream == <<ch_hashed, ch_yielded, ch_held, ch_failed, ch_status>>
sstream == <<sh_hashed, sh_yielded, sh_held, sh_failed, sh_status>>
ctask   == <<cpc, cresult>>
stask   == <<spc, sresult>>
compare == <<remote_hashes, remote_hashes_done, hash_comparison_over, block_idx>>
writes  == <<blocks_idx_to_send, wblock>>
incoming == <<rblock, dblock, received>>
outgoing == <<whash, hashing_done, image>>
disk    == <<dest, fop, ferr, late>>
net     == <<c2s, s2c, net_up>>
cvars   == <<ctask, compare, writes, cstream, sent>>
svars   == <<stask, incoming, outgoing, sstream>>
run     == <<orig, faulty, session>>
vars    == <<cvars, svars, disk, net, run>>

CH == INSTANCE HashStream
        WITH Workers <- ClientWorkers, hashed <- ch_hashed, yielded <- ch_yielded,
             held <- ch_held, failed <- ch_failed, status <- ch_status
SH == INSTANCE HashStream
        WITH Workers <- ServerWorkers, hashed <- sh_hashed, yielded <- sh_yielded,
             held <- sh_held, failed <- sh_failed, status <- sh_status

None      == <<>>
Source(b) == <<b, b>>        \* block b of the source file
Differs(b, c) == Digest(Source(b)) # Digest(c)

-----------------------------------------------------------------------------

(* Both sides are past the handshake and have called hash_file(). *)
InitClient ==
  /\ cpc = "loop" /\ cresult = "none"
  /\ remote_hashes = <<>> /\ remote_hashes_done = FALSE
  /\ hash_comparison_over = FALSE
  /\ block_idx = 0
  /\ blocks_idx_to_send = <<>> /\ wblock = None
  /\ CH!Init
  /\ sent = {}

InitServer ==
  /\ spc = "loop" /\ sresult = "none"
  /\ rblock = None /\ dblock = None
  /\ whash = None /\ hashing_done = FALSE
  /\ SH!Init
  /\ image = [b \in Blocks |-> None]
  /\ fop = None /\ ferr = FALSE
  /\ received = {}

InitNet == c2s = <<>> /\ s2c = <<>> /\ net_up = TRUE

Init ==
  /\ InitClient /\ InitServer /\ InitNet
  /\ dest \in [Blocks -> {<<h, h>> : h \in OldHalves \cup Blocks}]
  /\ \A b \in Blocks : dest[b] = Source(b) \/ dest[b][1] \in OldHalves
  /\ orig = dest
  /\ late = {}
  /\ faulty = {} /\ session = 1

ClientGone == ~net_up \/ cpc \in {"dropping", "done"}
ServerGone == ~net_up \/ spc = "done"

Prefixes(q) == {SubSeq(q, 1, n) : n \in 0 .. Len(q)}

-----------------------------------------------------------------------------
(* The client's event loop *)

Leave(result) == cpc' = "leaving" /\ cresult' = result
GoOn          == UNCHANGED ctask

(* prepare_next_write_block(): what it leaves in resumable_write_block and *)
(* in blocks_idx_to_send.                                                  *)
NextWrite(q, w) == IF w = None /\ q # <<>> THEN Append(Head(q), 0) ELSE w
NextQueue(q, w) == IF w = None /\ q # <<>> THEN Tail(q) ELSE q

(* The write future makes progress: the offset is on its way. *)
CWriteOffset ==
  /\ cpc = "loop"
  /\ wblock # None /\ wblock[3] = 0
  /\ net_up /\ Len(c2s) < NetCap
  /\ c2s' = Append(c2s, <<"offset", wblock[1]>>)
  /\ wblock' = [wblock EXCEPT ![3] = 1]
  /\ UNCHANGED <<ctask, compare, blocks_idx_to_send, cstream, sent, s2c,
                 net_up>>

(* Mutant of AllWritten: the last block is not recognised. *)
NeverAllWritten == FALSE

(* Mutant of AllWritten: the queue is not looked at. *)
AllCompared == hash_comparison_over

(* The condition under which the client leaves its loop after a write. *)
AllWritten == hash_comparison_over /\ blocks_idx_to_send = <<>>

(* The write future is over, and its Loan is dropped: the handler. *)
AfterWrite ==
  /\ IF AllWritten THEN Leave("ok") ELSE GoOn
  /\ wblock' = NextWrite(blocks_idx_to_send, None)
  /\ blocks_idx_to_send' = NextQueue(blocks_idx_to_send, None)
  /\ CH!Release(wblock[2])
  /\ UNCHANGED compare

(* ... with the whole block written. *)
CWriteBytes ==
  /\ cpc = "loop"
  /\ wblock # None /\ wblock[3] = 1
  /\ net_up /\ Len(c2s) < NetCap
  /\ c2s' = Append(c2s, <<"bytes", Source(wblock[2])>>)
  /\ sent' = sent \cup {wblock[1]}
  /\ AfterWrite
  /\ UNCHANGED <<s2c, net_up>>

(* ... with an error, which `Some(_)' takes for success. *)
CWriteError ==
  /\ cpc = "loop"
  /\ wblock # None
  /\ ServerGone
  /\ AfterWrite
  /\ UNCHANGED <<sent, net>>

(* A hash is read at any time, also while a block is being written. *)
CReadHash ==
  /\ cpc = "loop"
  /\ ~remote_hashes_done
  /\ s2c # <<>>
  /\ remote_hashes' = Append(remote_hashes, Head(s2c))
  /\ s2c' = Tail(s2c)
  /\ UNCHANGED <<ctask, remote_hashes_done, hash_comparison_over, block_idx,
                 writes, cstream, sent, c2s, net_up>>

(* End of file or error on the connection. *)
CReadEnd ==
  /\ cpc = "loop"
  /\ ~remote_hashes_done
  /\ s2c = <<>> /\ ServerGone
  /\ remote_hashes_done' = TRUE
  /\ UNCHANGED <<ctask, remote_hashes, hash_comparison_over, block_idx,
                 writes, cstream, sent, net>>

Comparing == cpc = "loop" /\ remote_hashes # <<>> /\ ~hash_comparison_over

(* hasher.recv() returns a block ... *)
CYield ==
  /\ Comparing
  /\ CH!Yield
  /\ cpc' = "compare"
  /\ UNCHANGED <<cresult, compare, writes, sent, net>>

(* Mutant of ToSend: the counter is advanced before it is used. *)
ToSendLate(blk) == <<block_idx + 1, blk>>

(* What is queued for a block that differs: the client's own counter, and  *)
(* the Loan.  The index that comes with the hash is ignored.               *)
ToSend(blk) == <<block_idx, blk>>

(* ... and the handler compares: the block is queued, or its Loan dropped. *)
CCompare ==
  /\ cpc = "compare"
  /\ LET blk     == ch_yielded - 1
         differs == Digest(Source(blk)) # Head(remote_hashes)
         queue   == IF differs THEN Append(blocks_idx_to_send, ToSend(blk))
                    ELSE blocks_idx_to_send
     IN  /\ wblock' = NextWrite(queue, wblock)
         /\ blocks_idx_to_send' = NextQueue(queue, wblock)
         /\ IF differs THEN UNCHANGED cstream ELSE CH!Release(blk)
  /\ remote_hashes' = Tail(remote_hashes)
  /\ block_idx' = block_idx + 1
  /\ hash_comparison_over' = (block_idx + 1 = NumBlocks)
  /\ IF hash_comparison_over' /\ wblock' = None
     THEN Leave("ok") ELSE cpc' = "loop" /\ UNCHANGED cresult
  /\ UNCHANGED <<remote_hashes_done, sent, net>>

(* hasher.recv() returns Ok(None): the loop is left, new_process() is Ok. *)
CEnd ==
  /\ Comparing
  /\ CH!End
  /\ Leave("ok")
  /\ UNCHANGED <<compare, writes, sent, net>>

(* hasher.recv() returns Err, and so does new_process(). *)
CError ==
  /\ Comparing
  /\ CH!Error
  /\ Leave("err")
  /\ UNCHANGED <<compare, writes, sent, net>>

(* Locals are dropped in reverse order of declaration: the connection      *)
(* first.  If hashes are still unread, closing it resets it, and what the  *)
(* server has not got yet may be lost.                                     *)
CHangUp ==
  /\ cpc = "leaving"
  /\ cpc' = "dropping"
  /\ IF s2c = <<>> THEN UNCHANGED c2s ELSE c2s' \in Prefixes(c2s)
  /\ UNCHANGED <<cresult, compare, writes, cstream, sent, s2c, net_up>>

(* Then the Loans in resumable_write_block and blocks_idx_to_send. *)
CDropLoan ==
  /\ cpc = "dropping"
  /\ \E b \in ch_held : CH!Release(b)
  /\ UNCHANGED <<ctask, compare, writes, sent, net>>

(* Then the HashStream, whose drop() may never return. *)
CDrop ==
  /\ cpc = "dropping"
  /\ CH!Close
  /\ UNCHANGED <<ctask, compare, writes, sent, net>>

CExit ==
  /\ cpc = "dropping"
  /\ CH!Joined
  /\ cpc' = "done"
  /\ UNCHANGED <<cresult, compare, writes, sent, net>>

ClientNext ==
  /\ \/ CWriteOffset \/ CWriteBytes \/ CWriteError \/ CReadHash \/ CReadEnd
     \/ CYield \/ CCompare \/ CEnd \/ CError
     \/ CHangUp \/ CDropLoan \/ CDrop \/ CExit
  /\ UNCHANGED <<svars, disk, run>>

-----------------------------------------------------------------------------
(* The server's event loop *)

(* Mutant of ReadsBlocks: `pending_disk' is not consulted. *)
ReadsBlocksAlways == spc = "loop"

(* The guard of the branch that reads blocks. *)
ReadsBlocks == spc = "loop" /\ dblock = None

(* The future that reads a block makes progress: it has the offset. *)
SReadOffset ==
  /\ ReadsBlocks
  /\ rblock = None
  /\ c2s # <<>>
  /\ rblock' = <<Head(c2s)[2]>>
  /\ c2s' = Tail(c2s)
  /\ UNCHANGED <<stask, dblock, outgoing, sstream, received, disk, s2c, net_up>>

(* Mutant of WriteFrom: the write resumes where an earlier one stopped. *)
WriteFromMiddle == 2

(* The half that the write of a new block starts with: offset 0. *)
WriteFrom == 1

(* The block is complete: the buffers are swapped, and seek() awaited. *)
SReadBytes ==
  /\ ReadsBlocks
  /\ rblock # None
  /\ c2s # <<>>
  /\ dblock' = <<rblock[1], Head(c2s)[2], WriteFrom>>
  /\ rblock' = None
  /\ received' = received \cup {rblock[1]}
  /\ c2s' = Tail(c2s)
  /\ spc' = "seeking"
  /\ UNCHANGED <<sresult, outgoing, sstream, disk, s2c, net_up>>

(* seek() first waits for the write in flight; its error is kept for the   *)
(* next write.                                                             *)
SSeek ==
  /\ spc = "seeking"
  /\ fop = None
  /\ spc' = "loop"
  /\ UNCHANGED <<sresult, incoming, outgoing, sstream, disk, net>>

(* Handing over w[3] and what fits of the halves after it leaves this. *)
After(w, halves) ==
  IF w[3] + halves > 2 THEN None ELSE <<w[1], w[2], w[3] + halves>>

(* write_all() hands the next piece of its buffer to the blocking pool, as *)
(* soon as the piece before is written; with the last piece it is done.    *)
SDiskWrite ==
  /\ spc = "loop" /\ dblock # None
  /\ fop = None /\ ~ferr
  /\ fop' = dblock
  /\ dblock' = After(dblock, PieceHalves)
  /\ UNCHANGED <<stask, rblock, outgoing, sstream, received, dest, ferr, late,
                 net>>

(* write_all() reports the error of the write before, which `Some(_)'      *)
(* takes for success: this block, or the rest of it, is not written.       *)
SDiskError ==
  /\ spc = "loop" /\ dblock # None
  /\ fop = None /\ ferr
  /\ ferr' = FALSE
  /\ dblock' = None
  /\ UNCHANGED <<stask, rblock, outgoing, sstream, received, dest, fop, late,
                 net>>

(* Mutant of Eof: an end of file inside a block is not noticed. *)
EofBetweenBlocks == c2s = <<>> /\ ClientGone /\ rblock = None

(* read() has nothing more to return. *)
Eof == c2s = <<>> /\ ClientGone

(* Connection closed, or broken: taken as the end of the synchronisation.  *)
(* What was received of an incomplete block is forgotten.                  *)
SEof ==
  /\ ReadsBlocks
  /\ Eof
  /\ spc' = "flushing"
  /\ UNCHANGED <<sresult, incoming, outgoing, sstream, disk, net>>

(* flush() waits for the write in flight and reports its error; then       *)
(* sync_data().                                                            *)
SFlush ==
  /\ spc = "flushing"
  /\ fop = None
  /\ sresult' = IF ferr THEN "err" ELSE "ack"
  /\ ferr' = FALSE
  /\ spc' = "leaving"
  /\ UNCHANGED <<incoming, outgoing, sstream, dest, fop, late, net>>

SHashWritten ==
  /\ spc = "loop" /\ whash # None
  /\ net_up /\ Len(s2c) < NetCap
  /\ s2c' = Append(s2c, whash[1])
  /\ whash' = None
  /\ UNCHANGED <<stask, incoming, hashing_done, sstream, image, disk, c2s,
                 net_up>>

(* The write of a hash fails, which `Some(_)' takes for success. *)
SHashError ==
  /\ spc = "loop" /\ whash # None
  /\ ClientGone
  /\ whash' = None
  /\ UNCHANGED <<stask, incoming, hashing_done, sstream, image, disk, net>>

Hashing == spc = "loop" /\ whash = None /\ ~hashing_done

(* hasher.recv() returns a block ... *)
SYield ==
  /\ Hashing
  /\ SH!Yield
  /\ spc' = "hash"
  /\ UNCHANGED <<sresult, incoming, outgoing, disk, net>>

(* ... and the handler keeps its hash and drops its Loan. *)
SHash ==
  /\ spc = "hash"
  /\ LET blk == sh_yielded - 1
     IN  /\ whash' = <<Digest(image[blk])>>
         /\ SH!Release(blk)
  /\ spc' = "loop"
  /\ UNCHANGED <<sresult, incoming, hashing_done, image, disk, net>>

(* hasher.recv() returns Ok(None). *)
SHashEnd ==
  /\ Hashing
  /\ SH!End
  /\ hashing_done' = TRUE
  /\ UNCHANGED <<stask, incoming, whash, image, disk, net>>

(* hasher.recv() returns Err, and so does process_new_client(). *)
SError ==
  /\ Hashing
  /\ SH!Error
  /\ spc' = "leaving" /\ sresult' = "err"
  /\ UNCHANGED <<incoming, outgoing, disk, net>>

(* The HashStream is dropped; its drop() may never return ... *)
SDrop ==
  /\ spc = "leaving"
  /\ SH!Close
  /\ UNCHANGED <<stask, incoming, outgoing, disk, net>>

(* ... but if it does, main.rs drops the connection.  If blocks are still  *)
(* unread that resets it.                                                  *)
SExit ==
  /\ spc = "leaving"
  /\ SH!Joined
  /\ spc' = "done"
  /\ IF c2s = <<>> THEN UNCHANGED s2c ELSE s2c' \in Prefixes(s2c)
  /\ UNCHANGED <<sresult, incoming, outgoing, disk, c2s, net_up>>

ServerNext ==
  /\ \/ SReadOffset \/ SReadBytes \/ SSeek \/ SDiskWrite \/ SDiskError \/ SEof
     \/ SFlush \/ SHashWritten \/ SHashError \/ SYield \/ SHash \/ SHashEnd
     \/ SError \/ SDrop \/ SExit
  /\ UNCHANGED <<cvars, run>>

-----------------------------------------------------------------------------
(* The threads: hash workers, and the blocking pool that writes the file *)

CWorker ==
  /\ cpc # "done"
  /\ \E b \in Blocks : CH!Hash(b)
  /\ UNCHANGED <<ctask, compare, writes, sent, svars, disk, net, run>>

(* A worker of the server reads the file that is being written. *)
SWorker ==
  /\ spc # "done"
  /\ \E b \in Blocks : SH!Hash(b) /\ image' = [image EXCEPT ![b] = dest[b]]
  /\ UNCHANGED <<stask, incoming, whash, hashing_done, cvars, disk, net, run>>

Written(w) == [dest EXCEPT ![w[1]][w[3]] = w[2][w[3]]]

(* What is left of the piece w once its first half is written. *)
Rest(w) == IF PieceHalves = 1 THEN None ELSE After(w, 1)

(* One half of the block reaches the file. *)
FWrite ==
  /\ fop # None
  /\ dest' = Written(fop)
  /\ fop' = Rest(fop)
  /\ UNCHANGED <<cvars, svars, ferr, late, net, run>>

(* ... or of a block of an earlier session, which has failed since. *)
LateWrite ==
  /\ \E w \in late :
       /\ dest' = Written(w)
       /\ late' = (late \ {w}) \cup ({Rest(w)} \ {None})
  /\ UNCHANGED <<cvars, svars, fop, ferr, net, run>>

(* ... or does not; nobody will know. *)
LateFails ==
  /\ "disk" \in Faults
  /\ \E w \in late : late' = late \ {w}
  /\ UNCHANGED <<cvars, svars, dest, fop, ferr, net, run>>

-----------------------------------------------------------------------------
(* Faults *)

Fault(kind) ==
  /\ kind \in Faults
  /\ faulty' = faulty \cup {kind} /\ Cardinality(faulty') <= MaxFaults
  /\ UNCHANGED <<orig, session>>

CHashFails ==
  /\ Fault("client_hash")
  /\ cpc # "done" /\ ~ch_failed /\ CH!Fail
  /\ UNCHANGED <<ctask, compare, writes, sent, svars, disk, net>>

SHashFails ==
  /\ Fault("server_hash")
  /\ spc # "done" /\ ~sh_failed /\ SH!Fail
  /\ UNCHANGED <<stask, incoming, outgoing, cvars, disk, net>>

(* The connection breaks; each side may still read what it already got. *)
NetBreaks ==
  /\ Fault("network")
  /\ net_up /\ net_up' = FALSE
  /\ c2s' \in Prefixes(c2s) /\ s2c' \in Prefixes(s2c)
  /\ UNCHANGED <<cvars, svars, disk>>

(* The write in flight fails: tokio keeps the error. *)
DiskFails ==
  /\ Fault("disk")
  /\ fop # None
  /\ fop' = None /\ ferr' = TRUE
  /\ UNCHANGED <<cvars, svars, dest, late, net>>

(* seek(), flush() or sync_data() fails, and process_new_client() with it. *)
SFileFails ==
  /\ Fault("disk")
  /\ spc \in {"seeking", "flushing"} /\ fop = None
  /\ spc' = "leaving" /\ sresult' = "err"
  /\ UNCHANGED <<incoming, outgoing, sstream, cvars, disk, net>>

CCrash ==
  /\ Fault("client_crash")
  /\ cpc # "done"
  /\ cpc' = "done" /\ cresult' = "crashed"
  /\ c2s' \in Prefixes(c2s)
  /\ UNCHANGED <<compare, writes, cstream, sent, svars, disk, s2c, net_up>>

SCrash ==
  /\ Fault("server_crash")
  /\ spc # "done"
  /\ spc' = "done" /\ sresult' = "crashed"
  /\ fop' = None /\ late' = {}
  /\ s2c' \in Prefixes(s2c)
  /\ UNCHANGED <<incoming, outgoing, sstream, cvars, dest, ferr, c2s, net_up>>

FaultNext ==
  \/ CHashFails \/ SHashFails \/ NetBreaks
  \/ DiskFails \/ SFileFails \/ CCrash \/ SCrash

(* Both tasks are gone, and the client is run again on the same file.  A   *)
(* session that failed does not wait for its last write: a server that     *)
(* serves the next client may still be writing for the one before.         *)
NewSession ==
  /\ cpc = "done" /\ spc = "done"
  /\ session < MaxSessions
  /\ late' = late \cup ({fop} \ {None})
  /\ late' # {} => "late_write" \in Faults
  /\ faulty' = IF late' = {} THEN {} ELSE {"late_write"}
  (* InitClient' *)
  /\ cpc' = "loop" /\ cresult' = "none"
  /\ remote_hashes' = <<>> /\ remote_hashes_done' = FALSE
  /\ hash_comparison_over' = FALSE
  /\ block_idx' = 0
  /\ blocks_idx_to_send' = <<>> /\ wblock' = None
  /\ ch_hashed' = {} /\ ch_yielded' = 0 /\ ch_held' = {}
  /\ ch_failed' = FALSE /\ ch_status' = "open"
  /\ sent' = {}
  (* InitServer' *)
  /\ spc' = "loop" /\ sresult' = "none"
  /\ rblock' = None /\ dblock' = None
  /\ whash' = None /\ hashing_done' = FALSE
  /\ sh_hashed' = {} /\ sh_yielded' = 0 /\ sh_held' = {}
  /\ sh_failed' = FALSE /\ sh_status' = "open"
  /\ image' = [b \in Blocks |-> None]
  /\ fop' = None /\ ferr' = FALSE
  /\ received' = {}
  (* InitNet', on the file as it is *)
  /\ c2s' = <<>> /\ s2c' = <<>> /\ net_up' = TRUE
  /\ dest' = dest /\ orig' = dest
  /\ session' = session + 1

Finished ==
  /\ cpc = "done" /\ spc = "done" /\ fop = None /\ late = {}
  /\ session = MaxSessions
  /\ UNCHANGED vars

-----------------------------------------------------------------------------

Next ==
  \/ ClientNext \/ ServerNext \/ CWorker \/ SWorker
  \/ FWrite \/ LateWrite \/ LateFails
  \/ FaultNext \/ NewSession \/ Finished

Spec == Init /\ [][Next]_vars

(* Event loops and threads keep running; nothing has to fail, and the      *)
(* client need not be run again.  Every step is progress, so that it does  *)
(* not matter which branch of a loop is taken.  Dropping a HashStream that *)
(* is not stuck returns: DropReturnsIfBufferEmpty of HashFile.             *)
Fairness ==
  /\ WF_vars(ClientNext) /\ WF_vars(ServerNext)
  /\ WF_vars(CWorker) /\ WF_vars(SWorker)
  /\ WF_vars(FWrite) /\ WF_vars(LateWrite)

FairSpec == Spec /\ Fairness

-----------------------------------------------------------------------------
(* Properties *)

Halves == OldHalves \cup Blocks

(* Every variable has its type; the connection respects its capacity, and  *)
(* the client's counter stays in step with its HashStream.                 *)
TypeOK ==
  /\ cpc \in {"loop", "compare", "leaving", "dropping", "done"}
  /\ spc \in {"loop", "hash", "seeking", "flushing", "leaving", "done"}
  /\ cresult \in {"none", "ok", "err", "crashed"}
  /\ sresult \in {"none", "ack", "err", "crashed"}
  /\ \/ block_idx = ch_yielded
     \/ block_idx = ch_yielded - 1 /\ cpc \in {"compare", "done"}
  /\ Len(remote_hashes) <= NumBlocks /\ Len(blocks_idx_to_send) <= NumBlocks
  /\ Len(c2s) <= NetCap /\ Len(s2c) <= NetCap
  /\ dest \in [Blocks -> Halves \X Halves]
  /\ sent \subseteq Blocks /\ received \subseteq Blocks

(* No write of an earlier session was in flight when this one began. *)
Alone == "late_write" \notin faulty

(* The server hashes a file that it is writing, with no lock.  Still each  *)
(* hash is that of the block as it was when the session began: a block is  *)
(* not written before its own hash went out.                               *)
HashesOfOriginal == Alone => \A b \in sh_hashed : image[b] = orig[b]

(* The server only touches blocks whose hash differed, and never puts      *)
(* anything else there than that block of the source.  The latter also     *)
(* when a write of an earlier session comes late.                          *)
OnlyDivergentWritten ==
  \A b \in Blocks :
    dest[b] # orig[b] =>
      /\ Alone => Differs(b, orig[b])
      /\ \A h \in {1, 2} : dest[b][h] \in {orig[b][h], Source(b)[h]}

(* A synchronisation in which nothing failed leaves the source's contents  *)
(* in every block whose hash differed and leaves the others alone, also    *)
(* when it repairs what an earlier, interrupted one has left.              *)
Converges ==
  (cpc = "done" /\ spc = "done" /\ fop = None /\ faulty = {}) =>
    \A b \in Blocks :
      dest[b] = IF Differs(b, orig[b]) THEN Source(b) ELSE orig[b]

(* The faults that may leave a block half written.  When its own hasher    *)
(* fails, the server leaves its loop between two pieces of a block.        *)
Tearing == {"disk", "server_crash", "late_write"}
             \cup (IF PieceHalves = 1 THEN {"server_hash"} ELSE {})

(* If the connection is interrupted, or the client dies, "blocks written   *)
(* to disk before the interruption are persisted" and no block is left     *)
(* half written: the part received of a block is never written, and a      *)
(* block received is written to its end, however many pieces that takes.   *)
WholeBlocks ==
  (spc = "done" /\ fop = None /\ faulty \cap Tearing = {}) =>
    \A b \in Blocks : dest[b] \in {orig[b], Source(b)}

(* The status Ack means success: every block received is in the file. *)
AckMeansWritten ==
  sresult = "ack" => \A b \in received : dest[b] = Source(b)

(* ... which holds as long as the disk takes what is written to it.        *)
AckUnlessDiskFails == "disk" \notin faulty => AckMeansWritten

(* The client returns Ok only when "all hashes have been compared and all  *)
(* diverging blocks have been sent".                                       *)
OkMeansAllSent ==
  cresult = "ok" =>
    /\ block_idx = NumBlocks
    /\ \A b \in Blocks : Differs(b, orig[b]) => b \in sent

(* ... which holds as long as the server, the connection and the client's  *)
(* own hasher do not fail.                                                 *)
OkUnlessCut == faulty = {} => OkMeansAllSent

(* Neither side hangs in the drop of its HashStream, unless something      *)
(* failed.                                                                 *)
DropsReturn == faulty = {} => ch_status # "stuck" /\ sh_status # "stuck"

(* The server has its result, but dropping its HashStream does not return. *)
ServerStuck == sresult # "none" /\ sh_status = "stuck"

(* Both sides come to an end, however small the buffers of the connection: *)
(* no deadlock by back-pressure, and no drop of a HashStream that hangs    *)
(* unless something failed.  The client may also die, but not the          *)
(* connection, for which see ClientExits.                                  *)
BothFinish ==
  <>(\/ "network" \in faulty
     \/ cpc = "done" /\ (spc = "done" \/ (faulty # {} /\ ServerStuck)))

(* The server has its result soon after the client is gone, for whatever   *)
(* reason, and is done unless its HashStream is stuck.                     *)
ServerFollows == ClientGone ~> (spc = "done" \/ ServerStuck)

(* The client comes to an end whatever happens to the server's hasher      *)
(* ("Fix possible deadlock when hasher fails to read file"), unless the    *)
(* server hangs.                                                           *)
ClientExits == <>(cpc = "done" \/ ServerStuck)

-----------------------------------------------------------------------------
(* Why the safety properties hold *)

(* The server has hashed block b, and got another hash than the client. *)
Divergent(b) == b \in sh_hashed /\ Differs(b, image[b])

Digests  == {Digest(c) : c \in Halves \X Halves}
Messages == {<<"offset", b>> : b \in Blocks}
              \cup {<<"bytes", Source(b)>> : b \in Blocks}

Shapes ==
  /\ TypeOK
  /\ block_idx \in 0 .. NumBlocks /\ ch_yielded \in Nat
  /\ hash_comparison_over => block_idx = NumBlocks
  /\ cpc = "compare" => remote_hashes # <<>> /\ ch_yielded = block_idx + 1
  /\ remote_hashes \in Seq(Digests) /\ s2c \in Seq(Digests)
  /\ c2s \in Seq(Messages)
  /\ blocks_idx_to_send \in Seq({<<b, b>> : b \in Blocks})
  /\ Len(blocks_idx_to_send) <= block_idx
  /\ ch_hashed \subseteq Blocks
  /\ sh_hashed \subseteq Blocks /\ sh_yielded \in 0 .. NumBlocks
  /\ \A b \in Blocks : b < sh_yielded => b \in sh_hashed
  /\ orig \in [Blocks -> Halves \X Halves]
  /\ image \in [Blocks -> (Halves \X Halves) \cup {None}]
  /\ \A b \in sh_hashed : image[b] \in Halves \X Halves

(* Every block on its way from the comparison to the disk has been hashed  *)
(* by the server, and differed; it carries its own index and bytes.        *)
OnTheWay ==
  /\ \A k \in 1 .. Len(blocks_idx_to_send) : Divergent(blocks_idx_to_send[k][1])
  /\ wblock = None
       \/ \E b \in Blocks, s \in {0, 1} : wblock = <<b, b, s>> /\ Divergent(b)
  /\ \A k \in 1 .. Len(c2s) : c2s[k][1] = "offset" => Divergent(c2s[k][2])
  /\ rblock = None \/ \E b \in Blocks : rblock = <<b>> /\ Divergent(b)
  /\ dblock = None
       \/ \E b \in Blocks, h \in {1, 2} : dblock = <<b, Source(b), h>> /\ Divergent(b)
  /\ fop = None
       \/ \E b \in Blocks, h \in {1, 2} : fop = <<b, Source(b), h>> /\ Divergent(b)
  /\ \A w \in late : \E b \in Blocks, h \in {1, 2} : w = <<b, Source(b), h>>

(* Hashes carry no index: while the client compares, the position of each  *)
(* one, counted from block_idx, is the block it belongs to.                *)
InHand == IF whash # None \/ spc = "hash" THEN 1 ELSE 0

HashFlow ==
  /\ spc = "hash" => sh_yielded > 0 /\ whash = None
  /\ whash # None => sh_yielded > 0 /\ whash = <<Digest(image[sh_yielded - 1])>>
  /\ cpc \in {"loop", "compare"} =>
       /\ \A k \in 1 .. Len(remote_hashes) :
            /\ block_idx + k <= sh_yielded
            /\ remote_hashes[k] = Digest(image[block_idx + k - 1])
       /\ \A k \in 1 .. Len(s2c) :
            /\ block_idx + Len(remote_hashes) + k <= sh_yielded
            /\ s2c[k] = Digest(image[block_idx + Len(remote_hashes) + k - 1])
       /\ net_up /\ spc # "done" =>
            block_idx + Len(remote_hashes) + Len(s2c) + InHand = sh_yielded

(* Offsets and bytes alternate, each block's bytes after its own offset:   *)
(* Expects(m) is what the server remembers of m, Fits what it can take.    *)
Expects(m) == IF m[1] = "offset" THEN <<m[2]>> ELSE None
Fits(r, m) ==
  \E b \in Blocks : \/ r = None /\ m = <<"offset", b>>
                    \/ r = <<b>> /\ m = <<"bytes", Source(b)>>
Begun == IF wblock # None /\ wblock[3] = 1 THEN <<wblock[1]>> ELSE None

BlockFlow ==
  spc # "done" =>
    /\ c2s # <<>> => Fits(rblock, c2s[1])
    /\ \A k \in 1 .. (Len(c2s) - 1) : Fits(Expects(c2s[k]), c2s[k + 1])
    /\ net_up /\ cpc \in {"loop", "compare"} =>
         Begun = IF c2s = <<>> THEN rblock ELSE Expects(c2s[Len(c2s)])

(* The first half of w is in the file. *)
HalfDone(w) == dest[w[1]][1] = w[1]

OnDisk ==
  /\ HashesOfOriginal
  /\ Alone => late = {} /\ \A b \in Blocks : dest[b] # orig[b] => Divergent(b)
  /\ \A b \in Blocks, h \in {1, 2} : dest[b][h] \in {orig[b][h], b}
  /\ fop # None /\ fop[3] = 2 => HalfDone(fop)
  /\ fop # None /\ fop[3] = 1 /\ PieceHalves = 1 =>
       dblock = <<fop[1], fop[2], 2>>
  /\ dblock # None /\ dblock[3] = 2 =>
       /\ PieceHalves = 1
       /\ \/ HalfDone(dblock) \/ ferr \/ "server_crash" \in faulty
          \/ fop = <<dblock[1], dblock[2], 1>>
  /\ faulty \cap {"disk", "server_crash", "late_write"} = {} =>
       \A b \in Blocks :
         \/ dest[b] \in {orig[b], Source(b)}
         \/ <<b, Source(b), 2>> \in {fop, dblock}

(* A block that was received is in the file, or will be. *)
Kept ==
  /\ spc \notin {"leaving", "done"} => sresult = "none"
  /\ spc = "flushing" => dblock = None
  /\ sresult = "ack" => dblock = None /\ fop = None
  /\ sh_failed => "server_hash" \in faulty
  /\ sresult = "crashed" => "server_crash" \in faulty
  /\ "server_crash" \in faulty => spc = "done"
  /\ sresult = "err" => "disk" \in faulty \/ "server_hash" \in faulty
  /\ spc \in {"leaving", "done"} => sresult # "none"
  /\ "disk" \notin faulty =>
       /\ ~ferr
       /\ sresult \in {"none", "ack"} =>
            \A b \in received :
              \/ dest[b] = Source(b)
              \/ dblock # None /\ dblock[1] = b
              \/ fop # None /\ fop[1] = b

(* While nothing fails, no block that differs is lost on the way. *)
Queued(b) == \/ wblock # None /\ wblock[1] = b
             \/ \E k \in 1 .. Len(blocks_idx_to_send) : blocks_idx_to_send[k][1] = b

NothingLost ==
  faulty = {} =>
    /\ net_up /\ ~ch_failed /\ ~sh_failed
    /\ \A b \in Blocks :
         b < block_idx /\ Differs(b, orig[b]) => b \in sent \/ Queued(b)
    /\ \A b \in sent :
         \/ b \in received
         \/ \E k \in 1 .. Len(c2s) : c2s[k] = <<"bytes", Source(b)>>
    /\ cresult = "none" <=> cpc \in {"loop", "compare"}
    /\ cresult # "none" =>
         /\ block_idx = NumBlocks /\ blocks_idx_to_send = <<>> /\ wblock = None
         /\ s2c = <<>> /\ sh_yielded = NumBlocks /\ InHand = 0
    /\ spc \in {"flushing", "leaving", "done"} =>
         cpc \in {"dropping", "done"} /\ c2s = <<>>
    /\ sresult = IF spc \in {"leaving", "done"} THEN "ack" ELSE "none"
    /\ ch_status # "stuck" /\ sh_status # "stuck"

(* The inductive invariant that implies every safety property above. *)
IInv ==
  /\ Shapes /\ OnTheWay /\ HashFlow /\ BlockFlow /\ OnDisk /\ Kept
  /\ NothingLost
=============================================================================
