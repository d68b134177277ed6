# deltasync in TLA+

deltasync makes a file on a server equal to a file on a client by sending only
the blocks whose hashes differ. Both sides hash their file in parallel; the
server streams its hashes, the client compares and sends the blocks that
diverge, the server writes them in place. Everything else in the program serves
to do these things at the same time on one thread of I/O per process, with
hash workers as separate threads.

This directory holds TLA+ models of that machinery, the instances TLC checks,
and proofs, checked by TLAPS, that the safety properties hold for every file,
every number of workers and clients, and every fault considered. Source paths
are relative to the repository; the code is in `src/`.

## The system and its parts

| Part | Code | State it owns | Modelled in |
|---|---|---|---|
| Ordered channel | `sync.rs` 59-216 | `SharedState` under a mutex, a condition variable, an mpsc channel of capacity 1 | `OrderedChannel`, promise in `OrderedDelivery` |
| Loan / Reclaim | `sync.rs` 5-57 | which buffers are lent | `HashFile` (`LoansOut`, `Reclaimable`, `CRelease`) |
| Hash workers, `HashStream` | `hash_file.rs` | one offset and one buffer per worker, the error watch channel | `HashFile`, promise in `HashStream` |
| Client event loop | `client.rs` 68-164 | hashes received, blocks to send, block being sent | `Session` |
| Server event loop | `server.rs` 81-158, `main.rs` 173-185 | block being received, block being written, hash being sent | `Session` |
| Resumable I/O, framing | `common.rs` 72-311 | progress inside one message | `Framing`, `BlockFraming`, `StringFraming`, promise in `MessageStream` |
| Handshake | `client.rs` 28-74, `server.rs` 13-82, `common.rs` 8-70 | the destination's existence and size | `Server` |
| Accept loop, one-shot | `main.rs` 150-194 | `client_count` | `Server` |
| Remote start | `remote_start.rs`, `main.rs` 136-143, 200-218 | the uploaded program, the remote process | `RemoteStart` |
| Hash algorithms | `hash_file.rs` 21-28 | none | the parameter `Digest` of `Session` |
| Command line, paths | `main.rs` 35-130, `utils.rs` | none | no, see below |

How they interact: a client may start the server over SSH; then it connects,
and the accept loop hands it to a handler or refuses it. The handshake leaves
the destination open and at the size of the source. `hash_file()` starts the
workers. Worker *w* of *n* reads
blocks *w, w+n, w+2n, ...*, lends its one buffer with each hash and sends both
through the ordered channel, which makes a thread wait until its index is the
next one. An event loop pulls from the stream with `HashStream::recv()`, a
future that another branch of `select!` may cancel at any time. A worker gets
its buffer back when the event loop drops the Loan, so a client that is slow to
send blocks stops its own workers. Hashes flow from server to client and blocks
from client to server on one TCP connection, whose end is the only sign of
completion.

## The modules

```
OrderedDelivery <- OrderedChannel <- HashFile -> HashStream <- Session
Framing <- BlockFraming, StringFraming -> MessageStream
Server <- RemoteStart
```

An arrow from a detailed specification to an abstract one is an implementation,
checked and proved (`Delivery`, `Stream`, `Hashes`; `Changes`, of blocks, is only
proved) or, for `Session`, the use of the
abstract one as a component (`CH`, `SH`). `HashFile` uses the actions of
`OrderedChannel` for its workers and its consumer. `RemoteStart` extends
`Server`. A module `MCx` holds the constants of the instances of `x`, a module
`xProofs` the theorems about it.

### OrderedChannel

A value is identified with its index. The variables `wanted_idx`,
`recv_closed` and `receiving` are the fields of `SharedState`; `queue` and
`inner_closed` are the mpsc channel. A critical section is one step, with one
exception: `send()` calls `blocking_send()` with the mutex held, so `SendReady`
takes the mutex (`lock`) and `SendPush` gives it back, and every other critical
section needs `lock` to be free. `recv()` is three steps, `RecvEnter` (ask for
an index), `RecvTake` (await the mpsc channel) and `RecvFinish`; `RecvCancel`
drops it at its only await point. Threads sleep and wake by `NotifyAll` or
spuriously. Closing from either side and dropping either end are actions.
`SendCall` takes an index no one has sent before: this is what the callers owe
the channel, and `UsesChannelWell` checks it for the only caller.

The error of `blocking_send()` has no action: it needs a closed mpsc channel,
and `PushNeverBlocks` proves that there is none.

### HashFile

One process per worker (`wpc`, `wblk`) and the consumer (`cpc`, `cend`,
`held`). A block is its number. `WOpen`, `WLoop`, `WRead`, `WSend`, `WAdvance`
follow the body of the thread in order; `WFail` and `WClose` are its error
paths, two steps because the watch channel is written before the channel is
closed. `CCall` ... `CError` are `HashStream::recv()` with its unbiased
`select!`: when the end of the channel and an error are both ready either may be
returned. `CCancel` is its cancellation, `CRelease` the drop of a Loan, `CDrop`
and `CJoined` are `HashStream::drop` (close, join, and only then the fields).

The workers are at least one: `-w 0` is accepted by the command line but starts
no thread.

### HashStream

The same without threads: blocks are hashed when their buffer is free, yielded
in order, released; after a failure the stream may end with or without an
error. Dropping the stream (`Close`, `Joined`) closes the channel and joins the
workers. It may hang (`"stuck"`) if the next block was hashed and not yet
yielded (`MayBeBuffered`): its Loan may be in the channel, where a cancelled
`recv()` has left it, and its worker waits for it for ever. `IsHashStream` shows
that `HashFile` implements all this.

### Session

Both event loops after the handshake, with two `HashStream`s, one FIFO per
direction of at most `NetCap` messages, and the destination file. One step is
the handler of one branch of `select!`, or the progress of a future that stays
pending. The order in which a `biased` select looks at its branches is not
used: every property holds for any choice among the branches that are ready.

* On disk a block is a pair of halves, so that a write can be cut. On the wire
  a block is two messages, its offset and its bytes, so that a transfer can be
  cut inside a block; a hash is one message.
* `tokio::fs::File` is modelled from its documented behaviour: `write` hands
  at most 2 MiB to a thread and returns (`SDiskWrite`, then `FWrite`), a
  failed write is remembered (`ferr`) and reported by the next write
  (`SDiskError`) or by `flush` (`SFlush`), `seek` waits for the write in flight.
  `PieceHalves` says whether a block, of 1 MiB by default and 1 GiB at most, is
  one piece or two; with two the loop of `write_all()` awaits the first before
  it hands over the second, and another branch may end the session in between.
* `CHangUp`, `CDropLoan`, `CDrop`, `CExit` are the locals of `new_process()`
  dropped in reverse order of declaration. Closing a connection that has unread
  data resets it, and what was in flight may be lost. `SDrop` and `SExit` are
  the same on the server. Either drop of a `HashStream` may hang, as in
  `HashStream`.
* Faults, each enabled by a member of `Faults`: a hash worker of either side
  fails, the connection breaks, a disk write (or seek, flush, sync) fails,
  either process dies. At most `MaxFaults` kinds meet in one session.
* `NewSession` runs the client again on the file that the last session left. A
  session that fails does not wait for its last write, which may then still be
  in flight (`late`): it is written, or fails, at any time in the next session
  (`LateWrite`, `LateFails`), which counts as a fault of that session,
  `late_write`.
* `Digest` is any function: the instances have one collision, since two
  different blocks with the same hash are left alone by design.

Left out: the progress timer, which changes no state; the `else` branches,
which cannot be taken (the timer never ends; on the server one of the two first
branches is always enabled); the final status byte, which is written to a
client that is gone.

### Framing, BlockFraming, StringFraming

What `Session` takes for granted, that a message arrives as it was sent, byte
by byte. `BlockFraming` is `ResumableWriteFileBlock` (`NextBlock`,
`WriteOffset`, `WritePayload`), `ResumableReadFileBlock::read_on()` (`Enter`,
`ReadHeader`, `ReadPayload`, `BlockReceived`) and `ResumableAsyncWriteAll`
(`DiskWrite`); `StringFraming` is `ResumableWriteString` and
`ResumableReadString`. A header is `HeaderLen` bytes of base `Base`, 8 and 256
in the code, and `Encode` and `Decode` are its two loops. Each read or write
moves any number of bytes that the connection allows. `Dropped` is the reader's
future losing a race in `select!`: the locals are gone, the struct and the
buffer stay. `Cut` ends the connection at any byte.

`MessageStream` is what the event loops see of all this: messages arrive whole,
in order, each once. It has no bytes, and is what the two queues of `Session`
are, but for their capacity.

The client measures its file twice, in the handshake and in `hash_file()`.
`HashedSizes` says what the second measurement may find: in the instance the
same size, one or two bytes less, or two more. A block carries no length, so
when the source has grown the server takes the rest of the last block for the
start of another; `NotGrown` is the condition under which that cannot happen.
The subtraction `file_size - offset` wraps around as in a release build.

### Server and RemoteStart

The server process (`srv`, `client_count`, `backlog`), one handler and one
client per member of `Clients`. The client sends six fields, always in the same
order, so that what is on its way is told by two counters, `wrote` and `read`;
the Acks by `acked` and `got`, and the last status by `last`. A request says
which field the server will not accept (`flaw`), the size and force flag, and
what the client itself trips over (`bad`): a path that is not UTF-8, or a source
that cannot be opened or is empty. `Access` lists what the file system may allow
the server to do. `FileOutcome` and `FileAfter` are the `match` on `metadata()`:
what is answered, and what becomes of the file. `HEnd` is the end of the spawned
task: status, counter, connection. `Exit` is the return of `main()`, which
cancels the handler. Between the third Ack and its end a session is one state;
`Session` has its steps.

A handler that leaves its session first drops its `HashStream` (`DropHasher`):
it is `"joining"`, with the status to be written in `ret`, and then over
(`Joined`), or `"stuck"` for ever. Meanwhile the only thread of the runtime is
blocked, and nothing is accepted (`Accepting`). When `main()` returns during a
session the process may hang there as well.

TCP: closing a socket with unread input resets the connection, and a status
that was written may be lost (`IoError`). A client that was not accepted yet is
in `backlog`, and its connection dies with the process.

`RemoteStart` adds the client that starts the server: authentication and four
remote commands. The code waits for each command and ignores its exit status,
so each may do its work or not, and the next one follows; an error of the SSH
connection ends the client, before or after the remote end has done its work.
The server detaches before it binds, so `Connect` may come before `Bind`. The
port may belong to another server (`started = "other"`), whose secret is not the
one that the client has just made up; the new server then fails to bind. That
the other one exits between the client's SSH commands and its connection is the
case without another server.

## What is checked

| Run | Instance | Shows |
|---|---|---|
| `channel` | 3 senders, 4 indices | the channel's invariants, `DeliversInOrder`, `SendReturns` |
| `hashing` | 3 workers, 4 blocks, two may fail | buffers are never shared, each index is sent once, `HashFile` implements `HashStream`; all blocks arrive if nothing fails, the stream always ends, `drop` returns if the buffer is empty |
| `hashing_drop` | 2 workers, 3 blocks | **violated**: `drop` may never return |
| `session_live` | 3 blocks, 2+2 workers, `NetCap` 1, the client may die or the connection break | both sides finish, the server follows a client that is gone, unless the drop of its `HashStream` hangs; the types |
| `session_faults` | 2 blocks of 2 pieces, all faults, two at a time, 2 sessions, late writes | the file is never damaged, no block is torn but by the faults in `Tearing`, Ack means written, and a later session repairs what an earlier one left |
| `session_hash_failure` | server hash fault | **violated**: the client may wait for ever |
| `session_reset` | connection breaks | **violated**: Ok although blocks were not sent |
| `session_disk` | disk fault | **violated**: Ack although blocks were not written |
| `blocks` | headers of 2 bytes of base 3, 7 bytes in blocks of 3 | what is received is what was sent, each byte is written in its place, and all arrives; the inductive invariant |
| `strings` | the same headers, strings of 0 to 5 bytes | the same for hashes; the framing implements `MessageStream` |
| `server` | 2 clients, every refusal, every access, one-shot or not, by hand, by SSH or with another server on the port | one client at a time, agreed sizes, refused clients change nothing and are told why, a client that starts its server is served by no other; if sessions end and no drop hangs, the slot is freed, every handshake ends, one-shot servers exit |
| `server_permission` | a destination that cannot be written | **violated**: no status is returned |

Why the bounds are enough. For the channel, three senders give one that is
pushing, one that is woken for its index and one that must sleep on, and four
indices give each of them a second turn. With 3 workers and 4 blocks one
worker has two blocks and the others one, so that strides end at different
times; two that fail give every order of two failures around a third worker.
In `Session` two blocks suffice for a block in the middle of being
written while the next is compared; `session_live` has three, so that one is
being written, one is queued and one is compared, with two buffers for them.
`NetCap` 1 is the strongest back-pressure; `NetCap` 2 lets a connection break
inside a block or between two. Two kinds of fault in one session (`MaxFaults`)
give one that meets the consequences of another; the proofs have no such bound.
A block of two pieces can be left between them, which is what more pieces would
add. In the framing runs a header has two bytes, so
that it can be cut in the middle, and offsets and lengths need both of them;
three blocks give a first, a middle and a short last one; the connection holds
four bytes, which is more than a header and less than a block with its header.
The server needs two clients, one being served and one that gets in its way;
they want different sizes. One thing at a time is out of the ordinary in a
request, the rights on the destination or the way the server was started
(`Scenario`), and every one of them is. `Scenario` also leaves out combinations
with the second client's force flag that add no further outcome.

For what is proved, below, the bounds do not matter.

`CHECK_DEADLOCK FALSE` stands where the system may really stop: after a
failure in `Session`, in `drop` in `HashFile`, and in `Server`, where a server
may wait for clients for ever.

### Fairness

* `OrderedChannel`: a thread inside `send()` that can run does. Nobody has to
  call, receive, close or drop anything.
* `HashFile`: threads run. The consumer calls `recv()` again after it was
  cancelled, drops its Loans, and drops the stream after its end, which is what
  both loops do. `recv()` may be cancelled without end (by the timer, by hashes
  and writes), so its completion has strong fairness: each time the loop comes
  round the future is polled once, and a value that is there is taken.
* `Session`: weak fairness of each loop and of each kind of thread. Every step
  of a loop is progress, so which branch it takes does not matter. That a drop
  which is not stuck returns is `DropReturnsIfBufferEmpty` of `HashFile`.
* `BlockFraming`, `StringFraming`: the writer and the disk go on, and the
  reader's loop polls it again. Reading has strong fairness for the reason
  given for `recv()`: a poll takes what has arrived before it can be dropped.
* `Server`: handlers run, connections are accepted, clients in their handshake
  keep running or die. No session has to end, since the second finding shows
  one that does not: where a property needs it, `SessionsEnd` is its
  precondition, and where the server's thread hangs in a drop (`Hung`, the
  first finding) the property stops. There is no timeout in the handshake: a
  client that falls silent keeps the slot, and `SlotFreed` says nothing about
  it.

Nothing ever has to fail, cancel or be run again.

### Findings

1. `HashStream::drop` joins the workers before the mpsc buffer is dropped. A
   value that was asked for by a cancelled `recv()` may be in it, and its
   worker waits for that value's Loan. The comment in the test `dropped`
   assumes the buffer to be empty, and `DropReturnsIfBufferEmpty` shows that
   under this assumption drop returns. In `Session` and `Server` the drop may
   hang accordingly: `CleanDropsReturn` proves that this needs a failure, such
   as a client that dies, and `BothFinish`, `ServerFollows`, `SlotFreed`,
   `HandshakeEnds` and `OneShotExits` that nothing else holds up the server.
2. When a hash worker of the server fails and the server leaves with the error,
   the client keeps waiting: its progress timer keeps `else => break` from being
   taken. It also waits if `HashStream::recv` returns `Ok(None)` instead of the
   error, and then so does the server, for blocks.
3. The client treats a failed write of a block as a finished one. `OkUnlessCut`
   is what is left of the promise.
4. The server treats a failed write to disk as a finished one.
   `AckUnlessDiskFails` is what is left.
5. The architecture document says that the server returns `PermissionDenied`
   when the destination is not accessible. It does so only if `metadata()` is
   not permitted; when opening or creating the file is denied the connection is
   closed without a status.

## What is proved

Each theorem holds for every value of the constants that satisfies the named
`ASSUME` of the component's module, which TLC evaluates on its instances. In
every case the properties are not inductive by themselves; an invariant `IInv`
is, TLC checks it as an invariant of a run, and the proof has one lemma per
action.

### OrderedChannelProofs: any set of senders, any natural numbers as indices

`TypeCorrect`, `PushNeverBlocksTheorem` (`blocking_send()`, called with the
mutex held, finds room and an open channel), `NoLostWakeupTheorem` (no thread
sleeps when it has something to do), `NothingLostTheorem` (`recv()` is cancel
safe) and `Refinement` (the channel implements `OrderedDelivery`: the consumer
sees 0, 1, 2, ...).

`PushNeverBlocks` needs to know
that a sender is pushing only what was asked for and not yet handed over; that
needs the relation between the index asked for and the values delivered
(`AskingInv`), what a value in flight is (`FlightInv`), and that no index is
sent twice (`FreshInv`), without which two threads could both answer. `IInv`
adds the ownership of the mutex (`MutexInv`), what closing implies
(`ClosedInv`) and where accepted values are (`AcceptedInv`). `PushFindsRoom` is
the heart of `SendPushStep`. In the
refinement `SendCall`, `SendPush` and `RecvFinish` are `Offer`, `Accept` and
`Deliver`, and every other step stutters.

### HashFileProofs: any number of workers and blocks, any of them failing

`StridesKept`, `BuffersAreExclusive` (no worker writes to a buffer that is
lent), `ChannelUsedWell` (no block is sent twice, so that the channel's
theorems apply) and `ImplementsHashStream`.

The invariant is that of the channel, instantiated, together with what ties a
worker to it (`WorkerInv`): which blocks of its stride it has offered, when its
buffer is lent, and why it left. That no block is sent twice follows from the
strides: `DivisionUnique` and `StrideGap` are the arithmetic. The deepest step
is `EndIsTheEnd`: when all workers are gone without an error, the one whose
turn it would be has left the file behind it, hence all blocks were delivered.
For a drop that hangs, `BufferedIsNext` shows that the value left in the channel
is the next block of the stream.

### SessionProofs: any file, hash function, workers, capacity, faults, sessions

`HashesAreOfOriginal`, `OnlyDivergentBlocksWritten`, `NoTornBlocks`,
`AckedBlocksAreWritten`, `OkMeansAllWereSent`, `SynchronisationConverges` and
`CleanDropsReturn`, with `SessionTypes`. `NoTornBlocks` excepts a failing disk, a
server that dies, a write of an earlier session and, if a block takes more than
one write, a hash worker of the server that fails: `server.rs` 148 then leaves
the loop with the rest of the block unwritten.

The server's file is read by its workers while it is written, and what
orders the two is a chain around the whole system: a block is written only if
it was received, sent, found to differ, which took its hash, which was computed
before. The invariant follows that chain: a block anywhere on its way differs
and has been hashed (`OnTheWay`); the hashes received, on the wire and in hand
are those of consecutive blocks, so that the client's counter names the block
they belong to (`HashFlow`); on the wire offsets and bytes alternate, and bytes
belong to the offset before them (`BlockFlow`); what is on disk is old or new,
and half of each only during a write or between its two pieces (`OnDisk`); what
was received is written or waiting (`Kept`); and, without faults, every block
found to differ is sent or queued, every block sent is received or on the wire,
and no drop hangs (`NothingLost`). "Differs" is said of what the workers read
(`image`), which is what the session found unless a late write came between. The
lemmas on the client's steps are in `SessionClientProofs`, those on the
server's, the threads', faults and new sessions in `SessionProofs` with the
theorems.

### ServerProofs: any number of clients, any requests, any access

`OneClientAtATime`, `SessionsAgree`, `RefusalsTouchNothing`,
`RefusalsAreTold` and `ServedByItsOwnServer`. They need to know how far a
handler is from what it has read (`HandshakeInv`: the Acks it has written are
those due, and no field before was flawed), what a connection is before and
after its handler (`ConnectionInv`) and what the process owns when it is not up
(`ProcessInv`); with the remote start, where the starting client is while its
commands run, and whose secret is wrong (`RemoteInv`).
`HandlersAndClientsAgree` states `IInv` itself.

### FramingProofs: any base and length of a header

`RoundTrip`: the loop that reads a header inverts the loop that writes it, for
every number that fits. `Power`, `Decode` and `Ends` are recursive functions on
`0 .. n`. That they exist, and what they compute, is induction over the
naturals: `Induct` states it for a set instead of a predicate, so that it can
be used, and `Recursion` derives from it that a function defined by primitive
recursion exists. The rest of the module is about streams of frames:
`Ends(frames)[n]` is where the n-th frame ends, `Follow(bytes, frames, at)` says
that `bytes` are what comes after the first `at` bytes of the stream, and the
lemmas say what becomes of this when bytes are read, lost at the end, moved to
the wire, or a frame is added (`FollowDrop`, `FollowPrefix`, `Rejoin`,
`FollowMore`). `FrameRead` puts them together for one read.

### StringFramingProofs: any strings, any pieces, cancellations and cuts

`StringsInvariant`, `StringsReceived` and `HashesAreAMessageStream`. That the
strings received are a prefix of those sent is not inductive: it says nothing of
the string that is half read. `InStep` does: the bytes in flight follow the last
byte read, and reach to the end of the stream until the sender has left.
`Resumable` says what the struct holds of the current string when the future is
dropped: the bytes of the header so far, or the size and the bytes of the
string so far. In the refinement `NextString` and `StringReceived` are `Send` and
`Receive`, and every other step stutters.

### BlockFramingProofs: any file, block size and changed blocks

`BlocksInvariant`, `BlocksReceived`, `DestinationSafe` and
`BlocksAreAMessageStream`. As for strings, and three things more. The server
knows the length of a block only from its offset, so the invariant needs that
the client and the server agree on it: only the last block of the file can be
shorter than the others, and it is sent last (`Plan`; `OffsetsApart` and
`LengthFacts` are the arithmetic). If the source has grown they do not agree, and
once the last block has been received nothing is said about what follows
(`Derailed`). `Placed` ties the write in progress to the last block received, so
that each byte goes to its own place. The refinement holds if the source has not
grown.

### Only model-checked

Liveness, which is out of the prover's reach: `SendReturns`,
`AllBlocksThenEnd`, `StreamEnds`, `DropReturnsIfBufferEmpty`, `BothFinish`,
`ServerFollows`, `AllWritten`, `AllReceived`, `SlotFreed`, `HandshakeEnds`,
`OneShotExits`.

## Not modelled

* The command line (`main.rs` 35-130) is a declaration of arguments for clap.
  What they select is modelled where it is used. `-w 0` starts no worker;
  `HashFile` and `Session` assume one.
* `utils.rs` makes a path absolute: a pure conversion by a library.
* `hash_data()` calls CRC32C or MD5; the models use an arbitrary function.
* The progress timer and all output. The timer matters in one way, that it
  keeps the client's `else => break` from being taken, and `Session` has no such
  branch for that reason.
* Which of three ways of authentication succeeds.
* The unit tests at the end of `common.rs`, `sync.rs`, `hash_file.rs` and
  `utils.rs`, which are more than a third of the source; they were read for what
  they expect.
* A client that stays connected and silent during the handshake, for which the
  code has no timeout.
