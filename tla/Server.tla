------------------------------- MODULE Server -------------------------------
(***************************************************************************)
(* The server process of src/main.rs: bind, the accept loop with its       *)
(* counter, one-shot mode; and the handshake, process_new_client() of      *)
(* src/server.rs against new_process() of src/client.rs.  A session is one *)
(* state here (module Session has its steps).                              *)
(*                                                                         *)
(* The client sends six fields, always in the same order: what is on its   *)
(* way is told by how many are written and how many are read.  Likewise    *)
(* the server sends Ack after some of them, and at most one other status,  *)
(* its last.  A request says which field the server does not accept.       *)
(*                                                                         *)
(*    1 length of the secret    4 path                                     *)
(*    2 secret                  5 block size                               *)
(*    3 protocol version        6 file size, force flag and hash algorithm *)
(***************************************************************************)
EXTENDS Integers

CONSTANTS
  Clients,
  Requests(_),      \* the requests a client may make
  Sizes,            \* sizes the destination may have at first
  Accesses,         \* what the server may do with the destination: see Access
  AcceptFaults      \* whether accept() may fail

Request == [flaw : 0 .. 6,     \* the field refused, if any
            size : Nat \ {0}, force : BOOLEAN,
            bad : {"none", "path", "source"}]  \* what the client trips over
Access  == {"full",         \* anything
            "hidden",       \* metadata() is not permitted
            "odd",          \* metadata() fails otherwise
            "readonly",     \* it can neither be opened for writing nor created
            "unresizable",  \* set_len() fails
            "writeonly"}    \* it cannot be opened for reading
Reachable == Access \ {"hidden", "odd"}

ASSUME ServerAssumption ==
  /\ \A c \in Clients : Requests(c) \subseteq Request
  /\ Sizes \subseteq Nat
  /\ Accesses \subseteq Access
  /\ AcceptFaults \in BOOLEAN

VARIABLES
  srv,              \* "absent", "starting", "up" or "exited"
  one_shot, client_count,
  backlog,          \* connections not accepted yet
  hpc,              \* each handler: "none", "handshake", "session", "joining",
                    \* "stuck" or "over"
  read, acked,      \* fields it has read, Acks it has written
  last,             \* the status written last, "error" or "none"
  ret,              \* what process_new_client() returns after the session
  sclosed,          \* clients whose connection the server has closed
  cpc,              \* each client: "ssh", "new", "handshake", "session", "done"
  wrote, got,       \* fields it has written, Acks it has read
  cres,             \* "none", "ok", "error", "crashed" or the status it got
  req, access,      \* its request; what the server may do
  dest,             \* the destination: [there, len]
  touched           \* history: clients for which it was created or resized

process  == <<srv, one_shot, client_count, backlog>>
handlers == <<hpc, read, acked, last, ret, sclosed>>
clients  == <<cpc, wrote, got, cres>>
file     == <<dest, touched>>
inputs   == <<req, access>>
vars     == <<process, handlers, clients, file, inputs>>

(* The server process in a given state, the clients at a given place. *)
InitAt(state, place) ==
  /\ srv = state /\ one_shot \in BOOLEAN
  /\ client_count = 0 /\ backlog = {} /\ sclosed = {}
  /\ hpc = [c \in Clients |-> "none"] /\ last = [c \in Clients |-> "none"]
  /\ ret = [c \in Clients |-> "none"]
  /\ read = [c \in Clients |-> 0] /\ acked = [c \in Clients |-> 0]
  /\ cpc = place /\ cres = [c \in Clients |-> "none"]
  /\ wrote = [c \in Clients |-> 0] /\ got = [c \in Clients |-> 0]
  /\ req \in {r \in [Clients -> UNION {Requests(c) : c \in Clients}] :
                \A c \in Clients : r[c] \in Requests(c)}
  /\ access \in Accesses
  /\ dest \in [there : BOOLEAN, len : Sizes]
  /\ ~dest.there => \A s \in Sizes : dest.len <= s
  /\ touched = {}

(* A server started by hand. *)
Init == InitAt("starting", [c \in Clients |-> "new"])

(* The hash workers are being joined, or never will be: see HashStream. *)
Dropping(c) == hpc[c] \in {"joining", "stuck"}
Active(c)   == hpc[c] \in {"handshake", "session"} \/ Dropping(c)

-----------------------------------------------------------------------------
(* The client *)

CEnd(c, result) ==
  /\ cpc' = [cpc EXCEPT ![c] = "done"]
  /\ cres' = [cres EXCEPT ![c] = result]

(* TcpStream::connect(): nobody may be listening, yet or any more. *)
Connect(c) ==
  /\ cpc[c] = "new"
  /\ IF srv = "up"
     THEN /\ cpc' = [cpc EXCEPT ![c] = "handshake"]
          /\ backlog' = backlog \cup {c}
          /\ UNCHANGED cres
     ELSE CEnd(c, "error") /\ UNCHANGED backlog
  /\ UNCHANGED <<srv, one_shot, client_count, handlers, wrote, got, file, inputs>>

(* Mutant of Acks: the path is acknowledged too. *)
AcksWithPath(n) ==
  CASE n < 2 -> 0 [] n = 2 -> 1 [] n = 3 -> 2 [] n \in 4 .. 5 -> 3 [] n > 5 -> 4

(* The calls of check_status() among the first n fields. *)
Acks(n) == CASE n < 2 -> 0 [] n = 2 -> 1 [] n \in 3 .. 5 -> 2 [] n > 5 -> 3

Due(c) == got[c] < Acks(wrote[c])

(* The path of the destination is not UTF-8; or, found out when it was     *)
(* written, the source cannot be opened or is empty.                       *)
Obstacle(c) == \/ wrote[c] = 3 /\ req[c].bad = "path"
               \/ wrote[c] = 4 /\ req[c].bad = "source"

(* The next field is written ... *)
Write(c) ==
  /\ cpc[c] = "handshake" /\ ~Due(c) /\ wrote[c] < 6
  /\ ~Obstacle(c)
  /\ wrote' = [wrote EXCEPT ![c] = @ + 1]
  /\ UNCHANGED <<process, handlers, cpc, got, cres, file, inputs>>

(* ... or the client gives up. *)
GiveUp(c) ==
  /\ cpc[c] = "handshake" /\ ~Due(c)
  /\ Obstacle(c)
  /\ CEnd(c, "error")
  /\ UNCHANGED <<process, handlers, wrote, got, file, inputs>>

(* Mutant of Accepted: check_status() is content with any status. *)
AnyStatus(status) == TRUE

Accepted(status) == status = "Ack"

(* check_status(): Acks come first, then the status that is the last.      *)
(* After the third Ack, hash_file() may fail.                              *)
CheckStatus(c) ==
  /\ cpc[c] = "handshake" /\ Due(c)
  /\ got[c] < acked[c] \/ last[c] \notin {"none", "error"}
  /\ LET status == IF got[c] < acked[c] THEN "Ack" ELSE last[c] IN
     IF ~Accepted(status) THEN CEnd(c, status) /\ UNCHANGED got
     ELSE /\ got' = [got EXCEPT ![c] = @ + 1]
          /\ \/ /\ cpc' = [cpc EXCEPT ![c] = IF got[c] = 2 THEN "session" ELSE @]
                /\ UNCHANGED cres
             \/ got[c] = 2 /\ CEnd(c, "error")
  /\ UNCHANGED <<process, handlers, wrote, file, inputs>>

(* The server has closed the connection: end of file, once all statuses    *)
(* are read; or, if it left fields unread, a reset that may come before.   *)
IoError(c) ==
  /\ cpc[c] = "handshake" /\ c \in sclosed
  /\ \/ Due(c) /\ got[c] = acked[c] /\ last[c] \in {"none", "error"}
     \/ wrote[c] > read[c]
  /\ CEnd(c, "error")
  /\ UNCHANGED <<process, handlers, wrote, got, file, inputs>>

(* The session ends, well or not. *)
SessionEnds(c) ==
  /\ cpc[c] = "session"
  /\ \E result \in {"ok", "error"} : CEnd(c, result)
  /\ UNCHANGED <<process, handlers, wrote, got, file, inputs>>

Crash(c) ==
  /\ cpc[c] \in {"handshake", "session"}
  /\ CEnd(c, "crashed")
  /\ UNCHANGED <<process, handlers, wrote, got, file, inputs>>

ClientNext(c) ==
  \/ Connect(c) \/ Write(c) \/ GiveUp(c) \/ CheckStatus(c) \/ IoError(c)

-----------------------------------------------------------------------------
(* The server process *)

Bind ==
  /\ srv = "starting"
  /\ \E s \in {"up", "exited"} : srv' = s
  /\ UNCHANGED <<one_shot, client_count, backlog, handlers, clients, file, inputs>>

(* Mutant of Free: the counter is not consulted. *)
AlwaysFree == TRUE

(* compare_exchange(0, 1) succeeds. *)
Free == client_count = 0

(* In one-shot mode the loop waits for the handler and is then left.  The  *)
(* runtime has one thread, which join() blocks.                            *)
Accepting ==
  /\ srv = "up"
  /\ \A c \in Clients : ~Dropping(c) /\ (one_shot => hpc[c] = "none")

Accept(c) ==
  /\ Accepting /\ c \in backlog
  /\ backlog' = backlog \ {c}
  /\ IF Free
     THEN /\ client_count' = 1
          /\ hpc' = [hpc EXCEPT ![c] = "handshake"]
          /\ UNCHANGED <<last, sclosed>>
     ELSE /\ last' = [last EXCEPT ![c] = "ClientAlreadyConnected"]
          /\ sclosed' = sclosed \cup {c}
          /\ UNCHANGED <<client_count, hpc>>
  /\ UNCHANGED <<srv, one_shot, read, acked, ret, clients, file, inputs>>

(* main() returns: connections are closed, and a handler is cancelled      *)
(* wherever it is.  If it has a HashStream, the process may hang in its    *)
(* drop, with that connection open.                                        *)
Exit ==
  /\ srv' = "exited"
  /\ backlog' = {}
  /\ \E hung \in SUBSET {c \in Clients : hpc[c] = "session"} :
       /\ hpc' = [c \in Clients |-> IF c \in hung THEN "stuck"
                                    ELSE IF Active(c) THEN "over" ELSE hpc[c]]
       /\ sclosed' = sclosed
                       \cup {c \in Clients \ hung : cpc[c] \notin {"ssh", "new"}}
  /\ UNCHANGED <<one_shot, client_count, read, acked, last, ret, clients, file,
                 inputs>>

(* Mutant of Leaves: `break' is missing. *)
NeverLeaves == FALSE

(* The handler that one-shot mode has waited for is over. *)
Leaves == srv = "up" /\ one_shot /\ \E c \in Clients : hpc[c] = "over"

OneShotExit == Leaves /\ Exit

(* accept() returns an error: `while let Some(Ok(..))' ends. *)
AcceptFails == AcceptFaults /\ Accepting /\ Exit

-----------------------------------------------------------------------------
(* The handler of a client *)

(* Mutant of Release: the counter is left alone after an error. *)
ReleaseAfterStatus(status) == client_count' = IF status = "error" THEN 1 ELSE 0

(* count.store(0), whatever process_new_client() has returned *)
Release(status) == client_count' = 0

(* process_new_client() has returned: the status, if any, is written, the  *)
(* counter reset and the connection dropped.                               *)
HEnd(c, status) ==
  /\ hpc' = [hpc EXCEPT ![c] = "over"]
  /\ last' = [last EXCEPT ![c] = status]
  /\ sclosed' = sclosed \cup {c}
  /\ Release(status)

HRead(c) ==
  /\ hpc[c] = "handshake" /\ read[c] < wrote[c]
  /\ read' = [read EXCEPT ![c] = @ + 1]

(* Mutant of Wrong: of the secret only the length is compared. *)
WrongButSecret(c, f) == f # 2 /\ req[c].flaw = f

(* The field just read is not what the server accepts. *)
Wrong(c, f) == req[c].flaw = f

(* What a field that is not accepted leads to. *)
Refusal(f) ==
  CASE f \in {1, 2} -> "InvalidSecret"
    [] f = 3 -> "UnsupportedProtocolVersion"
    [] f = 4 -> "error"
    [] f = 5 -> "InvalidBlockSize"
    [] f = 6 -> "UnknownHashAlgorithm"

Refuse(c) ==
  /\ HRead(c)
  /\ Wrong(c, read'[c])
  /\ HEnd(c, Refusal(read'[c]))
  /\ UNCHANGED <<srv, one_shot, backlog, acked, ret, clients, file, inputs>>

(* A field before the last is fine; some are acknowledged. *)
Continue(c) ==
  /\ HRead(c)
  /\ ~Wrong(c, read'[c]) /\ read'[c] < 6
  /\ acked' = [acked EXCEPT ![c] = IF read'[c] \in {2, 3} THEN @ + 1 ELSE @]
  /\ UNCHANGED <<process, hpc, last, ret, sclosed, clients, file, inputs>>

SameSize(c) == dest.there /\ dest.len = req[c].size

(* What the destination's metadata and its rights lead to. *)
FileOutcome(c) ==
  CASE access = "hidden" -> "PermissionDenied"
    [] access = "odd" -> "error"
    [] access \in Reachable /\ dest.there /\ ~SameSize(c) /\ ~req[c].force
         -> "FileSizeDiffers"
    [] access \in Reachable /\ (dest.there => SameSize(c) \/ req[c].force)
         -> IF \/ access = "readonly"
               \/ access = "unresizable" /\ ~SameSize(c)
            THEN "error" ELSE "Ack"

(* Mutant of FileAfter: the file is resized before its size is compared. *)
FileAfterAnyway(c) == [there |-> TRUE, len |-> req[c].size]

(* Mutant of FileAfter: a file that exists is not resized. *)
FileAfterUnresized(c) ==
  IF FileOutcome(c) = "Ack" /\ ~dest.there
  THEN [there |-> TRUE, len |-> req[c].size] ELSE dest

(* ... and what becomes of it: it may be created and then not resized. *)
FileAfter(c) ==
  IF FileOutcome(c) = "Ack" THEN [there |-> TRUE, len |-> req[c].size]
  ELSE IF access = "unresizable" /\ ~dest.there THEN [there |-> TRUE, len |-> 0]
  ELSE dest

(* The last field is fine: the destination is opened or created.  After    *)
(* the third Ack it must be opened for reading, for hash_file().           *)
OpenFile(c) ==
  /\ HRead(c)
  /\ ~Wrong(c, 6) /\ read'[c] = 6
  /\ dest' = FileAfter(c)
  /\ touched' = IF dest' = dest THEN touched ELSE touched \cup {c}
  /\ IF FileOutcome(c) = "Ack"
     THEN acked' = [acked EXCEPT ![c] = @ + 1] ELSE UNCHANGED acked
  /\ IF FileOutcome(c) = "Ack" /\ access # "writeonly"
     THEN /\ hpc' = [hpc EXCEPT ![c] = "session"]
          /\ UNCHANGED <<last, sclosed, client_count>>
     ELSE HEnd(c, IF FileOutcome(c) = "Ack" THEN "error" ELSE FileOutcome(c))
  /\ UNCHANGED <<srv, one_shot, backlog, ret, clients, inputs>>

(* The connection ends in the handshake. *)
Abandoned(c) ==
  /\ hpc[c] = "handshake" /\ cpc[c] = "done"
  /\ HEnd(c, "error")
  /\ UNCHANGED <<srv, one_shot, backlog, read, acked, ret, clients, file, inputs>>

(* process_new_client() is about to return, and drops its HashStream: its  *)
(* workers are joined, unless one waits for ever for a Loan that close()   *)
(* has left in the channel (DropReturns of HashFile).                      *)
DropHasher(c, status) ==
  /\ hpc' \in {[hpc EXCEPT ![c] = p] : p \in {"joining", "stuck"}}
  /\ ret' = [ret EXCEPT ![c] = status]
  /\ UNCHANGED <<process, read, acked, last, sclosed, clients, file, inputs>>

(* The connection ends, and with it the session. *)
HangUp(c) ==
  /\ hpc[c] = "session" /\ cpc[c] = "done"
  /\ DropHasher(c, "Ack")

(* The session fails: the hasher, open(), seek(), flush() or sync_data(). *)
SessionFails(c) ==
  /\ hpc[c] = "session"
  /\ DropHasher(c, "error")

Joined(c) ==
  /\ hpc[c] = "joining"
  /\ HEnd(c, ret[c])
  /\ UNCHANGED <<srv, one_shot, backlog, read, acked, ret, clients, file, inputs>>

HandlerNext(c) ==
  Refuse(c) \/ Continue(c) \/ OpenFile(c) \/ Abandoned(c) \/ HangUp(c) \/ Joined(c)

-----------------------------------------------------------------------------

Next ==
  \/ Bind \/ OneShotExit \/ AcceptFails
  \/ \E c \in Clients :
       \/ ClientNext(c) \/ SessionEnds(c) \/ Crash(c)
       \/ Accept(c) \/ HandlerNext(c) \/ SessionFails(c)

Spec == Init /\ [][Next]_vars

(* The server and the clients keep running, and a handler notices that its *)
(* client is gone (ServerFollows of Session).  Nothing has to fail, or be  *)
(* accepted in any order; and no session has to end.                       *)
Fairness ==
  /\ WF_vars(OneShotExit)
  /\ \A c \in Clients :
       WF_vars(ClientNext(c)) /\ WF_vars(Accept(c)) /\ WF_vars(HandlerNext(c))

-----------------------------------------------------------------------------
(* Properties *)

Refusals == {"InvalidSecret", "UnsupportedProtocolVersion", "InvalidBlockSize",
             "UnknownHashAlgorithm", "FileSizeDiffers", "PermissionDenied",
             "ClientAlreadyConnected"}

(* Every variable has its type, and nothing is read that was not sent. *)
TypeOK ==
  /\ srv \in {"absent", "starting", "up", "exited"} /\ one_shot \in BOOLEAN
  /\ client_count \in {0, 1} /\ backlog \subseteq Clients
  /\ hpc \in [Clients -> {"none", "handshake", "session", "joining", "stuck",
                          "over"}]
  /\ ret \in [Clients -> {"none", "error", "Ack"}]
  /\ last \in [Clients -> Refusals \cup {"none", "error", "Ack"}]
  /\ read \in [Clients -> 0 .. 6] /\ acked \in [Clients -> 0 .. 3]
  /\ sclosed \subseteq Clients
  /\ cpc \in [Clients -> {"ssh", "new", "handshake", "session", "done"}]
  /\ cres \in [Clients -> Refusals \cup {"none", "ok", "error", "crashed"}]
  /\ wrote \in [Clients -> 0 .. 6] /\ got \in [Clients -> 0 .. 3]
  /\ req \in [Clients -> Request] /\ access \in Access
  /\ dest \in [there : BOOLEAN, len : Nat] /\ touched \subseteq Clients
  /\ \A c \in Clients : read[c] <= wrote[c] /\ got[c] <= acked[c]

(* One client at a time, counted exactly: there are never two handlers,    *)
(* and the counter is back at 0 as soon as there is none ("it will only    *)
(* accept one client at a time").                                          *)
OneAtATime ==
  /\ \A c, d \in Clients : Active(c) /\ Active(d) => c = d
  /\ srv = "up" => (client_count = 0 <=> \A c \in Clients : ~Active(c))

(* While a session lasts on the server, the destination exists and has the *)
(* size of that client's source, whatever other clients ask for meanwhile; *)
(* the client is in its session only if the server got that far with it,   *)
(* and accepted every field.                                               *)
SizeAgreed ==
  \A c \in Clients :
    /\ hpc[c] = "session" \/ Dropping(c) =>
         dest = [there |-> TRUE, len |-> req[c].size]
    /\ cpc[c] = "session" =>
         /\ hpc[c] \in {"session", "over"} \/ Dropping(c)
         /\ req[c].flaw = 0 /\ acked[c] = 3

(* A client that is refused, for whatever reason, has neither created nor  *)
(* resized the destination.                                                *)
RefusedUntouched ==
  \A c \in Clients :
    last[c] \in Refusals \/ cres[c] \in Refusals => c \notin touched

(* A client that the server refuses learns the reason, or that it is busy, *)
(* and does not take it for an Ack.  The status is only lost if the server *)
(* has left unread what the client has sent, which resets the connection.  *)
ToldWhy ==
  \A c \in Clients :
    (cpc[c] = "done" /\ last[c] \in Refusals /\ cres[c] # "crashed") =>
      \/ cres[c] = last[c]
      \/ cres[c] = "error" /\ read[c] < wrote[c]

(* The inductive invariant that the four properties above need: how far a  *)
(* handler and its client are tells what they have exchanged.              *)
ProcessInv ==
  /\ srv \in {"absent", "starting"} =>
       /\ client_count = 0 /\ backlog = {}
       /\ \A c \in Clients : hpc[c] = "none" /\ cpc[c] \in {"ssh", "new", "done"}
  /\ srv = "exited" =>
       backlog = {} /\ \A c \in Clients : hpc[c] \in {"none", "stuck", "over"}

ConnectionInv(c) ==
  /\ cpc[c] \in {"ssh", "new"} =>
       hpc[c] = "none" /\ c \notin backlog \cup sclosed /\ last[c] = "none"
  /\ c \in backlog => hpc[c] = "none"
  /\ c \in backlog \/ Active(c) => last[c] = "none" /\ c \notin sclosed
  /\ hpc[c] = "none" =>
       /\ read[c] = 0 /\ acked[c] = 0 /\ c \notin touched
       /\ last[c] \in {"none", "ClientAlreadyConnected"}
  /\ last[c] = "Ack" \/ ret[c] = "Ack" => cpc[c] = "done"
  /\ hpc[c] = "joining" => ret[c] # "none"
  /\ cres[c] = "none" <=> cpc[c] # "done"

HandshakeInv(c) ==
  /\ hpc[c] = "handshake" =>
       /\ read[c] < 6 /\ acked[c] = Acks(read[c]) /\ c \notin touched
       /\ req[c].flaw \notin 1 .. read[c]
  /\ hpc[c] = "session" \/ Dropping(c) => acked[c] = 3
  /\ acked[c] = 3 => req[c].flaw = 0 /\ last[c] \notin Refusals
  /\ acked[c] > 0 => req[c].flaw \notin {1, 2}
  /\ c \in touched => req[c].flaw = 0
  /\ cres[c] = "ok" => acked[c] = 3
  /\ acked[c] = 2 /\ last[c] \in Refusals => read[c] > 4
  /\ cpc[c] = "done" /\ (c \in backlog \/ Active(c)) =>
       \/ cres[c] = "crashed"
       \/ acked[c] = 3
       \/ cres[c] = "error" /\ wrote[c] \in {3, 4} /\ acked[c] = 2
  /\ cres[c] \in Refusals => cres[c] = last[c]

IInv ==
  /\ TypeOK /\ OneAtATime /\ SizeAgreed /\ RefusedUntouched /\ ToldWhy
  /\ ProcessInv
  /\ \A c \in Clients : ConnectionInv(c) /\ HandshakeInv(c)

(* What the properties below are conditioned on: no client stays in its    *)
(* session for ever.  ClientExits of Session is where one does.            *)
SessionsEnd == \A c \in Clients : []<>(cpc[c] # "session")

(* ... and where they have to stop: the only thread of the server hangs in *)
(* the drop of a HashStream.                                               *)
Hung == \E c \in Clients : hpc[c] = "stuck"

(* The slot is given back, however a handler ends ("but will keep running  *)
(* after having completed a request"), if the client ends its session.     *)
SlotFreed ==
  SessionsEnd => (client_count = 1 ~> (client_count = 0 \/ srv = "exited" \/ Hung))

(* No client waits for ever in its handshake: it is served, refused, or    *)
(* cut off.  Behind a one-shot server it waits for the session before.     *)
HandshakeEnds ==
  (one_shot => SessionsEnd) =>
    \A c \in Clients : cpc[c] = "handshake" ~> (cpc[c] # "handshake" \/ Hung)

(* A one-shot server serves at most one client and then exits, also if     *)
(* that client is refused, fails, or dies, if it ends its session.         *)
OneShotExits ==
  SessionsEnd =>
    ((one_shot /\ \E c \in Clients : hpc[c] # "none") ~> (srv = "exited" \/ Hung))

(* "If the destination path is not accessible: the server returns          *)
(* `PermissionDenied`."                                                    *)
PermissionReported ==
  \A c \in Clients :
    (hpc[c] = "over" /\ read[c] = 6 /\ access \in {"hidden", "readonly"}
       /\ (dest.there => SameSize(c) \/ req[c].force)) =>
      last[c] \in {"PermissionDenied", "UnknownHashAlgorithm"}
=============================================================================
