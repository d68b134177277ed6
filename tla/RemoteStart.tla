---------------------------- MODULE RemoteStart -----------------------------
(***************************************************************************)
(* remote_start_server() of src/remote_start.rs: a client uploads its own  *)
(* program over SSH, runs it as a one-shot server that deletes its program *)
(* file and detaches, and only then connects.  The four remote commands    *)
(* are awaited, but the code never looks at their exit status: each may    *)
(* fail and the next one is run all the same.                              *)
(*                                                                         *)
(* Either this happens, or the server is started by hand: see Server.  The *)
(* port may be taken by another server; it will not be the one whose       *)
(* secret the client has just made up.                                     *)
(***************************************************************************)
EXTENDS Server

CONSTANT Starter    \* the client that may be run with --remote-start

ASSUME RemoteStartAssumption == Starter \in Clients

VARIABLES
  started,          \* the server is started by "hand", or over "ssh"; or an
                    \* "other" one has the port
  ssh,              \* the next step: "auth", "mktemp", "cat", "chmod", "exec",
                    \* or "none"
  tmp               \* the remote file: "none", "empty", "partial", "copied",
                    \* "runnable"

rvars == <<vars, started, ssh, tmp>>

(* The secret of a client is not that of the server, or not even as long. *)
Stranger(c) == req[c].flaw \in {1, 2}

Waiting == [c \in Clients |-> IF c = Starter THEN "ssh" ELSE "new"]

(* The secret of a server that is started remotely is random, and the      *)
(* other clients do not know it.                                           *)
RInit ==
  /\ tmp = "none"
  /\ \/ /\ started = "hand" /\ ssh = "none"
        /\ Init
     \/ /\ started = "ssh" /\ ssh = "auth"
        /\ InitAt("absent", Waiting)
        /\ one_shot
        /\ \A c \in Clients : Stranger(c) <=> c # Starter
     \/ /\ started = "other" /\ ssh = "auth"
        /\ InitAt("up", Waiting)
        /\ Stranger(Starter)

Nothing == UNCHANGED <<srv, tmp>>

(* The name is what the command prints: nothing, if it fails. *)
Mktemp == tmp' \in {"none", "empty"} /\ UNCHANGED srv

(* Without a name the shell runs no cat; the remote disk may be full. *)
Cat ==
  /\ tmp' \in IF tmp = "empty" THEN {"empty", "partial", "copied"} ELSE {tmp}
  /\ UNCHANGED srv

Chmod ==
  /\ tmp' \in IF tmp = "copied" THEN {"copied", "runnable"} ELSE {tmp}
  /\ UNCHANGED srv

(* The program removes its file and detaches; either may fail.  It binds   *)
(* later, and fails if another server has the port.  (That one may also    *)
(* have exited by now, and the new one take its place: the case with no    *)
(* other.)                                                                 *)
Launch ==
  /\ tmp = "runnable" /\ tmp' = "none"
  /\ IF started = "other" THEN UNCHANGED srv
     ELSE srv' \in {"starting", "absent"}

(* The command returns when the server has detached. *)
Exec == Nothing \/ Launch

(* A step is over, and whatever it did the next one follows ... *)
Then(step) ==
  /\ ssh' = step
  /\ cpc' = [cpc EXCEPT ![Starter] = IF step = "none" THEN "new" ELSE @]
  /\ UNCHANGED cres

(* ... but for the errors that are looked at: of the connection, of the    *)
(* authentication, a channel, or the upload.  Each may come before or      *)
(* after the remote end has run the command.                               *)
SshFails == ssh' = "none" /\ CEnd(Starter, "error")

RemoteStep ==
  /\ \/ ssh = "auth" /\ Nothing /\ (Then("mktemp") \/ SshFails)
     \/ ssh = "mktemp" /\ Mktemp /\ (Then("cat") \/ SshFails)
     \/ ssh = "cat" /\ Cat /\ (Then("chmod") \/ SshFails)
     \/ ssh = "chmod" /\ Chmod /\ (Then("exec") \/ SshFails)
     \/ ssh = "exec" /\ Exec /\ (Then("none") \/ SshFails)
  /\ UNCHANGED <<one_shot, client_count, backlog, handlers, wrote, got, file,
                 inputs, started>>

RNext ==
  \/ RemoteStep
  \/ Next /\ UNCHANGED <<started, ssh, tmp>>

RSpec == RInit /\ [][RNext]_rvars /\ Fairness

-----------------------------------------------------------------------------
(* Properties *)

(* The server has gone along with a client, or the client believes so. *)
Served(c) ==
  acked[c] > 0 \/ c \in touched \/ cpc[c] = "session" \/ cres[c] = "ok"

(* A client that starts its server is served by that one or by none, and   *)
(* its server serves nobody else, whatever failed on the way and whoever   *)
(* connects first: no status of a command is looked at, and the port may   *)
(* be another server's.                                                    *)
OnlyItsOwnServer ==
  /\ started = "other" => ~Served(Starter)
  /\ started = "ssh" => \A c \in Clients \ {Starter} : ~Served(c)
=============================================================================
