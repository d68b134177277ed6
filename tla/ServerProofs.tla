---------------------------- MODULE ServerProofs ----------------------------
(***************************************************************************)
(* Proofs about the server process, its handshake and the remote start,    *)
(* for any number of clients and any requests.  Spec is the server started *)
(* by hand, RSpec also has the remote start: the theorems are about RSpec, *)
(* of whose initial states those of Spec are a part.                       *)
(***************************************************************************)
EXTENDS RemoteStart, TLAPS

(* Acks() is the number of Acks that the first n fields lead to. *)
LEMMA AckBounds ==
  ASSUME NEW n \in Nat
  PROVE  /\ Acks(n) \in 0 .. 3
         /\ n < 2 => Acks(n) = 0
         /\ n = 2 => Acks(n) = 1
         /\ n \in 3 .. 5 => Acks(n) = 2
         /\ n > 5 => Acks(n) = 3
  BY DEF Acks

(* The invariant holds at first, however the server is to be started. *)
LEMMA InitIInv ==
  ASSUME NEW state \in {"absent", "starting", "up"},
         NEW place \in [Clients -> {"ssh", "new"}],
         InitAt(state, place)
  PROVE  IInv
<1>1. TypeOK
  BY ServerAssumption DEF InitAt, TypeOK
<1>2. QED
  BY <1>1, AckBounds
  DEF InitAt, IInv, OneAtATime, SizeAgreed, RefusedUntouched, ToldWhy,
      ProcessInv, ConnectionInv, HandshakeInv, Active, Dropping, Refusals,
      TypeOK

USE DEF vars, process, handlers, clients, file, inputs

(* connect() keeps the invariant. *)
LEMMA ConnectStep ==
  ASSUME IInv, NEW c \in Clients, Connect(c)
  PROVE  IInv'
<1>1. TypeOK'
  BY AckBounds DEF IInv, TypeOK, Connect, CEnd, ConnectionInv, HandshakeInv,
     Active, Dropping
<1>2. OneAtATime' /\ ProcessInv'
  BY DEF IInv, TypeOK, Connect, CEnd, OneAtATime, ProcessInv, Active, Dropping
<1>3. SizeAgreed' /\ RefusedUntouched'
  BY AckBounds DEF IInv, TypeOK, Connect, CEnd, SizeAgreed, RefusedUntouched,
         Active, Dropping, Refusals, ConnectionInv, HandshakeInv
<1>4. ToldWhy'
  BY AckBounds DEF IInv, TypeOK, Connect, CEnd, ToldWhy, Active, Dropping,
       Refusals,
         ConnectionInv, HandshakeInv
<1>5. ASSUME NEW d \in Clients
      PROVE  ConnectionInv(d)'
  BY AckBounds DEF IInv, TypeOK, Connect, CEnd, Active, Dropping,
       ConnectionInv,
     ProcessInv, Refusals, HandshakeInv
<1>6. ASSUME NEW d \in Clients
      PROVE  HandshakeInv(d)'
  BY AckBounds DEF IInv, TypeOK, Connect, CEnd, Active, Dropping, Refusals,
     ConnectionInv,
         HandshakeInv
<1>7. QED
  BY <1>1, <1>2, <1>3, <1>4, <1>5, <1>6, Zenon DEF IInv

(* So does writing a field, ... *)
LEMMA WriteStep ==
  ASSUME IInv, NEW c \in Clients, Write(c)
  PROVE  IInv'
<1>1. TypeOK'
  BY AckBounds DEF IInv, TypeOK, Write, Due, ConnectionInv, HandshakeInv,
     Active, Dropping
<1>2. OneAtATime' /\ ProcessInv'
  BY Zenon DEF IInv, TypeOK, Write, Due, OneAtATime, ProcessInv, Active,
       Dropping
<1>3. SizeAgreed' /\ RefusedUntouched'
  BY AckBounds, Zenon DEF IInv, TypeOK, Write, Due, SizeAgreed,
       RefusedUntouched,
         Active, Dropping, Refusals, ConnectionInv, HandshakeInv
<1>4. ToldWhy'
  BY AckBounds DEF IInv, TypeOK, Write, Due, ToldWhy, Active, Dropping,
       Refusals,
         ConnectionInv, HandshakeInv
<1>5. ASSUME NEW d \in Clients
      PROVE  ConnectionInv(d)'
  BY AckBounds, Zenon DEF IInv, TypeOK, Write, Due, Active, Dropping,
       ConnectionInv,
     ProcessInv, Refusals, HandshakeInv
<1>6. ASSUME NEW d \in Clients
      PROVE  HandshakeInv(d)'
  BY AckBounds DEF IInv, TypeOK, Write, Due, Active, Dropping, Refusals,
       ConnectionInv,
         HandshakeInv
<1>7. QED
  BY <1>1, <1>2, <1>3, <1>4, <1>5, <1>6, Zenon DEF IInv

(* ... giving up for a bad path or for want of a source, ... *)
LEMMA GiveUpStep ==
  ASSUME IInv, NEW c \in Clients, GiveUp(c)
  PROVE  IInv'
<1>1. TypeOK'
  BY AckBounds, Zenon DEF IInv, TypeOK, GiveUp, Obstacle, CEnd, Due,
       ConnectionInv,
     HandshakeInv, Active, Dropping
<1>2. OneAtATime' /\ ProcessInv'
  BY Zenon DEF IInv, TypeOK, GiveUp, Obstacle, CEnd, Due, OneAtATime,
       ProcessInv,
       Active, Dropping
<1>3. SizeAgreed' /\ RefusedUntouched'
  BY AckBounds DEF IInv, TypeOK, GiveUp, Obstacle, CEnd, Due, SizeAgreed,
     RefusedUntouched,
         Active, Dropping, Refusals, ConnectionInv, HandshakeInv
<1>4. ToldWhy'
  BY AckBounds DEF IInv, TypeOK, GiveUp, Obstacle, CEnd, Due, ToldWhy, Active,
       Dropping,
     Refusals,
         ConnectionInv, HandshakeInv
<1>5. ASSUME NEW d \in Clients
      PROVE  ConnectionInv(d)'
  BY AckBounds DEF IInv, TypeOK, GiveUp, Obstacle, CEnd, Due, Active,
       Dropping, ConnectionInv,
     ProcessInv, Refusals, HandshakeInv
<1>6. ASSUME NEW d \in Clients
      PROVE  HandshakeInv(d)'
  BY AckBounds DEF IInv, TypeOK, GiveUp, Obstacle, CEnd, Due, Active,
       Dropping, Refusals,
     ConnectionInv,
         HandshakeInv
<1>7. QED
  BY <1>1, <1>2, <1>3, <1>4, <1>5, <1>6, Zenon DEF IInv

(* ... reading a status, ... *)
LEMMA CheckStatusStep ==
  ASSUME IInv, NEW c \in Clients, CheckStatus(c)
  PROVE  IInv'
<1>1. TypeOK'
  BY AckBounds DEF IInv, TypeOK, CheckStatus, CEnd, Due, Accepted,
     ConnectionInv, HandshakeInv, Active, Dropping
<1>2. OneAtATime' /\ ProcessInv'
  BY Zenon DEF IInv, TypeOK, CheckStatus, CEnd, Due, Accepted, OneAtATime,
     ProcessInv, Active, Dropping
<1>3. SizeAgreed' /\ RefusedUntouched'
  BY AckBounds, SMTT(60) DEF IInv, TypeOK, CheckStatus, CEnd, Due, Accepted,
       SizeAgreed,
     RefusedUntouched,
         Active, Dropping, Refusals, ConnectionInv, HandshakeInv
<1>4. ToldWhy'
  BY AckBounds DEF IInv, TypeOK, CheckStatus, CEnd, Due, Accepted, ToldWhy,
     Active, Dropping, Refusals,
         ConnectionInv, HandshakeInv
<1>5. ASSUME NEW d \in Clients
      PROVE  ConnectionInv(d)'
  BY AckBounds, SMTT(60) DEF IInv, TypeOK, CheckStatus, CEnd, Due, Accepted,
       Active, Dropping,
     ConnectionInv, ProcessInv, Refusals, HandshakeInv
<1>6. ASSUME NEW d \in Clients
      PROVE  HandshakeInv(d)'
  BY AckBounds DEF IInv, TypeOK, CheckStatus, CEnd, Due, Accepted, Active,
       Dropping,
     Refusals, ConnectionInv,
         HandshakeInv
<1>7. QED
  BY <1>1, <1>2, <1>3, <1>4, <1>5, <1>6, Zenon DEF IInv

(* ... an error on the connection, ... *)
LEMMA IoErrorStep ==
  ASSUME IInv, NEW c \in Clients, IoError(c)
  PROVE  IInv'
<1>1. TypeOK'
  BY AckBounds, Zenon DEF IInv, TypeOK, IoError, CEnd, Due, ConnectionInv,
     HandshakeInv, Active, Dropping
<1>2. OneAtATime' /\ ProcessInv'
  BY ZenonT(60) DEF IInv, TypeOK, IoError, CEnd, Due, OneAtATime, ProcessInv,
       Active, Dropping
<1>3. SizeAgreed' /\ RefusedUntouched'
  BY AckBounds, SMTT(60) DEF IInv, TypeOK, IoError, CEnd, Due, SizeAgreed,
     RefusedUntouched,
         Active, Dropping, Refusals, ConnectionInv, HandshakeInv
<1>4. ToldWhy'
  BY AckBounds DEF IInv, TypeOK, IoError, CEnd, Due, ToldWhy, Active,
       Dropping, Refusals,
         ConnectionInv, HandshakeInv
<1>5. ASSUME NEW d \in Clients
      PROVE  ConnectionInv(d)'
  BY AckBounds, SMTT(60) DEF IInv, TypeOK, IoError, CEnd, Due, Active,
       Dropping,
       ConnectionInv,
     ProcessInv, Refusals, HandshakeInv
<1>6. ASSUME NEW d \in Clients
      PROVE  HandshakeInv(d)'
  BY AckBounds DEF IInv, TypeOK, IoError, CEnd, Due, Active, Dropping,
       Refusals,
     ConnectionInv,
         HandshakeInv
<1>7. QED
  BY <1>1, <1>2, <1>3, <1>4, <1>5, <1>6, Zenon DEF IInv

(* ... the end of the client's session, ... *)
LEMMA SessionEndsStep ==
  ASSUME IInv, NEW c \in Clients, SessionEnds(c)
  PROVE  IInv'
<1>1. TypeOK'
  BY AckBounds DEF IInv, TypeOK, SessionEnds, CEnd, ConnectionInv,
     HandshakeInv, Active, Dropping
<1>2. OneAtATime' /\ ProcessInv'
  BY ZenonT(60) DEF IInv, TypeOK, SessionEnds, CEnd, OneAtATime, ProcessInv,
       Active, Dropping
<1>3. SizeAgreed' /\ RefusedUntouched'
  BY AckBounds, SMTT(60) DEF IInv, TypeOK, SessionEnds, CEnd, SizeAgreed,
     RefusedUntouched,
         Active, Dropping, Refusals, ConnectionInv, HandshakeInv
<1>4. ToldWhy'
  BY AckBounds, SMTT(60) DEF IInv, TypeOK, SessionEnds, CEnd, ToldWhy,
       SizeAgreed,
     Active, Dropping, Refusals,
         ConnectionInv, HandshakeInv
<1>5. ASSUME NEW d \in Clients
      PROVE  ConnectionInv(d)'
  BY AckBounds, SMTT(60) DEF IInv, TypeOK, SessionEnds, CEnd, Active, Dropping,
       ConnectionInv,
     ProcessInv, Refusals, HandshakeInv
<1>6. ASSUME NEW d \in Clients
      PROVE  HandshakeInv(d)'
  BY AckBounds DEF IInv, TypeOK, SizeAgreed, SessionEnds, CEnd, Active,
       Dropping,
     Refusals, ConnectionInv,
         HandshakeInv
<1>7. QED
  BY <1>1, <1>2, <1>3, <1>4, <1>5, <1>6, Zenon DEF IInv

(* ... and its death. *)
LEMMA CrashStep ==
  ASSUME IInv, NEW c \in Clients, Crash(c)
  PROVE  IInv'
<1>1. TypeOK'
  BY AckBounds, Zenon DEF IInv, TypeOK, Crash, CEnd, ConnectionInv,
       HandshakeInv,
     Active, Dropping
<1>2. OneAtATime' /\ ProcessInv'
  BY ZenonT(60) DEF IInv, TypeOK, Crash, CEnd, OneAtATime, ProcessInv, Active,
       Dropping
<1>3. SizeAgreed' /\ RefusedUntouched'
  BY AckBounds DEF IInv, TypeOK, Crash, CEnd, SizeAgreed, RefusedUntouched,
         Active, Dropping, Refusals, ConnectionInv, HandshakeInv
<1>4. ToldWhy'
  BY AckBounds, SMTT(60) DEF IInv, TypeOK, Crash, CEnd, ToldWhy, Active,
       Dropping,
       Refusals,
         ConnectionInv, HandshakeInv
<1>5. ASSUME NEW d \in Clients
      PROVE  ConnectionInv(d)'
  BY AckBounds, SMTT(60) DEF IInv, TypeOK, Crash, CEnd, Active, Dropping,
       ConnectionInv,
     ProcessInv, Refusals, HandshakeInv
<1>6. ASSUME NEW d \in Clients
      PROVE  HandshakeInv(d)'
  BY AckBounds DEF IInv, TypeOK, Crash, CEnd, Active, Dropping, Refusals,
       ConnectionInv,
         HandshakeInv
<1>7. QED
  BY <1>1, <1>2, <1>3, <1>4, <1>5, <1>6, Zenon DEF IInv

(* Accepting a connection keeps it, for a handler or as busy, ... *)
LEMMA AcceptStep ==
  ASSUME IInv, NEW c \in Clients, Accept(c)
  PROVE  IInv'
<1>1. TypeOK'
  BY AckBounds DEF IInv, Refusals, TypeOK, Accept, Accepting, Free,
     ConnectionInv, HandshakeInv, Active, Dropping
<1>2. OneAtATime' /\ ProcessInv'
  BY SMTT(60) DEF IInv, TypeOK, Accept, Accepting, Free, OneAtATime,
       ProcessInv, Active, Dropping
<1>3. SizeAgreed' /\ RefusedUntouched'
  BY AckBounds, SMTT(60) DEF IInv, TypeOK, Accept, Accepting, Free, SizeAgreed,
     RefusedUntouched,
         Active, Dropping, Refusals, ConnectionInv, HandshakeInv
<1>4. ToldWhy'
  BY AckBounds, SMTT(60) DEF IInv, TypeOK, Accept, Accepting, Free, ToldWhy,
       Active, Dropping,
     Refusals,
         ConnectionInv, HandshakeInv
<1>5. ASSUME NEW d \in Clients
      PROVE  ConnectionInv(d)'
  BY AckBounds, SMTT(60) DEF IInv, TypeOK, Accept, Accepting, Free, Active,
       Dropping,
     ConnectionInv, ProcessInv, Refusals, HandshakeInv
<1>6. ASSUME NEW d \in Clients
      PROVE  HandshakeInv(d)'
  BY AckBounds DEF IInv, TypeOK, Accept, Accepting, Free, Active, Dropping,
       Refusals,
     ConnectionInv,
         HandshakeInv
<1>7. QED
  BY <1>1, <1>2, <1>3, <1>4, <1>5, <1>6, ZenonT(60) DEF IInv

(* ... refusing a field, ... *)
LEMMA RefuseStep ==
  ASSUME IInv, NEW c \in Clients, Refuse(c)
  PROVE  IInv'
<1>1. TypeOK'
  BY AckBounds, SMTT(60) DEF IInv, Refusals, TypeOK, Refuse, HRead, Wrong,
       HEnd,
       Release,
     Refusal, Request, ConnectionInv, HandshakeInv, Active, Dropping
<1>2. OneAtATime' /\ ProcessInv'
  BY DEF IInv, TypeOK, Refuse, HRead, Wrong, HEnd, Release, Refusal, Request,
     OneAtATime, ProcessInv, Active, Dropping
<1>3. SizeAgreed' /\ RefusedUntouched'
  BY AckBounds, SMTT(60) DEF IInv, TypeOK, Refuse, HRead, Wrong, HEnd, Release,
       Refusal,
     Request, SizeAgreed, RefusedUntouched,
         Active, Dropping, Refusals, ConnectionInv, HandshakeInv
<1>4. ToldWhy'
  BY AckBounds, SMTT(60) DEF IInv, TypeOK, Refuse, HRead, Wrong, HEnd, Release,
       Refusal,
     Request, ToldWhy, Active, Dropping, Refusals,
         ConnectionInv, HandshakeInv
<1>5. ASSUME NEW d \in Clients
      PROVE  ConnectionInv(d)'
  BY AckBounds, SMTT(60) DEF IInv, TypeOK, Refuse, HRead, Wrong, HEnd, Release,
       Refusal,
     Request, Active, Dropping, ConnectionInv, ProcessInv, Refusals,
     HandshakeInv
<1>6. ASSUME NEW d \in Clients
      PROVE  HandshakeInv(d)'
  BY AckBounds, SMTT(60) DEF IInv, TypeOK, Refuse, HRead, Wrong, HEnd, Release,
     Refusal, Request, Active, Dropping, Refusals, ConnectionInv,
         HandshakeInv
<1>7. QED
  BY <1>1, <1>2, <1>3, <1>4, <1>5, <1>6, ZenonT(60) DEF IInv

(* ... accepting it, ... *)
LEMMA ContinueStep ==
  ASSUME IInv, NEW c \in Clients, Continue(c)
  PROVE  IInv'
<1>1. TypeOK'
  <2>1. acked[c] <= 2 /\ read[c] + 1 <= wrote[c] /\ read[c] < 6
    BY AckBounds, SMTT(60) DEF IInv, TypeOK, Continue, HRead, Wrong,
         HandshakeInv
  <2>2. /\ acked' \in [Clients -> 0 .. 3] /\ read' \in [Clients -> 0 .. 6]
        /\ \A d \in Clients : read'[d] <= wrote[d] /\ got[d] <= acked'[d]
    BY <2>1 DEF IInv, TypeOK, Continue, HRead, Wrong
  <2>3. QED
    BY <2>2, Zenon DEF IInv, TypeOK, Continue
<1>2. OneAtATime' /\ ProcessInv'
  BY ZenonT(60) DEF IInv, TypeOK, Continue, HRead, Wrong, Request, OneAtATime,
       ProcessInv, Active, Dropping
<1>3. SizeAgreed' /\ RefusedUntouched'
  BY AckBounds, SMTT(60) DEF IInv, TypeOK, Continue, HRead, Wrong, Request,
       SizeAgreed,
     RefusedUntouched,
         Active, Dropping, Refusals, ConnectionInv, HandshakeInv
<1>4. ToldWhy'
  BY AckBounds, SMTT(60) DEF IInv, TypeOK, Continue, HRead, Wrong, Request,
       ToldWhy,
       Active, Dropping,
     Refusals,
         ConnectionInv, HandshakeInv
<1>5. ASSUME NEW d \in Clients
      PROVE  ConnectionInv(d)'
  BY AckBounds, SMTT(60) DEF IInv, TypeOK, Continue, HRead, Wrong, Request,
       Active, Dropping,
     ConnectionInv, ProcessInv, Refusals, HandshakeInv
<1>6. ASSUME NEW d \in Clients
      PROVE  HandshakeInv(d)'
  BY AckBounds, SMTT(60) DEF IInv, TypeOK, Continue, HRead, Wrong, Request,
       Active, Dropping,
       Refusals,
     ConnectionInv,
         HandshakeInv
<1>7. QED
  BY <1>1, <1>2, <1>3, <1>4, <1>5, <1>6, Zenon DEF IInv

(* ... noticing in the handshake that the client is gone, ... *)
LEMMA AbandonedStep ==
  ASSUME IInv, NEW c \in Clients, Abandoned(c)
  PROVE  IInv'
<1>1. TypeOK'
  BY AckBounds, SMTT(60) DEF IInv, TypeOK, Abandoned, HEnd, Release,
       ConnectionInv,
     HandshakeInv, Active, Dropping
<1>2. OneAtATime' /\ ProcessInv'
  BY SMTT(60) DEF IInv, TypeOK, Abandoned, HEnd, Release, OneAtATime,
       ProcessInv,
       Active, Dropping
<1>3. SizeAgreed' /\ RefusedUntouched'
  BY AckBounds, SMTT(60) DEF IInv, TypeOK, Abandoned, HEnd, Release,
       SizeAgreed,
     RefusedUntouched,
         Active, Dropping, Refusals, ConnectionInv, HandshakeInv
<1>4. ToldWhy'
  BY AckBounds, SMTT(60) DEF IInv, TypeOK, Abandoned, HEnd, Release, ToldWhy,
       Active, Dropping,
     Refusals,
         ConnectionInv, HandshakeInv
<1>5. ASSUME NEW d \in Clients
      PROVE  ConnectionInv(d)'
  BY AckBounds, SMTT(60) DEF IInv, TypeOK, Abandoned, HEnd, Release, Active,
       Dropping,
       ConnectionInv,
     ProcessInv, Refusals, HandshakeInv
<1>6. ASSUME NEW d \in Clients
      PROVE  HandshakeInv(d)'
  BY AckBounds DEF IInv, TypeOK, Abandoned, HEnd, Release, Active, Dropping,
       Refusals,
     ConnectionInv,
         HandshakeInv
<1>7. QED
  BY <1>1, <1>2, <1>3, <1>4, <1>5, <1>6, Zenon DEF IInv

(* ... noticing it in the session, ... *)
LEMMA HangUpStep ==
  ASSUME IInv, NEW c \in Clients, HangUp(c)
  PROVE  IInv'
<1>1. TypeOK'
  BY AckBounds, SMTT(60) DEF IInv, TypeOK, HangUp, DropHasher,
       ConnectionInv,
     HandshakeInv, Active, Dropping
<1>2. OneAtATime' /\ ProcessInv'
  BY SMTT(60) DEF IInv, TypeOK, HangUp, DropHasher, OneAtATime, ProcessInv,
       Active, Dropping
<1>3. SizeAgreed' /\ RefusedUntouched'
  BY AckBounds, SMTT(60) DEF IInv, TypeOK, HangUp, DropHasher, SizeAgreed,
     RefusedUntouched,
         Active, Dropping, Refusals, ConnectionInv, HandshakeInv
<1>4. ToldWhy'
  BY AckBounds, SMTT(60) DEF IInv, TypeOK, HangUp, DropHasher, ToldWhy,
       Active, Dropping,
     Refusals,
         ConnectionInv, HandshakeInv
<1>5. ASSUME NEW d \in Clients
      PROVE  ConnectionInv(d)'
  BY AckBounds, SMTT(60) DEF IInv, TypeOK, HangUp, DropHasher, Active,
       Dropping,
       ConnectionInv,
     ProcessInv, Refusals, HandshakeInv
<1>6. ASSUME NEW d \in Clients
      PROVE  HandshakeInv(d)'
  BY AckBounds DEF IInv, TypeOK, HangUp, DropHasher, Active, Dropping,
       Refusals,
     ConnectionInv,
         HandshakeInv
<1>7. QED
  BY <1>1, <1>2, <1>3, <1>4, <1>5, <1>6, Zenon DEF IInv

(* ... an error in the session ... *)
LEMMA SessionFailsStep ==
  ASSUME IInv, NEW c \in Clients, SessionFails(c)
  PROVE  IInv'
<1>1. TypeOK'
  BY AckBounds, SMTT(60) DEF IInv, TypeOK, SessionFails, DropHasher,
       ConnectionInv,
     HandshakeInv, Active, Dropping
<1>2. OneAtATime' /\ ProcessInv'
  BY SMTT(60) DEF IInv, TypeOK, SessionFails, DropHasher, OneAtATime,
       ProcessInv,
     Active, Dropping
<1>3. SizeAgreed' /\ RefusedUntouched'
  BY AckBounds, SMTT(60) DEF IInv, TypeOK, SessionFails, DropHasher,
       SizeAgreed,
     RefusedUntouched,
         Active, Dropping, Refusals, ConnectionInv, HandshakeInv
<1>4. ToldWhy'
  BY AckBounds, SMTT(60) DEF IInv, TypeOK, SessionFails, DropHasher,
       ToldWhy, Active, Dropping,
     Refusals,
         ConnectionInv, HandshakeInv
<1>5. ASSUME NEW d \in Clients
      PROVE  ConnectionInv(d)'
  BY AckBounds, SMTT(60) DEF IInv, TypeOK, SessionFails, DropHasher, Active,
       Dropping,
     ConnectionInv, ProcessInv, Refusals, HandshakeInv
<1>6. ASSUME NEW d \in Clients
      PROVE  HandshakeInv(d)'
  BY AckBounds DEF IInv, TypeOK, SessionFails, DropHasher, Active, Dropping,
     Refusals, ConnectionInv,
         HandshakeInv
<1>7. QED
  BY <1>1, <1>2, <1>3, <1>4, <1>5, <1>6, ZenonT(60) DEF IInv

(* ... and its end, once the workers are joined. *)
LEMMA JoinedStep ==
  ASSUME IInv, NEW c \in Clients, Joined(c)
  PROVE  IInv'
<1>1. TypeOK'
  BY AckBounds, SMTT(60) DEF IInv, TypeOK, Joined, HEnd, Release,
       ConnectionInv,
     HandshakeInv, Active, Dropping
<1>2. OneAtATime' /\ ProcessInv'
  BY SMTT(60) DEF IInv, TypeOK, Joined, HEnd, Release, OneAtATime, ProcessInv,
       Active, Dropping
<1>3. SizeAgreed' /\ RefusedUntouched'
  BY AckBounds, SMTT(60) DEF IInv, TypeOK, Joined, HEnd, Release, SizeAgreed,
     RefusedUntouched,
         Active, Dropping, Refusals, ConnectionInv, HandshakeInv
<1>4. ToldWhy'
  BY AckBounds, SMTT(60) DEF IInv, TypeOK, Joined, HEnd, Release, ToldWhy,
       Active, Dropping,
     Refusals,
         ConnectionInv, HandshakeInv
<1>5. ASSUME NEW d \in Clients
      PROVE  ConnectionInv(d)'
  BY AckBounds, SMTT(60) DEF IInv, TypeOK, Joined, HEnd, Release, Active,
       Dropping,
       ConnectionInv,
     ProcessInv, Refusals, HandshakeInv
<1>6. ASSUME NEW d \in Clients
      PROVE  HandshakeInv(d)'
  BY AckBounds DEF IInv, TypeOK, Joined, HEnd, Release, Active, Dropping,
       Refusals,
     ConnectionInv,
         HandshakeInv
<1>7. QED
  BY <1>1, <1>2, <1>3, <1>4, <1>5, <1>6, Zenon DEF IInv

(* What becomes of the destination. *)
LEMMA FileCases ==
  ASSUME TypeOK, NEW c \in Clients
  PROVE  /\ FileOutcome(c) \in {"Ack", "error", "PermissionDenied", "FileSizeDiffers"}
         /\ FileAfter(c) \in [there : BOOLEAN, len : Nat]
         /\ FileOutcome(c) = "Ack" =>
              FileAfter(c) = [there |-> TRUE, len |-> req[c].size]
         /\ FileOutcome(c) \in {"PermissionDenied", "FileSizeDiffers"} =>
              FileAfter(c) = dest
<1>1. req[c] \in Request /\ access \in Access
  BY Zenon DEF TypeOK
<1>2. FileOutcome(c) \in {"Ack", "error", "PermissionDenied", "FileSizeDiffers"}
  BY <1>1, Zenon DEF FileOutcome, Reachable, Access
<1>3. FileOutcome(c) \in {"PermissionDenied", "FileSizeDiffers"} => FileAfter(c) = dest
  BY <1>1, Zenon DEF FileOutcome, FileAfter, Reachable, Access, SameSize
<1>4. QED
  BY <1>1, <1>2, <1>3, Zenon DEF FileAfter, TypeOK, Request

(* Opening the destination keeps the invariant: nobody else is in a        *)
(* session whose size it could change.                                     *)
LEMMA OpenFileStep ==
  ASSUME IInv, NEW c \in Clients, OpenFile(c)
  PROVE  IInv'
<1> DEFINE outcome == FileOutcome(c)
<1>1. /\ hpc[c] = "handshake" /\ read[c] = 5 /\ acked[c] = 2 /\ c \notin touched
      /\ req[c].flaw = 0 /\ wrote[c] = 6 /\ last[c] = "none"
  <2>1. hpc[c] = "handshake" /\ read[c] = 5 /\ wrote[c] = 6 /\ req[c].flaw # 6
    BY DEF IInv, TypeOK, OpenFile, HRead, Wrong
  <2>2. acked[c] = Acks(5) /\ c \notin touched /\ req[c].flaw \notin 1 .. 5
    BY <2>1, Zenon DEF IInv, HandshakeInv
  <2>3. req[c].flaw \in 0 .. 6
    BY Zenon DEF IInv, TypeOK, Request
  <2>4. last[c] = "none"
    BY <2>1, Zenon DEF IInv, ConnectionInv, Active, Dropping
  <2>5. QED
    BY <2>1, <2>2, <2>3, <2>4, AckBounds
<1>2. \A d \in Clients : Active(d) => d = c
  BY <1>1, Zenon DEF IInv, OneAtATime, Active, Dropping
<1>3. /\ outcome \in {"Ack", "error", "PermissionDenied", "FileSizeDiffers"}
      /\ dest' \in [there : BOOLEAN, len : Nat]
      /\ outcome = "Ack" => dest' = [there |-> TRUE, len |-> req[c].size]
      /\ outcome \in {"PermissionDenied", "FileSizeDiffers"} => dest' = dest
  BY FileCases, ZenonT(60) DEF IInv, OpenFile
<1>4. /\ read' = [read EXCEPT ![c] = 6]
      /\ acked' = IF outcome = "Ack" THEN [acked EXCEPT ![c] = 3] ELSE acked
      /\ touched' = IF dest' = dest THEN touched ELSE touched \cup {c}
      /\ \/ /\ outcome = "Ack" /\ hpc' = [hpc EXCEPT ![c] = "session"]
            /\ UNCHANGED <<last, sclosed, client_count>>
         \/ /\ hpc' = [hpc EXCEPT ![c] = "over"] /\ sclosed' = sclosed \cup {c}
            /\ last' = [last EXCEPT ![c] = IF outcome = "Ack" THEN "error" ELSE outcome]
            /\ client_count' = 0
      /\ UNCHANGED <<srv, one_shot, backlog, ret, clients, inputs>>
  BY <1>1, SMTT(60) DEF OpenFile, HRead, Wrong, HEnd, Release, IInv, TypeOK
<1> HIDE DEF outcome
<1>5. TypeOK'
  BY <1>1, <1>3, <1>4, SMTT(60) DEF IInv, TypeOK, Refusals
<1>6. OneAtATime' /\ ProcessInv'
  BY <1>1, <1>2, <1>4, SMTT(60) DEF IInv, TypeOK, OneAtATime, ProcessInv,
       Active, Dropping
<1>7. SizeAgreed' /\ RefusedUntouched'
  BY <1>1, <1>2, <1>3, <1>4, SMTT(60)
  DEF IInv, TypeOK, SizeAgreed, RefusedUntouched, Active, Dropping, Refusals,
      ConnectionInv, HandshakeInv
<1>8. ToldWhy'
  BY <1>1, <1>3, <1>4, SMTT(60)
  DEF IInv, TypeOK, ToldWhy, Active, Dropping, Refusals, ConnectionInv,
  HandshakeInv
<1>9. ASSUME NEW d \in Clients
      PROVE  ConnectionInv(d)' /\ HandshakeInv(d)'
  <2>1. ConnectionInv(d)'
    BY <1>1, <1>2, <1>3, <1>4, SMTT(60)
    DEF IInv, TypeOK, Active, Dropping, Refusals, ConnectionInv, HandshakeInv
  <2>2. HandshakeInv(d)'
    BY <1>1, <1>2, <1>3, <1>4, AckBounds, SMTT(60)
    DEF IInv, TypeOK, Active, Dropping, Refusals, ConnectionInv, HandshakeInv
  <2>3. QED
    BY <2>1, <2>2, Zenon
<1>10. QED
  BY <1>5, <1>6, <1>7, <1>8, <1>9, Zenon DEF IInv

(* Binding keeps it, ... *)
LEMMA BindStep ==
  ASSUME IInv, Bind
  PROVE  IInv'
<1>1. TypeOK' /\ OneAtATime' /\ ProcessInv'
  BY Zenon DEF IInv, TypeOK, Bind, OneAtATime, ProcessInv, Active, Dropping
<1>2. SizeAgreed' /\ RefusedUntouched' /\ ToldWhy'
  BY Zenon DEF IInv, Bind, SizeAgreed, RefusedUntouched, ToldWhy, Dropping
<1>3. \A d \in Clients : ConnectionInv(d)' /\ HandshakeInv(d)'
  BY ZenonT(60) DEF IInv, Bind, ConnectionInv, HandshakeInv, Active, Dropping
<1>4. QED
  BY <1>1, <1>2, <1>3, Zenon DEF IInv

(* ... and so does the end of the process, also inside a session. *)
LEMMA ExitStep ==
  ASSUME IInv, srv = "up", Exit
  PROVE  IInv'
<1>0. PICK hung \in SUBSET {c \in Clients : hpc[c] = "session"} :
        /\ hpc' = [c \in Clients |-> IF c \in hung THEN "stuck"
                                     ELSE IF Active(c) THEN "over" ELSE hpc[c]]
        /\ sclosed' = sclosed
                        \cup {c \in Clients \ hung : cpc[c] \notin {"ssh", "new"}}
  BY Zenon DEF Exit
<1>a. /\ srv' = "exited" /\ backlog' = {}
      /\ UNCHANGED <<one_shot, client_count, read, acked, last, ret, clients,
                     file, inputs>>
  BY Zenon DEF Exit
<1>b. hpc \in [Clients -> {"none", "handshake", "session", "joining", "stuck",
                           "over"}]
  BY Zenon DEF IInv, TypeOK
<1>c. \A c \in Clients :
        /\ hpc'[c] \in {"none", "stuck", "over"}
        /\ hpc'[c] = "stuck" => hpc[c] = "session" /\ c \notin sclosed' \ sclosed
        /\ hpc'[c] = "none" <=> hpc[c] = "none"
        /\ hpc'[c] = "over" => hpc[c] # "none"
        /\ hpc[c] = "over" => hpc'[c] = "over"
  BY <1>0, <1>b, SMTT(60) DEF Active, Dropping
<1>d. \A c \in Clients : Active(c)' <=> hpc'[c] = "stuck"
  BY <1>c, SMTT(60) DEF Active, Dropping
<1>e. \A c \in Clients : hpc'[c] = "stuck" => Active(c)
  BY <1>c, Zenon DEF Active
<1>1. TypeOK' /\ OneAtATime' /\ ProcessInv'
  <2>1. hpc' \in [Clients -> {"none", "handshake", "session", "joining", "stuck",
                              "over"}]
    BY <1>0, <1>c, SMTT(60)
  <2>2. TypeOK'
    BY <1>0, <1>a, <2>1, ZenonT(60) DEF IInv, TypeOK
  <2>3. OneAtATime'
    <3>1. srv' # "up"
      BY <1>a
    <3>2. \A c, d \in Clients : Active(c)' /\ Active(d)' => c = d
      BY <1>d, <1>e, Zenon DEF IInv, OneAtATime
    <3>3. QED
      BY <3>1, <3>2, Zenon DEF OneAtATime
  <2>4. ProcessInv'
    BY <1>a, <1>c, Zenon DEF ProcessInv
  <2>5. QED
    BY <2>2, <2>3, <2>4, Zenon
<1>2. SizeAgreed' /\ RefusedUntouched' /\ ToldWhy'
  <2>1. SizeAgreed'
    BY <1>a, <1>b, <1>c, SMTT(60) DEF IInv, SizeAgreed, Dropping
  <2>2. RefusedUntouched' /\ ToldWhy'
    BY <1>a, ZenonT(60) DEF IInv, RefusedUntouched, ToldWhy
  <2>3. QED
    BY <2>1, <2>2, Zenon
<1>3. ASSUME NEW d \in Clients
      PROVE  ConnectionInv(d)' /\ HandshakeInv(d)'
  <2>1. ConnectionInv(d)'
    <3>1. ConnectionInv(d)
      BY Zenon DEF IInv
    <3>2. d \in sclosed' => d \in sclosed \/ cpc[d] \notin {"ssh", "new"}
      BY <1>0, Zenon
    <3>3. hpc[d] = "session" => Active(d)
      BY Zenon DEF Active
    <3>4. hpc'[d] = "stuck" => d \notin sclosed'
      BY <1>c, <3>1, <3>3, Zenon DEF ConnectionInv
    <3>5. hpc'[d] # "joining"
      BY <1>c
    <3>6. QED
      BY <1>a, <1>c, <1>d, <3>1, <3>2, <3>3, <3>4, <3>5, ZenonT(60)
      DEF ConnectionInv
  <2>2. HandshakeInv(d)'
    <3>1. HandshakeInv(d)
      BY Zenon DEF IInv
    <3>2. hpc'[d] # "handshake" /\ hpc'[d] # "session"
      BY <1>c
    <3>3. Dropping(d)' => hpc[d] = "session"
      BY <1>c, SMTT(60) DEF Dropping
    <3>4. Active(d)' => Active(d)
      BY <1>d, <1>e, Zenon
    <3>5. QED
      BY <1>a, <3>1, <3>2, <3>3, <3>4, ZenonT(60) DEF HandshakeInv
  <2>3. QED
    BY <2>1, <2>2, Zenon
<1>4. QED
  BY <1>1, <1>2, <1>3, Zenon DEF IInv

(* Every step of the server and its clients keeps the invariant. *)
LEMMA NextStep ==
  ASSUME IInv, Next
  PROVE  IInv'
<1>1. CASE Bind
  BY <1>1, BindStep, Zenon
<1>2. CASE OneShotExit \/ AcceptFails
  BY <1>2, ExitStep, Zenon DEF OneShotExit, Leaves, AcceptFails, Accepting
<1>3. ASSUME NEW c \in Clients, ClientNext(c) \/ SessionEnds(c) \/ Crash(c)
      PROVE  IInv'
  BY <1>3, ConnectStep, WriteStep, GiveUpStep, CheckStatusStep, IoErrorStep,
     SessionEndsStep, CrashStep, Zenon DEF ClientNext
<1>4. ASSUME NEW c \in Clients, Accept(c) \/ HandlerNext(c) \/ SessionFails(c)
      PROVE  IInv'
  BY <1>4, AcceptStep, RefuseStep, ContinueStep, OpenFileStep,
     AbandonedStep, HangUpStep, SessionFailsStep, JoinedStep, Zenon
     DEF HandlerNext
<1>5. QED
  BY <1>1, <1>2, <1>3, <1>4, Zenon DEF Next

(* With the remote start: the client waits for it, its server or another   *)
(* one is there or not, and who does not belong to that server is a        *)
(* stranger to it.                                                         *)
RemoteInv ==
  /\ IInv
  /\ ssh \in {"auth", "mktemp", "cat", "chmod", "exec", "none"}
  /\ ssh # "none" => /\ srv = "absent" \/ started = "other"
                     /\ cpc[Starter] = "ssh"
  /\ started = "other" => Stranger(Starter)
  /\ started = "ssh" => \A c \in Clients \ {Starter} : Stranger(c)

(* It holds at first ... *)
LEMMA RInitInv == RInit => RemoteInv
<1> SUFFICES ASSUME RInit PROVE RemoteInv
  BY Zenon
<1>1. IInv
  BY InitIInv, Zenon DEF RInit, Init, Waiting
<1>2. QED
  BY <1>1, RemoteStartAssumption, Zenon DEF RInit, Init, InitAt, RemoteInv,
     Waiting

(* ... and a step of the remote start keeps it: it leads to the next one,  *)
(* to the end of the client, or to its connecting.                         *)
LEMMA RemoteStepKeeps ==
  ASSUME RemoteInv, RemoteStep
  PROVE  RemoteInv'
<1> DEFINE rest == <<one_shot, client_count, backlog, handlers, wrote, got,
                     file, inputs>>
<1>1. /\ cpc[Starter] = "ssh" /\ UNCHANGED rest /\ UNCHANGED started
      /\ \/ srv = "absent" /\ srv' \in {"absent", "starting"}
         \/ started = "other" /\ srv' = srv
  BY Zenon DEF RemoteInv, RemoteStep, Nothing, Mktemp, Cat, Chmod, Exec, Launch
<1>s. /\ started' = "other" => Stranger(Starter)'
      /\ started' = "ssh" => \A c \in Clients \ {Starter} : Stranger(c)'
  BY <1>1, Zenon DEF RemoteInv, Stranger
<1>2. \/ ssh' = "none" /\ CEnd(Starter, "error")
      \/ ssh' = "none" /\ UNCHANGED cres
         /\ cpc' = [cpc EXCEPT ![Starter] = "new"]
      \/ ssh' \in {"mktemp", "cat", "chmod", "exec"} /\ UNCHANGED vars
  <2>1. cpc = [cpc EXCEPT ![Starter] = @]
    BY RemoteStartAssumption, Zenon DEF RemoteInv, IInv, TypeOK
  <2>2. QED
    BY <1>1, <2>1, Zenon
    DEF RemoteStep, SshFails, Then, Nothing, Mktemp, Cat, Chmod, vars, process,
        clients
<1>3. CASE ssh' = "none" /\ CEnd(Starter, "error")
  <2>1. TypeOK' /\ OneAtATime' /\ ProcessInv'
    BY <1>1, <1>3, RemoteStartAssumption, SMTT(60)
    DEF RemoteInv, IInv, TypeOK, CEnd, OneAtATime, ProcessInv, Active, Dropping
  <2>2. SizeAgreed' /\ RefusedUntouched' /\ ToldWhy'
    BY <1>1, <1>3, RemoteStartAssumption, SMTT(60)
    DEF RemoteInv, IInv, TypeOK, CEnd, SizeAgreed, RefusedUntouched, ToldWhy,
        ConnectionInv, Refusals, Dropping
  <2>3. ASSUME NEW d \in Clients
        PROVE  ConnectionInv(d)' /\ HandshakeInv(d)'
    BY <1>1, <1>3, RemoteStartAssumption, SMTT(60)
    DEF RemoteInv, IInv, TypeOK, CEnd, ConnectionInv, HandshakeInv, Active,
    Dropping,
        Refusals
  <2>4. QED
    BY <1>s, <1>1, <1>3, <2>1, <2>2, <2>3, ZenonT(60) DEF RemoteInv, IInv
<1>4. CASE /\ ssh' = "none" /\ UNCHANGED cres
           /\ cpc' = [cpc EXCEPT ![Starter] = "new"]
  <2>1. TypeOK' /\ OneAtATime' /\ ProcessInv'
    BY <1>1, <1>4, RemoteStartAssumption, SMTT(60)
    DEF RemoteInv, IInv, TypeOK, OneAtATime, ProcessInv, Active, Dropping
  <2>2. SizeAgreed' /\ RefusedUntouched' /\ ToldWhy'
    BY <1>1, <1>4, RemoteStartAssumption, SMTT(60)
    DEF RemoteInv, IInv, TypeOK, SizeAgreed, RefusedUntouched, ToldWhy,
    Dropping
  <2>3. ASSUME NEW d \in Clients
        PROVE  ConnectionInv(d)' /\ HandshakeInv(d)'
    BY <1>1, <1>4, RemoteStartAssumption, SMTT(60)
    DEF RemoteInv, IInv, TypeOK, ConnectionInv, HandshakeInv, Active, Dropping
  <2>4. QED
    BY <1>s, <1>1, <1>4, <2>1, <2>2, <2>3, ZenonT(60) DEF RemoteInv, IInv
<1>5. CASE ssh' \in {"mktemp", "cat", "chmod", "exec"} /\ UNCHANGED vars
  <2>1. TypeOK' /\ OneAtATime' /\ ProcessInv'
    BY <1>5, ZenonT(60) DEF RemoteInv, IInv, TypeOK, OneAtATime, ProcessInv,
       Active, Dropping
  <2>3. SizeAgreed' /\ RefusedUntouched' /\ ToldWhy'
    BY <1>5, ZenonT(60) DEF RemoteInv, IInv, SizeAgreed, RefusedUntouched,
       ToldWhy, Dropping
  <2>4. \A d \in Clients : ConnectionInv(d)' /\ HandshakeInv(d)'
    BY <1>5, ZenonT(60) DEF RemoteInv, IInv, ConnectionInv, HandshakeInv,
       Active, Dropping
  <2>2. QED
    BY <1>s, <1>1, <1>5, <2>1, <2>3, <2>4, ZenonT(60) DEF RemoteInv, IInv
<1>6. QED
  BY <1>2, <1>3, <1>4, <1>5, Zenon

(* What the server and its clients leave to the remote start: the server   *)
(* is there or not, who waits for it goes on waiting, and nobody changes   *)
(* the request.                                                            *)
NotBefore ==
  /\ srv = "absent" <=> srv' = "absent"
  /\ cpc[Starter] = "ssh" => cpc'[Starter] = "ssh"
  /\ req' = req

(* Their steps leave it alone. *)
LEMMA BeforeTheServer ==
  ASSUME TypeOK, Next
  PROVE  NotBefore
<1>1. /\ Starter \in Clients
      /\ cpc \in [Clients -> {"ssh", "new", "handshake", "session", "done"}]
  BY RemoteStartAssumption, Zenon DEF TypeOK
<1>2. CASE Bind
  BY <1>2, Zenon DEF Bind, NotBefore
<1>3. CASE OneShotExit \/ AcceptFails
  BY <1>3, Zenon
  DEF OneShotExit, Leaves, AcceptFails, Accepting, Exit, NotBefore
<1>4. ASSUME NEW c \in Clients,
             \/ GiveUp(c) \/ IoError(c) \/ SessionEnds(c) \/ Crash(c)
      PROVE  NotBefore
  <2>1. /\ UNCHANGED <<srv, req>> /\ cpc[c] \in {"handshake", "session"}
        /\ cpc' = [cpc EXCEPT ![c] = "done"]
    BY <1>4, Zenon DEF GiveUp, IoError, SessionEnds, Crash, CEnd
  <2>2. QED
    BY <1>1, <2>1, Zenon DEF NotBefore
<1>5. ASSUME NEW c \in Clients, Connect(c) \/ Write(c) \/ CheckStatus(c)
      PROVE  NotBefore
  <2>1. /\ UNCHANGED <<srv, req>> /\ cpc[c] \in {"new", "handshake"}
        /\ cpc' = cpc \/ \E p : cpc' = [cpc EXCEPT ![c] = p]
    BY <1>5, Zenon DEF Connect, Write, CheckStatus, CEnd
  <2>2. QED
    BY <1>1, <2>1, Zenon DEF NotBefore
<1>6. ASSUME NEW c \in Clients, Accept(c) \/ HandlerNext(c) \/ SessionFails(c)
      PROVE  NotBefore
  BY <1>6, Zenon
  DEF Accept, HandlerNext, Refuse, Continue, OpenFile, Abandoned, HangUp,
      SessionFails, DropHasher, Joined, NotBefore
<1>7. QED
  BY <1>2, <1>3, <1>4, <1>5, <1>6, Zenon DEF Next, ClientNext

(* The invariant of the server process, by hand or started remotely. *)
THEOREM ServerInvariant == RSpec => []RemoteInv
<1>1. RInit => RemoteInv
  BY RInitInv, Zenon
<1>2. RemoteInv /\ [RNext]_rvars => RemoteInv'
  <2> SUFFICES ASSUME RemoteInv, [RNext]_rvars PROVE RemoteInv'
    BY Zenon
  <2>1. CASE Next /\ UNCHANGED <<started, ssh, tmp>>
    <3>1. IInv'
      BY <2>1, NextStep, Zenon DEF RemoteInv
    <3>2. NotBefore
      BY <2>1, BeforeTheServer, Zenon DEF RemoteInv, IInv
    <3>3. QED
      BY <2>1, <3>1, <3>2, Zenon DEF RemoteInv, NotBefore, Stranger
  <2>2. CASE UNCHANGED rvars
    <3>1. UNCHANGED <<process, handlers, clients, file, inputs, started, ssh,
                      tmp>>
      BY <2>2, Zenon DEF rvars, vars
    <3>2. TypeOK' /\ OneAtATime' /\ ProcessInv'
      BY <3>1, ZenonT(60) DEF RemoteInv, IInv, TypeOK, OneAtATime, ProcessInv,
           Active, Dropping,
         process, handlers, clients, file, inputs
    <3>3. SizeAgreed' /\ RefusedUntouched' /\ ToldWhy'
      BY <3>1, Zenon DEF RemoteInv, IInv, SizeAgreed, RefusedUntouched,
           ToldWhy, Dropping,
         process, handlers, clients, file, inputs
    <3>4. \A d \in Clients : ConnectionInv(d)' /\ HandshakeInv(d)'
      BY <3>1, ZenonT(60) DEF RemoteInv, IInv, ConnectionInv, HandshakeInv,
           Active, Dropping,
         process, handlers, clients, file, inputs
    <3>5. QED
      BY <3>1, <3>2, <3>3, <3>4, Zenon
      DEF RemoteInv, IInv, Stranger, process, handlers, clients, file, inputs
  <2>3. QED
    BY <2>1, <2>2, RemoteStepKeeps, Zenon DEF RNext
<1>3. QED
  BY <1>1, <1>2, PTL DEF RSpec

(* Handlers, clients and counters of the accept loop fit together in every *)
(* state (main.rs, server.rs): what the five results below rest on.        *)
THEOREM HandlersAndClientsAgree == RSpec => []IInv
<1>1. RemoteInv => IInv
  BY Zenon DEF RemoteInv
<1>2. QED
  BY <1>1, ServerInvariant, PTL

(* There is never more than one handler, and the counter says whether      *)
(* there is one (main.rs, the accept loop), for any number of clients.     *)
THEOREM OneClientAtATime == RSpec => []OneAtATime
<1>1. RemoteInv => OneAtATime
  BY Zenon DEF RemoteInv, IInv
<1>2. QED
  BY <1>1, ServerInvariant, PTL

(* A session has the destination at the size that was agreed on, until it  *)
(* ends, and a client is in it only if each field was accepted.            *)
THEOREM SessionsAgree == RSpec => []SizeAgreed
<1>1. RemoteInv => SizeAgreed
  BY Zenon DEF RemoteInv, IInv
<1>2. QED
  BY <1>1, ServerInvariant, PTL

(* A client that is refused has not touched the destination. *)
THEOREM RefusalsTouchNothing == RSpec => []RefusedUntouched
<1>1. RemoteInv => RefusedUntouched
  BY Zenon DEF RemoteInv, IInv
<1>2. QED
  BY <1>1, ServerInvariant, PTL

(* A client that is refused is told why, unless unread fields have led to  *)
(* a reset of its connection.                                              *)
THEOREM RefusalsAreTold == RSpec => []ToldWhy
<1>1. RemoteInv => ToldWhy
  BY Zenon DEF RemoteInv, IInv
<1>2. QED
  BY <1>1, ServerInvariant, PTL

(* A client is served by the server that it has started or by none, and    *)
(* that server serves nobody else, whatever failed while it was started,   *)
(* whoever has the port, and for any number of other clients.              *)
THEOREM ServedByItsOwnServer == RSpec => []OnlyItsOwnServer
<1>1. RemoteInv => OnlyItsOwnServer
  <2>1. ASSUME RemoteInv, NEW c \in Clients, Stranger(c)
        PROVE  ~Served(c)
    <3>1. req[c].flaw # 0
      BY <2>1 DEF Stranger
    <3>2. ~(acked[c] > 0) /\ c \notin touched /\ cpc[c] # "session"
      BY <2>1, <3>1, Zenon DEF RemoteInv, IInv, HandshakeInv, SizeAgreed,
         Stranger
    <3>3. cres[c] # "ok"
      BY <2>1, <3>1, Zenon DEF RemoteInv, IInv, HandshakeInv
    <3>4. QED
      BY <3>2, <3>3, Zenon DEF Served
  <2>2. QED
    BY <2>1, RemoteStartAssumption, Zenon DEF RemoteInv, OnlyItsOwnServer
<1>2. QED
  BY <1>1, ServerInvariant, PTL
=============================================================================
