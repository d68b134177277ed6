--------------------------- MODULE OrderedDelivery ---------------------------
(***************************************************************************)
(* What an ordered channel promises, without threads, locks or buffers.    *)
(*                                                                         *)
(* Senders offer values in any order, each under its own index.  A value   *)
(* is accepted only when every smaller index has already been delivered,   *)
(* and the receiver gets the accepted values one by one: 0, 1, 2, ...      *)
(* At most one accepted value is on its way at any time.                   *)
(*                                                                         *)
(* A value is identified by the index it was offered under.                *)
(***************************************************************************)
EXTENDS Naturals, Sequences

CONSTANT Indices    \* the indices that may be offered

VARIABLES
  offered,          \* indices some sender has called send() with
  accepted,         \* indices whose send() has succeeded
  delivered         \* the values the receiver got, in the order it got them

vars == <<offered, accepted, delivered>>

Init ==
  /\ offered = {}
  /\ accepted = {}
  /\ delivered = <<>>

Offer(i) ==
  /\ i \in Indices \ offered
  /\ offered' = offered \cup {i}
  /\ UNCHANGED <<accepted, delivered>>

Accept(i) ==
  /\ i \in offered \ accepted
  /\ i = Len(delivered)
  /\ accepted' = accepted \cup {i}
  /\ UNCHANGED <<offered, delivered>>

Deliver ==
  /\ Len(delivered) \in accepted
  /\ delivered' = Append(delivered, Len(delivered))
  /\ UNCHANGED <<offered, accepted>>

Next ==
  \/ \E i \in Indices : Offer(i) \/ Accept(i)
  \/ Deliver

Spec == Init /\ [][Next]_vars
=============================================================================
