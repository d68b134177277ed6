---------------------------- MODULE MessageStream ----------------------------
(***************************************************************************)
(* What the framing of src/common.rs promises to the event loops, without  *)
(* bytes, buffers or cancelled futures: messages arrive whole, in the      *)
(* order in which they were sent, and each once.  A connection that breaks *)
(* delivers no more of them.  Module Session sees the two connections like *)
(* this.                                                                   *)
(***************************************************************************)
EXTENDS Naturals, Sequences

CONSTANT Messages   \* what may be sent

VARIABLES
  sent,             \* the messages the sender has started to write
  got               \* the messages read_on() has returned

vars == <<sent, got>>

Init == sent = <<>> /\ got = <<>>

Send ==
  /\ sent' \in Seq(Messages)
  /\ Len(sent') = Len(sent) + 1 /\ SubSeq(sent', 1, Len(sent)) = sent
  /\ UNCHANGED got

Receive ==
  /\ Len(got) < Len(sent)
  /\ got' = Append(got, sent[Len(got) + 1])
  /\ UNCHANGED sent

Spec == Init /\ [][Send \/ Receive]_vars
=============================================================================
