------------------------------ MODULE MCServer ------------------------------
(* The constants and the scenarios with which TLC checks Server and         *)
(* RemoteStart.                                                             *)
EXTENDS RemoteStart

CONSTANTS c1, c2

Plain == [flaw |-> 0, size |-> 2, force |-> FALSE, bad |-> "none"]
Other == [Plain EXCEPT !.size = 1]

(* One client may make any mistake; the other wants another size, and may  *)
(* only have the wrong secret.                                             *)
MCRequests(c) ==
  IF c = c1 THEN {[Plain EXCEPT !.flaw = f] : f \in 0 .. 6}
                 \cup {[Plain EXCEPT !.bad = b] : b \in {"path", "source"}}
                 \cup {[Plain EXCEPT !.force = TRUE]}
  ELSE {Other, [Other EXCEPT !.force = TRUE]}
         \cup {[Other EXCEPT !.flaw = f] : f \in {1, 2}}

(* One thing at a time is out of the ordinary: the mistake in a request,   *)
(* the rights on the destination, or that the server is started remotely.  *)
Mistaken == req[c1].flaw # 0 \/ req[c1].bad # "none"
Scenario ==
  /\ Mistaken \/ access \in {"hidden", "odd", "writeonly"} =>
       dest = [there |-> TRUE, len |-> Plain.size]
  /\ Mistaken => access = "full" /\ req[c2].force
  /\ access # "full" => ~one_shot /\ ~req[c1].force /\ ~req[c2].force
  /\ req[c2].flaw # 0 => started = "ssh"
  /\ started = "ssh" => ~Mistaken /\ access = "full" /\ ~dest.there
  /\ started = "other" => access = "full" /\ ~one_shot /\ req[c1].flaw = 2
  /\ started = "hand" /\ one_shot => req[c2].force
  /\ ~(req[c1].force /\ req[c2].force)

MCInit == RInit /\ Scenario
MCSpec == MCInit /\ [][RNext]_rvars /\ Fairness
=============================================================================
