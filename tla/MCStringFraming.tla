--------------------------- MODULE MCStringFraming --------------------------
(* The constants with which TLC checks StringFraming. *)
EXTENDS StringFraming

(* Ordinary hashes, empty strings, and one that is too long. *)
MCPlans == { << <<1, 2>>, <<0>>, <<2, 1, 1, 2>> >>,
             << <<>>, <<0, 1, 2>>, <<>> >>,
             << <<2>>, <<1, 1, 1, 1, 1>>, <<0>> >> }
=============================================================================
