--------------------------- MODULE MCTokenManager ---------------------------
(* Two threads that begin with the user u, whose sponsor is p. *)
EXTENDS TokenManager

MCSponsor == [x \in {"u", "p"} |-> IF x = "u" THEN "p" ELSE None]
MCFirst == [t \in Threads |-> "u"]
=============================================================================
