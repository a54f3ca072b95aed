---------------------------- MODULE MCTreeCrawler ----------------------------
(* A tree r - a - c - d - e with a second branch r - b - f - h, and g, which  *)
(* has left it: below the first page there are two pages to be read at once,  *)
(* and one below one of them.                                                 *)
EXTENDS TreeCrawler

MCParent == [n \in {"a", "b", "c", "d", "e", "f", "h"} |->
                CASE n \in {"a", "b"} -> "r"
                  [] n = "c" -> "a" [] n = "d" -> "c" [] n = "e" -> "d"
                  [] n = "f" -> "b" [] n = "h" -> "f"]
MCRank == [r |-> 0, a |-> 1, b |-> 2, c |-> 3, d |-> 4, e |-> 5, f |-> 6, g |-> 7, h |-> 8]
MCDBParent == [n \in {"g"} |-> "a"]
=============================================================================
