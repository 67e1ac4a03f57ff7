------------------------------ MODULE MCIndexer ------------------------------
(* Two branches from genesis that carry the same events at other heights;  *)
(* the longer one also has an invalid observation.                          *)
EXTENDS Indexer

MCBlocks == {"g", "a1", "b1", "b2", "b3"}

MCParent == [b \in MCBlocks \ {"g"} |->
    CASE b \in {"a1", "b1"} -> "g" [] b = "b2" -> "b1" [] b = "b3" -> "b2"]

MCHeight == [b \in MCBlocks |->
    CASE b = "g" -> 0 [] b \in {"a1", "b1"} -> 1 [] b = "b2" -> 2 [] b = "b3" -> 3]

MCEventsIn == [b \in MCBlocks |->
    CASE b = "a1" -> {"x", "y"} [] b = "b1" -> {"z"} [] b = "b2" -> {"y"} [] b = "b3" -> {"x"}
      [] OTHER -> {}]

MCMalformed == {<<"b1", "z">>}
=============================================================================
