-------------------------- MODULE MCTrailerHasher --------------------------
(***************************************************************************)
(* A pack for TLC whose bytes are all different, so that no two orders of  *)
(* them look the same; every cut of it and every end is a behaviour.       *)
(***************************************************************************)
EXTENDS TrailerHasher

CONSTANT PackLen

MCPack == [i \in 1 .. PackLen |-> i]
=============================================================================
