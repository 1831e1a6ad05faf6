-------------------------------- MODULE MCPanel --------------------------------
(* Panel for TLC: the sources of an instance.                               *)
EXTENDS Panel

MCSource == {"danbooru", "safebooru"}
==============================================================================
