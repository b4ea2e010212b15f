---------------------------- MODULE MCFileConfig ----------------------------
(* Instances of FileConfig for TLC: two consumers, small sets of contents. *)
EXTENDS FileConfig

CONSTANTS ok1, ok2, bad, mangled, half, collector, transmission
=============================================================================
