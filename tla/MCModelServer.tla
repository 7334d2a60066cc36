---------------------------- MODULE MCModelServer ----------------------------
(* Small instances of ModelServer for TLC: values for its CONSTANTS and    *)
(* the symmetries of the instances.                                        *)
EXTENDS ModelServer, TLC

Interchangeable == Permutations(Engines) \cup Permutations(Unloaders)
==============================================================================
