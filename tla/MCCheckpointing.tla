-------------------------- MODULE MCCheckpointing ---------------------------
(* An instance of Checkpointing for TLC.                                   *)
EXTENDS Checkpointing

OneArtifact == <<"tokenizer">>
=============================================================================
