---------------------------- MODULE MCCollectives -----------------------------
(* ListGathering and GradientReduction side by side.  A behaviour is that  *)
(* of gathered objects, or of reduced gradients.  The definitions named    *)
(* Small are values for TLC: buffers of 8 bytes, kept for one more call,   *)
(* then of 10; models with and without experts.                            *)
EXTENDS ListGathering

CONSTANTS NumParams, Models, ElementSize, BufferSize

VARIABLES
    part,    \* "gathering" or "reduction"
    numel, tensors, todo, buffer, filled, posted, grad

gradients == <<numel, tensors, todo, buffer, filled, posted, grad>>

SmallSizeOfCall == <<8, 8, 10>>

SmallModels == {[experts |-> {}, numels |-> {1, 2, 3, 5}],
                [experts |-> {1, 3}, numels |-> {1, 3}]}

Reduction == INSTANCE GradientReduction

ASSUME ModelsAssumption == Reduction!GradientReductionAssumption

CollectivesInit ==
    /\ Init
    /\ \/ /\ part = "gathering"
          /\ numel = <<>> /\ tensors = <<>> /\ todo = <<>> /\ buffer = <<>>
          /\ filled = <<>> /\ posted = <<>> /\ grad = <<>>
       \/ part = "reduction" /\ Reduction!Init

GatheringNext ==
    /\ part = "gathering"
    /\ Next
    /\ UNCHANGED <<part, gradients>>

ReductionNext ==
    /\ part = "reduction"
    /\ Reduction!Next
    /\ UNCHANGED <<part, vars>>

(* The calls are made, or a rank that raised keeps the others waiting.     *)
GatheringIsOver ==
    /\ part = "gathering"
    /\ (\E r \in Ranks : pc[r] = "failed") \/ (\A r \in Ranks : call[r] > Calls)
    /\ UNCHANGED <<part, vars, gradients>>

(* Buffers of different shapes: the collective does not return.            *)
ReductionHangs ==
    /\ part = "reduction"
    /\ ~Reduction!SameParameters
    /\ UNCHANGED <<part, vars, gradients>>

CollectivesNext ==
    \/ GatheringNext \/ GatheringIsOver
    \/ ReductionNext \/ ReductionHangs

CollectivesSpec ==
    CollectivesInit /\ [][CollectivesNext]_<<part, vars, gradients>>

------------------------------------------------------------------------------
(* Properties of GradientReduction, besides those of ListGathering.        *)

(* A gradient is the sum of those of the ranks, rescaled once, and what is *)
(* packed on the way fits in the buffer                                    *)
(* (all_reduce_and_rescale_tensors, GradientSynchronizer.synchronize).     *)
GradientsAreSynchronised ==
    part = "reduction" => /\ Reduction!TypeOK
                          /\ Reduction!BufferFits
                          /\ Reduction!GradientsAreSynchronised
===============================================================================
