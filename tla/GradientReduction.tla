--------------------------- MODULE GradientReduction ---------------------------
(***************************************************************************)
(* The gradients of data-parallel ranks are averaged at the end of a step: *)
(* GradientSynchronizer lists those that there are, and                    *)
(* all_reduce_and_rescale_tensors packs them into a buffer of a fixed size *)
(* and reduces it when the next does not fit.  A collective adds up        *)
(* buffers: that the ranks put the same parameter at the same place is up  *)
(* to them.  A gradient is abstracted to what was added up in it.          *)
(***************************************************************************)
EXTENDS Integers, SequencesExt, FiniteSetsExt, Filtering

CONSTANTS
    Ranks,
    NumParams,        \* in the order of model.parameters()
    Models,           \* records [experts, numels]: the parameters of an expert,
                      \* unused if it gets no token, and the numbers of
                      \* elements a parameter may have
    ElementSize,      \* bytes of an element, the same for all gradients
    BufferSize        \* buffer_size, in bytes

Params == 1 .. NumParams

GradientReductionAssumption ==
    /\ Ranks # {} /\ IsFiniteSet(Ranks)
    /\ {NumParams, ElementSize, BufferSize} \subseteq Nat \ {0}
    /\ \A m \in Models : /\ m.experts \subseteq Params
                         /\ m.numels \subseteq Nat \ {0}

VARIABLES
    numel,         \* of each parameter
    tensors,       \* of each rank: the parameters that have a gradient
    todo,          \* of each rank: those not yet packed
    buffer,        \* of each rank: those in the buffer
    filled,        \* of each rank: bytes
    posted,        \* of each rank: what it waits to reduce, or none
    grad           \* of each rank and parameter

vars == <<numel, tensors, todo, buffer, filled, posted, grad>>

None == [tensors |-> <<>>, buffered |-> FALSE]

(* What a backward pass leaves: the gradient of the rank's own batch.      *)
Own(r, p) == [from |-> [c \in Ranks \X Params |-> IF c = <<r, p>> THEN 1 ELSE 0],
              rescaled |-> 0]

(* vectorized_moe calls only the experts that some token of the batch was  *)
(* routed to, and zero_grad(set_to_none=True) leaves the others without a  *)
(* gradient.                                                               *)
HasGradient(experts, routed, p) == p \in experts => p \in routed

Grads(experts, routed) ==
    Kept([p \in Params |-> p], {p \in Params : HasGradient(experts, routed, p)})

Init ==
    /\ \E m \in Models :
           /\ numel \in [Params -> m.numels]
           /\ \E routed \in [Ranks -> SUBSET m.experts] :
                  tensors = [r \in Ranks |-> Grads(m.experts, routed[r])]
    /\ todo = tensors
    /\ buffer = [r \in Ranks |-> <<>>]
    /\ filled = [r \in Ranks |-> 0]
    /\ posted = [r \in Ranks |-> None]
    /\ grad = [r \in Ranks |-> [p \in Params |-> Own(r, p)]]

------------------------------------------------------------------------------
Size(p) == numel[p] * ElementSize

Working(r) == posted[r] = None /\ todo[r] # <<>>

(* "tensor is bigger than buffer, all-reduce and rescale directly"         *)
Direct(r) ==
    /\ Working(r)
    /\ Size(Head(todo[r])) > BufferSize
    /\ posted' = [posted EXCEPT ![r] = [tensors |-> <<Head(todo[r])>>, buffered |-> FALSE]]
    /\ todo' = [todo EXCEPT ![r] = Tail(@)]
    /\ UNCHANGED <<numel, tensors, buffer, filled, grad>>

EmptiedBuffer(r) == <<>>

(* The buffer goes on with the tensor that did not fit.                    *)
RestartedBuffer(r) == <<Head(todo[r])>>

RestartedFilled(r) == Size(Head(todo[r]))

(* "buffer is full, all-reduce and replace buffer with grad"               *)
Full(r) ==
    /\ Working(r)
    /\ Size(Head(todo[r])) <= BufferSize
    /\ filled[r] + Size(Head(todo[r])) > BufferSize
    /\ posted' = [posted EXCEPT ![r] = [tensors |-> buffer[r], buffered |-> TRUE]]
    /\ buffer' = [buffer EXCEPT ![r] = RestartedBuffer(r)]
    /\ filled' = [filled EXCEPT ![r] = RestartedFilled(r)]
    /\ todo' = [todo EXCEPT ![r] = Tail(@)]
    /\ UNCHANGED <<numel, tensors, grad>>

(* "add tensor to buffer"                                                  *)
Pack(r) ==
    /\ Working(r)
    /\ filled[r] + Size(Head(todo[r])) <= BufferSize
    /\ buffer' = [buffer EXCEPT ![r] = Append(@, Head(todo[r]))]
    /\ filled' = [filled EXCEPT ![r] = @ + Size(Head(todo[r]))]
    /\ todo' = [todo EXCEPT ![r] = Tail(@)]
    /\ UNCHANGED <<numel, tensors, posted, grad>>

(* What is left in the buffer at the end.                                  *)
Flush(r) ==
    /\ posted[r] = None /\ todo[r] = <<>> /\ buffer[r] # <<>>
    /\ posted' = [posted EXCEPT ![r] = [tensors |-> buffer[r], buffered |-> TRUE]]
    /\ buffer' = [buffer EXCEPT ![r] = <<>>]
    /\ UNCHANGED <<numel, tensors, todo, filled, grad>>

Shape(r) == [i \in DOMAIN posted[r].tensors |-> numel[posted[r].tensors[i]]]

AddedUp(i) ==
    [c \in Ranks \X Params |->
        MapThenSumSet(LAMBDA q : grad[q][posted[q].tensors[i]].from[c], Ranks)]

Reduced(i, old) == [from |-> AddedUp(i), rescaled |-> old.rescaled + 1]

(* The collective, when every rank is in one and they are of one shape     *)
(* (otherwise it does not return), the rescaling, and the copies back.     *)
AllReduce ==
    /\ \A r \in Ranks : posted[r] # None
    /\ \A r, q \in Ranks : Shape(r) = Shape(q)
    /\ grad' = [r \in Ranks |-> [p \in Params |->
           LET at == {i \in DOMAIN posted[r].tensors : posted[r].tensors[i] = p}
           IN  IF at = {} THEN grad[r][p] ELSE Reduced(Max(at), grad[r][p])]]
    /\ posted' = [r \in Ranks |-> None]
    /\ UNCHANGED <<numel, tensors, todo, buffer, filled>>

Returned(r) == posted[r] = None /\ todo[r] = <<>> /\ buffer[r] = <<>>

(* Every rank has its gradients and goes on to the optimizer.              *)
Step == (\A r \in Ranks : Returned(r)) /\ UNCHANGED vars

Next ==
    \/ \E r \in Ranks : Direct(r) \/ Full(r) \/ Pack(r) \/ Flush(r)
    \/ AllReduce
    \/ Step

Spec == Init /\ [][Next]_vars

------------------------------------------------------------------------------
(* Properties.                                                             *)

TypeOK ==
    /\ numel \in [Params -> Nat \ {0}]
    /\ tensors \in [Ranks -> Seq(Params)]
    /\ todo \in [Ranks -> Seq(Params)]
    /\ buffer \in [Ranks -> Seq(Params)]
    /\ filled \in [Ranks -> 0 .. BufferSize]
    /\ posted \in [Ranks -> [tensors : Seq(Params), buffered : BOOLEAN]]

(* buffer_t has room for what is copied into it.                           *)
BufferFits ==
    \A r \in Ranks : posted[r].buffered =>
        FoldLeft(LAMBDA n, p : n + Size(p), 0, posted[r].tensors) <= BufferSize

(* Ranks whose batches used different experts do not list the same ones.   *)
SameParameters == \A r, q \in Ranks : tensors[r] = tensors[q]

(* "Synchronize gradients across GPUs": when a rank is through, a gradient *)
(* is the sum of what each rank has for that parameter, and of nothing     *)
(* else, each once, rescaled once; provided the ranks have gradients for   *)
(* the same parameters (GradientSynchronizer.synchronize).                 *)
GradientsAreSynchronised ==
    SameParameters => \A r \in Ranks : Returned(r) => \A p \in ToSet(tensors[r]) :
        /\ grad[r][p].from = [c \in Ranks \X Params |-> IF c[2] = p THEN 1 ELSE 0]
        /\ grad[r][p].rescaled = 1
===============================================================================
