----------------------------- MODULE ListGathering -----------------------------
(***************************************************************************)
(* all_gather_list: every rank sends an object to every other through      *)
(* fixed buffers of bytes that are kept from call to call.  The object's   *)
(* size goes ahead of it in two bytes, so that what an earlier, longer     *)
(* object left in the buffer is not read.  A byte of an object is told by  *)
(* its rank, its call and its place.                                       *)
(***************************************************************************)
EXTENDS Integers

CONSTANTS
    Ranks,
    Base, Modulo,     \* ENCODING_BASE and ENCODING_MODULO, the values of a byte
    Calls,            \* the number of calls
    MaxSize,          \* max_size of each call, the same for all ranks
    Sizes,            \* the sizes an encoded object may have
    Garbage           \* the content of new memory

ASSUME ListGatheringAssumption ==
    /\ Ranks # {}
    /\ Base \in Nat \ {0} /\ Modulo \in Nat \ {0} /\ Base <= Modulo
    /\ Calls \in Nat
    /\ MaxSize \in [1 .. Calls -> Nat]
    /\ Sizes \subseteq Nat \ {0}
    /\ \A c \in 1 .. Calls : MaxSize[c] < Base * Modulo    \* asserted

VARIABLES
    pc,            \* "called", "sent", "received", "returned" or "failed"
    call,          \* the number of the call each rank is in
    size,          \* the size of the object each rank sends
    header,        \* the first two bytes of each rank's _in_buffer
    in_buffer,     \* the others: a function on 1 .. max_size - 2
    out_headers, out_buffers,    \* of each rank, from each rank
    results        \* what a call returned, from each rank

vars == <<pc, call, size, header, in_buffer, out_headers, out_buffers, results>>

Places(c) == 1 .. MaxSize[c] - 2
Message(r, c, n) == [j \in 1 .. n |-> <<r, c, j>>]

Init ==
    /\ pc = [r \in Ranks |-> "called"]
    /\ call = [r \in Ranks |-> 1]
    /\ size = [r \in Ranks |-> 0]
    /\ header = [r \in Ranks |-> <<0, 0>>]
    /\ in_buffer = [r \in Ranks |-> <<>>]
    /\ out_headers = [r \in Ranks |-> [q \in Ranks |-> <<0, 0>>]]
    /\ out_buffers = [r \in Ranks |-> [q \in Ranks |-> <<>>]]
    /\ results = [r \in Ranks |-> [q \in Ranks |-> <<>>]]

(* The buffer is kept if max_size has not changed.                         *)
Buffer(r, c) ==
    IF DOMAIN in_buffer[r] = Places(c) THEN in_buffer[r]
    ELSE [j \in Places(c) |-> Garbage]

HeaderInModulo(n) == <<n \div Modulo, n % Modulo>>

(* Two bytes.                                                              *)
Header(n) == <<n \div Base, n % Base>>

SizeOf(h) == Base * h[1] + h[2]

(* A rank encodes an object that has room and waits in the collective.     *)
Send(r, n) ==
    /\ pc[r] = "called" /\ call[r] <= Calls
    /\ n + 2 <= MaxSize[call[r]]
    /\ size' = [size EXCEPT ![r] = n]
    /\ header' = [header EXCEPT ![r] = Header(n)]
    /\ in_buffer' = [in_buffer EXCEPT ![r] =
           [j \in Places(call[r]) |->
               IF j <= n THEN <<r, call[r], j>> ELSE Buffer(r, call[r])[j]]]
    /\ pc' = [pc EXCEPT ![r] = "sent"]
    /\ UNCHANGED <<call, out_headers, out_buffers, results>>

(* An object that has no room is an error, and the others wait.            *)
Refuse(r, n) ==
    /\ pc[r] = "called" /\ call[r] <= Calls
    /\ n + 2 > MaxSize[call[r]]
    /\ pc' = [pc EXCEPT ![r] = "failed"]
    /\ UNCHANGED <<call, size, header, in_buffer, out_headers, out_buffers, results>>

(* The collective: every rank has every buffer.                            *)
AllGather ==
    /\ \A r \in Ranks : pc[r] = "sent"
    /\ out_headers' = [r \in Ranks |-> header]
    /\ out_buffers' = [r \in Ranks |-> in_buffer]
    /\ pc' = [r \in Ranks |-> "received"]
    /\ UNCHANGED <<call, size, header, in_buffer, results>>

(* As many bytes as the header says are read.                              *)
Decoded(r, q) == [j \in 1 .. SizeOf(out_headers[r][q]) |-> out_buffers[r][q][j]]

Receive(r) ==
    /\ pc[r] = "received"
    /\ results' = [results EXCEPT ![r] = [q \in Ranks |-> Decoded(r, q)]]
    /\ pc' = [pc EXCEPT ![r] = "returned"]
    /\ UNCHANGED <<call, size, header, in_buffer, out_headers, out_buffers>>

(* The next call, which a rank may make before another has returned.       *)
Call(r) ==
    /\ pc[r] = "returned"
    /\ call' = [call EXCEPT ![r] = @ + 1]
    /\ pc' = [pc EXCEPT ![r] = "called"]
    /\ UNCHANGED <<size, header, in_buffer, out_headers, out_buffers, results>>

Next ==
    \/ \E r \in Ranks : \/ \E n \in Sizes : Send(r, n) \/ Refuse(r, n)
                        \/ Receive(r) \/ Call(r)
    \/ AllGather

Spec == Init /\ [][Next]_vars

------------------------------------------------------------------------------
(* Properties.                                                             *)

Bytes == 0 .. Modulo - 1

(* Also that the two values of a header are bytes.                         *)
TypeOK ==
    /\ pc \in [Ranks -> {"called", "sent", "received", "returned", "failed"}]
    /\ call \in [Ranks -> Nat \ {0}]
    /\ size \in [Ranks -> Nat]
    /\ header \in [Ranks -> Bytes \X Bytes]
    /\ out_headers \in [Ranks -> [Ranks -> Bytes \X Bytes]]

(* "Gathers arbitrary data from all nodes into a list": a call returns     *)
(* from every rank exactly the object that it sent in that call, whatever  *)
(* earlier objects left in the buffers, and whoever is slow to return.     *)
EveryoneHasEveryObject ==
    \A r, q \in Ranks :
        pc[r] = "returned" /\ call[q] = call[r] =>
            results[r][q] = Message(q, call[r], size[q])
===============================================================================
