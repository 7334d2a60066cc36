---------------------------- MODULE MCDecoderCache ----------------------------
(* Instances of DecoderCache for TLC.  A behaviour is that of one decoder  *)
(* with one set of options.                                                *)
EXTENDS Integers

VARIABLES
    decoder_options,    \* the name of the options
    pc, text, decoder, out, start, prev_keys, store, requests

vars == <<decoder_options, pc, text, decoder, out, start, prev_keys, store,
          requests>>

(* Prompts that share their first chunk, their second, or none.            *)
SharedPrompts ==
    {<<<<"a", "b", "a">>>>, <<<<"b", "b", "a">>>>, <<<<"a", "b", "a", "b", "a">>>>,
     <<<<"a", "b", "a", "a">>, <<"b", "b", "a", "b">>>>,
     <<<<"a", "b", "b">>, <<"a", "b", "b">>>>}

(* Two rows, the second padded on the left.                                *)
PaddedPrompts ==
    {<<<<"a", "b", "a", "b">>, <<"pad", "pad", "pad", "a">>>>,
     <<<<"a", "b", "b">>, <<"pad", "b", "b">>>>}

(* One row, as speculation needs.                                          *)
SinglePrompts == {<<<<"a", "b", "a">>>>, <<<<"b">>>>}

(* A prefix cache of three entries, filled by four requests.               *)
PrefixCache ==
    [batches |-> SharedPrompts, paths |-> 1, max_length |-> 0, max_drafts |-> 0,
     window |-> 0, prefill_chunk |-> 2, max_entries |-> 3, kernel |-> 0,
     dynamic_shapes |-> TRUE, add_zeros |-> 2, max_requests |-> 4]

Options ==
    [prefix |-> PrefixCache,
     hybrid |-> [PrefixCache EXCEPT !.kernel = 3],
     window |-> [PrefixCache EXCEPT !.batches = PaddedPrompts, !.max_length = 2,
                     !.window = 2, !.prefill_chunk = 0, !.max_entries = 4,
                     !.max_requests = 2],
     beams |-> [PrefixCache EXCEPT !.batches = PaddedPrompts, !.paths = 2,
                    !.max_length = 1, !.prefill_chunk = 0, !.max_entries = 0,
                    !.kernel = 2, !.add_zeros = 1, !.max_requests = 1],
     static |-> [PrefixCache EXCEPT !.batches = PaddedPrompts, !.max_length = 2,
                     !.prefill_chunk = 0, !.max_entries = 0, !.max_requests = 1,
                     !.dynamic_shapes = FALSE],
     drafts |-> [PrefixCache EXCEPT !.batches = SinglePrompts, !.max_length = 5,
                     !.max_drafts = 2, !.prefill_chunk = 0, !.max_entries = 0,
                     !.kernel = 3, !.add_zeros = 1, !.max_requests = 1]]

Decoder(o) == INSTANCE DecoderCache WITH
    Tokens <- {"a", "b", "pad"}, Pad <- "pad", Blank <- "blank",
    Batches <- Options[o].batches, Paths <- Options[o].paths,
    MaxLength <- Options[o].max_length, MaxDrafts <- Options[o].max_drafts,
    Window <- Options[o].window, PrefillChunk <- Options[o].prefill_chunk,
    MaxEntries <- Options[o].max_entries, Kernel <- Options[o].kernel,
    DynamicShapes <- Options[o].dynamic_shapes, KvMax <- 8,
    AddZeros <- Options[o].add_zeros, MaxRequests <- Options[o].max_requests

ASSUME OptionsAssumption ==
    \A o \in DOMAIN Options : Decoder(o)!DecoderCacheAssumption

Init == \E o \in DOMAIN Options : decoder_options = o /\ Decoder(o)!Init

DecoderNext(o) ==
    /\ decoder_options = o
    /\ Decoder(o)!Next
    /\ UNCHANGED decoder_options

(* As many requests as the bound allows have been answered.                *)
Ended ==
    /\ pc = "idle"
    /\ requests = Options[decoder_options].max_requests
    /\ UNCHANGED vars

Next == (\E o \in DOMAIN Options : DecoderNext(o)) \/ Ended

Spec == Init /\ [][Next]_vars

------------------------------------------------------------------------------
(* Properties of the decoder that runs.                                    *)

OfDecoder(P(_)) == \A o \in DOMAIN Options : decoder_options = o => P(o)

(* Each row's next token is predicted from its own text, as training would *)
(* read it, and rows, cells and masks have their types and sizes           *)
(* (_forward_eager, map_state, commit_speculation).                        *)
PredictsFromItsText ==
    OfDecoder(LAMBDA o : Decoder(o)!TypeOK /\ Decoder(o)!PredictsFromItsText)

(* A restored chunk leaves what computing it would have, and the entries   *)
(* of the prompt in hand stay while they fit (PrefillCache).               *)
PrefixCacheServes ==
    OfDecoder(LAMBDA o : /\ Decoder(o)!RestoringIsComputing
                         /\ Decoder(o)!KeepsWhatIsInUse)
===============================================================================
