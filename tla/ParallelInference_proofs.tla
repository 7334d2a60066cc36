----------------------- MODULE ParallelInference_proofs -----------------------
(***************************************************************************)
(* Proofs about ParallelInference for any number of workers, of calls, of  *)
(* inputs and of failures: what a call returns was made for this call,     *)
(* every input is answered once, and how long a list may be to come back   *)
(* in order.                                                               *)
(***************************************************************************)
EXTENDS MCParallelInference, Filtering_proofs, FiniteSetTheorems, TLAPS

------------------------------------------------------------------------------
(* The calls the options offer, the steps of a worker, and the worker that *)
(* an input belongs to.                                                    *)
Offered(o) == {c \in Engine(o)!Calls : c.kind \in Options[o].kinds}
WorkerActs(o, w) ==
    \/ Engine(o)!Start(w) \/ Engine(o)!Take(w) \/ Engine(o)!Answer(w)
    \/ Engine(o)!Fail(w) \/ Engine(o)!End(w)
Owner(o, i) == (i \div Options[o].world) % Options[o].world

USE DEF Offered, WorkerActs

------------------------------------------------------------------------------
(* The inductive invariant.                                                *)

(* What the workers can ever put on a queue.                               *)
Made(o) == UNION {Range(Engine(o)!Answers(w, c)) : w \in Engine(o)!Workers, c \in Offered(o)}

Typed(o) ==
    /\ parent \in {"idle", "distributing", "collecting", "joining", "raised", "ended"}
    /\ call \in Engine(o)!Calls
    /\ at \in Engine(o)!Workers
    /\ results \in [Engine(o)!Workers -> Seq(Made(o))]
    /\ queue_instruct \in [Engine(o)!Workers -> Seq(Offered(o) \cup {Engine(o)!Stop})]
    /\ queue_result \in [Engine(o)!Workers -> Seq(Made(o))]
    /\ worker \in [Engine(o)!Workers -> {"starting", "waiting", "working", "cleanup", "ended"}]
    /\ task \in [Engine(o)!Workers -> Engine(o)!Calls]
    /\ answers \in [Engine(o)!Workers -> Seq(Made(o))]
    /\ \A w \in Engine(o)!Workers : worker[w] = "working" => answers[w] # <<>>

(* The results of the current call that worker w owes, and a part of them, *)
(* from the place after n.                                                 *)
Owed(o, w) == Engine(o)!Answers(w, call)
Placed(s, n, owed) == \A p \in 1 .. Len(s) : s[p] = owed[n + p]
Owing(o) == Engine(o)!NumResults(call.kind)

(* A worker with nothing to do, whose results have all been taken.         *)
Quiet(w) == /\ queue_instruct[w] = <<>> /\ queue_result[w] = <<>>
            /\ worker[w] # "working"
Taken(o, w) == Len(results[w]) = Owing(o) /\ Placed(results[w], 0, Owed(o, w))

(* A worker that has the call: on its queue; lost with a worker that       *)
(* failed; or partly taken, partly on the queue and partly to be put.      *)
Waits(w) == /\ queue_instruct[w] = <<call>> /\ queue_result[w] = <<>>
            /\ results[w] = <<>> /\ worker[w] # "working"
Lost(w) == Quiet(w) /\ results[w] = <<>> /\ worker[w] \in {"cleanup", "ended"}
Works(o, w) ==
    /\ queue_instruct[w] = <<>>
    /\ Placed(results[w], 0, Owed(o, w))
    /\ Placed(queue_result[w], Len(results[w]), Owed(o, w))
    /\ worker[w] = "working" =>
         /\ task[w] = call /\ answers[w] # <<>>
         /\ Placed(answers[w], Len(results[w]) + Len(queue_result[w]), Owed(o, w))
    /\ Len(results[w]) + Len(queue_result[w])
         + (IF worker[w] = "working" THEN Len(answers[w]) ELSE 0) = Owing(o)
InFlight(o, w) == Waits(w) \/ Lost(w) \/ Works(o, w)

(* Where the workers are while the parent is in its loops.                 *)
IdleInv(o) ==
    parent = "idle" =>
        /\ \A w \in Engine(o)!Workers : Quiet(w)
        /\ returned # <<>> => /\ call.kind \in Options[o].kinds
                             /\ \A w \in Engine(o)!Workers : Taken(o, w)
                             /\ returned = Engine(o)!Aggregate(results)
DistributingInv(o) ==
    parent = "distributing" =>
        /\ call.kind \in Options[o].kinds
        /\ \A w \in Engine(o)!Workers : results[w] = <<>>
        /\ \A w \in Engine(o)!Workers : w < at => InFlight(o, w)
        /\ \A w \in Engine(o)!Workers : w >= at => Quiet(w)
CollectingInv(o) ==
    parent = "collecting" =>
        /\ call.kind \in Options[o].kinds
        /\ Len(results[at]) < Owing(o)
        /\ \A w \in Engine(o)!Workers : w < at => Quiet(w) /\ Taken(o, w)
        /\ \A w \in Engine(o)!Workers : w >= at => InFlight(o, w)
        /\ \A w \in Engine(o)!Workers : w > at => results[w] = <<>>

IInv(o) == Typed(o) /\ IdleInv(o) /\ DistributingInv(o) /\ CollectingInv(o)

------------------------------------------------------------------------------
(* What a worker makes for a call.                                         *)
LEMMA AnswersFacts ==
  ASSUME NEW o, NEW w \in Engine(o)!Workers, NEW c \in Engine(o)!Calls,
         c.kind \in Options[o].kinds
  PROVE  /\ Engine(o)!NumResults(c.kind) \in {1, 3}
         /\ Len(Engine(o)!Parts(c.kind)) = Engine(o)!NumResults(c.kind)
         /\ Engine(o)!Answers(w, c) \in Seq(Made(o))
         /\ Len(Engine(o)!Answers(w, c)) = Engine(o)!NumResults(c.kind)
         /\ \A p \in 1 .. Engine(o)!NumResults(c.kind) :
              Engine(o)!Answers(w, c)[p] = [id |-> c.id, part |-> Engine(o)!Parts(c.kind)[p],
                                  inputs |-> Engine(o)!Inputs(w, c), settings |-> "default"]
<1> DEFINE parts == Engine(o)!Parts(c.kind)
           n == Len(parts)
           made == Engine(o)!Answers(w, c)
<1>1. n \in {1, 3} /\ DOMAIN parts = 1 .. n
  <2>1. CASE c.kind \in {"infer_list", "infer_file"}
    BY <2>1 DEF Engine!Parts
  <2>2. CASE c.kind \notin {"infer_list", "infer_file"}
    BY <2>2 DEF Engine!Parts
  <2>3. QED  BY <2>1, <2>2
<1>2. made = [p \in 1 .. n |-> [id |-> c.id, part |-> parts[p],
                                inputs |-> Engine(o)!Inputs(w, c), settings |-> "default"]]
  BY <1>1 DEF Engine!Answers
<1> HIDE DEF parts, made
<1>3. made \in Seq(Range(made)) /\ Len(made) = n
  <2>1. n \in Nat /\ DOMAIN made = 1 .. n
    BY <1>1, <1>2
  <2>2. \A p \in 1 .. n : made[p] \in Range(made)
    BY <2>1 DEF Range
  <2>3. \E m \in Nat : made \in [1 .. m -> Range(made)]
    BY <1>2, <2>1, <2>2
  <2>4. QED  BY <1>2, <2>1, <2>2, <2>3
<1>4. Range(made) \subseteq Made(o)
  BY DEF Made, made
<1>5. QED  BY <1>1, <1>2, <1>3, <1>4 DEF Engine!NumResults, parts, made

LEMMA TypeFacts ==
  ASSUME NEW o, Engine(o)!ParallelInferenceAssumption, Typed(o)
  PROVE  /\ Options[o].world \in Nat \ {0} /\ at \in Nat /\ at < Options[o].world
         /\ \A w \in Engine(o)!Workers : /\ w \in Nat /\ results[w] \in Seq(Made(o))
                               /\ queue_result[w] \in Seq(Made(o))
                               /\ answers[w] \in Seq(Made(o))
                               /\ Len(results[w]) \in Nat
                               /\ Len(queue_result[w]) \in Nat
                               /\ Len(answers[w]) \in Nat
<1>1. Options[o].world \in Nat \ {0}
  BY DEF Engine!ParallelInferenceAssumption
<1>2. Engine(o)!Workers = 0 .. Options[o].world - 1
  BY DEF Engine!Workers
<1>3. at \in Engine(o)!Workers
  BY DEF Typed
<1>4. at \in Nat /\ at < Options[o].world /\ \A w \in Engine(o)!Workers : w \in Nat
  BY <1>1, <1>2, <1>3
<1>5. \A w \in Engine(o)!Workers : /\ results[w] \in Seq(Made(o))
                                  /\ queue_result[w] \in Seq(Made(o))
                                  /\ answers[w] \in Seq(Made(o))
  BY DEF Typed
<1>6. QED  BY <1>1, <1>4, <1>5

LEMMA InitIInv ==
  ASSUME NEW o, Engine(o)!ParallelInferenceAssumption, Engine(o)!Init
  PROVE  IInv(o)
<1>1. Engine(o)!NoCall = [id |-> 0, kind |-> "none", n |-> 0, settings |-> "default"]
  BY DEF Engine!NoCall, Engine!Stop
<1>2. Engine(o)!NoCall \in Engine(o)!Calls
  BY <1>1 DEF Engine!ParallelInferenceAssumption, Engine!Calls
<1>3. 0 \in Engine(o)!Workers
  BY DEF Engine!ParallelInferenceAssumption, Engine!Workers
<1>4. Typed(o)
  BY <1>2, <1>3 DEF Engine!Init, Typed
<1>5. IdleInv(o)
  BY DEF Engine!Init, IdleInv, Quiet
<1>6. DistributingInv(o) /\ CollectingInv(o)
  BY DEF Engine!Init, DistributingInv, CollectingInv
<1>7. QED  BY <1>4, <1>5, <1>6 DEF IInv

------------------------------------------------------------------------------
(* Types.                                                                  *)
LEMMA StepTyped ==
  ASSUME NEW o, Engine(o)!ParallelInferenceAssumption, IInv(o),
         [Engine(o)!Next]_(Engine(o)!vars)
  PROVE  Typed(o)'
<1> USE DEF IInv
<1>0. /\ Options[o].world \in Nat \ {0, 1}
      /\ Engine(o)!Workers = 0 .. Options[o].world - 1
      /\ Offered(o) \subseteq Engine(o)!Calls
  BY DEF Engine!ParallelInferenceAssumption, Engine!Workers
<1>1. ASSUME NEW kind \in Options[o].kinds, NEW n \in Options[o].sizes,
             NEW settings \in {"default", "own"},
             Engine(o)!StartCall(kind, n, settings)
      PROVE  Typed(o)'
  <2>1. call.id \in 0 .. Options[o].max_calls /\ Options[o].max_calls \in Nat
        /\ call.id < Options[o].max_calls
    BY <1>1 DEF Engine!ParallelInferenceAssumption, Engine!StartCall, Typed,
       Engine!Calls
  <2>2. call.id + 1 \in 0 .. Options[o].max_calls
    BY <2>1
  <2>3. call' \in Engine(o)!Calls
    BY <1>1, <2>2 DEF Engine!StartCall, Engine!Calls
  <2>4. QED  BY <1>0, <1>1, <2>3 DEF Engine!StartCall, Typed, Engine!queues,
                Engine!workers
<1>2. CASE Engine(o)!Distribute
  <2>1. call \in Offered(o) /\ at \in Engine(o)!Workers
    BY <1>2 DEF Engine!Distribute, DistributingInv, Typed
  <2>2. queue_instruct' = [queue_instruct EXCEPT ![at] = Append(queue_instruct[at], call)]
    BY <1>2 DEF Engine!Distribute
  <2>3. queue_instruct' \in [Engine(o)!Workers -> Seq(Offered(o) \cup {Engine(o)!Stop})]
    BY <2>1, <2>2 DEF Typed
  <2>4. at' \in Engine(o)!Workers /\ parent' \in {"distributing", "collecting"}
    <3>1. at' = (at + 1) % Options[o].world /\ at \in Nat
      BY <1>0, <1>2, <2>1 DEF Engine!Distribute
    <3>2. QED  BY <1>0, <1>2, <3>1 DEF Engine!Distribute
  <2>5. QED  BY <1>2, <2>3, <2>4 DEF Engine!Distribute, Typed, Engine!workers
<1>3. CASE Engine(o)!Collect
  <2>1. at \in Engine(o)!Workers /\ queue_result[at] # <<>>
        /\ queue_result[at] \in Seq(Made(o))
        /\ results[at] \in Seq(Made(o))
    BY <1>3 DEF Engine!Collect, Typed
  <2>2. Head(queue_result[at]) \in Made(o) /\ Tail(queue_result[at]) \in Seq(Made(o))
    BY <2>1
  <2>3. Append(results[at], Head(queue_result[at])) \in Seq(Made(o))
    BY <2>1, <2>2
  <2>4. /\ queue_result' \in [Engine(o)!Workers -> Seq(Made(o))]
        /\ results' \in [Engine(o)!Workers -> Seq(Made(o))]
    BY <1>3, <2>1, <2>2, <2>3 DEF Engine!Collect, Typed
  <2>5. at' \in Engine(o)!Workers /\ parent' \in {"collecting", "idle"}
    <3>1. at \in Nat /\ (at + 1) % Options[o].world \in Engine(o)!Workers
      BY <1>0, <2>1
    <3>2. QED  BY <1>3, <2>1, <3>1 DEF Engine!Collect
  <2>6. QED  BY <1>3, <2>4, <2>5 DEF Engine!Collect, Typed, Engine!workers
<1>4. CASE Engine(o)!Terminate
  <2>1. \A w \in Engine(o)!Workers : Append(queue_instruct[w], Engine(o)!Stop) \in Seq(Offered(o) \cup {Engine(o)!Stop})
    BY DEF Typed
  <2>2. QED  BY <1>4, <2>1 DEF Engine!Terminate, Typed, Engine!workers
<1>5. CASE Engine(o)!Join
  BY <1>5 DEF Engine!Join, Typed, Engine!queues, Engine!workers
<1>6. ASSUME NEW w \in Engine(o)!Workers, Engine(o)!Start(w) PROVE Typed(o)'
  BY <1>6 DEF Engine!Start, Typed, Engine!engine, Engine!queues
<1>7. ASSUME NEW w \in Engine(o)!Workers, Engine(o)!Take(w) PROVE Typed(o)'
  <2>1. /\ queue_instruct[w] \in Seq(Offered(o) \cup {Engine(o)!Stop})
        /\ queue_instruct[w] # <<>>
        /\ queue_instruct' = [queue_instruct EXCEPT ![w] = Tail(queue_instruct[w])]
    BY <1>7 DEF Engine!Take, Typed
  <2>2. /\ Head(queue_instruct[w]) \in Offered(o) \cup {Engine(o)!Stop}
        /\ queue_instruct' \in [Engine(o)!Workers -> Seq(Offered(o) \cup {Engine(o)!Stop})]
    BY <2>1 DEF Typed
  <2>3. CASE Head(queue_instruct[w]) = Engine(o)!Stop
    <3>1. /\ worker' = [worker EXCEPT ![w] = "cleanup"]
          /\ queue_result' = [queue_result EXCEPT ![w] = <<>>]
          /\ UNCHANGED <<task, answers, Engine(o)!engine>>
      BY <1>7, <2>3 DEF Engine!Take
    <3>2. <<>> \in Seq(Made(o))
      OBVIOUS
    <3>3. QED  BY <2>2, <3>1, <3>2 DEF Typed, Engine!engine
  <2>4. CASE Head(queue_instruct[w]) # Engine(o)!Stop
    <3> DEFINE c == Head(queue_instruct[w])
    <3>1. /\ worker' = [worker EXCEPT ![w] = "working"]
          /\ task' = [task EXCEPT ![w] = c]
          /\ answers' = [answers EXCEPT ![w] = Engine(o)!Answers(w, c)]
          /\ UNCHANGED <<queue_result, Engine(o)!engine>>
      BY <1>7, <2>4 DEF Engine!Take
    <3>2. c \in Engine(o)!Calls /\ c.kind \in Options[o].kinds
      BY <2>2, <2>4
    <3> HIDE DEF c
    <3>3. Engine(o)!Answers(w, c) \in Seq(Made(o)) /\ Engine(o)!Answers(w, c) # <<>>
      <4>1. /\ Engine(o)!Answers(w, c) \in Seq(Made(o))
            /\ Len(Engine(o)!Answers(w, c)) = Engine(o)!NumResults(c.kind)
            /\ Engine(o)!NumResults(c.kind) \in {1, 3}
        BY <3>2, AnswersFacts
      <4>2. Len(Engine(o)!Answers(w, c)) # 0
        BY <4>1
      <4>3. QED  BY <4>1, <4>2
    <3>4. QED  BY <2>2, <3>1, <3>2, <3>3 DEF Typed, Engine!engine
  <2>5. QED  BY <2>3, <2>4
<1>8. ASSUME NEW w \in Engine(o)!Workers, Engine(o)!Answer(w) PROVE Typed(o)'
  <2>1. /\ answers[w] \in Seq(Made(o)) /\ queue_result[w] \in Seq(Made(o))
        /\ answers[w] # <<>>
        /\ queue_result' = [queue_result EXCEPT ![w] = Append(queue_result[w], Head(answers[w]))]
        /\ answers' = [answers EXCEPT ![w] = Tail(answers[w])]
        /\ worker' = [worker EXCEPT ![w] = IF Len(answers[w]) = 1 THEN "waiting" ELSE worker[w]]
        /\ worker[w] = "working"
        /\ UNCHANGED <<Engine(o)!engine, queue_instruct, task>>
    BY <1>8 DEF Engine!Answer, Typed
  <2>2. /\ Append(queue_result[w], Head(answers[w])) \in Seq(Made(o))
        /\ Tail(answers[w]) \in Seq(Made(o))
        /\ Len(answers[w]) # 1 => Tail(answers[w]) # <<>>
    <3>1. answers[w] \in Seq(Made(o)) /\ queue_result[w] \in Seq(Made(o))
          /\ answers[w] # <<>>
      BY <2>1
    <3>2. Head(answers[w]) \in Made(o) /\ Tail(answers[w]) \in Seq(Made(o))
      BY <3>1
    <3>3. Append(queue_result[w], Head(answers[w])) \in Seq(Made(o))
      BY <3>1, <3>2
    <3>4. Len(Tail(answers[w])) = Len(answers[w]) - 1 /\ Len(answers[w]) \in Nat
      BY <3>1
    <3>5. ASSUME Len(answers[w]) # 1, Tail(answers[w]) = <<>> PROVE FALSE
      <4>1. Len(<<>>) = 0
        OBVIOUS
      <4>2. Len(Tail(answers[w])) = 0
        BY <3>5, <4>1
      <4>3. QED  BY <3>4, <3>5, <4>2
    <3>6. QED  BY <3>2, <3>3, <3>5
  <2>3. /\ worker' \in [Engine(o)!Workers -> {"starting", "waiting", "working", "cleanup", "ended"}]
        /\ answers' \in [Engine(o)!Workers -> Seq(Made(o))]
        /\ queue_result' \in [Engine(o)!Workers -> Seq(Made(o))]
    BY <2>1, <2>2 DEF Typed
  <2>4. \A v \in Engine(o)!Workers : worker'[v] = "working" => answers'[v] # <<>>
    BY <2>1, <2>2 DEF Typed
  <2>5. QED  BY <2>1, <2>3, <2>4 DEF Typed, Engine!engine
<1>9. ASSUME NEW w \in Engine(o)!Workers, Engine(o)!Fail(w) \/ Engine(o)!End(w)
      PROVE  Typed(o)'
  <2>1. /\ \E s \in {"cleanup", "ended"} : worker' = [worker EXCEPT ![w] = s]
        /\ UNCHANGED <<Engine(o)!engine, Engine(o)!queues, task, answers>>
    BY <1>9 DEF Engine!Fail, Engine!Failing, Engine!End
  <2>2. QED  BY <2>1 DEF Typed, Engine!engine, Engine!queues
<1>10. CASE Engine(o)!Listen
  BY <1>10 DEF Engine!Listen, Typed, Engine!engine, Engine!queues, Engine!workers
<1>11. CASE Engine(o)!HandleSignal
  <2>1. /\ worker' \in [Engine(o)!Workers -> {"cleanup", "ended"}]
        /\ parent' \in {"ended", "raised"}
        /\ UNCHANGED <<call, at, results, Engine(o)!queues, task, answers>>
    BY <1>11 DEF Engine!HandleSignal
  <2>2. QED  BY <2>1 DEF Typed, Engine!queues
<1>12. CASE UNCHANGED Engine(o)!vars
  BY <1>12 DEF Typed, Engine!vars, Engine!engine, Engine!queues, Engine!workers
<1>13. QED
  BY <1>1, <1>2, <1>3, <1>4, <1>5, <1>6, <1>7, <1>8, <1>9, <1>10, <1>11, <1>12
     DEF Engine!Next, Engine!Ended

------------------------------------------------------------------------------
(* Steps of the workers.                                                   *)
Same(v) == /\ queue_instruct'[v] = queue_instruct[v] /\ queue_result'[v] = queue_result[v]
           /\ worker'[v] = worker[v] /\ task'[v] = task[v] /\ answers'[v] = answers[v]

LEMMA WorkerIsLocal ==
  ASSUME NEW o, Typed(o), NEW w \in Engine(o)!Workers, WorkerActs(o, w)
  PROVE  UNCHANGED Engine(o)!engine /\ \A v \in Engine(o)!Workers \ {w} : Same(v)
<1>1. CASE Engine(o)!Start(w)
  BY <1>1 DEF Engine!Start, Same, Typed, Engine!queues
<1>2. CASE Engine(o)!Take(w)
  BY <1>2 DEF Engine!Take, Same, Typed
<1>3. CASE Engine(o)!Answer(w)
  BY <1>3 DEF Engine!Answer, Same, Typed
<1>4. CASE Engine(o)!Fail(w)
  BY <1>4 DEF Engine!Fail, Engine!Failing, Same, Typed, Engine!queues
<1>5. CASE Engine(o)!End(w)
  BY <1>5 DEF Engine!End, Same, Typed, Engine!queues
<1>6. QED  BY <1>1, <1>2, <1>3, <1>4, <1>5

(* A worker with nothing to do stays so.                                   *)
LEMMA QuietStays ==
  ASSUME NEW o, Typed(o), NEW w \in Engine(o)!Workers, WorkerActs(o, w),
         Quiet(w)
  PROVE  Quiet(w)'
BY DEF Engine!Start, Engine!Take, Engine!Answer, Engine!Fail, Engine!Failing, Engine!End,
   Quiet, Typed, Engine!queues

(* Two sequences one after the other in a third, when the first element of *)
(* the second moves to the end of the first.                               *)
LEMMA Move ==
  ASSUME NEW S, NEW s \in Seq(S), NEW t \in Seq(S), t # <<>>, NEW all, NEW n \in Nat,
         Placed(s, n, all), Placed(t, n + Len(s), all)
  PROVE  /\ Append(s, Head(t)) \in Seq(S) /\ Tail(t) \in Seq(S)
         /\ Len(Append(s, Head(t))) = Len(s) + 1 /\ Len(Tail(t)) = Len(t) - 1
         /\ Placed(Append(s, Head(t)), n, all) /\ Placed(Tail(t), n + (Len(s) + 1), all)
<1> USE DEF Placed
<1>1. /\ Head(t) = t[1] /\ Head(t) \in S /\ Len(t) \in Nat \ {0} /\ Len(s) \in Nat
      /\ Tail(t) \in Seq(S) /\ Len(Tail(t)) = Len(t) - 1
      /\ \A p \in 1 .. Len(t) - 1 : Tail(t)[p] = t[p + 1]
  OBVIOUS
<1>2. Append(s, Head(t)) \in Seq(S) /\ Len(Append(s, Head(t))) = Len(s) + 1
  BY <1>1
<1>3. ASSUME NEW p \in 1 .. Len(s) + 1
      PROVE  Append(s, Head(t))[p] = all[n + p]
  <2>1. CASE p \in 1 .. Len(s)
    <3>1. Append(s, Head(t))[p] = s[p]
      BY <1>1, <2>1
    <3>2. QED  BY <2>1, <3>1
  <2>2. CASE p = Len(s) + 1
    <3>1. Append(s, Head(t))[p] = Head(t)
      BY <1>1, <2>2
    <3>2. 1 \in 1 .. Len(t) /\ n + Len(s) + 1 = n + p
      BY <1>1, <2>2
    <3>3. QED  BY <1>1, <3>1, <3>2
  <2>3. QED  BY <1>1, <2>1, <2>2
<1>4. ASSUME NEW p \in 1 .. Len(t) - 1
      PROVE  Tail(t)[p] = all[n + (Len(s) + 1) + p]
  <2>1. p + 1 \in 1 .. Len(t) /\ n + Len(s) + (p + 1) = n + (Len(s) + 1) + p
    BY <1>1
  <2>2. Tail(t)[p] = all[n + Len(s) + (p + 1)]
    BY <1>1, <2>1
  <2>3. QED  BY <2>1, <2>2
<1>5. QED  BY <1>1, <1>2, <1>3, <1>4

(* Of the results a worker owes none is lost, doubled or put out of place. *)
LEMMA InFlightStays ==
  ASSUME NEW o, Engine(o)!ParallelInferenceAssumption, Typed(o), Typed(o)',
         NEW w \in Engine(o)!Workers, WorkerActs(o, w),
         call.kind \in Options[o].kinds, InFlight(o, w)
  PROVE  InFlight(o, w)'
<1>0. /\ UNCHANGED <<call, results>>
      /\ call \in Engine(o)!Calls /\ Owing(o) \in {1, 3} /\ Len(Owed(o, w)) = Owing(o)
      /\ Owed(o, w) \in Seq(Made(o))
      /\ call # Engine(o)!Stop
  <2>1. UNCHANGED <<call, results>>
    BY WorkerIsLocal DEF Engine!engine
  <2>2. call \in Engine(o)!Calls
    BY DEF Typed
  <2>3. call # Engine(o)!Stop
    BY DEF Engine!ParallelInferenceAssumption, Engine!Stop
  <2>4. QED  BY <2>1, <2>2, <2>3, AnswersFacts DEF Owing, Owed
<1>1. /\ results[w] \in Seq(Made(o)) /\ queue_result[w] \in Seq(Made(o))
      /\ answers[w] \in Seq(Made(o))
      /\ Len(results[w]) \in Nat /\ Len(queue_result[w]) \in Nat
      /\ Len(answers[w]) \in Nat
  BY TypeFacts
<1>2. CASE Engine(o)!Start(w) \/ Engine(o)!End(w)
  <2>1. /\ UNCHANGED <<queue_instruct, queue_result, task, answers>>
        /\ worker[w] # "working" /\ worker'[w] # "working"
        /\ worker[w] \in {"cleanup", "ended"} => worker'[w] \in {"cleanup", "ended"}
    BY <1>2 DEF Engine!Start, Engine!End, Typed, Engine!queues
  <2>2. QED
    BY <1>0, <2>1 DEF InFlight, Waits, Lost, Quiet, Works, Placed, Owed, Owing
<1>3. CASE Engine(o)!Fail(w)
  <2>1. /\ UNCHANGED <<queue_instruct, queue_result, task, answers>>
        /\ worker'[w] = "cleanup"
        /\ worker[w] = "working" => Len(answers[w]) = Engine(o)!NumResults(task[w].kind)
    BY <1>3 DEF Engine!Fail, Engine!Failing, Typed, Engine!queues
  <2>2. CASE worker[w] # "working"
    BY <1>0, <2>1, <2>2 DEF InFlight, Waits, Lost, Quiet, Works, Placed, Owed, Owing
  <2>3. CASE worker[w] = "working"
    <3>1. Works(o, w)
      BY <2>3 DEF InFlight, Waits, Lost, Quiet
    <3>2. Len(results[w]) + Len(queue_result[w]) + Owing(o) = Owing(o)
      BY <2>1, <2>3, <3>1 DEF Works, Owing
    <3>3. Len(results[w]) = 0 /\ Len(queue_result[w]) = 0
      <4>1. \A a, b \in Nat : \A c \in {1, 3} : a + b + c = c => a = 0 /\ b = 0
        OBVIOUS
      <4>2. QED  BY <1>0, <1>1, <3>2, <4>1
    <3>4. results[w] = <<>> /\ queue_result[w] = <<>>
      BY <1>1, <3>3
    <3>5. QED  BY <1>0, <2>1, <3>1, <3>4 DEF InFlight, Lost, Quiet, Works
  <2>4. QED  BY <2>2, <2>3
<1>4. CASE Engine(o)!Take(w)
  <2>1. queue_instruct[w] # <<>> /\ worker[w] = "waiting"
    BY <1>4 DEF Engine!Take
  <2>2. queue_instruct[w] = <<call>> /\ queue_result[w] = <<>> /\ results[w] = <<>>
    BY <2>1 DEF InFlight, Waits, Lost, Quiet, Works
  <2>3. /\ Head(queue_instruct[w]) = call /\ Tail(queue_instruct[w]) = <<>>
    BY <2>2
  <2>4. /\ queue_instruct'[w] = <<>> /\ queue_result' = queue_result
        /\ worker'[w] = "working" /\ task'[w] = call /\ answers'[w] = Owed(o, w)
    BY <1>0, <1>4, <2>3 DEF Engine!Take, Typed, Owed
  <2>5. Owed(o, w)' = Owed(o, w) /\ Owing(o)' = Owing(o)
    BY <1>0 DEF Owed, Owing
  <2>6. Len(results'[w]) = 0 /\ Len(queue_result'[w]) = 0
    BY <1>0, <2>2, <2>4
  <2>7. \A p \in 1 .. Len(answers'[w]) : answers'[w][p] = Owed(o, w)[0 + 0 + p]
    BY <1>0, <2>4
  <2>8. Owed(o, w) # <<>>
    BY <1>0
  <2>9. Works(o, w)'
    BY <1>0, <2>4, <2>5, <2>6, <2>7, <2>8 DEF Works, Placed
  <2>10. QED  BY <2>9 DEF InFlight
<1>5. CASE Engine(o)!Answer(w)
  <2>1. /\ worker[w] = "working" /\ answers[w] # <<>>
        /\ queue_result'[w] = Append(queue_result[w], Head(answers[w]))
        /\ answers'[w] = Tail(answers[w])
        /\ worker'[w] = IF Len(answers[w]) = 1 THEN "waiting" ELSE "working"
        /\ queue_instruct'[w] = queue_instruct[w] /\ task'[w] = task[w]
    BY <1>5 DEF Engine!Answer, Typed
  <2>2. Works(o, w)
    BY <2>1 DEF InFlight, Waits, Lost, Quiet
  <2>3. /\ queue_instruct[w] = <<>> /\ Placed(results[w], 0, Owed(o, w))
        /\ task[w] = call
        /\ Placed(queue_result[w], Len(results[w]), Owed(o, w))
        /\ Placed(answers[w], Len(results[w]) + Len(queue_result[w]), Owed(o, w))
        /\ Len(results[w]) + Len(queue_result[w]) + Len(answers[w]) = Owing(o)
    BY <2>1, <2>2 DEF Works
  <2>4. /\ Len(queue_result'[w]) = Len(queue_result[w]) + 1
        /\ Len(answers'[w]) = Len(answers[w]) - 1 /\ answers'[w] \in Seq(Made(o))
        /\ Placed(queue_result'[w], Len(results[w]), Owed(o, w))
        /\ Placed(answers'[w], Len(results[w]) + (Len(queue_result[w]) + 1), Owed(o, w))
    <3> DEFINE s == queue_result[w]
               t == answers[w]
               n == Len(results[w])
               owed == Owed(o, w)
    <3>1. /\ s \in Seq(Made(o)) /\ t \in Seq(Made(o)) /\ t # <<>> /\ n \in Nat
          /\ Placed(s, n, owed) /\ Placed(t, n + Len(s), owed)
      BY <1>1, <2>1, <2>3
    <3> HIDE DEF s, t, n, owed
    <3>2. /\ Append(s, Head(t)) \in Seq(Made(o)) /\ Tail(t) \in Seq(Made(o))
          /\ Len(Append(s, Head(t))) = Len(s) + 1 /\ Len(Tail(t)) = Len(t) - 1
          /\ Placed(Append(s, Head(t)), n, owed)
          /\ Placed(Tail(t), n + (Len(s) + 1), owed)
      BY <3>1, Move
    <3>3. QED  BY <2>1, <3>2 DEF s, t, n, owed
  <2>5. Owed(o, w)' = Owed(o, w) /\ Owing(o)' = Owing(o) /\ results' = results
        /\ call' = call
    BY <1>0 DEF Owed, Owing
  <2>6. Placed(results[w], 0, Owed(o, w))'
    BY <2>3, <2>5 DEF Placed
  <2>7. worker'[w] = "working" => answers'[w] # <<>>
    BY DEF Typed
  <2>8. Len(results[w]) + (Len(queue_result[w]) + 1)
           + (IF worker'[w] = "working" THEN Len(answers'[w]) ELSE 0) = Owing(o)
    <3>0. \A a, b, c \in Nat : /\ a + (b + 1) + (c - 1) = a + b + c
                               /\ c = 1 => a + (b + 1) + 0 = a + b + c
      OBVIOUS
    <3>1. CASE Len(answers[w]) = 1
      <4>1. worker'[w] # "working"
        BY <2>1, <3>1
      <4>2. QED  BY <1>1, <2>3, <3>0, <3>1, <4>1
    <3>2. CASE Len(answers[w]) # 1
      <4>1. worker'[w] = "working"
        BY <2>1, <3>2
      <4>2. Len(results[w]) + (Len(queue_result[w]) + 1) + (Len(answers[w]) - 1) = Owing(o)
        BY <1>1, <2>3, <3>0
      <4>3. QED  BY <2>4, <4>1, <4>2
    <3>3. QED  BY <3>1, <3>2
  <2>9. Works(o, w)'
    BY <2>1, <2>3, <2>4, <2>5, <2>6, <2>7, <2>8 DEF Works, Placed
  <2>10. QED  BY <2>9 DEF InFlight
<1>6. QED  BY <1>2, <1>3, <1>4, <1>5

LEMMA StepWorker ==
  ASSUME NEW o, Engine(o)!ParallelInferenceAssumption, IInv(o), Typed(o)',
         NEW w \in Engine(o)!Workers, WorkerActs(o, w)
  PROVE  IdleInv(o)' /\ DistributingInv(o)' /\ CollectingInv(o)'
<1>1. Typed(o) /\ UNCHANGED <<parent, call, at, results, returned>>
      /\ \A v \in Engine(o)!Workers \ {w} : Same(v)
  BY WorkerIsLocal DEF IInv, Engine!engine
<1>2. ASSUME NEW v \in Engine(o)!Workers, Quiet(v) PROVE Quiet(v)'
  <2>1. CASE v = w
    BY <1>1, <1>2, <2>1, QuietStays
  <2>2. CASE v # w
    BY <1>1, <1>2, <2>2 DEF Quiet, Same
  <2>3. QED  BY <2>1, <2>2
<1>3. ASSUME NEW v \in Engine(o)!Workers, InFlight(o, v), call.kind \in Options[o].kinds
      PROVE  InFlight(o, v)'
  <2>1. CASE v = w
    BY <1>1, <1>3, <2>1, InFlightStays
  <2>2. CASE v # w
    BY <1>1, <1>3, <2>2 DEF InFlight, Waits, Lost, Works, Quiet, Same, Owed, Owing,
       Placed
  <2>3. QED  BY <2>1, <2>2
<1>4. \A v \in Engine(o)!Workers : Taken(o, v) => Taken(o, v)'
  BY <1>1 DEF Taken, Owing, Owed, Placed
<1>5. IdleInv(o)'
  BY <1>1, <1>2, <1>4 DEF IInv, IdleInv, Engine!Aggregate
<1>6. DistributingInv(o)'
  BY <1>1, <1>2, <1>3 DEF IInv, DistributingInv
<1>7. CollectingInv(o)'
  BY <1>1, <1>2, <1>3, <1>4 DEF IInv, CollectingInv, Owing
<1>8. QED  BY <1>5, <1>6, <1>7

------------------------------------------------------------------------------
(* Steps of the parent.                                                    *)
LEMMA StepStartCall ==
  ASSUME NEW o, Engine(o)!ParallelInferenceAssumption, IInv(o),
         NEW kind \in Options[o].kinds, NEW n \in Options[o].sizes,
         NEW settings \in {"default", "own"}, Engine(o)!StartCall(kind, n, settings)
  PROVE  IdleInv(o)' /\ DistributingInv(o)' /\ CollectingInv(o)'
<1>1. /\ parent = "idle" /\ parent' = "distributing" /\ at' = 0 /\ call'.kind = kind
      /\ \A w \in Engine(o)!Workers : results'[w] = <<>>
      /\ UNCHANGED <<queue_instruct, queue_result, worker>>
  BY DEF Engine!StartCall, Engine!queues, Engine!workers
<1>2. \A w \in Engine(o)!Workers : Quiet(w)' /\ ~(w < 0)
  BY <1>1 DEF IInv, IdleInv, Quiet, Engine!Workers, Engine!ParallelInferenceAssumption
<1>3. QED  BY <1>1, <1>2 DEF IdleInv, DistributingInv, CollectingInv

LEMMA StepDistribute ==
  ASSUME NEW o, Engine(o)!ParallelInferenceAssumption, IInv(o), Engine(o)!Distribute
  PROVE  IdleInv(o)' /\ DistributingInv(o)' /\ CollectingInv(o)'
<1>1. /\ parent = "distributing" /\ call.kind \in Options[o].kinds
      /\ call \in Engine(o)!Calls
      /\ queue_instruct' = [queue_instruct EXCEPT ![at] = Append(queue_instruct[at], call)]
      /\ UNCHANGED <<call, results, returned, queue_result, worker, task, answers>>
      /\ at \in Engine(o)!Workers
      /\ queue_instruct \in [Engine(o)!Workers -> Seq(Offered(o) \cup {Engine(o)!Stop})]
      /\ at' = (at + 1) % Options[o].world
      /\ parent' = IF at + 1 = Options[o].world THEN "collecting" ELSE parent
  BY DEF Engine!Distribute, IInv, Typed, DistributingInv, Engine!workers
<1>2. /\ Options[o].world \in Nat \ {0} /\ at \in Nat /\ at < Options[o].world
      /\ \A w \in Engine(o)!Workers : w \in Nat /\ w < Options[o].world
  BY <1>1 DEF Engine!ParallelInferenceAssumption, Engine!Workers
<1>3. /\ \A w \in Engine(o)!Workers : results[w] = <<>>
      /\ \A w \in Engine(o)!Workers : w < at => InFlight(o, w)
      /\ \A w \in Engine(o)!Workers : w >= at => Quiet(w)
  BY <1>1 DEF IInv, DistributingInv
<1>5. queue_instruct[at] = <<>> /\ Quiet(at)
  BY <1>1, <1>2, <1>3 DEF Quiet
<1>6. queue_instruct'[at] = <<call>>
  BY <1>1, <1>5
<1>7. \A w \in Engine(o)!Workers \ {at} : queue_instruct'[w] = queue_instruct[w]
  BY <1>1
<1>8. \A w \in {at} : InFlight(o, w)'
  BY <1>1, <1>3, <1>5, <1>6 DEF InFlight, Waits, Quiet
<1>9. \A w \in Engine(o)!Workers : w < at => InFlight(o, w)'
  <2> SUFFICES ASSUME NEW w \in Engine(o)!Workers, w < at PROVE InFlight(o, w)'
    OBVIOUS
  <2>1. w # at /\ InFlight(o, w)
    BY <1>2, <1>3
  <2>2. QED
    BY <1>1, <1>7, <2>1 DEF InFlight, Waits, Lost, Works, Quiet, Owed, Owing, Placed
<1>10. \A w \in Engine(o)!Workers : w < at + 1 => InFlight(o, w)'
  BY <1>2, <1>8, <1>9
<1>11. \A w \in Engine(o)!Workers : w >= at + 1 => Quiet(w)'
  <2> SUFFICES ASSUME NEW w \in Engine(o)!Workers, w >= at + 1 PROVE Quiet(w)'
    OBVIOUS
  <2>1. w # at /\ Quiet(w)
    BY <1>2, <1>3
  <2>2. QED  BY <1>1, <1>7, <2>1 DEF Quiet
<1>12. CASE at + 1 = Options[o].world
  <2>1. at' = 0 /\ parent' = "collecting"
    BY <1>1, <1>2, <1>12
  <2>2. \A w \in Engine(o)!Workers : InFlight(o, w)' /\ ~(w < 0)
    BY <1>2, <1>10, <1>12
  <2>3. Owing(o) \in {1, 3} /\ 0 \in Engine(o)!Workers
    BY <1>1, <1>2, AnswersFacts DEF Owing, Engine!Workers
  <2>4. Len(results'[0]) = 0 /\ Owing(o)' = Owing(o)
    BY <1>1, <1>3, <2>3 DEF Owing
  <2>5. Len(results[at])' < Owing(o)'
    BY <2>1, <2>3, <2>4
  <2>6. CollectingInv(o)'
    BY <1>1, <1>3, <2>1, <2>2, <2>5 DEF CollectingInv
  <2>7. QED  BY <2>1, <2>6 DEF IdleInv, DistributingInv
<1>13. CASE at + 1 # Options[o].world
  <2>1. at' = at + 1 /\ parent' = "distributing"
    <3>1. at + 1 \in Nat /\ at + 1 < Options[o].world
      BY <1>2, <1>13
    <3>2. (at + 1) % Options[o].world = at + 1
      BY <1>2, <3>1
    <3>3. QED  BY <1>1, <1>13, <3>2
  <2>2. QED
    BY <1>1, <1>3, <1>10, <1>11, <2>1 DEF IdleInv, DistributingInv, CollectingInv
<1>14. QED  BY <1>12, <1>13

LEMMA StepCollect ==
  ASSUME NEW o, Engine(o)!ParallelInferenceAssumption, IInv(o), Engine(o)!Collect
  PROVE  IdleInv(o)' /\ DistributingInv(o)' /\ CollectingInv(o)'
<1> DEFINE whole == Len(results'[at]) = Owing(o)
<1>1. /\ parent = "collecting" /\ queue_result[at] # <<>>
      /\ queue_result' = [queue_result EXCEPT ![at] = Tail(queue_result[at])]
      /\ results' = [results EXCEPT ![at] = Append(results[at], Head(queue_result[at]))]
      /\ at' = IF whole THEN (at + 1) % Options[o].world ELSE at
      /\ parent' = IF whole /\ at + 1 = Options[o].world THEN "idle" ELSE "collecting"
      /\ returned' = IF whole /\ at + 1 = Options[o].world THEN Engine(o)!Aggregate(results') ELSE returned
      /\ UNCHANGED <<call, queue_instruct, worker, task, answers>>
  BY DEF Engine!Collect, Owing, Engine!workers
<1>2. /\ Options[o].world \in Nat \ {0} /\ at \in Engine(o)!Workers /\ at \in Nat
      /\ at < Options[o].world
      /\ \A w \in Engine(o)!Workers : w \in Nat /\ w < Options[o].world
  <2>1. Options[o].world \in Nat \ {0} /\ Engine(o)!Workers = 0 .. Options[o].world - 1
    BY DEF Engine!ParallelInferenceAssumption, Engine!Workers
  <2>2. at \in Engine(o)!Workers
    BY DEF IInv, Typed
  <2>3. QED  BY <2>1, <2>2
<1>3. /\ call.kind \in Options[o].kinds
      /\ \A w \in Engine(o)!Workers : w < at => Quiet(w) /\ Taken(o, w)
      /\ \A w \in Engine(o)!Workers : w >= at => InFlight(o, w)
      /\ \A w \in Engine(o)!Workers : w > at => results[w] = <<>>
  BY <1>1 DEF IInv, CollectingInv
<1>4. Owing(o) \in {1, 3} /\ Owing(o)' = Owing(o)
      /\ \A w \in Engine(o)!Workers : Owed(o, w)' = Owed(o, w)
  <2>1. call \in Engine(o)!Calls
    BY DEF IInv, Typed
  <2>2. QED  BY <1>1, <1>2, <1>3, <2>1, AnswersFacts DEF Owing, Owed
<1>5. /\ results[at] \in Seq(Made(o)) /\ queue_result[at] \in Seq(Made(o))
      /\ answers[at] \in Seq(Made(o))
      /\ Len(results[at]) \in Nat /\ Len(queue_result[at]) \in Nat
      /\ Len(answers[at]) \in Nat
  BY <1>2, TypeFacts DEF IInv
<1>6. \A w \in Engine(o)!Workers \ {at} :
         results'[w] = results[w] /\ queue_result'[w] = queue_result[w]
  BY <1>1 DEF IInv, Typed
<1>7. /\ results'[at] = Append(results[at], Head(queue_result[at]))
      /\ queue_result'[at] = Tail(queue_result[at])
  BY <1>1, <1>2 DEF IInv, Typed
<1> HIDE DEF whole
<1>8. Works(o, at)
  <2>1. InFlight(o, at)
    BY <1>2, <1>3
  <2>2. QED  BY <1>1, <2>1 DEF InFlight, Waits, Lost, Quiet
<1>9. /\ results'[at] \in Seq(Made(o)) /\ queue_result'[at] \in Seq(Made(o))
      /\ Len(results'[at]) = Len(results[at]) + 1
      /\ Len(queue_result'[at]) = Len(queue_result[at]) - 1
      /\ Placed(results'[at], 0, Owed(o, at))
      /\ Placed(queue_result'[at], Len(results'[at]), Owed(o, at))
  <2> DEFINE s == results[at]
             t == queue_result[at]
             owed == Owed(o, at)
  <2>1. /\ s \in Seq(Made(o)) /\ t \in Seq(Made(o)) /\ t # <<>> /\ 0 \in Nat
        /\ Placed(s, 0, owed) /\ Placed(t, 0 + Len(s), owed)
    <3>1. 0 + Len(s) = Len(s)
      BY <1>5
    <3>2. QED  BY <1>1, <1>5, <1>8, <3>1 DEF Works
  <2> HIDE DEF s, t, owed
  <2>2. /\ Append(s, Head(t)) \in Seq(Made(o)) /\ Tail(t) \in Seq(Made(o))
        /\ Len(Append(s, Head(t))) = Len(s) + 1 /\ Len(Tail(t)) = Len(t) - 1
        /\ Placed(Append(s, Head(t)), 0, owed)
        /\ Placed(Tail(t), 0 + (Len(s) + 1), owed)
    BY <2>1, Move
  <2>3. 0 + (Len(s) + 1) = Len(Append(s, Head(t)))
    BY <2>1, <2>2
  <2>4. Placed(Tail(t), Len(Append(s, Head(t))), owed)
    BY <2>2, <2>3
  <2>5. QED  BY <1>7, <2>2, <2>4 DEF s, t, owed
<1>10. Len(results'[at]) + Len(queue_result'[at])
          + (IF worker[at] = "working" THEN Len(answers[at]) ELSE 0) = Owing(o)
  <2>1. \A a, b, c \in Nat : (a + 1) + (b - 1) + c = a + b + c /\ a + b + 0 = (a + 1) + (b - 1) + 0
    OBVIOUS
  <2>2. Len(results[at]) + Len(queue_result[at])
          + (IF worker[at] = "working" THEN Len(answers[at]) ELSE 0) = Owing(o)
    BY <1>8 DEF Works
  <2>3. CASE worker[at] = "working"
    <3>1. Len(results[at]) + Len(queue_result[at]) + Len(answers[at]) = Owing(o)
      BY <2>2, <2>3
    <3>2. (Len(results[at]) + 1) + (Len(queue_result[at]) - 1) + Len(answers[at]) = Owing(o)
      BY <1>5, <2>1, <3>1
    <3>3. QED  BY <1>9, <2>3, <3>2
  <2>4. CASE worker[at] # "working"
    <3>1. Len(results[at]) + Len(queue_result[at]) + 0 = Owing(o)
      BY <2>2, <2>4
    <3>2. (Len(results[at]) + 1) + (Len(queue_result[at]) - 1) + 0 = Owing(o)
      BY <1>5, <2>1, <3>1
    <3>3. QED  BY <1>9, <2>4, <3>2
  <2>5. QED  BY <2>3, <2>4
<1>11. \A w \in {at} : Works(o, w)'
  <2>1. /\ queue_instruct'[at] = <<>>
        /\ worker[at] = "working" => task[at] = call /\ answers[at] # <<>>
    BY <1>1, <1>8 DEF Works
  <2>2. worker[at] = "working" =>
          Placed(answers[at], Len(results'[at]) + Len(queue_result'[at]), Owed(o, at))
    <3>1. \A a, b \in Nat : (a + 1) + (b - 1) = a + b
      OBVIOUS
    <3>2. Len(results'[at]) + Len(queue_result'[at]) = Len(results[at]) + Len(queue_result[at])
      BY <1>5, <1>9, <3>1
    <3>3. QED  BY <1>8, <3>2 DEF Works
  <2>3. QED  BY <1>1, <1>2, <1>4, <1>9, <1>10, <2>1, <2>2 DEF Works
<1>12. ASSUME NEW w \in Engine(o)!Workers, w < at PROVE Quiet(w)' /\ Taken(o, w)'
  <2>1. w # at /\ Quiet(w) /\ Taken(o, w)
    <3>1. w \in Nat /\ at \in Nat
      BY <1>2
    <3>2. w # at
      BY <1>12, <3>1
    <3>3. QED  BY <1>3, <1>12, <3>2
  <2>2. /\ results'[w] = results[w] /\ queue_result'[w] = queue_result[w]
        /\ UNCHANGED <<call, queue_instruct, worker>>
    BY <1>1, <1>6, <2>1
  <2>3. QED  BY <1>4, <2>1, <2>2 DEF Quiet, Taken, Placed
<1>13. ASSUME NEW w \in Engine(o)!Workers, w > at
       PROVE  InFlight(o, w)' /\ results'[w] = <<>>
  <2>1. w # at /\ InFlight(o, w) /\ results[w] = <<>>
    <3>1. w \in Nat /\ at \in Nat
      BY <1>2
    <3>2. w # at /\ w >= at
      BY <1>13, <3>1
    <3>3. QED  BY <1>3, <1>13, <3>2
  <2>2. /\ results'[w] = results[w] /\ queue_result'[w] = queue_result[w]
        /\ UNCHANGED <<call, queue_instruct, worker, task, answers>>
    BY <1>1, <1>6, <2>1
  <2>3. QED  BY <1>4, <2>1, <2>2 DEF InFlight, Waits, Lost, Works, Quiet, Placed
<1>14. CASE ~whole
  <2>1. at' = at /\ parent' = "collecting"
    BY <1>1, <1>14
  <2>2. Len(results'[at]) < Owing(o)
    <3>1. \A a, b, c \in Nat : \A d \in {1, 3} : a + b + c = d /\ a # d => a < d
      OBVIOUS
    <3>2. Len(results'[at]) \in Nat /\ Len(queue_result'[at]) \in Nat
      BY <1>9
    <3>3. QED  BY <1>4, <1>5, <1>10, <1>14, <3>1, <3>2 DEF whole
  <2>3. \A w \in Engine(o)!Workers : w >= at => InFlight(o, w)'
    <3>1. \A w \in Engine(o)!Workers : w >= at => w = at \/ w > at
      BY <1>2
    <3>2. QED  BY <1>11, <1>13, <3>1 DEF InFlight
  <2>4. CollectingInv(o)'
    BY <1>1, <1>3, <1>4, <1>12, <1>13, <2>1, <2>2, <2>3 DEF CollectingInv
  <2>5. QED  BY <2>1, <2>4 DEF IdleInv, DistributingInv
<1>15. CASE whole
  <2>1. /\ Len(queue_result'[at]) = 0
        /\ worker[at] # "working"
    <3>1. \A b, c \in Nat : \A d \in {1, 3} : d + b + c = d => b = 0 /\ c = 0
      OBVIOUS
    <3>2. Len(queue_result'[at]) \in Nat
      BY <1>9
    <3>3. /\ Len(queue_result'[at]) = 0
          /\ (IF worker[at] = "working" THEN Len(answers[at]) ELSE 0) = 0
      BY <1>4, <1>5, <1>10, <1>15, <3>1, <3>2 DEF whole
    <3>4. worker[at] = "working" => Len(answers[at]) # 0
      BY <1>5, <1>8 DEF Works
    <3>5. QED  BY <3>3, <3>4
  <2>2. queue_result'[at] = <<>>
    BY <1>9, <2>1
  <2>3. \A w \in {at} : Quiet(w)' /\ Taken(o, w)'
    <3>1. queue_instruct'[at] = <<>> /\ worker'[at] # "working"
      BY <1>1, <1>8, <2>1 DEF Works
    <3>2. QED  BY <1>2, <1>4, <1>9, <1>15, <2>2, <3>1 DEF Quiet, Taken, whole
  <2>4. \A w \in Engine(o)!Workers : w < at + 1 => Quiet(w)' /\ Taken(o, w)'
    <3> SUFFICES ASSUME NEW w \in Engine(o)!Workers, w < at + 1
                 PROVE  Quiet(w)' /\ Taken(o, w)'
      OBVIOUS
    <3>1. w \in {at} \/ w < at
      <4>1. w \in Nat /\ at \in Nat
        BY <1>2 DEF Engine!Workers
      <4>2. QED  BY <4>1
    <3>2. QED  BY <1>12, <2>3, <3>1
  <2>5. CASE at + 1 = Options[o].world
    <3>1. parent' = "idle" /\ returned' = Engine(o)!Aggregate(results')
      BY <1>1, <1>15, <2>5
    <3>2. \A w \in Engine(o)!Workers : Quiet(w)' /\ Taken(o, w)'
      BY <1>2, <2>4, <2>5
    <3>3. IdleInv(o)'
      BY <1>1, <1>3, <3>1, <3>2 DEF IdleInv, Engine!Aggregate
    <3>4. QED  BY <3>1, <3>3 DEF DistributingInv, CollectingInv
  <2>6. CASE at + 1 # Options[o].world
    <3>1. /\ at' = at + 1 /\ at + 1 \in Engine(o)!Workers /\ parent' = "collecting"
      <4>1. /\ at' = (at + 1) % Options[o].world /\ parent' = "collecting"
        BY <1>1, <1>15, <2>6
      <4>2. at + 1 \in 0 .. Options[o].world - 1
        BY <1>2, <2>6
      <4>3. (at + 1) % Options[o].world = at + 1
        BY <1>2, <4>2
      <4>4. QED  BY <4>1, <4>2, <4>3 DEF Engine!Workers
    <3>2. \A w \in Engine(o)!Workers : w >= at + 1 => InFlight(o, w)' /\ results'[w] = <<>>
      BY <1>2, <1>13
    <3>3. Len(results'[at']) < Owing(o)'
      <4>1. results'[at'] = <<>>
        BY <1>2, <3>1, <3>2
      <4>2. QED  BY <1>4, <4>1
    <3>4. \A w \in Engine(o)!Workers : w > at + 1 => results'[w] = <<>>
      <4>1. \A w \in Engine(o)!Workers : w > at + 1 => w >= at + 1
        BY <1>2 DEF Engine!Workers
      <4>2. QED  BY <3>2, <4>1
    <3>5. CollectingInv(o)'
      BY <1>1, <1>3, <2>4, <3>1, <3>2, <3>3, <3>4 DEF CollectingInv
    <3>6. QED  BY <3>1, <3>5 DEF IdleInv, DistributingInv
  <2>7. QED  BY <2>5, <2>6
<1>16. QED  BY <1>14, <1>15

LEMMA NextIInv ==
  ASSUME NEW o, Engine(o)!ParallelInferenceAssumption
  PROVE  IInv(o) /\ [Engine(o)!Next]_(Engine(o)!vars) => IInv(o)'
<1> SUFFICES ASSUME IInv(o), [Engine(o)!Next]_(Engine(o)!vars) PROVE IInv(o)'
  OBVIOUS
<1>1. Typed(o)'
  BY StepTyped
<1>2. CASE Engine(o)!Terminate \/ Engine(o)!Join \/ Engine(o)!HandleSignal
  BY <1>1, <1>2 DEF Engine!Terminate, Engine!Join, Engine!HandleSignal, IInv, IdleInv,
     DistributingInv, CollectingInv
<1>3. CASE Engine(o)!Listen \/ UNCHANGED Engine(o)!vars
  <2>1. UNCHANGED <<Engine(o)!engine, Engine(o)!queues, Engine(o)!workers>>
    BY <1>3 DEF Engine!Listen, Engine!vars
  <2>2. UNCHANGED <<parent, call, at, results, returned, queue_instruct, queue_result,
                    worker, task, answers>>
    BY <2>1 DEF Engine!engine, Engine!queues, Engine!workers
  <2>3. /\ Owing(o)' = Owing(o)
        /\ \A w \in Engine(o)!Workers : /\ Quiet(w)' = Quiet(w) /\ Taken(o, w)' = Taken(o, w)
                              /\ InFlight(o, w)' = InFlight(o, w)
    BY <2>2 DEF Quiet, Taken, InFlight, Waits, Lost, Works, Placed, Owed, Owing
  <2>4. Engine(o)!Aggregate(results)' = Engine(o)!Aggregate(results)
    BY <2>2 DEF Engine!Aggregate
  <2>5. QED
    BY <1>1, <2>2, <2>3, <2>4 DEF IInv, IdleInv, DistributingInv, CollectingInv
<1>4. ASSUME NEW kind \in Options[o].kinds, NEW n \in Options[o].sizes,
             NEW settings \in {"default", "own"},
             Engine(o)!StartCall(kind, n, settings)
      PROVE  IInv(o)'
  BY <1>1, <1>4, StepStartCall DEF IInv
<1>5. CASE Engine(o)!Distribute
  BY <1>1, <1>5, StepDistribute DEF IInv
<1>6. CASE Engine(o)!Collect
  BY <1>1, <1>6, StepCollect DEF IInv
<1>7. ASSUME NEW w \in Engine(o)!Workers, WorkerActs(o, w)
      PROVE  IInv(o)'
  BY <1>1, <1>7, StepWorker DEF IInv
<1>8. QED  BY <1>2, <1>3, <1>4, <1>5, <1>6, <1>7 DEF Engine!Next, Engine!Ended

------------------------------------------------------------------------------
(* What is in returned: a part for each part of the results, and in it the *)
(* inputs of one worker, or those of all of them joined.                   *)
AllInputs(o, c) == IF Options[o].mode = "tensor_parallel" THEN Engine(o)!Inputs(0, c)
                ELSE Joined([k \in 1 .. Options[o].world |-> Engine(o)!Inputs(k - 1, c)])

(* Result p of a call, for some inputs.                                    *)
ResultOf(o, c, p, inputs) ==
    [id |-> c.id, part |-> Engine(o)!Parts(c.kind)[p], inputs |-> inputs,
     settings |-> "default"]

LEMMA AggregateFacts ==
  ASSUME NEW o, Engine(o)!ParallelInferenceAssumption,
         NEW c \in Engine(o)!Calls, c.kind \in Options[o].kinds, NEW taken,
         \A w \in Engine(o)!Workers :
            /\ taken[w] \in Seq(Made(o)) /\ Len(taken[w]) = Engine(o)!NumResults(c.kind)
            /\ Placed(taken[w], 0, Engine(o)!Answers(w, c))
  PROVE  /\ Engine(o)!NumResults(c.kind) \in {1, 3}
         /\ Len(Engine(o)!Parts(c.kind)) = Engine(o)!NumResults(c.kind)
         /\ \A w \in Engine(o)!Workers : \A p \in DOMAIN taken[w] : taken[w][p].id = c.id
         /\ Engine(o)!Aggregate(taken) = [p \in 1 .. Engine(o)!NumResults(c.kind) |->
                                            ResultOf(o, c, p, AllInputs(o, c))]
<1> DEFINE n == Engine(o)!NumResults(c.kind)
           a == Engine(o)!Aggregate(taken)
<1>1. /\ n \in {1, 3} /\ Len(Engine(o)!Parts(c.kind)) = n
      /\ \A w \in Engine(o)!Workers, p \in 1 .. n :
            Engine(o)!Answers(w, c)[p] = ResultOf(o, c, p, Engine(o)!Inputs(w, c))
  BY AnswersFacts DEF ResultOf, Engine!Workers, Engine!ParallelInferenceAssumption
<1>2. 0 \in Engine(o)!Workers /\ Options[o].world \in Nat \ {0}
  BY DEF Engine!Workers, Engine!ParallelInferenceAssumption
<1>3. ASSUME NEW w \in Engine(o)!Workers
      PROVE  /\ DOMAIN taken[w] = 1 .. n
             /\ taken[w] = [p \in 1 .. n |-> ResultOf(o, c, p, Engine(o)!Inputs(w, c))]
  <2>1. /\ taken[w] \in Seq(Made(o)) /\ Len(taken[w]) = n
        /\ \A p \in 1 .. n : taken[w][p] = Engine(o)!Answers(w, c)[0 + p]
    BY DEF Placed
  <2>2. \A p \in 1 .. n : 0 + p = p
    BY <1>1
  <2>3. \A p \in 1 .. n : taken[w][p] = ResultOf(o, c, p, Engine(o)!Inputs(w, c))
    BY <1>1, <2>1, <2>2
  <2> HIDE DEF n
  <2>4. DOMAIN taken[w] = 1 .. n /\ taken[w] = [p \in 1 .. n |-> taken[w][p]]
    BY <2>1
  <2>5. QED  BY <2>3, <2>4
<1>4. ASSUME NEW w \in Engine(o)!Workers, NEW p \in 1 .. n
      PROVE  /\ taken[w][p].id = c.id
             /\ taken[w][p].inputs = Engine(o)!Inputs(w, c)
             /\ \A all : [taken[w][p] EXCEPT !.inputs = all] = ResultOf(o, c, p, all)
  <2>1. taken[w][p] = ResultOf(o, c, p, Engine(o)!Inputs(w, c))
    BY <1>3
  <2>2. QED  BY <2>1 DEF ResultOf
<1>5. \A w \in Engine(o)!Workers : \A p \in DOMAIN taken[w] : taken[w][p].id = c.id
  BY <1>3, <1>4
<1> HIDE DEF n
<1>6. a = [p \in 1 .. n |-> ResultOf(o, c, p, AllInputs(o, c))]
  <2>1. CASE Options[o].mode = "tensor_parallel"
    <3>1. a = taken[0] /\ AllInputs(o, c) = Engine(o)!Inputs(0, c)
      BY <2>1 DEF Engine!Aggregate, AllInputs
    <3>2. QED  BY <1>2, <1>3, <3>1
  <2>2. CASE Options[o].mode # "tensor_parallel"
    <3>1. ASSUME NEW p \in 1 .. n
          PROVE  Joined([k \in 1 .. Options[o].world |-> taken[k - 1][p].inputs])
                    = AllInputs(o, c)
      <4>1. \A k \in 1 .. Options[o].world : k - 1 \in Engine(o)!Workers
        BY <1>2 DEF Engine!Workers
      <4>2. \A k \in 1 .. Options[o].world :
               taken[k - 1][p].inputs = Engine(o)!Inputs(k - 1, c)
        BY <1>4, <4>1
      <4>3. [k \in 1 .. Options[o].world |-> taken[k - 1][p].inputs]
               = [k \in 1 .. Options[o].world |-> Engine(o)!Inputs(k - 1, c)]
        BY <4>2
      <4>4. QED  BY <2>2, <4>3 DEF AllInputs
    <3>2. a = [p \in 1 .. n |->
                 [taken[0][p] EXCEPT !.inputs =
                     Joined([k \in 1 .. Options[o].world |-> taken[k - 1][p].inputs])]]
      <4>1. DOMAIN taken[0] = 1 .. n
        BY <1>2, <1>3
      <4>2. QED  BY <2>2, <4>1 DEF Engine!Aggregate, Engine!Joined, Joined
    <3>3. ASSUME NEW p \in 1 .. n
          PROVE  [taken[0][p] EXCEPT !.inputs =
                     Joined([k \in 1 .. Options[o].world |-> taken[k - 1][p].inputs])]
                   = ResultOf(o, c, p, AllInputs(o, c))
      <4> DEFINE joined == Joined([k \in 1 .. Options[o].world |-> taken[k - 1][p].inputs])
      <4>1. joined = AllInputs(o, c)
        BY <3>1
      <4>2. \A all : [taken[0][p] EXCEPT !.inputs = all] = ResultOf(o, c, p, all)
        BY <1>2, <1>4
      <4> HIDE DEF joined
      <4>3. [taken[0][p] EXCEPT !.inputs = joined] = ResultOf(o, c, p, AllInputs(o, c))
        BY <4>1, <4>2
      <4>4. QED  BY <4>3 DEF joined
    <3>4. QED  BY <3>2, <3>3
  <2>3. QED  BY <2>1, <2>2
<1>7. QED  BY <1>1, <1>5, <1>6 DEF n

LEMMA ReturnedFacts ==
  ASSUME NEW o, Engine(o)!ParallelInferenceAssumption, IInv(o), Engine(o)!Answered
  PROVE  /\ call.kind \in Options[o].kinds /\ call \in Engine(o)!Calls
         /\ Owing(o) \in {1, 3}
         /\ \A w \in Engine(o)!Workers : \A p \in DOMAIN results[w] : results[w][p].id = call.id
         /\ DOMAIN returned = 1 .. Owing(o)
         /\ Len(returned) = Len(Engine(o)!Parts(call.kind))
         /\ \A p \in 1 .. Owing(o) : returned[p].part = Engine(o)!Parts(call.kind)[p]
                                  /\ returned[p].inputs = AllInputs(o, call)
<1>1. /\ call.kind \in Options[o].kinds /\ call \in Engine(o)!Calls
      /\ returned = Engine(o)!Aggregate(results)
      /\ \A w \in Engine(o)!Workers : Taken(o, w)
  BY DEF IInv, IdleInv, Engine!Answered, Typed
<1>2. \A w \in Engine(o)!Workers :
         /\ results[w] \in Seq(Made(o))
         /\ Len(results[w]) = Engine(o)!NumResults(call.kind)
         /\ Placed(results[w], 0, Engine(o)!Answers(w, call))
  BY <1>1, TypeFacts DEF IInv, Taken, Owed, Owing
<1> DEFINE n == Owing(o)
<1>3. /\ n \in {1, 3} /\ Len(Engine(o)!Parts(call.kind)) = n
      /\ \A w \in Engine(o)!Workers : \A p \in DOMAIN results[w] : results[w][p].id = call.id
      /\ returned = [p \in 1 .. n |-> ResultOf(o, call, p, AllInputs(o, call))]
  BY <1>1, <1>2, AggregateFacts DEF Owing
<1> HIDE DEF n
<1>4. DOMAIN returned = 1 .. n /\ Len(returned) = n
  BY <1>3
<1>5. \A p \in 1 .. n : returned[p] = ResultOf(o, call, p, AllInputs(o, call))
  BY <1>3
<1>6. ASSUME NEW p \in 1 .. n
      PROVE  /\ returned[p].part = Engine(o)!Parts(call.kind)[p]
             /\ returned[p].inputs = AllInputs(o, call)
  <2>1. returned[p] = ResultOf(o, call, p, AllInputs(o, call))
    BY <1>5
  <2>2. QED  BY <2>1 DEF ResultOf
<1>7. QED  BY <1>1, <1>3, <1>4, <1>6 DEF n

------------------------------------------------------------------------------
(* The inputs of a list under data_parallel: who answers which, and where   *)
(* its answer comes back.                                                  *)

(* The share of a worker: its inputs, in their order, and all of them.      *)
IsShare(o, share, w, n) ==
    /\ share \in Seq(Nat)
    /\ \A k \in 1 .. Len(share) : share[k] \in 0 .. n - 1 /\ Engine(o)!Mine(w, share[k])
    /\ \A k, l \in 1 .. Len(share) : k < l => share[k] < share[l]
    /\ \A i \in 0 .. n - 1 : Engine(o)!Mine(w, i) => \E k \in 1 .. Len(share) : share[k] = i

LEMMA ShareFacts ==
  ASSUME NEW o, NEW w, NEW n \in Nat, NEW c, c.n = n, Engine(o)!ReadsShard(c.kind)
  PROVE  IsShare(o, Engine(o)!Inputs(w, c), w, n)
<1> DEFINE all == [i \in 1 .. n |-> i - 1]
           mine == {i \in Range(all) : Engine(o)!Mine(w, i)}
           share == Engine(o)!Inputs(w, c)
<1>1. all \in Seq(Nat) /\ Len(all) = n /\ \A i \in 1 .. n : all[i] = i - 1
  OBVIOUS
<1>2. share = Kept(all, mine)
  BY DEF Engine!Inputs, Engine!Kept, Kept, Engine!Range, Range
<1>3. Range(all) = 0 .. n - 1
  <2>1. \A i \in 1 .. n : all[i] \in 0 .. n - 1
    OBVIOUS
  <2>2. \A i \in 0 .. n - 1 : i + 1 \in 1 .. n /\ all[i + 1] = i
    OBVIOUS
  <2>3. DOMAIN all = 1 .. n
    OBVIOUS
  <2> HIDE DEF all
  <2>4. QED  BY <2>1, <2>2, <2>3 DEF Range
<1> HIDE DEF all, share
<1>4. share \in Seq(Nat)
  BY <1>1, <1>2, KeptPlaces
<1>5. PICK place : IsPlacement(place, all, share, mine, Len(share), Len(all))
  BY <1>1, <1>2, KeptPlaces
<1>6. /\ Len(share) \in Nat
      /\ place \in [1 .. Len(share) -> 1 .. n]
      /\ \A k \in 1 .. Len(share) : share[k] = all[place[k]] /\ all[place[k]] \in mine
      /\ \A k, l \in 1 .. Len(share) : k < l => place[k] < place[l]
      /\ \A i \in 1 .. n : all[i] \in mine => \E k \in 1 .. Len(share) : place[k] = i
  BY <1>1, <1>4, <1>5 DEF IsPlacement
<1>7. \A k \in 1 .. Len(share) : share[k] \in 0 .. n - 1 /\ Engine(o)!Mine(w, share[k])
  BY <1>3, <1>6
<1>8. ASSUME NEW k \in 1 .. Len(share), NEW l \in 1 .. Len(share), k < l
      PROVE  share[k] < share[l]
  <2>1. place[k] \in 1 .. n /\ place[l] \in 1 .. n /\ place[k] < place[l]
    BY <1>6, <1>8
  <2>2. share[k] = place[k] - 1 /\ share[l] = place[l] - 1
    BY <1>1, <1>6, <2>1
  <2>3. QED  BY <2>1, <2>2
<1>9. ASSUME NEW i \in 0 .. n - 1, Engine(o)!Mine(w, i)
      PROVE  \E k \in 1 .. Len(share) : share[k] = i
  <2>1. i + 1 \in 1 .. n /\ all[i + 1] = i
    BY <1>1
  <2>2. i \in mine
    BY <1>3, <1>9
  <2>3. PICK k \in 1 .. Len(share) : place[k] = i + 1
    BY <1>6, <2>1, <2>2
  <2>4. share[k] = i
    BY <1>6, <2>1, <2>3
  <2>5. QED  BY <2>4
<1>10. IsShare(o, share, w, n)
  BY <1>4, <1>7, <1>8, <1>9 DEF IsShare
<1>11. QED  BY <1>10 DEF share

(* The worker that an input belongs to.                                    *)
LEMMA OneWorker ==
  ASSUME NEW o, Engine(o)!ParallelInferenceAssumption, NEW i \in Nat
  PROVE  Owner(o, i) \in Engine(o)!Workers
BY DEF Owner, Engine!ParallelInferenceAssumption, Engine!Workers

(* The inputs that come back, part[p] - 1 being the worker that answered    *)
(* the one at place p: worker by worker, each in its order, all of them.   *)
IsAnswerOrder(o, part, r, n) ==
    /\ r \in Seq(Nat)
    /\ part \in [1 .. Len(r) -> 1 .. Options[o].world]
    /\ \A p \in 1 .. Len(r) : r[p] \in 0 .. n - 1 /\ Owner(o, r[p]) = part[p] - 1
    /\ \A p, q \in 1 .. Len(r) :
         p < q => part[p] < part[q] \/ (part[p] = part[q] /\ r[p] < r[q])
    /\ \A i \in 0 .. n - 1 : \E p \in 1 .. Len(r) : r[p] = i

LEMMA AnswerOrder ==
  ASSUME NEW o, Engine(o)!ParallelInferenceAssumption, NEW n \in Nat, NEW c, c.n = n,
         Engine(o)!ReadsShard(c.kind)
  PROVE  \E part : IsAnswerOrder(o, part, Joined([k \in 1 .. Options[o].world |-> Engine(o)!Inputs(k - 1, c)]), n)
<1> DEFINE s == [k \in 1 .. Options[o].world |-> Engine(o)!Inputs(k - 1, c)]
           r == Joined(s)
<1>1. Options[o].world \in Nat \ {0}
  BY DEF Engine!ParallelInferenceAssumption
<1>2. \A k \in 1 .. Options[o].world : s[k] = Engine(o)!Inputs(k - 1, c)
  OBVIOUS
<1>3. s \in Seq(Seq(Nat)) /\ Len(s) = Options[o].world
  <2>1. \A k \in 1 .. Options[o].world : Engine(o)!Inputs(k - 1, c) \in Seq(Nat)
    BY ShareFacts DEF IsShare
  <2>2. QED  BY <1>1, <2>1
<1> HIDE DEF s
<1>4. r \in Seq(Nat)
  BY <1>1, <1>3, JoinedPlaces
<1>5. PICK part, off : IsLayout(part, off, r, s, Options[o].world)
  BY <1>1, <1>3, JoinedPlaces
<1> HIDE DEF r
<1>6. /\ Len(r) \in Nat /\ part \in [1 .. Len(r) -> 1 .. Options[o].world]
      /\ \A p \in 1 .. Len(r) : off[p] \in 1 .. Len(s[part[p]]) /\ r[p] = s[part[p]][off[p]]
      /\ \A p, q \in 1 .. Len(r) :
           p < q => part[p] < part[q] \/ (part[p] = part[q] /\ off[p] < off[q])
      /\ \A i \in 1 .. Options[o].world : \A k \in 1 .. Len(s[i]) :
           \E p \in 1 .. Len(r) : part[p] = i /\ off[p] = k
  BY <1>4, <1>5 DEF IsLayout
<1>7. ASSUME NEW k \in 1 .. Options[o].world
      PROVE  /\ \A l \in 1 .. Len(s[k]) : s[k][l] \in 0 .. n - 1 /\ Engine(o)!Mine(k - 1, s[k][l])
             /\ \A l, m \in 1 .. Len(s[k]) : l < m => s[k][l] < s[k][m]
             /\ \A i \in 0 .. n - 1 : Engine(o)!Mine(k - 1, i) => \E l \in 1 .. Len(s[k]) : s[k][l] = i
  <2>1. IsShare(o, Engine(o)!Inputs(k - 1, c), k - 1, n)
    BY ShareFacts
  <2>2. IsShare(o, s[k], k - 1, n)
    BY <1>2, <2>1
  <2>3. QED  BY <2>2 DEF IsShare
<1>8. \A p \in 1 .. Len(r) : r[p] \in 0 .. n - 1 /\ Owner(o, r[p]) = part[p] - 1
  <2> SUFFICES ASSUME NEW p \in 1 .. Len(r)
               PROVE  r[p] \in 0 .. n - 1 /\ Owner(o, r[p]) = part[p] - 1
    OBVIOUS
  <2>1. part[p] \in 1 .. Options[o].world /\ off[p] \in 1 .. Len(s[part[p]])
        /\ r[p] = s[part[p]][off[p]]
    BY <1>6
  <2>2. r[p] \in 0 .. n - 1 /\ Engine(o)!Mine(part[p] - 1, r[p])
    BY <1>7, <2>1
  <2>3. QED  BY <2>2 DEF Engine!Mine, Owner
<1>9. ASSUME NEW p \in 1 .. Len(r), NEW q \in 1 .. Len(r), p < q
      PROVE  part[p] < part[q] \/ (part[p] = part[q] /\ r[p] < r[q])
  <2>1. CASE part[p] = part[q] /\ off[p] < off[q]
    <3>1. /\ part[p] \in 1 .. Options[o].world
          /\ off[p] \in 1 .. Len(s[part[p]]) /\ off[q] \in 1 .. Len(s[part[p]])
          /\ r[p] = s[part[p]][off[p]] /\ r[q] = s[part[p]][off[q]]
      BY <1>6, <2>1
    <3>2. s[part[p]][off[p]] < s[part[p]][off[q]]
      BY <1>7, <2>1, <3>1
    <3>3. QED  BY <2>1, <3>1, <3>2
  <2>2. QED  BY <1>6, <1>9, <2>1
<1>10. ASSUME NEW i \in 0 .. n - 1
       PROVE  \E p \in 1 .. Len(r) : r[p] = i
  <2>1. Owner(o, i) \in 0 .. Options[o].world - 1
    BY OneWorker DEF Engine!Workers
  <2>2. PICK k \in 1 .. Options[o].world : k - 1 = Owner(o, i)
    <3>1. Owner(o, i) + 1 \in 1 .. Options[o].world
      BY <1>1, <2>1
    <3>2. (Owner(o, i) + 1) - 1 = Owner(o, i)
      BY <2>1
    <3>3. QED  BY <3>1, <3>2
  <2>3. PICK l \in 1 .. Len(s[k]) : s[k][l] = i
    BY <1>7, <2>2 DEF Engine!Mine, Owner
  <2>4. PICK p \in 1 .. Len(r) : part[p] = k /\ off[p] = l
    BY <1>6
  <2>5. r[p] = i
    BY <1>6, <2>3, <2>4
  <2>6. QED  BY <2>5
<1>11. IsAnswerOrder(o, part, r, n)
  BY <1>4, <1>6, <1>8, <1>9, <1>10 DEF IsAnswerOrder
<1>12. QED  BY <1>11 DEF r, s

(* Then every input comes back once.                                       *)
LEMMA OnceFacts ==
  ASSUME NEW o, NEW part, NEW r, NEW n \in Nat, IsAnswerOrder(o, part, r, n),
         Options[o].world \in Nat
  PROVE  /\ Len(r) = n /\ Range(r) = 0 .. n - 1
         /\ \A p, q \in 1 .. Len(r) : r[p] = r[q] => p = q
<1>1. /\ r \in Seq(Nat) /\ Len(r) \in Nat /\ DOMAIN r = 1 .. Len(r)
      /\ part \in [1 .. Len(r) -> 1 .. Options[o].world]
      /\ \A p \in 1 .. Len(r) : r[p] \in 0 .. n - 1 /\ Owner(o, r[p]) = part[p] - 1
      /\ \A p, q \in 1 .. Len(r) :
           p < q => part[p] < part[q] \/ (part[p] = part[q] /\ r[p] < r[q])
      /\ \A i \in 0 .. n - 1 : \E p \in 1 .. Len(r) : r[p] = i
  BY DEF IsAnswerOrder
<1>2. ASSUME NEW p \in 1 .. Len(r), NEW q \in 1 .. Len(r), p < q
      PROVE  r[p] # r[q]
  <2> SUFFICES ASSUME r[p] = r[q] PROVE FALSE
    OBVIOUS
  <2>1. part[p] - 1 = part[q] - 1 /\ part[p] \in 1 .. Options[o].world
        /\ part[q] \in 1 .. Options[o].world
    BY <1>1
  <2>2. part[p] = part[q] /\ ~(part[p] < part[q])
    BY <2>1
  <2>3. r[p] \in Nat /\ ~(r[p] < r[q])
    BY <1>1
  <2>4. QED  BY <1>1, <1>2, <2>2, <2>3
<1>3. \A p, q \in 1 .. Len(r) : r[p] = r[q] => p = q
  <2> SUFFICES ASSUME NEW p \in 1 .. Len(r), NEW q \in 1 .. Len(r), r[p] = r[q]
               PROVE  p = q
    OBVIOUS
  <2>1. ~(p < q) /\ ~(q < p)
    BY <1>2
  <2>2. QED  BY <1>1, <2>1
<1>4. Range(r) = 0 .. n - 1
  <2>1. \A p \in 1 .. Len(r) : r[p] \in 0 .. n - 1
    BY <1>1
  <2>2. Range(r) = {r[p] : p \in 1 .. Len(r)}
    BY <1>1 DEF Range
  <2>3. \A i \in 0 .. n - 1 : \E p \in 1 .. Len(r) : r[p] = i
    BY <1>1
  <2>4. QED  BY <2>1, <2>2, <2>3
<1>5. r \in Bijection(1 .. Len(r), 0 .. n - 1)
  <2>1. r \in [1 .. Len(r) -> 0 .. n - 1]
    BY <1>1
  <2>2. QED  BY <2>1, <1>1, <1>3 DEF Bijection, Injection, Surjection, IsInjective
<1>6. Cardinality(0 .. n - 1) = Len(r)
  BY <1>1, <1>5, FS_CountingElements DEF ExistsBijection
<1>7. Cardinality(0 .. n - 1) = n
  <2>1. CASE n = 0
    BY <2>1, FS_EmptySet
  <2>2. CASE n # 0
    BY <2>2, FS_Interval
  <2>3. QED  BY <2>1, <2>2
<1>8. QED  BY <1>3, <1>4, <1>6, <1>7

------------------------------------------------------------------------------
(* What the invariant says of the calls of an engine.                      *)

(* What a call returns was made for it by every worker, each part in its   *)
(* place and all parts for the same inputs (_collect_parallel_results,     *)
(* _aggregate_inference_results).                                          *)
LEMMA AnswersFollow ==
  ASSUME NEW o, Engine(o)!ParallelInferenceAssumption, IInv(o)
  PROVE  Engine(o)!AnswersOwnCall
<1> SUFFICES ASSUME IInv(o), Engine(o)!Answered
             PROVE  /\ \A w \in Engine(o)!Workers : \A p \in DOMAIN results[w] : results[w][p].id = call.id
                    /\ Len(returned) = Len(Engine(o)!Parts(call.kind))
                    /\ \A p \in DOMAIN returned :
                           /\ returned[p].part = Engine(o)!Parts(call.kind)[p]
                           /\ returned[p].inputs = returned[1].inputs
  BY DEF Engine!AnswersOwnCall
<1>1. 1 \in 1 .. Owing(o)
  BY ReturnedFacts
<1>2. QED  BY <1>1, ReturnedFacts

(* Under tensor_parallel every input is answered once and in its order     *)
(* (_aggregate_inference_results).                                         *)
LEMMA TensorParallelFollows ==
  ASSUME NEW o, Engine(o)!ParallelInferenceAssumption, IInv(o)
  PROVE  Engine(o)!AnsweredOnceInOrder
<1> SUFFICES ASSUME IInv(o), Engine(o)!Answered, Options[o].mode = "tensor_parallel"
             PROVE  returned[1].inputs = [i \in 1 .. call.n |-> i - 1]
  BY DEF Engine!AnsweredOnceInOrder
<1>1. returned[1].inputs = Engine(o)!Inputs(0, call)
  <2>1. 1 \in 1 .. Owing(o)
        /\ \A p \in 1 .. Owing(o) : returned[p].inputs = AllInputs(o, call)
    BY ReturnedFacts
  <2>2. QED  BY <2>1 DEF AllInputs
<1>2. QED  BY <1>1 DEF Engine!Inputs, Engine!ReadsShard

(* The number of inputs of a call.                                         *)
LEMMA SizesFacts ==
  ASSUME NEW o, Engine(o)!ParallelInferenceAssumption, NEW c \in Engine(o)!Calls
  PROVE  c.n \in Nat
<1>1. Options[o].sizes \subseteq Nat
  BY DEF Engine!ParallelInferenceAssumption
<1>2. c.n \in Options[o].sizes \cup {0}
  BY DEF Engine!Calls
<1> DEFINE n == c.n
<1>3. n \in Options[o].sizes \cup {0}
  BY <1>2
<1> HIDE DEF n
<1>4. n \in Nat
  BY <1>1, <1>3
<1>5. QED  BY <1>4 DEF n

(* The answers of a list under data_parallel come back in an answer order. *)
LEMMA ListReturned ==
  ASSUME NEW o, Engine(o)!ParallelInferenceAssumption, IInv(o), Engine(o)!Answered,
         call.kind = "infer_list",
         Options[o].mode = "data_parallel"
  PROVE  /\ call.n \in Nat
         /\ \E part : IsAnswerOrder(o, part, returned[1].inputs, call.n)
<1>1. call.n \in Nat /\ returned[1].inputs = AllInputs(o, call)
  <2>1. 1 \in 1 .. Owing(o) /\ call \in Engine(o)!Calls
    BY ReturnedFacts
  <2>2. call.n \in Nat
    BY <2>1, SizesFacts
  <2>3. QED  BY <2>1, <2>2, ReturnedFacts
<1>2. Engine(o)!ReadsShard(call.kind)
  BY DEF Engine!ReadsShard
<1>3. QED  BY <1>1, <1>2, AnswerOrder DEF AllInputs

(* Every input of a list is answered once under both modes, whatever its   *)
(* length and whatever the number of workers (infer_list_parallel,         *)
(* ParallelCorpus.load, _aggregate_inference_results).                     *)
LEMMA ListsFollow ==
  ASSUME NEW o, Engine(o)!ParallelInferenceAssumption, IInv(o)
  PROVE  Engine(o)!ListsAnsweredOnce
<1> SUFFICES ASSUME IInv(o), Engine(o)!Answered, call.kind = "infer_list"
             PROVE  /\ Len(returned[1].inputs) = call.n
                    /\ Range(returned[1].inputs) = 0 .. call.n - 1
  BY DEF Engine!ListsAnsweredOnce, Engine!Range, Range
<1>1. CASE Options[o].mode = "data_parallel"
  <2>1. Options[o].world \in Nat
    BY DEF Engine!ParallelInferenceAssumption
  <2>2. QED  BY <1>1, <2>1, ListReturned, OnceFacts
<1>2. CASE Options[o].mode = "tensor_parallel"
  <2> DEFINE n == call.n
             r == returned[1].inputs
  <2>1. n \in Nat
    BY ReturnedFacts, SizesFacts
  <2>2. r = [i \in 1 .. n |-> i - 1]
    <3>1. 1 \in 1 .. Owing(o)
          /\ \A p \in 1 .. Owing(o) : returned[p].inputs = AllInputs(o, call)
      BY ReturnedFacts
    <3>2. r = Engine(o)!Inputs(0, call)
      BY <1>2, <3>1 DEF AllInputs
    <3>3. QED  BY <1>2, <3>2 DEF Engine!Inputs, Engine!ReadsShard
  <2> HIDE DEF n, r
  <2>3. Len(r) = n /\ DOMAIN r = 1 .. n /\ \A i \in 1 .. n : r[i] = i - 1
    BY <2>1, <2>2
  <2>4. \A i \in 0 .. n - 1 : i + 1 \in 1 .. n /\ r[i + 1] = i
    BY <2>1, <2>3
  <2>5. \A i \in 1 .. n : r[i] \in 0 .. n - 1
    BY <2>1, <2>3
  <2>6. Range(r) = 0 .. n - 1
    BY <2>3, <2>4, <2>5 DEF Range
  <2>7. QED  BY <2>3, <2>6 DEF n, r
<1>3. QED  BY <1>1, <1>2 DEF Engine!ParallelInferenceAssumption

(* The quotient and the remainder of a division.                           *)
LEMMA QuotientFacts ==
  ASSUME NEW W \in Nat \ {0}, NEW i \in Nat
  PROVE  i \div W \in Nat /\ i % W \in 0 .. (W - 1) /\ i = (i \div W) * W + (i % W)
OBVIOUS

(* The blocks of World inputs, counted from 0.                             *)
LEMMA Blocks ==
  ASSUME NEW W \in Nat \ {0, 1}
  PROVE  /\ \A i \in Nat : i \div W \in Nat
         /\ \A i, j \in Nat : i < j => i \div W <= j \div W
         /\ \A i \in Nat : i < W * W => (i \div W) % W = i \div W
         /\ (W \div W) % W = 1 /\ ((W * W) \div W) % W = 0
         /\ W * W \in Nat /\ W < W * W
<1>1. \A i \in Nat : i \div W \in Nat /\ i % W \in 0 .. (W - 1) /\ i = (i \div W) * W + (i % W)
  BY QuotientFacts
<1>2. ASSUME NEW x \in Nat, NEW y \in Nat, y < x
      PROVE  x * W >= y * W + W
  <2>1. PICK d \in Nat : x = y + 1 + d
    BY <1>2
  <2>2. x * W = y * W + W + d * W /\ d * W \in Nat
    BY <2>1
  <2>3. QED  BY <2>2
<1>3. ASSUME NEW i \in Nat, NEW j \in Nat, i < j
      PROVE  i \div W <= j \div W
  <2> SUFFICES ASSUME j \div W < i \div W PROVE FALSE
    BY <1>1
  <2> DEFINE x == i \div W
             y == j \div W
             u == i % W
             v == j % W
  <2>1. /\ x \in Nat /\ y \in Nat /\ u \in 0 .. (W - 1) /\ v \in 0 .. (W - 1)
        /\ i = x * W + u /\ j = y * W + v
    BY <1>1
  <2>2. x * W >= y * W + W /\ x * W \in Nat /\ y * W \in Nat
    BY <1>2, <2>1
  <2> HIDE DEF x, y, u, v
  <2>3. QED  BY <1>3, <2>1, <2>2
<1>4. ASSUME NEW i \in Nat, i < W * W
      PROVE  (i \div W) % W = i \div W
  <2> DEFINE x == i \div W
             u == i % W
  <2>1. x \in Nat /\ u \in 0 .. (W - 1) /\ i = x * W + u
    BY <1>1
  <2> HIDE DEF x, u
  <2>2. x < W
    <3> SUFFICES ASSUME W <= x PROVE FALSE
      BY <2>1
    <3>1. PICK d \in Nat : x = W + d
      BY <2>1
    <3>2. x * W = W * W + d * W /\ d * W \in Nat /\ W * W \in Nat
      BY <3>1
    <3>3. QED  BY <1>4, <2>1, <3>2
  <2>3. x % W = x
    BY <2>1, <2>2
  <2>4. QED  BY <2>3 DEF x
<1>5. (W \div W) % W = 1
  <2>1. W \div W = 1
    OBVIOUS
  <2>2. QED  BY <2>1
<1>6. ((W * W) \div W) % W = 0
  <2>1. (W * W) \div W = W
    OBVIOUS
  <2>2. QED  BY <2>1
<1>7. W * W \in Nat /\ W < W * W
  <2>1. PICK d \in Nat : W = d + 2
    <3>1. W - 2 \in Nat /\ W = (W - 2) + 2
      OBVIOUS
    <3>2. QED  BY <3>1
  <2>2. W * W = d * W + 2 * W /\ d * W \in Nat
    BY <2>1
  <2>3. QED  BY <2>2
<1>8. QED  BY <1>1, <1>3, <1>4, <1>5, <1>6, <1>7

(* A list under data_parallel comes back in its order exactly if it has at *)
(* most as many inputs as the square of the workers                        *)
(* (_aggregate_inference_results).                                         *)
LEMMA OrderFollows ==
  ASSUME NEW o, Engine(o)!ParallelInferenceAssumption, IInv(o)
  PROVE  Engine(o)!InOrderUpToSquare
<1> SUFFICES ASSUME IInv(o), Engine(o)!Answered, call.kind = "infer_list",
                    Options[o].mode = "data_parallel"
             PROVE  (\A i, j \in 0 .. call.n - 1 : i < j => Engine(o)!Position(i) < Engine(o)!Position(j))
                      <=> call.n <= Options[o].world * Options[o].world
  BY DEF Engine!InOrderUpToSquare
<1> DEFINE n == call.n
           r == returned[1].inputs
<1>1. n \in Nat /\ Options[o].world \in Nat \ {0, 1}
  BY ListReturned DEF Engine!ParallelInferenceAssumption
<1>2. PICK part : IsAnswerOrder(o, part, r, n)
  BY ListReturned
<1> HIDE DEF n, r
<1>3. /\ r \in Seq(Nat) /\ Len(r) \in Nat /\ DOMAIN r = 1 .. Len(r)
      /\ part \in [1 .. Len(r) -> 1 .. Options[o].world]
      /\ \A p \in 1 .. Len(r) : r[p] \in 0 .. n - 1 /\ Owner(o, r[p]) = part[p] - 1
      /\ \A p, q \in 1 .. Len(r) :
           p < q => part[p] < part[q] \/ (part[p] = part[q] /\ r[p] < r[q])
      /\ \A i \in 0 .. n - 1 : \E p \in 1 .. Len(r) : r[p] = i
  BY <1>2 DEF IsAnswerOrder
<1>4. ASSUME NEW i \in 0 .. n - 1
      PROVE  /\ Engine(o)!Position(i) \in 1 .. Len(r) /\ r[Engine(o)!Position(i)] = i
             /\ part[Engine(o)!Position(i)] \in 1 .. Options[o].world
             /\ Owner(o, i) = part[Engine(o)!Position(i)] - 1
  <2>1. Engine(o)!Position(i) = CHOOSE k \in 1 .. Len(r) : r[k] = i
    BY <1>3 DEF Engine!Position, r
  <2>2. Engine(o)!Position(i) \in 1 .. Len(r) /\ r[Engine(o)!Position(i)] = i
    BY <1>3, <2>1
  <2>3. QED  BY <1>3, <2>2
<1>5. ASSUME n <= Options[o].world * Options[o].world, NEW i \in 0 .. n - 1,
             NEW j \in 0 .. n - 1, i < j
      PROVE  Engine(o)!Position(i) < Engine(o)!Position(j)
  <2> DEFINE p == Engine(o)!Position(i)
             q == Engine(o)!Position(j)
  <2>1. /\ p \in 1 .. Len(r) /\ r[p] = i /\ part[p] \in 1 .. Options[o].world
        /\ q \in 1 .. Len(r) /\ r[q] = j /\ part[q] \in 1 .. Options[o].world
        /\ Owner(o, i) = part[p] - 1 /\ Owner(o, j) = part[q] - 1
    BY <1>4
  <2>2. /\ Owner(o, i) = i \div Options[o].world
        /\ Owner(o, j) = j \div Options[o].world
        /\ i \div Options[o].world <= j \div Options[o].world
    <3>1. i \in Nat /\ j \in Nat /\ i < Options[o].world * Options[o].world
          /\ j < Options[o].world * Options[o].world
      <4>1. Options[o].world * Options[o].world \in Nat
        BY <1>1, Blocks
      <4>2. QED  BY <1>1, <1>5, <4>1
    <3>2. QED  BY <1>1, <1>5, <3>1, Blocks DEF Owner
  <2>3. part[p] <= part[q]
    <3>1. part[p] - 1 <= part[q] - 1
      BY <2>1, <2>2
    <3>2. QED  BY <2>1, <3>1
  <2> HIDE DEF p, q
  <2>4. p # q
    BY <1>5, <2>1
  <2>5. ~(q < p)
    <3> SUFFICES ASSUME q < p PROVE FALSE
      OBVIOUS
    <3>1. part[q] < part[p] \/ r[q] < r[p]
      BY <1>3, <2>1
    <3>2. QED  BY <1>1, <1>5, <2>1, <2>3, <3>1
  <2>6. p < q
    BY <1>3, <2>1, <2>4, <2>5
  <2>7. QED  BY <2>6 DEF p, q
<1>6. ASSUME ~(n <= Options[o].world * Options[o].world)
      PROVE  \E i, j \in 0 .. n - 1 : i < j /\ ~(Engine(o)!Position(i) < Engine(o)!Position(j))
  <2> DEFINE i == Options[o].world
             j == Options[o].world * Options[o].world
  <2>1. i \in 0 .. n - 1 /\ j \in 0 .. n - 1 /\ i < j
    <3>1. j \in Nat /\ i < j
      BY <1>1, Blocks
    <3> HIDE DEF j
    <3>2. n > j
      BY <1>1, <1>6, <3>1 DEF j
    <3>3. QED  BY <1>1, <3>1, <3>2
  <2>2. Owner(o, i) = 1 /\ Owner(o, j) = 0
    BY <1>1, Blocks DEF Owner
  <2> HIDE DEF i, j
  <2>3. /\ Engine(o)!Position(i) \in 1 .. Len(r)
        /\ Engine(o)!Position(j) \in 1 .. Len(r)
        /\ part[Engine(o)!Position(i)] \in 1 .. Options[o].world
        /\ part[Engine(o)!Position(j)] \in 1 .. Options[o].world
        /\ part[Engine(o)!Position(i)] - 1 = 1 /\ part[Engine(o)!Position(j)] - 1 = 0
    BY <1>4, <2>1, <2>2
  <2>4. part[Engine(o)!Position(i)] = 2 /\ part[Engine(o)!Position(j)] = 1
    BY <2>3
  <2>5. ~(Engine(o)!Position(i) < Engine(o)!Position(j))
    <3> DEFINE p == Engine(o)!Position(i)
               q == Engine(o)!Position(j)
    <3>1. p \in 1 .. Len(r) /\ q \in 1 .. Len(r) /\ part[p] = 2 /\ part[q] = 1
      BY <2>3, <2>4
    <3> HIDE DEF p, q
    <3>2. ~(p < q)
      <4>1. p < q => part[p] < part[q] \/ (part[p] = part[q] /\ r[p] < r[q])
        BY <1>3, <3>1
      <4>2. QED  BY <3>1, <4>1
    <3>3. QED  BY <3>2 DEF p, q
  <2>6. QED  BY <2>1, <2>5
<1>7. QED  BY <1>5, <1>6 DEF n

------------------------------------------------------------------------------
(* The other queues and the error listener.  A pending signal has its      *)
(* error still on the queue, which the handler takes.                      *)
RestTyped(o) ==
    /\ returned \in Seq(Engine(o)!Result)
    /\ queue_settings \in [Engine(o)!Workers -> Seq({"default", "own"})]
    /\ error_queue \in Seq(Engine(o)!Workers)
    /\ error_thread \in {"listening", "signalled", "handled"}
    /\ error_thread = "signalled" => error_queue # <<>>
    /\ failures \in 0 .. Options[o].max_failures

LEMMA SeqSubset ==
  ASSUME NEW S, NEW T, S \subseteq T, NEW s \in Seq(S)
  PROVE  s \in Seq(T)
<1>1. Len(s) \in Nat /\ s \in [1 .. Len(s) -> S]
  OBVIOUS
<1>2. s \in [1 .. Len(s) -> T]
  BY <1>1
<1>3. QED  BY <1>1, <1>2

(* The inputs of a result are numbers, and a result is one.                *)
LEMMA InputsTyped ==
  ASSUME NEW o, Engine(o)!ParallelInferenceAssumption, NEW w,
         NEW c \in Engine(o)!Calls
  PROVE  Engine(o)!Inputs(w, c) \in Seq(Nat)
<1>1. c.n \in Nat
  BY SizesFacts
<1>2. CASE Engine(o)!ReadsShard(c.kind)
  BY <1>1, <1>2, ShareFacts DEF IsShare
<1>3. CASE ~Engine(o)!ReadsShard(c.kind)
  <2> DEFINE n == c.n
  <2>1. Engine(o)!Inputs(w, c) = [i \in 1 .. n |-> i - 1]
    BY <1>3 DEF Engine!Inputs
  <2> HIDE DEF n
  <2>2. [i \in 1 .. n |-> i - 1] \in [1 .. n -> Nat] /\ n \in Nat
    BY <1>1 DEF n
  <2>3. QED  BY <2>1, <2>2
<1>4. QED  BY <1>2, <1>3

LEMMA ResultTyped ==
  ASSUME NEW o, Engine(o)!ParallelInferenceAssumption,
         NEW c \in Engine(o)!Calls, c.kind \in Options[o].kinds,
         NEW p \in 1 .. Engine(o)!NumResults(c.kind), NEW inputs \in Seq(Nat)
  PROVE  ResultOf(o, c, p, inputs) \in Engine(o)!Result
<1>1. c.id \in 0 .. Options[o].max_calls
  BY DEF Engine!Calls
<1>2. Engine(o)!Parts(c.kind)[p] \in {"scores", "estims", "preds"}
  BY DEF Engine!Parts, Engine!NumResults
<1>3. QED  BY <1>1, <1>2 DEF ResultOf, Engine!Result

LEMMA MadeTyped ==
  ASSUME NEW o, Engine(o)!ParallelInferenceAssumption
  PROVE  Made(o) \subseteq Engine(o)!Result
<1> SUFFICES ASSUME NEW w \in Engine(o)!Workers, NEW c \in Engine(o)!Calls,
                    c.kind \in Options[o].kinds,
                    NEW r \in Range(Engine(o)!Answers(w, c))
             PROVE  r \in Engine(o)!Result
  BY DEF Made
<1> DEFINE made == Engine(o)!Answers(w, c)
           n == Engine(o)!NumResults(c.kind)
<1>1. /\ made \in Seq(Made(o)) /\ Len(made) = n
      /\ \A p \in 1 .. n : made[p] = ResultOf(o, c, p, Engine(o)!Inputs(w, c))
  BY AnswersFacts DEF ResultOf
<1>2. PICK p \in 1 .. n : r = made[p]
  <2>1. DOMAIN made = 1 .. n
    <3> HIDE DEF made, n
    <3>1. QED  BY <1>1
  <2>2. QED  BY <2>1 DEF Range
<1>3. QED  BY <1>1, <1>2, InputsTyped, ResultTyped

(* What Aggregate makes of the results of a call is a list of results.     *)
LEMMA AllInputsTyped ==
  ASSUME NEW o, Engine(o)!ParallelInferenceAssumption,
         NEW c \in Engine(o)!Calls
  PROVE  AllInputs(o, c) \in Seq(Nat)
<1>1. CASE Options[o].mode = "tensor_parallel"
  BY <1>1, InputsTyped DEF AllInputs
<1>2. CASE Options[o].mode # "tensor_parallel"
  <2> DEFINE s == [k \in 1 .. Options[o].world |-> Engine(o)!Inputs(k - 1, c)]
  <2>1. Options[o].world \in Nat \ {0}
    BY DEF Engine!ParallelInferenceAssumption
  <2>2. \A k \in 1 .. Options[o].world : Engine(o)!Inputs(k - 1, c) \in Seq(Nat)
    BY InputsTyped
  <2>3. s \in Seq(Seq(Nat)) /\ Len(s) = Options[o].world
    <3>1. s \in [1 .. Options[o].world -> Seq(Nat)]
      BY <2>2
    <3> HIDE DEF s
    <3>2. QED  BY <2>1, <3>1
  <2>4. AllInputs(o, c) = Joined(s)
    BY <1>2 DEF AllInputs
  <2> HIDE DEF s
  <2>5. QED  BY <2>1, <2>3, <2>4, JoinedPlaces
<1>3. QED  BY <1>1, <1>2

LEMMA AggregateTyped ==
  ASSUME NEW o, Engine(o)!ParallelInferenceAssumption,
         NEW c \in Engine(o)!Calls, c.kind \in Options[o].kinds, NEW taken,
         \A w \in Engine(o)!Workers :
            /\ taken[w] \in Seq(Made(o)) /\ Len(taken[w]) = Engine(o)!NumResults(c.kind)
            /\ Placed(taken[w], 0, Engine(o)!Answers(w, c))
  PROVE  Engine(o)!Aggregate(taken) \in Seq(Engine(o)!Result)
<1> DEFINE n == Engine(o)!NumResults(c.kind)
           a == Engine(o)!Aggregate(taken)
<1>1. n \in {1, 3} /\ a = [p \in 1 .. n |-> ResultOf(o, c, p, AllInputs(o, c))]
  BY AggregateFacts
<1>2. \A p \in 1 .. n : ResultOf(o, c, p, AllInputs(o, c)) \in Engine(o)!Result
  BY ResultTyped, AllInputsTyped
<1> HIDE DEF n, a
<1>3. a \in [1 .. n -> Engine(o)!Result] /\ n \in Nat
  BY <1>1, <1>2
<1>4. a \in Seq(Engine(o)!Result)
  BY <1>3
<1>5. QED  BY <1>4 DEF a

LEMMA InitRest ==
  ASSUME NEW o, Engine(o)!ParallelInferenceAssumption, Engine(o)!Init
  PROVE  RestTyped(o)
BY DEF Engine!Init, RestTyped, Engine!ParallelInferenceAssumption

LEMMA StepReturned ==
  ASSUME NEW o, Engine(o)!ParallelInferenceAssumption, IInv(o)', RestTyped(o),
         [Engine(o)!Next]_(Engine(o)!vars)
  PROVE  returned' \in Seq(Engine(o)!Result)
<1>1. CASE returned' = returned
  BY <1>1 DEF RestTyped
<1>2. CASE returned' = <<>>
  BY <1>2
<1>3. CASE parent' = "idle" /\ returned' # <<>>
  <2>1. /\ call'.kind \in Options[o].kinds /\ call' \in Engine(o)!Calls
        /\ returned' = Engine(o)!Aggregate(results')
        /\ \A w \in Engine(o)!Workers : Taken(o, w)'
        /\ results' \in [Engine(o)!Workers -> Seq(Made(o))]
    BY <1>3 DEF IInv, IdleInv, Typed, Engine!Aggregate
  <2>2. \A w \in Engine(o)!Workers :
           /\ results'[w] \in Seq(Made(o))
           /\ Len(results'[w]) = Engine(o)!NumResults(call'.kind)
           /\ Placed(results'[w], 0, Engine(o)!Answers(w, call'))
    BY <2>1 DEF Taken, Owed, Owing, Placed
  <2>3. QED  BY <2>1, <2>2, AggregateTyped
<1>4. returned' = returned \/ returned' = <<>> \/ parent' = "idle"
  BY DEF Engine!Next, Engine!StartCall, Engine!Distribute, Engine!Collect,
         Engine!Terminate, Engine!Join, Engine!Start, Engine!Take, Engine!Answer,
         Engine!Fail, Engine!Failing, Engine!End, Engine!Listen,
         Engine!HandleSignal, Engine!Ended, Engine!vars, Engine!engine
<1>5. QED  BY <1>1, <1>2, <1>3, <1>4

LEMMA StepRest ==
  ASSUME NEW o, Engine(o)!ParallelInferenceAssumption, IInv(o), IInv(o)',
         RestTyped(o), [Engine(o)!Next]_(Engine(o)!vars)
  PROVE  RestTyped(o)'
<1>1. returned' \in Seq(Engine(o)!Result)
  BY StepReturned
<1>2. CASE Engine(o)!Distribute
  <2>1. at \in Engine(o)!Workers /\ call.settings \in {"default", "own"}
    BY DEF IInv, Typed, Engine!Calls
  <2>2. queue_settings' \in [Engine(o)!Workers -> Seq({"default", "own"})]
    BY <1>2, <2>1 DEF Engine!Distribute, RestTyped
  <2>3. QED  BY <1>1, <1>2, <2>2 DEF Engine!Distribute, RestTyped, Engine!errors
<1>3. ASSUME NEW w \in Engine(o)!Workers, Engine(o)!Fail(w)
      PROVE  RestTyped(o)'
  <2>1. failures' \in 0 .. Options[o].max_failures
    BY <1>3 DEF Engine!Fail, Engine!Failing, RestTyped,
                Engine!ParallelInferenceAssumption
  <2>2. error_queue' = Append(error_queue, w) /\ error_queue \in Seq(Engine(o)!Workers)
    BY <1>3 DEF Engine!Fail, RestTyped
  <2>3. error_queue' \in Seq(Engine(o)!Workers) /\ error_queue' # <<>>
    BY <2>2
  <2>4. UNCHANGED <<queue_settings, error_thread>>
    BY <1>3 DEF Engine!Fail, Engine!Failing, Engine!queues
  <2>5. QED  BY <1>1, <2>1, <2>3, <2>4 DEF RestTyped
<1>4. CASE Engine(o)!HandleSignal
  <2>1. /\ error_thread' = "handled" /\ error_queue' = Tail(error_queue)
        /\ error_queue \in Seq(Engine(o)!Workers) /\ error_queue # <<>>
        /\ UNCHANGED <<queue_settings, failures>>
    BY <1>4 DEF Engine!HandleSignal, RestTyped, Engine!queues
  <2>2. error_queue' \in Seq(Engine(o)!Workers)
    BY <2>1
  <2>3. QED  BY <1>1, <2>1, <2>2 DEF RestTyped
<1>5. CASE Engine(o)!Listen
  BY <1>1, <1>5 DEF Engine!Listen, RestTyped, Engine!queues
<1>6. CASE UNCHANGED <<queue_settings, error_queue, error_thread, failures>>
  BY <1>1, <1>6 DEF RestTyped
<1>7. CASE \/ \E kind \in Options[o].kinds, n \in Options[o].sizes,
                settings \in {"default", "own"} : Engine(o)!StartCall(kind, n, settings)
           \/ Engine(o)!Collect \/ Engine(o)!Terminate \/ Engine(o)!Join
           \/ \E w \in Engine(o)!Workers :
                Engine(o)!Start(w) \/ Engine(o)!Take(w) \/ Engine(o)!Answer(w)
                  \/ Engine(o)!End(w)
           \/ UNCHANGED Engine(o)!vars
  <2>1. UNCHANGED <<queue_settings, error_queue, error_thread, failures>>
    BY <1>7 DEF Engine!StartCall, Engine!Collect, Engine!Terminate, Engine!Join,
                Engine!Start, Engine!Take, Engine!Answer, Engine!End,
                Engine!vars, Engine!queues, Engine!errors
  <2>2. QED  BY <1>6, <2>1
<1>8. QED  BY <1>2, <1>3, <1>4, <1>5, <1>7 DEF Engine!Next, Engine!Ended

(* With them every variable of an engine is of its type.                   *)
LEMMA TypesFollow ==
  ASSUME NEW o, Engine(o)!ParallelInferenceAssumption, IInv(o), RestTyped(o)
  PROVE  Engine(o)!TypeOK
<1> DEFINE known == Offered(o) \cup {Engine(o)!Stop}
<1>1. \A s \in Seq(Made(o)) : s \in Seq(Engine(o)!Result)
  BY MadeTyped, SeqSubset
<1>2. known \subseteq Engine(o)!Calls \cup {Engine(o)!Stop}
  OBVIOUS
<1>3. queue_instruct \in [Engine(o)!Workers -> Seq(known)]
  BY DEF IInv, Typed
<1> HIDE DEF known
<1>4. \A s \in Seq(known) : s \in Seq(Engine(o)!Calls \cup {Engine(o)!Stop})
  BY <1>2, SeqSubset
<1>5. queue_instruct \in [Engine(o)!Workers -> Seq(Engine(o)!Calls \cup {Engine(o)!Stop})]
  BY <1>3, <1>4
<1>6. /\ results \in [Engine(o)!Workers -> Seq(Engine(o)!Result)]
      /\ queue_result \in [Engine(o)!Workers -> Seq(Engine(o)!Result)]
      /\ answers \in [Engine(o)!Workers -> Seq(Engine(o)!Result)]
  BY <1>1 DEF IInv, Typed
<1>7. QED  BY <1>5, <1>6 DEF IInv, Typed, RestTyped, Engine!TypeOK

------------------------------------------------------------------------------
(* The theorems, of an engine with any of the options.                     *)
EnginesInv ==
    \A o \in DOMAIN Options : engine_options = o => IInv(o) /\ RestTyped(o)

(* Wherever the parent and its workers are, each result of the call is at  *)
(* one place, in its order, or its worker has failed.                      *)
THEOREM Invariant == Spec => []EnginesInv
<1>1. ASSUME Init PROVE EnginesInv
  <2> SUFFICES ASSUME NEW o \in DOMAIN Options, engine_options = o
               PROVE  IInv(o) /\ RestTyped(o)
    BY DEF EnginesInv
  <2>1. Engine(o)!Init /\ Engine(o)!ParallelInferenceAssumption
    BY <1>1, OptionsAssumption DEF Init
  <2>2. QED  BY <2>1, InitIInv, InitRest
<1>2. ASSUME EnginesInv, [Next]_vars PROVE EnginesInv'
  <2> SUFFICES ASSUME NEW o \in DOMAIN Options, engine_options' = o
               PROVE  IInv(o)' /\ RestTyped(o)'
    BY DEF EnginesInv
  <2>1. engine_options = o /\ [Engine(o)!Next]_(Engine(o)!vars)
    <3>1. CASE Next
      BY <3>1 DEF Next, With
    <3>2. CASE UNCHANGED vars
      BY <3>2 DEF vars, Engine!vars, Engine!engine, Engine!queues,
                  Engine!workers, Engine!errors
    <3>3. QED  BY <1>2, <3>1, <3>2
  <2>2. IInv(o) /\ RestTyped(o) /\ Engine(o)!ParallelInferenceAssumption
    BY <1>2, <2>1, OptionsAssumption DEF EnginesInv
  <2>3. IInv(o)'
    BY <2>1, <2>2, NextIInv
  <2>4. QED  BY <2>1, <2>2, <2>3, StepRest
<1>3. QED  BY <1>1, <1>2, PTL DEF Spec

(* What a call returns was made for it by every worker, each part in its   *)
(* place and all parts for the same inputs; and every variable is of its   *)
(* type (_collect_parallel_results, _aggregate_inference_results).         *)
THEOREM AnswersCorrect == Spec => []AnswersOwnCall
<1>1. ASSUME EnginesInv PROVE AnswersOwnCall
  <2> SUFFICES ASSUME NEW o \in DOMAIN Options, engine_options = o
               PROVE  Engine(o)!TypeOK /\ Engine(o)!AnswersOwnCall
    BY DEF AnswersOwnCall, OfEngine
  <2>1. IInv(o) /\ RestTyped(o) /\ Engine(o)!ParallelInferenceAssumption
    BY <1>1, OptionsAssumption DEF EnginesInv
  <2>2. QED  BY <2>1, TypesFollow, AnswersFollow
<1>2. QED  BY <1>1, Invariant, PTL

(* Every input of a list is answered once under both modes, whatever its   *)
(* length and whatever the number of workers; in its order under           *)
(* tensor_parallel, and under data_parallel exactly if it has at most as   *)
(* many inputs as the square of the workers (infer_list_parallel,          *)
(* ParallelCorpus.load, _aggregate_inference_results).                     *)
THEOREM InputsCorrect == Spec => []InputsAnsweredOnce
<1>1. ASSUME EnginesInv PROVE InputsAnsweredOnce
  <2> SUFFICES ASSUME NEW o \in DOMAIN Options, engine_options = o
               PROVE  /\ Engine(o)!ListsAnsweredOnce
                      /\ Engine(o)!InOrderUpToSquare
                      /\ Engine(o)!AnsweredOnceInOrder
    BY DEF InputsAnsweredOnce, OfEngine
  <2>1. IInv(o) /\ Engine(o)!ParallelInferenceAssumption
    BY <1>1, OptionsAssumption DEF EnginesInv
  <2>2. QED  BY <2>1, ListsFollow, OrderFollows, TensorParallelFollows
<1>2. QED  BY <1>1, Invariant, PTL
=============================================================================
