-------------------------- MODULE ModelServer_proofs --------------------------
(***************************************************************************)
(* Proofs about ModelServer for any models, requests, streams, settings,   *)
(* engines, concurrent calls of /unload_model and batch size.              *)
(***************************************************************************)
EXTENDS ModelServer, Filtering_proofs, TLAPS

------------------------------------------------------------------------------
(* The inductive invariant.                                                *)

(* A request names its model from its arrival on.                          *)
RequestInv == \A r \in Clients : /\ req[r].st = "new" => req[r].model = "nobody"
                                 /\ req[r].st # "new" => req[r].model \in Models

(* The handler that holds the loop, and the request it is there for.       *)
LoopInv ==
    /\ loop.pc = "free" => loop.client = "nobody"
    /\ loop.pc # "free" => loop.model \in Models
    /\ loop.client \in Clients => /\ req[loop.client].st = "waiting"
                                  /\ req[loop.client].model = loop.model

(* An engine belongs to the model that holds it, and so do the jobs of its *)
(* pool.                                                                   *)
EngineInv ==
    /\ \A m \in Models : engine[m] \in Engines => madeFor[engine[m]] = m
    /\ \A e \in Engines : /\ \A i \in DOMAIN pending[e] : madeFor[e] = pending[e][i].model
                          /\ \A a \in active[e] : madeFor[e] = a.job.model

(* Requests in a queue wait for its model, each in one place only.         *)
QueueInv ==
    \A m \in Models :
        /\ \A i \in DOMAIN queue[m] :
             /\ req[queue[m][i]].st = "waiting" /\ req[queue[m][i]].model = m
             /\ queue[m][i] # loop.client
             /\ queue[m][i] \notin ToSet(task[m].batch)
        /\ \A i, k \in DOMAIN queue[m] : queue[m][i] = queue[m][k] => i = k

(* Of the batch being served, those that wait are still to do.             *)
TaskInv ==
    \A m \in Models :
        /\ \A r \in ToSet(task[m].batch) :
             req[r].st # "new" /\ req[r].model = m /\ r # loop.client
        /\ task[m].st \in {"none", "idle"} => task[m].batch = <<>>
        /\ task[m].st = "collect" =>
             \A r \in ToSet(task[m].batch) : req[r].st = "waiting"
        /\ task[m].st = "await" =>
             /\ task[m].todo # <<>>
             /\ ToSet(task[m].todo) \subseteq ToSet(task[m].batch)
             /\ \A r \in ToSet(task[m].todo) : req[r].st = "waiting"
             /\ \A r \in ToSet(task[m].batch) :
                  req[r].st = "waiting" => r \in ToSet(task[m].todo)

(* A live job is the group its batch processor waits for, or the stream of *)
(* a client that waits: t and f are task and req, c the client of the      *)
(* handler that holds the loop.                                            *)
GroupIn(f, todo) == Kept(todo, {r \in Requests : f[r].set = f[Head(todo)].set})
BatchFits(j, t, f) ==
    /\ \A r \in ToSet(j.reqs) : r \in Requests
    /\ j.live => /\ t[j.model].st = "await"
                 /\ j.reqs = GroupIn(f, t[j.model].todo)
                 /\ \A r \in ToSet(j.reqs) : j.set = f[r].set
StreamFits(j, f, c) ==
    /\ j.live
    /\ \E r \in Streams : /\ j.reqs = <<r>>
                          /\ f[r].st = "waiting" /\ f[r].model = j.model
                          /\ r # c /\ j.set = f[r].set
JobFits(j, t, f, c) == IF j.kind = "batch" THEN BatchFits(j, t, f)
                                           ELSE StreamFits(j, f, c)
JobOK(j) == JobFits(j, task, req, loop.client)
JobInv == \A e \in Engines : /\ \A i \in DOMAIN pending[e] : JobOK(pending[e][i])
                             /\ \A a \in active[e] : JobOK(a.job)

(* A pool runs one job at a time, on an engine of the job's model.         *)
ActiveInv ==
    \A e \in Engines : \A a \in active[e] :
        /\ \A b \in active[e] : a = b
        /\ a.ph = "running" =>
             a.using \in Engines /\ madeFor[a.using] = a.job.model

(* No two live jobs are about the same thing.                              *)
Rivals(j, k) ==
    /\ j.live /\ k.live /\ j.kind = k.kind
    /\ IF j.kind = "batch" THEN j.model = k.model ELSE j.reqs = k.reqs
RivalInv ==
    \A e, f \in Engines :
        /\ \A i \in DOMAIN pending[e], k \in DOMAIN pending[f] :
             Rivals(pending[e][i], pending[f][k]) => e = f /\ i = k
        /\ \A i \in DOMAIN pending[e], a \in active[f] : ~Rivals(pending[e][i], a.job)
        /\ \A a \in active[e], b \in active[f] : Rivals(a.job, b.job) => e = f

(* A batch processor that waits has a job.                                 *)
WaitsFor(m, j) == j.live /\ j.kind = "batch" /\ j.model = m
AwaitInv ==
    \A m \in Models : task[m].st = "await" =>
        \E e \in Engines : \/ \E i \in DOMAIN pending[e] : WaitsFor(m, pending[e][i])
                           \/ \E a \in active[e] : WaitsFor(m, a.job)

(* Unless an unload interrupted a batch of its model, a job of a batch has *)
(* its processor and is in the pool of the model's engine x, and a         *)
(* prediction runs on the engine of its pool with the settings v that its  *)
(* predictor holds, which are what the job asked for.                      *)
AtHome(m, x, e, j) == j.kind = "batch" /\ j.model = m => j.live /\ x = e
Settled(m, v, e, a) ==
    a.job.model = m /\ a.ph = "running" =>
        /\ a.using = e /\ a.set = v
        /\ a.job.set # Unset => a.set = a.job.set
PoolInv ==
    \A m \in Models : Undisturbed(m) => \A e \in Engines :
        /\ \A i \in DOMAIN pending[e] : AtHome(m, engine[m], e, pending[e][i])
        /\ \A a \in active[e] : AtHome(m, engine[m], e, a.job)
        /\ \A a \in active[e] : Settled(m, predictor[e], e, a)

(* Answers name their model's engine and the value that was asked for.     *)
AnswerInv ==
    \A r \in Clients : req[r].st = "ok" =>
        /\ req[r].answer.engine \in Engines
        /\ madeFor[req[r].answer.engine] = req[r].model
        /\ req[r].set # Unset /\ Undisturbed(req[r].model) =>
             req[r].answer.set = req[r].set

(* Two models are loaded only before the first eviction.                   *)
LoadedInv ==
    /\ \A m, x \in Models : loaded[m] /\ loaded[x] /\ m # x =>
         /\ {m, x} \subseteq Preloaded /\ loop.pc = "free"
         /\ \A r \in Clients : req[r].st \in {"new", "error"}
    /\ loop.pc # "free" => \A m \in Models : loaded[m] => m = loop.model

(* Without unload threads at it, a model's flag and engine agree, but for   *)
(* the one statement of load that is between them, and only a loaded model *)
(* has a batch processor.                                                  *)
Agree(m) ==
    /\ loop.pc = "created" /\ loop.model = m => engine[m] \in Engines
    /\ engine[m] # Deleted
    /\ loaded[m] => engine[m] \in Engines
    /\ engine[m] \in Engines => loaded[m] \/ (loop.pc = "created" /\ loop.model = m)
    /\ task[m].st # "none" => loaded[m]
FlagInv == \A m \in Models : Untouched(m) => Agree(m)

(* A request that was accepted is in a queue or a batch until it is        *)
(* answered, or was in a batch that lost its processor.                    *)
InHandInv ==
    /\ \A r \in orphaned : req[r].st # "new"
    /\ \A r \in Requests \ orphaned :
         req[r].st = "waiting" /\ loop.client # r => InHand(r)

(* A queue has a batch processor, but for an instant of unload.            *)
ProcessorInv ==
    \A m \in Models : queue[m] # <<>> =>
        \/ task[m].st # "none"
        \/ \E u \in Unloaders : At(u, "cancelled") /\ unloader[u].model = m

(* An unload thread knows its model.                                       *)
UnloaderInv == \A u \in Unloaders :
    unloader[u].model \in IF At(u, "start") THEN {"nobody"} ELSE Models

IInv == /\ TypeOK /\ RequestInv /\ LoopInv /\ EngineInv /\ QueueInv /\ TaskInv
        /\ JobInv /\ ActiveInv /\ RivalInv /\ AwaitInv /\ AnswerInv /\ LoadedInv
        /\ FlagInv /\ PoolInv /\ InHandInv /\ ProcessorInv /\ UnloaderInv

------------------------------------------------------------------------------
(* What the operators of the model do, one fact at a time.                 *)

(* Failing requests changes the state of those that wait, and nothing else. *)
LEMMA FailedFacts ==
  ASSUME NEW f \in [Clients -> ClientRequest], NEW rs
  PROVE  /\ Failed(f, rs) \in [Clients -> ClientRequest]
         /\ \A r \in Clients :
              /\ Failed(f, rs)[r].model = f[r].model
              /\ Failed(f, rs)[r].set = f[r].set
              /\ Failed(f, rs)[r].answer = f[r].answer
              /\ Failed(f, rs)[r].st = IF r \in rs /\ f[r].st = "waiting"
                                       THEN "error" ELSE f[r].st
              /\ Failed(f, rs)[r].st # "error" => Failed(f, rs)[r] = f[r]
              /\ f[r].st # "waiting" \/ r \notin rs => Failed(f, rs)[r] = f[r]
BY DEF Failed, ClientRequest

(* Answering requests changes their state and their answer.                *)
LEMMA AnsweredFacts ==
  ASSUME req \in [Clients -> ClientRequest], NEW rs, NEW a,
         a.using \in Engines, a.set \in Settings \cup {Unset}
  PROVE  /\ Answered(rs, a) \in [Clients -> ClientRequest]
         /\ \A r \in Clients :
              /\ Answered(rs, a)[r].model = req[r].model
              /\ Answered(rs, a)[r].set = req[r].set
              /\ r \in rs => /\ Answered(rs, a)[r].st = "ok"
                             /\ Answered(rs, a)[r].answer.engine = a.using
                             /\ Answered(rs, a)[r].answer.set = a.set
              /\ r \notin rs => Answered(rs, a)[r] = req[r]
BY DEF Answered, ClientRequest

(* The group that is served next is the part of what is to do that has the *)
(* settings of its first request; the rest is what remains.                *)
LEMMA GroupFacts ==
  ASSUME NEW todo \in Seq(Requests), todo # <<>>
  PROVE  /\ Group(todo) \in Seq(Requests) /\ Rest(todo) \in Seq(Requests)
         /\ Head(todo) \in Requests
         /\ Head(todo) \in ToSet(Group(todo))
         /\ ToSet(Group(todo)) \cup ToSet(Rest(todo)) = ToSet(todo)
         /\ ToSet(Group(todo)) \cap ToSet(Rest(todo)) = {}
         /\ \A r \in ToSet(Group(todo)) : req[r].set = req[Head(todo)].set
<1> DEFINE Same == {r \in Requests : SameGroup(r, Head(todo))}
           Other == {r \in Requests : ~SameGroup(r, Head(todo))}
<1>1. /\ Kept(todo, Same) \in Seq(Requests)
      /\ ToSet(Kept(todo, Same)) = ToSet(todo) \cap Same
  BY KeptElements
<1>2. /\ Kept(todo, Other) \in Seq(Requests)
      /\ ToSet(Kept(todo, Other)) = ToSet(todo) \cap Other
  BY KeptElements
<1>3. Head(todo) \in ToSet(todo) /\ ToSet(todo) \subseteq Requests
  BY DEF ToSet
<1>4. QED  BY <1>1, <1>2, <1>3 DEF Group, Rest, SameGroup

(* What canceling the tasks of X leaves in the pools: the jobs that belong *)
(* to none of them, in their order, and started jobs without an owner.     *)
LEMMA CancelFacts ==
  ASSUME TypeOK, NEW X, CancelTasks(X)
  PROVE  /\ task' \in [Models -> Task] /\ pending' \in [Engines -> Seq(Job)]
         /\ active' \in [Engines -> SUBSET ActiveJob]
         /\ \A m \in Models : task'[m] = IF m \in X THEN NoTask ELSE task[m]
         /\ \A e \in Engines :
              /\ \E place \in [DOMAIN pending'[e] -> DOMAIN pending[e]] :
                   /\ \A i \in DOMAIN pending'[e] :
                        /\ pending'[e][i] = pending[e][place[i]]
                        /\ ~OwnedBy(pending'[e][i], X)
                   /\ \A i, k \in DOMAIN pending'[e] : place[i] = place[k] => i = k
              /\ \A i \in DOMAIN pending[e] : ~OwnedBy(pending[e][i], X) =>
                   \E k \in DOMAIN pending'[e] : pending'[e][k] = pending[e][i]
              /\ \A b \in active'[e] : \E a \in active[e] :
                   b = IF OwnedBy(a.job, X) THEN [a EXCEPT !.job.live = FALSE] ELSE a
              /\ \A a \in active[e] : ~OwnedBy(a.job, X) => a \in active'[e]
<1> USE DEF TypeOK
<1>1. task' \in [Models -> Task] /\ \A m \in Models : task'[m] = IF m \in X THEN NoTask ELSE task[m]
  BY DEF CancelTasks, NoTask, Task
<1>2. ASSUME NEW e \in Engines
      PROVE  /\ pending'[e] \in Seq(Job)
             /\ \E place \in [DOMAIN pending'[e] -> DOMAIN pending[e]] :
                  /\ \A i \in DOMAIN pending'[e] :
                       /\ pending'[e][i] = pending[e][place[i]]
                       /\ ~OwnedBy(pending'[e][i], X)
                  /\ \A i, k \in DOMAIN pending'[e] : place[i] = place[k] => i = k
             /\ \A i \in DOMAIN pending[e] : ~OwnedBy(pending[e][i], X) =>
                  \E k \in DOMAIN pending'[e] : pending'[e][k] = pending[e][i]
  <2> DEFINE S == {j \in ToSet(pending[e]) : ~OwnedBy(j, X)}
             s == pending[e]
             r == Kept(s, S)
  <2>1. pending'[e] = r /\ s \in Seq(Job)
    BY DEF CancelTasks
  <2> HIDE DEF S
  <2>2. r \in Seq(Job) /\ \E place : IsPlacement(place, s, r, S, Len(r), Len(s))
    BY <2>1, KeptPlaces
  <2>3. PICK place : IsPlacement(place, s, r, S, Len(r), Len(s))
    BY <2>2
  <2>4. DOMAIN r = 1 .. Len(r) /\ DOMAIN s = 1 .. Len(s) /\ Len(r) \in Nat /\ Len(s) \in Nat
    BY <2>1, <2>2
  <2> HIDE DEF r, s
  <2>5. /\ place \in [DOMAIN r -> DOMAIN s]
        /\ \A i \in DOMAIN r : r[i] = s[place[i]] /\ s[place[i]] \in S
        /\ \A i, k \in DOMAIN r : place[i] = place[k] => i = k
    <3>1. place \in [1 .. Len(r) -> 1 .. Len(s)]
      BY <2>3 DEF IsPlacement
    <3>2. \A i, k \in 1 .. Len(r) : i < k => place[i] < place[k]
      BY <2>3 DEF IsPlacement
    <3>3. \A i, k \in 1 .. Len(r) : place[i] = place[k] => i = k
      <4> SUFFICES ASSUME NEW i \in 1 .. Len(r), NEW k \in 1 .. Len(r), i < k
                   PROVE  place[i] # place[k]
        BY <2>4
      <4>1. place[i] \in 1 .. Len(s) /\ place[k] \in 1 .. Len(s)
        BY <3>1
      <4>2. place[i] < place[k]
        BY <3>2
      <4>3. QED  BY <4>1, <4>2, <2>4
    <3>4. \A i \in 1 .. Len(r) : r[i] = s[place[i]] /\ s[place[i]] \in S
      BY <2>3 DEF IsPlacement
    <3>5. QED  BY <3>1, <3>3, <3>4, <2>4
  <2>6. \A k \in DOMAIN s : s[k] \in S => \E i \in DOMAIN r : r[i] = s[k]
    <3> SUFFICES ASSUME NEW k \in 1 .. Len(s), s[k] \in S
                 PROVE  \E i \in 1 .. Len(r) : r[i] = s[k]
      BY <2>4
    <3>1. PICK i \in 1 .. Len(r) : place[i] = k
      BY <2>3 DEF IsPlacement
    <3>2. r[i] = s[place[i]]
      BY <2>3 DEF IsPlacement
    <3>3. QED  BY <3>1, <3>2
  <2>7. \A j : j \in S => ~OwnedBy(j, X)
    BY DEF S
  <2>8. \A k \in DOMAIN s : ~OwnedBy(s[k], X) => s[k] \in S
    BY DEF S, s, ToSet
  <2>9. pending'[e] = r /\ pending[e] = s
    BY <2>1 DEF s
  <2>10. \E q \in [DOMAIN pending'[e] -> DOMAIN pending[e]] :
             /\ \A i \in DOMAIN pending'[e] : /\ pending'[e][i] = pending[e][q[i]]
                                              /\ ~OwnedBy(pending'[e][i], X)
             /\ \A i, k \in DOMAIN pending'[e] : q[i] = q[k] => i = k
    <3>1. \A i \in DOMAIN r : r[i] = s[place[i]] /\ ~OwnedBy(r[i], X)
      BY <2>5, <2>7
    <3>2. place \in [DOMAIN pending'[e] -> DOMAIN pending[e]]
      BY <2>5, <2>9
    <3>3. \A i \in DOMAIN pending'[e] : /\ pending'[e][i] = pending[e][place[i]]
                                        /\ ~OwnedBy(pending'[e][i], X)
      BY <3>1, <2>9
    <3>4. \A i, k \in DOMAIN pending'[e] : place[i] = place[k] => i = k
      BY <2>5, <2>9
    <3>5. QED  BY <3>2, <3>3, <3>4, Zenon
  <2>11. \A i \in DOMAIN pending[e] : ~OwnedBy(pending[e][i], X) =>
             \E k \in DOMAIN pending'[e] : pending'[e][k] = pending[e][i]
    BY <2>6, <2>8, <2>9
  <2>12. QED  BY <2>2, <2>9, <2>10, <2>11
<1>3. pending' \in [Engines -> Seq(Job)]
  <2>1. pending' = [e \in Engines |-> pending'[e]]
    BY DEF CancelTasks
  <2>2. QED  BY <2>1, <1>2
<1>4. ASSUME NEW e \in Engines
      PROVE  /\ \A b \in active'[e] : \E a \in active[e] :
                  b = IF OwnedBy(a.job, X) THEN [a EXCEPT !.job.live = FALSE] ELSE a
             /\ \A a \in active[e] : ~OwnedBy(a.job, X) => a \in active'[e]
  BY DEF CancelTasks
<1>5. active' \in [Engines -> SUBSET ActiveJob]
  <2>1. active' = [e \in Engines |-> active'[e]]
    BY DEF CancelTasks
  <2>2. ASSUME NEW e \in Engines, NEW b \in active'[e] PROVE b \in ActiveJob
    <3>1. PICK a \in active[e] :
            b = IF OwnedBy(a.job, X) THEN [a EXCEPT !.job.live = FALSE] ELSE a
      BY <1>4
    <3>2. a \in ActiveJob /\ a.job \in Job
      BY DEF ActiveJob
    <3>3. [a.job EXCEPT !.live = FALSE] \in Job
      BY <3>2 DEF Job
    <3>4. [a EXCEPT !.job = [a.job EXCEPT !.live = FALSE]] \in ActiveJob
      BY <3>2, <3>3 DEF ActiveJob
    <3>5. QED  BY <3>1, <3>2, <3>4
  <2>3. QED  BY <2>1, <2>2
<1>6. QED  BY <1>1, <1>2, <1>3, <1>4, <1>5

LEMMA CancelOrphans ==
  ASSUME TypeOK, NEW X \in SUBSET Models, CancelTasks(X)
  PROVE  /\ orphaned' \subseteq Requests /\ orphaned \subseteq orphaned'
         /\ \A m \in X : ToSet(task[m].batch) \subseteq orphaned'
         /\ \A r \in orphaned' : r \in orphaned \/ \E m \in X : r \in ToSet(task[m].batch)
<1>1. \A m \in Models : ToSet(task[m].batch) \subseteq Requests
  BY DEF TypeOK, Task, ToSet
<1>2. orphaned' = orphaned \cup UNION {ToSet(task[m].batch) : m \in X}
  BY DEF CancelTasks
<1>3. QED  BY <1>1, <1>2 DEF TypeOK

(* Appending adds one element behind the others; taking the first moves    *)
(* the others up.                                                          *)
LEMMA AppendFacts ==
  ASSUME NEW S, NEW q \in Seq(S), NEW x \in S
  PROVE  /\ Append(q, x) \in Seq(S)
         /\ Len(Append(q, x)) = Len(q) + 1
         /\ DOMAIN Append(q, x) = 1 .. Len(q) + 1
         /\ DOMAIN q = 1 .. Len(q) /\ Len(q) \in Nat
         /\ \A i \in 1 .. Len(q) : Append(q, x)[i] = q[i]
         /\ Append(q, x)[Len(q) + 1] = x
OBVIOUS

LEMMA TailFacts ==
  ASSUME NEW S, NEW q \in Seq(S), q # <<>>
  PROVE  /\ Tail(q) \in Seq(S) /\ Head(q) \in S /\ Head(q) = q[1]
         /\ Len(q) \in Nat \ {0} /\ DOMAIN q = 1 .. Len(q)
         /\ DOMAIN Tail(q) = 1 .. Len(q) - 1
         /\ \A i \in 1 .. Len(q) - 1 : Tail(q)[i] = q[i + 1]
OBVIOUS

(* The three outcomes of a batch processor that looks for its next group.  *)
LEMMA SubmitFacts ==
  ASSUME TypeOK, NEW m \in Models, NEW f \in [Clients -> ClientRequest],
         NEW todo \in Seq(Requests), SubmitNext(m, f, todo)
  PROVE  \/ /\ todo = <<>> /\ task' = [task EXCEPT ![m] = Idle]
            /\ req' = f /\ UNCHANGED pending
         \/ /\ todo # <<>> /\ engine[m] \in Engines
            /\ task' = [task EXCEPT ![m] = [st |-> "await", batch |-> task[m].batch,
                                            todo |-> todo]]
            /\ req' = f
            /\ \E j \in Job :
                 /\ j = [kind |-> "batch", model |-> m, reqs |-> Group(todo),
                         set |-> req[Head(todo)].set, live |-> TRUE]
                 /\ pending' = [pending EXCEPT ![engine[m]] = Append(pending[engine[m]], j)]
         \/ /\ todo # <<>> /\ engine[m] \notin Engines
            /\ task' = [task EXCEPT ![m] = Idle]
            /\ req' = Failed(f, ToSet(task[m].batch)) /\ UNCHANGED pending
<1>1. CASE todo # <<>> /\ engine[m] \in Engines
  <2> DEFINE j == [kind |-> "batch", model |-> m, reqs |-> Group(todo),
                   set |-> req[Head(todo)].set, live |-> TRUE]
  <2>1. Group(todo) \in Seq(Requests) /\ Head(todo) \in Requests
    BY <1>1, GroupFacts
  <2>2. Group(todo) \in Seq(Clients) /\ req[Head(todo)].set \in Settings \cup {Unset}
    BY <2>1 DEF TypeOK, ClientRequest, Clients
  <2>3. j \in Job
    BY <2>2 DEF Job
  <2>4. /\ task' = [task EXCEPT ![m] = [st |-> "await", batch |-> task[m].batch,
                                        todo |-> todo]]
        /\ req' = f
        /\ pending' = [pending EXCEPT ![engine[m]] = Append(pending[engine[m]], j)]
    BY <1>1 DEF SubmitNext, TypeOK
  <2> HIDE DEF j
  <2>5. \E x \in Job : x = j /\ pending' = [pending EXCEPT ![engine[m]] = Append(pending[engine[m]], x)]
    BY <2>3, <2>4
  <2>6. QED  BY <1>1, <2>4, <2>5 DEF j
<1>2. CASE todo = <<>>
  BY <1>2 DEF SubmitNext
<1>3. CASE todo # <<>> /\ engine[m] \notin Engines
  BY <1>3 DEF SubmitNext
<1>4. QED  BY <1>1, <1>2, <1>3

------------------------------------------------------------------------------
(* Type correctness.                                                       *)

(* What handlers do when they evict the models of X.                       *)
LEMMA UnloadedTypes ==
  ASSUME TypeOK, NEW X \in SUBSET Models, NEW f \in [Clients -> ClientRequest],
         Unloaded(X, f)
  PROVE  /\ req' \in [Clients -> ClientRequest] /\ loaded' \in [Models -> BOOLEAN]
         /\ engine' \in [Models -> Engines \cup {NoEngine, Deleted}]
         /\ queue' \in [Models -> Seq(Requests)] /\ task' \in [Models -> Task]
         /\ pending' \in [Engines -> Seq(Job)]
         /\ active' \in [Engines -> SUBSET ActiveJob]
         /\ orphaned' \subseteq Requests
         /\ UNCHANGED <<madeFor, predictor, unloader>>
<1>1. CancelTasks(X) /\ req' = Failed(f, Drained(X))
  BY DEF Unloaded
<1>2. req' \in [Clients -> ClientRequest]
  BY <1>1, FailedFacts
<1>3. /\ task' \in [Models -> Task] /\ pending' \in [Engines -> Seq(Job)]
      /\ active' \in [Engines -> SUBSET ActiveJob]
      /\ orphaned' \subseteq Requests
  BY <1>1, CancelFacts, CancelOrphans
<1>4. /\ loaded' \in [Models -> BOOLEAN] /\ queue' \in [Models -> Seq(Requests)]
      /\ engine' \in [Models -> Engines \cup {NoEngine, Deleted}]
      /\ UNCHANGED <<madeFor, predictor, unloader>>
  BY DEF Unloaded, TypeOK
<1>5. QED  BY <1>2, <1>3, <1>4

(* The request a handler has received.                                     *)
LEMMA ArrivedFacts ==
  ASSUME TypeOK, NEW r \in Clients, NEW m \in Models, NEW s \in Settings \cup {Unset}
  PROVE  /\ Arrived(r, m, s) \in [Clients -> ClientRequest]
         /\ Arrived(r, m, s)[r].st = "waiting"
         /\ Arrived(r, m, s)[r].model = m
         /\ \A x \in Clients \ {r} : Arrived(r, m, s)[x] = req[x]
BY DEF TypeOK, Arrived, ClientRequest

(* The request a handler has refused.                                      *)
LEMMA RefusedFacts ==
  ASSUME TypeOK, NEW r \in Clients, NEW m \in Models
  PROVE  /\ Refused(r, m) \in [Clients -> ClientRequest]
         /\ Refused(r, m)[r].st = "error"
         /\ Refused(r, m)[r].model = m
         /\ \A x \in Clients \ {r} : Refused(r, m)[x] = req[x]
BY DEF TypeOK, Refused, ClientRequest

LEMMA InitTypeOK == Init => TypeOK
<1> SUFFICES ASSUME Init PROVE TypeOK
  OBVIOUS
<1> USE ServerAssumption
<1>1. req \in [Clients -> ClientRequest]
  BY DEF Init, ClientRequest, NoAnswer
<1>2. PICK made \in Injection(Preloaded, Engines) :
        /\ engine = [m \in Models |-> IF m \in Preloaded THEN made[m] ELSE NoEngine]
        /\ madeFor = [e \in Engines |-> IF e \in Range(made) THEN AntiFunction(made)[e]
                                                             ELSE "nobody"]
  BY DEF Init
<1>3. made \in [Preloaded -> Engines]
  BY DEF Injection
<1>4. engine \in [Models -> Engines \cup {NoEngine, Deleted}]
  BY <1>2, <1>3
<1>5. \A e \in Range(made) : AntiFunction(made)[e] \in Preloaded
  BY <1>3 DEF AntiFunction, Inverse, Range
<1>6. madeFor \in [Engines -> Models \cup {"nobody"}]
  BY <1>2, <1>5
<1>7. /\ loaded \in [Models -> BOOLEAN] /\ predictor \in [Engines -> Settings]
      /\ queue \in [Models -> Seq(Requests)] /\ task \in [Models -> Task]
      /\ pending \in [Engines -> Seq(Job)] /\ active \in [Engines -> SUBSET ActiveJob]
  BY DEF Init, Task, NoTask
<1>8. /\ loop \in [pc : {"free", "evicted", "created"},
                   model : Models \cup {"nobody"},
                   client : Clients \cup {"nobody"}]
      /\ unloader \in [Unloaders -> [pc : {"start", "cancelled", "drained",
                                           "deleted", "cleared", "done"},
                                     model : Models \cup {"nobody"}]]
      /\ orphaned \subseteq Requests
  BY DEF Init, FreeLoop
<1>9. QED  BY <1>1, <1>4, <1>6, <1>7, <1>8 DEF TypeOK

(* The types, action by action.                                            *)
LEMMA StepTypeOK ==
  ASSUME TypeOK, RequestInv, LoopInv, UnloaderInv, TaskInv, JobInv, ActiveInv,
         [Next]_vars
  PROVE  TypeOK'
<1> USE ServerAssumption
<1>1. ASSUME NEW r \in Clients, Evict(r) PROVE TypeOK'
  <2>1. PICK m \in Models, s \in Settings \cup {Unset} :
          /\ Unloaded(Others(m), Arrived(r, m, s))
          /\ loop' = [pc |-> "evicted", model |-> m, client |-> r]
    BY <1>1 DEF Evict
  <2>2. Others(m) \in SUBSET Models
    BY DEF Others
  <2>3. Arrived(r, m, s) \in [Clients -> ClientRequest]
    BY ArrivedFacts
  <2>4. /\ req' \in [Clients -> ClientRequest] /\ loaded' \in [Models -> BOOLEAN]
        /\ engine' \in [Models -> Engines \cup {NoEngine, Deleted}]
        /\ queue' \in [Models -> Seq(Requests)] /\ task' \in [Models -> Task]
        /\ pending' \in [Engines -> Seq(Job)]
        /\ active' \in [Engines -> SUBSET ActiveJob]
        /\ orphaned' \subseteq Requests
        /\ UNCHANGED <<madeFor, predictor, unloader>>
    BY <2>1, <2>2, <2>3, UnloadedTypes
  <2>5. QED  BY <2>1, <2>4 DEF TypeOK
<1>2. ASSUME NEW m, NEW x \in Models, NEW before \in SUBSET Models,
             NEW f \in [Clients -> ClientRequest], Clash(m, x, before, f)
      PROVE  TypeOK'
  <2>1. /\ CancelTasks(before \cup {x})
        /\ queue' = [y \in Models |-> IF y \in before \cup {x} THEN <<>> ELSE queue[y]]
        /\ req' = Failed(f, Drained(before \cup {x}))
        /\ engine' = [y \in Models |-> IF y \in before THEN NoEngine ELSE engine[y]]
        /\ loaded' = [y \in Models |-> loaded[y] /\ y \notin before]
        /\ UNCHANGED <<madeFor, predictor, loop, unloader>>
    BY <1>2 DEF Clash
  <2>2. /\ task' \in [Models -> Task] /\ pending' \in [Engines -> Seq(Job)]
        /\ active' \in [Engines -> SUBSET ActiveJob]
        /\ orphaned' \subseteq Requests
    BY <2>1, CancelFacts, CancelOrphans
  <2>3. req' \in [Clients -> ClientRequest]
    BY <2>1, FailedFacts
  <2>4. /\ engine' \in [Models -> Engines \cup {NoEngine, Deleted}]
        /\ loaded' \in [Models -> BOOLEAN] /\ queue' \in [Models -> Seq(Requests)]
    BY <2>1 DEF TypeOK
  <2>5. QED  BY <2>1, <2>2, <2>3, <2>4 DEF TypeOK
<1>2a. ASSUME NEW r \in Clients, EvictClash(r) PROVE TypeOK'
  <2>1. PICK m \in Models, x \in Models, before \in SUBSET Models :
          Clash(m, x, before, Refused(r, m))
    BY <1>2a DEF EvictClash
  <2>2. Refused(r, m) \in [Clients -> ClientRequest]
    BY RefusedFacts
  <2>3. QED  BY <1>2, <2>1, <2>2
<1>2b. CASE CountClash
  <2>1. req \in [Clients -> ClientRequest]
    BY DEF TypeOK
  <2>2. QED  BY <1>2, <1>2b, <2>1 DEF CountClash
<1>3. CASE CountTokens \/ DescribeModel \/ EvictUnknown
  <2>1. PICK m : /\ Unloaded(Others(m), req)
                 /\ \/ m \in Models /\ loop' = [pc |-> "evicted", model |-> m, client |-> "nobody"]
                    \/ UNCHANGED loop
    BY <1>3 DEF CountTokens, DescribeModel, EvictUnknown
  <2>2. Others(m) \in SUBSET Models /\ req \in [Clients -> ClientRequest]
    BY DEF Others, TypeOK
  <2>3. /\ req' \in [Clients -> ClientRequest] /\ loaded' \in [Models -> BOOLEAN]
        /\ engine' \in [Models -> Engines \cup {NoEngine, Deleted}]
        /\ queue' \in [Models -> Seq(Requests)] /\ task' \in [Models -> Task]
        /\ pending' \in [Engines -> Seq(Job)]
        /\ active' \in [Engines -> SUBSET ActiveJob]
        /\ orphaned' \subseteq Requests
        /\ UNCHANGED <<madeFor, predictor, unloader>>
    BY <2>1, <2>2, UnloadedTypes
  <2>4. QED  BY <2>1, <2>3 DEF TypeOK
<1>4. ASSUME NEW m \in Models, NEW r \in Clients \cup {"nobody"}, Accept(m, r)
      PROVE  /\ task' \in [Models -> Task] /\ queue' \in [Models -> Seq(Requests)]
             /\ loop' = FreeLoop
  <2>1. CASE r \in Requests
    <3>1. Append(queue[m], r) \in Seq(Requests)
      BY <2>1 DEF TypeOK
    <3>2. queue' = [queue EXCEPT ![m] = Append(queue[m], r)] /\ loop' = FreeLoop
      BY <1>4, <2>1 DEF Accept, TypeOK
    <3>3. task' = task \/ task' = [task EXCEPT ![m] = Idle]
      BY <1>4, <2>1 DEF Accept
    <3>4. Idle \in Task
      BY DEF Idle, Task
    <3>5. QED  BY <3>1, <3>2, <3>3, <3>4 DEF TypeOK
  <2>2. CASE r \notin Requests
    BY <1>4, <2>2 DEF Accept, TypeOK
  <2>3. QED  BY <2>1, <2>2
<1>5. CASE AcceptLoaded \/ SetLoaded
  <2>1. loop.model \in Models /\ loop.client \in Clients \cup {"nobody"}
    BY <1>5 DEF AcceptLoaded, SetLoaded, LoopInv, TypeOK
  <2>2. Accept(loop.model, loop.client)
    BY <1>5 DEF AcceptLoaded, SetLoaded
  <2>3. loaded' \in [Models -> BOOLEAN]
    BY <1>5, <2>1 DEF AcceptLoaded, SetLoaded, TypeOK
  <2>4. QED  BY <1>4, <1>5, <2>1, <2>2, <2>3 DEF AcceptLoaded, SetLoaded, TypeOK, FreeLoop
<1>6. CASE LoadEngine
  <2>1. PICK e \in Engines :
          /\ madeFor' = [madeFor EXCEPT ![e] = loop.model]
          /\ engine' = [engine EXCEPT ![loop.model] = e]
    BY <1>6 DEF LoadEngine
  <2>2. loop.model \in Models
    BY <1>6 DEF LoadEngine, LoopInv
  <2>3. /\ madeFor' \in [Engines -> Models \cup {"nobody"}]
        /\ engine' \in [Models -> Engines \cup {NoEngine, Deleted}]
    BY <2>1, <2>2 DEF TypeOK
  <2>4. loop' \in [pc : {"free", "evicted", "created"},
                   model : Models \cup {"nobody"}, client : Clients \cup {"nobody"}]
    BY <1>6 DEF LoadEngine, TypeOK
  <2>5. QED  BY <1>6, <2>3, <2>4 DEF LoadEngine, TypeOK
<1>7. CASE LoadFails
  BY <1>7, FailedFacts DEF LoadFails, TypeOK, FreeLoop
<1>8. ASSUME NEW r \in Streams, Produce(r) PROVE TypeOK'
  <2> DEFINE m == req[r].model
             j == [kind |-> "stream", model |-> m, reqs |-> <<r>>,
                   set |-> req[r].set, live |-> TRUE]
  <2>1. r \in Clients /\ req[r].set \in Settings \cup {Unset}
    BY DEF Clients, TypeOK, ClientRequest
  <2>2. CASE engine[m] \in Engines /\ m \in Models
    <3>1. j \in Job
      BY <2>1, <2>2 DEF Job
    <3> HIDE DEF j
    <3>2. Append(pending[engine[m]], j) \in Seq(Job)
      BY <3>1, <2>2 DEF TypeOK
    <3>3. pending' = [pending EXCEPT ![engine[m]] = Append(pending[engine[m]], j)]
      BY <1>8, <2>2 DEF Produce, j, TypeOK
    <3>4. pending' \in [Engines -> Seq(Job)]
      BY <3>2, <3>3, <2>2 DEF TypeOK
    <3>5. QED  BY <1>8, <2>2, <3>4 DEF Produce, TypeOK
  <2>3. CASE engine[m] \notin Engines
    <3>1. req' = [req EXCEPT ![r].st = "error"] /\ UNCHANGED pending
      BY <1>8, <2>3 DEF Produce
    <3>2. req' \in [Clients -> ClientRequest]
      <4>1. req[r] \in ClientRequest
        BY <2>1 DEF TypeOK
      <4>2. [req[r] EXCEPT !.st = "error"] \in ClientRequest
        BY <4>1 DEF ClientRequest
      <4>3. QED  BY <2>1, <3>1, <4>2 DEF TypeOK
    <3>3. QED  BY <1>8, <3>1, <3>2 DEF Produce, TypeOK
  <2>4. m \in Models
    BY <1>8, <2>1 DEF Produce, RequestInv
  <2>5. QED  BY <2>2, <2>3, <2>4
<1>9. ASSUME NEW m \in Models, TakeFirst(m) \/ TakeMore(m) PROVE TypeOK'
  <2>1. queue[m] # <<>> /\ queue' = [queue EXCEPT ![m] = Tail(queue[m])]
    BY <1>9 DEF TakeFirst, TakeMore, TypeOK
  <2>2. Head(queue[m]) \in Requests /\ Tail(queue[m]) \in Seq(Requests)
    BY <2>1, TailFacts DEF TypeOK
  <2>3. queue' \in [Models -> Seq(Requests)]
    BY <2>1, <2>2 DEF TypeOK
  <2>4. CASE TakeFirst(m)
    <3>1. [st |-> "collect", batch |-> <<Head(queue[m])>>, todo |-> <<>>] \in Task
      BY <2>2 DEF Task
    <3>2. task' \in [Models -> Task]
      BY <2>4, <3>1 DEF TakeFirst, TypeOK
    <3>3. QED  BY <2>3, <2>4, <3>2 DEF TakeFirst, TypeOK
  <2>5. CASE TakeMore(m)
    <3>1. Append(task[m].batch, Head(queue[m])) \in Seq(Requests)
      BY <2>2 DEF TypeOK, Task
    <3>2. task' = [task EXCEPT ![m].batch = Append(task[m].batch, Head(queue[m]))]
      BY <2>5 DEF TakeMore, TypeOK
    <3>3. task[m] \in Task
      BY DEF TypeOK
    <3>4. [task[m] EXCEPT !.batch = Append(task[m].batch, Head(queue[m]))] \in Task
      BY <3>1, <3>3 DEF Task
    <3>5. task' \in [Models -> Task]
      BY <3>2, <3>4 DEF TypeOK
    <3>6. QED  BY <2>3, <2>5, <3>5 DEF TakeMore, TypeOK
  <2>6. QED  BY <1>9, <2>4, <2>5
<1>10. ASSUME NEW m \in Models, NEW f \in [Clients -> ClientRequest],
              NEW todo \in Seq(Requests), SubmitNext(m, f, todo)
       PROVE  /\ task' \in [Models -> Task] /\ req' \in [Clients -> ClientRequest]
              /\ pending' \in [Engines -> Seq(Job)]
  <2>1. Idle \in Task
    BY DEF Idle, Task
  <2>2. [st |-> "await", batch |-> task[m].batch, todo |-> todo] \in Task
    BY DEF Task, TypeOK
  <2>3. Failed(f, ToSet(task[m].batch)) \in [Clients -> ClientRequest]
    BY FailedFacts
  <2>4. ASSUME engine[m] \in Engines, NEW j \in Job
        PROVE  Append(pending[engine[m]], j) \in Seq(Job)
    BY <2>4 DEF TypeOK
  <2>5. CASE task' = [task EXCEPT ![m] = Idle] /\ UNCHANGED pending
               /\ (req' = f \/ req' = Failed(f, ToSet(task[m].batch)))
    BY <2>1, <2>3, <2>5 DEF TypeOK
  <2>6. CASE /\ engine[m] \in Engines
             /\ task' = [task EXCEPT ![m] = [st |-> "await", batch |-> task[m].batch,
                                             todo |-> todo]]
             /\ req' = f
             /\ \E j \in Job :
                  pending' = [pending EXCEPT ![engine[m]] = Append(pending[engine[m]], j)]
    BY <2>2, <2>4, <2>6 DEF TypeOK
  <2>7. \/ task' = [task EXCEPT ![m] = Idle] /\ UNCHANGED pending
           /\ (req' = f \/ req' = Failed(f, ToSet(task[m].batch)))
        \/ /\ engine[m] \in Engines
           /\ task' = [task EXCEPT ![m] = [st |-> "await", batch |-> task[m].batch,
                                           todo |-> todo]]
           /\ req' = f
           /\ \E j \in Job :
                pending' = [pending EXCEPT ![engine[m]] = Append(pending[engine[m]], j)]
    BY <1>10, SubmitFacts
  <2>8. QED  BY <2>5, <2>6, <2>7
<1>11. ASSUME NEW m \in Models, CloseBatch(m) PROVE TypeOK'
  <2>1. task[m].batch \in Seq(Requests) /\ req \in [Clients -> ClientRequest]
    BY DEF TypeOK, Task
  <2>2. QED  BY <1>10, <1>11, <2>1 DEF CloseBatch, TypeOK
<1>12. ASSUME NEW e \in Engines, StartJob(e) PROVE TypeOK'
  <2>1. Head(pending[e]) \in Job /\ Tail(pending[e]) \in Seq(Job)
    BY <1>12, TailFacts DEF StartJob, TypeOK
  <2>2. [job |-> Head(pending[e]), using |-> NoEngine, set |-> Unset, ph |-> "picked"]
          \in ActiveJob
    BY <2>1 DEF ActiveJob
  <2>3. pending' = [pending EXCEPT ![e] = Tail(pending[e])]
    BY <1>12 DEF StartJob, TypeOK
  <2>4. active' = [active EXCEPT ![e] = active[e] \cup
          {[job |-> Head(pending[e]), using |-> NoEngine, set |-> Unset, ph |-> "picked"]}]
    BY <1>12 DEF StartJob, TypeOK
  <2>5. pending' \in [Engines -> Seq(Job)] /\ active' \in [Engines -> SUBSET ActiveJob]
    BY <2>1, <2>2, <2>3, <2>4 DEF TypeOK
  <2>6. QED  BY <1>12, <2>5 DEF StartJob, TypeOK
<1>13. ASSUME NEW e \in Engines, RunJob(e) PROVE TypeOK'
  <2>1. PICK a \in active[e] :
          LET x == IF a.job.kind = "stream" THEN e ELSE engine[a.job.model] IN
          /\ x \in Engines
          /\ predictor' = [predictor EXCEPT ![x] = Effective(x, a.job.set)]
          /\ active' = [active EXCEPT ![e] = (active[e] \ {a}) \cup
               {[job |-> a.job, using |-> x, set |-> Effective(x, a.job.set),
                 ph |-> "running"]}]
          /\ UNCHANGED <<req, loaded, engine, madeFor, queue, task, pending,
                         loop, unloader, orphaned>>
    BY <1>13 DEF RunJob, TypeOK
  <2> DEFINE x == IF a.job.kind = "stream" THEN e ELSE engine[a.job.model]
  <2>2. a \in ActiveJob /\ a.job \in Job /\ a.job.set \in Settings \cup {Unset}
    BY DEF TypeOK, ActiveJob, Job
  <2>3. Effective(x, a.job.set) \in Settings
    BY <2>1, <2>2 DEF Effective, TypeOK
  <2>4. [job |-> a.job, using |-> x, set |-> Effective(x, a.job.set), ph |-> "running"]
          \in ActiveJob
    BY <2>1, <2>2, <2>3 DEF ActiveJob
  <2>5. active' \in [Engines -> SUBSET ActiveJob] /\ predictor' \in [Engines -> Settings]
    BY <2>1, <2>3, <2>4 DEF TypeOK
  <2>6. QED  BY <2>1, <2>5 DEF TypeOK
<1>13a. ASSUME NEW e \in Engines, NextBatch(e) PROVE TypeOK'
  <2>1. PICK a \in active[e] :
          /\ a.ph = "running"
          /\ active' = [active EXCEPT ![e] = (active[e] \ {a}) \cup
                         {[a EXCEPT !.set = predictor[a.using]]}]
          /\ UNCHANGED <<req, loaded, engine, madeFor, predictor, queue, task,
                         pending, loop, unloader, orphaned>>
    BY <1>13a DEF NextBatch, TypeOK
  <2>2. a \in ActiveJob /\ a.using \in Engines
    BY <2>1 DEF TypeOK, ActiveInv
  <2>3. predictor[a.using] \in Settings
    BY <2>2 DEF TypeOK
  <2>4. [a EXCEPT !.set = predictor[a.using]] \in ActiveJob
    BY <2>2, <2>3 DEF ActiveJob
  <2>5. active' \in [Engines -> SUBSET ActiveJob]
    BY <2>1, <2>4 DEF TypeOK
  <2>6. QED  BY <2>1, <2>5 DEF TypeOK
<1>14. ASSUME NEW e \in Engines, NEW a \in active[e],
              active' = [active EXCEPT ![e] = @ \ {a}]
       PROVE  active' \in [Engines -> SUBSET ActiveJob]
  BY <1>14 DEF TypeOK
<1>15. ASSUME NEW e \in Engines, Finish(e) PROVE TypeOK'
  <2>1. PICK a \in active[e] :
        /\ a.ph = "running"
        /\ active' = [active EXCEPT ![e] = @ \ {a}]
        /\ IF ~a.job.live
           THEN UNCHANGED <<req, task, pending>>
           ELSE /\ LoopFree
                /\ IF a.job.kind = "stream"
                   THEN /\ req' = Answered(ToSet(a.job.reqs), a)
                        /\ UNCHANGED <<task, pending>>
                   ELSE SubmitNext(a.job.model, Answered(ToSet(a.job.reqs), a),
                                   Rest(task[a.job.model].todo))
        /\ UNCHANGED <<loaded, engine, madeFor, predictor, queue, loop, unloader,
                       orphaned>>
    BY <1>15 DEF Finish
  <2>2. active' \in [Engines -> SUBSET ActiveJob]
    BY <1>14, <2>1
  <2>3. /\ a.using \in Engines /\ a.set \in Settings \cup {Unset}
        /\ a.job.model \in Models /\ JobOK(a.job) /\ a.job.kind \in {"batch", "stream"}
    BY <2>1 DEF TypeOK, ActiveJob, Job, ActiveInv, JobInv
  <2>4. Answered(ToSet(a.job.reqs), a) \in [Clients -> ClientRequest]
    BY <2>3, AnsweredFacts DEF TypeOK
  <2>5. /\ task' \in [Models -> Task] /\ req' \in [Clients -> ClientRequest]
        /\ pending' \in [Engines -> Seq(Job)]
    <3>1. CASE ~a.job.live \/ a.job.kind = "stream"
      BY <2>1, <2>4, <3>1 DEF TypeOK
    <3>2. CASE a.job.live /\ a.job.kind = "batch"
      <4>1. task[a.job.model].st = "await"
        BY <2>3, <3>2 DEF JobOK, JobFits, BatchFits
      <4>2. task[a.job.model].todo # <<>> /\ task[a.job.model].todo \in Seq(Requests)
        BY <2>3, <4>1 DEF TaskInv, TypeOK, Task
      <4>3. Rest(task[a.job.model].todo) \in Seq(Requests)
        BY <4>2, GroupFacts
      <4>4. SubmitNext(a.job.model, Answered(ToSet(a.job.reqs), a),
                       Rest(task[a.job.model].todo))
        BY <2>1, <3>2
      <4>5. QED  BY <1>10, <2>3, <2>4, <4>3, <4>4
    <3>3. QED  BY <3>1, <3>2, <2>3
  <2>6. QED  BY <2>1, <2>2, <2>5 DEF TypeOK
<1>16. ASSUME NEW e \in Engines, FailJob(e) PROVE TypeOK'
  <2>1. PICK a \in active[e] :
        /\ active' = [active EXCEPT ![e] = @ \ {a}]
        /\ IF ~a.job.live
           THEN UNCHANGED <<req, task>>
           ELSE IF a.job.kind = "stream"
                THEN /\ req' = Failed(req, ToSet(a.job.reqs))
                     /\ UNCHANGED task
                ELSE /\ req' = Failed(req, ToSet(task[a.job.model].batch))
                     /\ task' = [task EXCEPT ![a.job.model] = Idle]
        /\ UNCHANGED <<loaded, engine, madeFor, predictor, queue, pending, loop,
                       unloader, orphaned>>
    BY <1>16 DEF FailJob
  <2>2. active' \in [Engines -> SUBSET ActiveJob]
    BY <1>14, <2>1
  <2>3. req' \in [Clients -> ClientRequest]
    <3>1. \A rs : Failed(req, rs) \in [Clients -> ClientRequest]
      BY FailedFacts DEF TypeOK
    <3>2. QED  BY <2>1, <3>1 DEF TypeOK
  <2>4. task' \in [Models -> Task]
    <3>1. Idle \in Task
      BY DEF Task, Idle
    <3>2. task' = task \/ task' = [task EXCEPT ![a.job.model] = Idle]
      BY <2>1
    <3>3. QED  BY <3>1, <3>2 DEF TypeOK
  <2>5. QED  BY <2>1, <2>2, <2>3, <2>4 DEF TypeOK
<1>17. ASSUME NEW u \in Unloaders, UnloadCancel(u) PROVE TypeOK'
  <2>1. PICK m \in Models :
          /\ CancelTasks({m})
          /\ unloader' = [unloader EXCEPT ![u] = [pc |-> "cancelled", model |-> m]]
    BY <1>17 DEF UnloadCancel
  <2>2. /\ task' \in [Models -> Task] /\ pending' \in [Engines -> Seq(Job)]
        /\ active' \in [Engines -> SUBSET ActiveJob]
        /\ orphaned' \subseteq Requests
    BY <2>1, CancelFacts, CancelOrphans
  <2>3. QED  BY <1>17, <2>1, <2>2 DEF UnloadCancel, TypeOK
<1>18. ASSUME NEW u \in Unloaders, UnloadDrain(u) PROVE TypeOK'
  <2>1. req' \in [Clients -> ClientRequest]
    BY <1>18, FailedFacts DEF UnloadDrain, ClearQueues, TypeOK
  <2>2. queue' \in [Models -> Seq(Requests)]
    BY <1>18 DEF UnloadDrain, ClearQueues, TypeOK
  <2>3. unloader' \in [Unloaders -> [pc : {"start", "cancelled", "drained",
                                           "deleted", "cleared", "done"},
                                     model : Models \cup {"nobody"}]]
    BY <1>18 DEF UnloadDrain, Goto, TypeOK
  <2>4. QED  BY <1>18, <2>1, <2>2, <2>3 DEF UnloadDrain, TypeOK
<1>19. ASSUME NEW u \in Unloaders, UnloadDelete(u) \/ UnloadClear(u) \/ UnloadFlag(u)
       PROVE  TypeOK'
  <2>1. unloader[u].model \in Models
    BY <1>19 DEF UnloadDelete, UnloadClear, UnloadFlag, UnloaderInv, At
  <2>2. engine' \in [Models -> Engines \cup {NoEngine, Deleted}]
    BY <1>19, <2>1 DEF UnloadDelete, UnloadClear, UnloadFlag, TypeOK
  <2>3. loaded' \in [Models -> BOOLEAN]
    BY <1>19, <2>1 DEF UnloadDelete, UnloadClear, UnloadFlag, TypeOK
  <2>4. PICK pc \in {"done", "deleted", "cleared"} : Goto(u, pc)
    BY <1>19 DEF UnloadDelete, UnloadClear, UnloadFlag
  <2>5. unloader' \in [Unloaders -> [pc : {"start", "cancelled", "drained",
                                           "deleted", "cleared", "done"},
                                     model : Models \cup {"nobody"}]]
    BY <2>4 DEF Goto, TypeOK
  <2>6. QED  BY <1>19, <2>2, <2>3, <2>5 DEF UnloadDelete, UnloadClear, UnloadFlag, TypeOK
<1>20. CASE UNCHANGED vars
  BY <1>20 DEF vars, TypeOK
<1>21. QED
  BY <1>1, <1>2, <1>3, <1>5, <1>6, <1>7, <1>8, <1>9, <1>11, <1>12, <1>13, <1>15,
     <1>16, <1>17, <1>18, <1>19, <1>20, <1>2a, <1>2b, <1>13a
     DEF Next, HandlerStep, LoopStep, TaskStep, PoolStep, UnloadStep

------------------------------------------------------------------------------
(* What a step makes of a request.                                         *)

(* The actions of a pool thread, for the job they are about.               *)
FinishOf(e, a) ==
    /\ a.ph = "running"
    /\ active' = [active EXCEPT ![e] = active[e] \ {a}]
    /\ IF ~a.job.live
       THEN UNCHANGED <<req, task, pending>>
       ELSE /\ LoopFree
            /\ IF a.job.kind = "stream"
               THEN /\ req' = Answered(ToSet(a.job.reqs), a)
                    /\ UNCHANGED <<task, pending>>
               ELSE SubmitNext(a.job.model, Answered(ToSet(a.job.reqs), a),
                               Rest(task[a.job.model].todo))
    /\ UNCHANGED <<loaded, engine, madeFor, predictor, queue, loop, unloader,
                   orphaned>>

FailOf(e, a) ==
    /\ active' = [active EXCEPT ![e] = active[e] \ {a}]
    /\ IF ~a.job.live
       THEN UNCHANGED <<req, task>>
       ELSE /\ LoopFree
            /\ IF a.job.kind = "stream"
               THEN /\ req' = Failed(req, ToSet(a.job.reqs))
                    /\ UNCHANGED task
               ELSE /\ req' = Failed(req, ToSet(task[a.job.model].batch))
                    /\ task' = [task EXCEPT ![a.job.model] = Idle]
    /\ UNCHANGED <<loaded, engine, madeFor, predictor, queue, pending, loop, unloader,
                   orphaned>>

RunOf(e, a, x) ==
    /\ x = IF a.job.kind = "stream" THEN e ELSE engine[a.job.model]
    /\ a.ph = "picked"
    /\ x \in Engines
    /\ predictor' = [predictor EXCEPT ![x] = Effective(x, a.job.set)]
    /\ active' = [active EXCEPT ![e] = (active[e] \ {a}) \cup
           {[job |-> a.job, using |-> x, set |-> Effective(x, a.job.set),
             ph |-> "running"]}]
    /\ UNCHANGED <<req, loaded, engine, madeFor, queue, task, pending, loop, unloader,
                   orphaned>>

(* A prediction that finds other settings than it had.                     *)
NextOf(e, a) ==
    /\ a.ph = "running" /\ a.set # predictor[a.using]
    /\ active' = [active EXCEPT ![e] = (active[e] \ {a}) \cup
           {[a EXCEPT !.set = predictor[a.using]]}]
    /\ UNCHANGED <<req, loaded, engine, madeFor, predictor, queue, task, pending,
                   loop, unloader, orphaned>>

LEMMA PoolSteps ==
  ASSUME TypeOK, NEW e \in Engines
  PROVE  /\ Finish(e) => \E a \in active[e] : FinishOf(e, a)
         /\ FailJob(e) => \E a \in active[e] : FailOf(e, a)
         /\ RunJob(e) => \E a \in active[e], x \in Engines : RunOf(e, a, x)
         /\ NextBatch(e) => \E a \in active[e] : NextOf(e, a)
<1>1. Finish(e) => \E a \in active[e] : FinishOf(e, a)
  BY DEF TypeOK, Finish, FinishOf
<1>2. FailJob(e) => \E a \in active[e] : FailOf(e, a)
  BY DEF TypeOK, FailJob, FailOf
<1>3. RunJob(e) => \E a \in active[e], x \in Engines : RunOf(e, a, x)
  BY DEF TypeOK, RunJob, RunOf
<1>4. NextBatch(e) => \E a \in active[e] : NextOf(e, a)
  BY DEF TypeOK, NextBatch, NextOf
<1>5. QED  BY <1>1, <1>2, <1>3, <1>4

(* Either way the job of a stays in the pool.                              *)
Runs(e, a) ==
    /\ \E b : /\ b.job = a.job /\ b.ph = "running"
              /\ active'[e] = (active[e] \ {a}) \cup {b}
    /\ \A f \in Engines \ {e} : active'[f] = active[f]
    /\ UNCHANGED <<req, task, queue, loop, pending, engine, madeFor, unloader>>

LEMMA RunFacts ==
  ASSUME TypeOK, NEW e \in Engines, RunJob(e) \/ NextBatch(e)
  PROVE  \E a \in active[e] : Runs(e, a)
<1>1. ASSUME NEW a \in active[e], NEW b, b.job = a.job, b.ph = "running",
             active' = [active EXCEPT ![e] = (active[e] \ {a}) \cup {b}],
             UNCHANGED <<req, task, queue, loop, pending, engine, madeFor, unloader>>
      PROVE  Runs(e, a)
  <2>1. /\ active'[e] = (active[e] \ {a}) \cup {b}
        /\ \A f \in Engines \ {e} : active'[f] = active[f]
    BY <1>1 DEF TypeOK
  <2>2. QED  BY <1>1, <2>1 DEF Runs
<1>2. CASE RunJob(e)
  <2>1. PICK a \in active[e], x \in Engines : RunOf(e, a, x)
    BY <1>2, PoolSteps
  <2> DEFINE b == [job |-> a.job, using |-> x, set |-> Effective(x, a.job.set), ph |-> "running"]
  <2>2. b.job = a.job /\ b.ph = "running"
    OBVIOUS
  <2>3. /\ active' = [active EXCEPT ![e] = (active[e] \ {a}) \cup {b}]
        /\ UNCHANGED <<req, task, queue, loop, pending, engine, madeFor, unloader>>
    BY <2>1 DEF RunOf
  <2> HIDE DEF b
  <2>4. QED  BY <1>1, <2>2, <2>3
<1>3. CASE NextBatch(e)
  <2>1. PICK a \in active[e] : NextOf(e, a)
    BY <1>3, PoolSteps
  <2> DEFINE b == [a EXCEPT !.set = predictor[a.using]]
  <2>2. b.job = a.job /\ b.ph = "running"
    BY <2>1 DEF NextOf, TypeOK, ActiveJob
  <2>3. /\ active' = [active EXCEPT ![e] = (active[e] \ {a}) \cup {b}]
        /\ UNCHANGED <<req, task, queue, loop, pending, engine, madeFor, unloader>>
    BY <2>1 DEF NextOf
  <2> HIDE DEF b
  <2>4. QED  BY <1>1, <2>2, <2>3
<1>4. QED  BY <1>2, <1>3

(* A job that has an owner is about requests that wait for it.             *)
LEMMA LiveJobFacts ==
  ASSUME TypeOK, RequestInv, TaskInv, NEW j \in Job, JobOK(j), j.live
  PROVE  /\ j.model \in Models
         /\ \A r \in ToSet(j.reqs) :
              /\ r \in Clients /\ r # loop.client
              /\ req[r].st = "waiting" /\ req[r].model = j.model /\ j.set = req[r].set
         /\ j.kind = "batch" =>
              /\ task[j.model].st = "await" /\ j.reqs = Group(task[j.model].todo)
              /\ task[j.model].todo \in Seq(Requests) /\ task[j.model].todo # <<>>
              /\ \A r \in ToSet(j.reqs) : r \in Requests
         /\ j.kind # "batch" => \E r \in Streams : j.reqs = <<r>> /\ ToSet(j.reqs) = {r}
<1>1. j.model \in Models /\ j.kind \in {"batch", "stream"}
  BY DEF Job
<1>2. CASE j.kind = "batch"
  <2>1. /\ task[j.model].st = "await" /\ j.reqs = Group(task[j.model].todo)
        /\ \A r \in ToSet(j.reqs) : j.set = req[r].set
        /\ \A r \in ToSet(j.reqs) : r \in Requests
    BY <1>2 DEF JobOK, JobFits, BatchFits, GroupIn, Group, SameGroup
  <2>2. /\ task[j.model].todo # <<>> /\ task[j.model].todo \in Seq(Requests)
        /\ \A r \in ToSet(task[j.model].todo) : req[r].st = "waiting"
        /\ ToSet(task[j.model].todo) \subseteq ToSet(task[j.model].batch)
        /\ \A r \in ToSet(task[j.model].batch) :
             req[r].model = j.model /\ r # loop.client
    <3>1. task[j.model] \in Task
      BY <1>1 DEF TypeOK
    <3>2. task[j.model].todo \in Seq(Requests)
      BY <3>1 DEF Task
    <3>3. QED  BY <1>1, <2>1, <3>2 DEF TaskInv
  <2>3. ToSet(j.reqs) \subseteq ToSet(task[j.model].todo)
    BY <2>1, <2>2, GroupFacts
  <2>4. QED  BY <1>1, <1>2, <2>1, <2>2, <2>3 DEF Clients
<1>3. CASE j.kind = "stream"
  <2>1. PICK r \in Streams : /\ j.reqs = <<r>>
                             /\ req[r].st = "waiting" /\ req[r].model = j.model
                             /\ r # loop.client /\ j.set = req[r].set
    BY <1>3 DEF JobOK, JobFits, StreamFits
  <2>2. ToSet(j.reqs) = {r}
    BY <2>1 DEF ToSet
  <2>3. QED  BY <1>1, <1>3, <2>1, <2>2 DEF Clients
<1>4. QED  BY <1>1, <1>2, <1>3

Arrives(r) == /\ req[r].st = "new" /\ req'[r].st = "waiting"
              /\ req'[r].model \in Models /\ loop'.pc # "free"
Clashes(r) == req[r].st = "new" /\ req'[r].st = "error" /\ req'[r].model \in Models
Fails(r) == /\ req[r].st = "waiting" /\ req'[r].st = "error"
            /\ req'[r].model = req[r].model
            /\ r # loop.client \/ loop' = FreeLoop
GetsAnswer(r) ==
    /\ req[r].st = "waiting" /\ req'[r].st = "ok" /\ r # loop.client
    /\ req'[r].model = req[r].model /\ req'[r].set = req[r].set
    /\ req'[r].answer.engine \in Engines
    /\ madeFor[req'[r].answer.engine] = req[r].model
    /\ req[r].set # Unset /\ Undisturbed(req[r].model) =>
         req'[r].answer.set = req[r].set

(* A batch processor that takes over f, the requests with their answers,   *)
(* leaves each as it is or fails it.                                       *)
LEMMA SubmitRequests ==
  ASSUME TypeOK, NEW m \in Models, NEW f \in [Clients -> ClientRequest],
         NEW todo \in Seq(Requests), SubmitNext(m, f, todo), NEW r \in Clients
  PROVE  \/ req'[r] = f[r]
         \/ /\ f[r].st = "waiting" /\ req'[r].st = "error"
            /\ req'[r].model = f[r].model
<1>1. req' = f \/ req' = Failed(f, ToSet(task[m].batch))
  BY SubmitFacts
<1>2. QED  BY <1>1, FailedFacts

LEMMA StepOfRequest ==
  ASSUME IInv, [Next]_vars, NEW r \in Clients
  PROVE  req'[r] = req[r] \/ Arrives(r) \/ Clashes(r) \/ Fails(r) \/ GetsAnswer(r)
<1> USE DEF IInv
<1> DEFINE Goal == req'[r] = req[r] \/ Arrives(r) \/ Clashes(r) \/ Fails(r) \/ GetsAnswer(r)
<1>0. LoopFree => r # loop.client
  BY ServerAssumption DEF LoopFree, LoopInv, Clients
<1>1. ASSUME NEW f \in [Clients -> ClientRequest], NEW rs, req' = Failed(f, rs), f[r] = req[r],
             r \in rs => r # loop.client \/ loop' = FreeLoop
      PROVE  req'[r] = req[r] \/ Fails(r)
  BY <1>1, FailedFacts DEF Fails
<1>2. req \in [Clients -> ClientRequest]
  BY DEF TypeOK
<1>3. ASSUME req[r].st = "new", NEW X \in SUBSET Models PROVE r \notin Drained(X)
  BY <1>3 DEF QueueInv, Drained, ToSet
<1>4. ASSUME NEW x \in Clients, Evict(x) PROVE Goal
  <2>1. PICK m \in Models, s \in Settings \cup {Unset} :
          /\ req[x].st = "new" /\ Unloaded(Others(m), Arrived(x, m, s))
          /\ loop' = [pc |-> "evicted", model |-> m, client |-> x]
    BY <1>4 DEF Evict
  <2> DEFINE f == Arrived(x, m, s)
             rs == Drained(Others(m))
  <2>2. /\ f \in [Clients -> ClientRequest] /\ f[x].st = "waiting" /\ f[x].model = m
        /\ \A y \in Clients \ {x} : f[y] = req[y]
    BY ArrivedFacts
  <2>3. req' = Failed(f, rs)
    BY <2>1 DEF Unloaded
  <2> HIDE DEF f, rs
  <2>4. CASE r # x
    <3>1. r # loop.client
      BY <1>0, <1>4 DEF Evict, CanEvict
    <3>2. QED  BY <1>1, <2>2, <2>3, <2>4, <3>1
  <2>5. CASE r = x
    <3>1. r \notin rs
      BY <1>3, <2>1, <2>5 DEF rs, Others
    <3>2. req'[r] = f[r]
      BY <3>1, <2>2, <2>3, FailedFacts
    <3>3. QED  BY <3>2, <2>1, <2>2, <2>5 DEF Arrives
  <2>6. QED  BY <2>4, <2>5
<1>5. ASSUME NEW x \in Clients, EvictClash(x) PROVE Goal
  <2>1. PICK m \in Models, y \in Models, before \in SUBSET Models :
          Clash(m, y, before, Refused(x, m))
    BY <1>5 DEF EvictClash
  <2> DEFINE f == Refused(x, m)
             rs == Drained(before \cup {y})
  <2>2. /\ f \in [Clients -> ClientRequest] /\ f[x].st = "error" /\ f[x].model = m
        /\ \A z \in Clients \ {x} : f[z] = req[z]
    BY RefusedFacts
  <2>3. req' = Failed(f, rs) /\ LoopFree /\ req[x].st = "new"
    BY <1>5, <2>1 DEF Clash, EvictClash
  <2> HIDE DEF f, rs
  <2>4. CASE r # x
    BY <1>0, <1>1, <2>2, <2>3, <2>4
  <2>5. CASE r = x
    <3>1. req'[r] = f[r]
      BY <2>2, <2>3, <2>5, FailedFacts
    <3>2. QED  BY <2>2, <2>3, <2>5, <3>1 DEF Clashes
  <2>6. QED  BY <2>4, <2>5
<1>6. CASE CountTokens \/ DescribeModel \/ EvictUnknown \/ CountClash
  <2>1. LoopFree /\ \E rs : req' = Failed(req, rs)
    BY <1>6 DEF CountTokens, DescribeModel, EvictUnknown, CountClash, Clash, Unloaded, CanEvict
  <2>2. QED  BY <1>0, <1>1, <1>2, <2>1
<1>7. CASE LoadFails
  <2>1. req' = Failed(req, {loop.client}) /\ loop' = FreeLoop
    BY <1>7 DEF LoadFails
  <2>2. QED  BY <1>1, <1>2, <2>1
<1>8. ASSUME NEW x \in Streams, Produce(x) PROVE Goal
  <2>1. /\ req' = req \/ (req[x].st = "waiting" /\ req' = [req EXCEPT ![x].st = "error"])
        /\ x # loop.client
    BY <1>8 DEF Produce
  <2>2. req[r] \in ClientRequest /\ x \in Clients
    BY <1>2 DEF Clients
  <2>3. CASE req' = req
    BY <2>3
  <2>4. CASE req[x].st = "waiting" /\ req' = [req EXCEPT ![x].st = "error"]
    <3>1. CASE r # x
      BY <1>2, <2>2, <2>4, <3>1
    <3>2. CASE r = x
      BY <1>2, <2>1, <2>2, <2>4, <3>2 DEF Fails, ClientRequest
    <3>3. QED  BY <3>1, <3>2
  <2>5. QED  BY <2>1, <2>3, <2>4
<1>9. ASSUME NEW m \in Models, CloseBatch(m) PROVE Goal
  <2>1. task[m].batch \in Seq(Requests) /\ SubmitNext(m, req, task[m].batch) /\ LoopFree
    BY <1>9 DEF CloseBatch, TypeOK, Task
  <2>2. QED  BY <1>0, <1>2, <2>1, SubmitRequests DEF Fails
<1>10. ASSUME NEW e \in Engines, Finish(e) PROVE Goal
  <2>1. PICK a \in active[e] : FinishOf(e, a)
    BY <1>10, PoolSteps
  <2>2. CASE ~a.job.live
    BY <2>1, <2>2 DEF FinishOf
  <2>3. CASE a.job.live
    <3> DEFINE rs == ToSet(a.job.reqs)
               f == Answered(rs, a)
    <3>1. /\ a \in ActiveJob /\ a.job \in Job /\ JobOK(a.job) /\ a.ph = "running"
          /\ a.using \in Engines /\ madeFor[a.using] = a.job.model
          /\ a.set \in Settings \cup {Unset}
      BY <2>1 DEF TypeOK, ActiveJob, JobInv, ActiveInv, FinishOf
    <3>9. a.job.set # Unset /\ Undisturbed(a.job.model) => a.set = a.job.set
      <4>1. a.job.model \in Models
        BY <3>1 DEF Job
      <4>2. QED  BY <3>1, <4>1 DEF PoolInv, Settled
    <3>2. /\ a.job.model \in Models
          /\ \A x \in rs : /\ req[x].st = "waiting" /\ req[x].model = a.job.model
                           /\ a.job.set = req[x].set
      BY <2>3, <3>1, LiveJobFacts
    <3>3. /\ f \in [Clients -> ClientRequest]
          /\ f[r].model = req[r].model /\ f[r].set = req[r].set
          /\ r \in rs => /\ f[r].st = "ok" /\ f[r].answer.engine = a.using
                         /\ f[r].answer.set = a.set
          /\ r \notin rs => f[r] = req[r]
      BY <1>2, <3>1, AnsweredFacts
    <3>4. req'[r] = f[r] \/ (f[r].st = "waiting" /\ req'[r].st = "error" /\ req'[r].model = f[r].model)
      <4>1. CASE a.job.kind = "stream"
        BY <2>1, <2>3, <4>1 DEF FinishOf
      <4>2. CASE a.job.kind # "stream"
        <5>1. a.job.kind = "batch"
          BY <3>1, <4>2 DEF Job
        <5>2. task[a.job.model].todo \in Seq(Requests) /\ task[a.job.model].todo # <<>>
          BY <2>3, <3>1, <5>1, LiveJobFacts
        <5>3. Rest(task[a.job.model].todo) \in Seq(Requests)
          BY <5>2, GroupFacts
        <5>4. SubmitNext(a.job.model, f, Rest(task[a.job.model].todo))
          BY <2>1, <2>3, <4>2 DEF FinishOf
        <5> HIDE DEF f
        <5>5. QED  BY <3>2, <3>3, <5>3, <5>4, SubmitRequests
      <4>3. QED  BY <4>1, <4>2
    <3> HIDE DEF f, rs
    <3>8. r # loop.client
      BY <1>0, <2>1, <2>3 DEF FinishOf
    <3>5. CASE r \in rs
      BY <3>1, <3>2, <3>3, <3>4, <3>5, <3>8, <3>9 DEF GetsAnswer
    <3>6. CASE r \notin rs
      BY <3>3, <3>4, <3>6, <3>8 DEF Fails
    <3>7. QED  BY <3>5, <3>6
  <2>4. QED  BY <2>2, <2>3
<1>11. ASSUME NEW e \in Engines, FailJob(e) PROVE Goal
  <2>1. PICK a \in active[e] : FailOf(e, a)
    BY <1>11, PoolSteps
  <2>2. req' = req \/ (LoopFree /\ \E rs : req' = Failed(req, rs))
    BY <2>1 DEF FailOf
  <2>3. QED  BY <1>0, <1>1, <1>2, <2>2
<1>12. ASSUME NEW u \in Unloaders, UnloadDrain(u) PROVE Goal
  <2>1. req' = Failed(req, Drained({unloader[u].model}))
    BY <1>12 DEF UnloadDrain, ClearQueues
  <2>2. unloader[u].model \in Models
    BY <1>12 DEF UnloadDrain, UnloaderInv, At
  <2>3. r \in Drained({unloader[u].model}) => r # loop.client
    BY <2>2 DEF Drained, ToSet, QueueInv
  <2>4. QED  BY <1>1, <1>2, <2>1, <2>3
<1>13. CASE UNCHANGED req
  BY <1>13
<1>14. QED
  BY <1>4, <1>5, <1>6, <1>7, <1>8, <1>9, <1>10, <1>11, <1>12, <1>13
     DEF Next, vars, HandlerStep, LoopStep, TaskStep, PoolStep, UnloadStep, AcceptLoaded,
         LoadEngine, SetLoaded, TakeFirst, TakeMore, StartJob, RunJob, NextBatch, UnloadCancel, UnloadDelete,
         UnloadClear, UnloadFlag

(* What each kind of step leaves alone.                                    *)

LEMMA HandlerFrame ==
  ASSUME HandlerStep
  PROVE  UNCHANGED <<madeFor, predictor, unloader>>
<1>1. ASSUME NEW X, NEW f, Unloaded(X, f) PROVE UNCHANGED <<madeFor, predictor, unloader>>
  BY <1>1 DEF Unloaded
<1>2. ASSUME NEW m, NEW x, NEW before, NEW f, Clash(m, x, before, f)
      PROVE  UNCHANGED <<madeFor, predictor, unloader>>
  BY <1>2 DEF Clash
<1>3. \/ \E X, f : Unloaded(X, f)
      \/ \E m, x, before, f : Clash(m, x, before, f)
  BY DEF HandlerStep, Evict, EvictClash, CountTokens, DescribeModel, EvictUnknown, CountClash
<1>4. QED  BY <1>1, <1>2, <1>3

LEMMA LoopFrame ==
  ASSUME LoopStep
  PROVE  /\ UNCHANGED <<predictor, pending, active, unloader, orphaned>>
         /\ LoadEngine \/ (loop' = FreeLoop /\ UNCHANGED <<engine, madeFor>>)
BY DEF LoopStep, AcceptLoaded, LoadEngine, LoadFails, SetLoaded, Accept

LEMMA ProduceFrame ==
  ASSUME NEW r \in Streams, Produce(r)
  PROVE  UNCHANGED <<loaded, engine, madeFor, predictor, queue, task, active, loop, unloader,
                     orphaned>>
BY DEF Produce

LEMMA TaskFrame ==
  ASSUME NEW m \in Models, TaskStep(m)
  PROVE  UNCHANGED <<loaded, engine, madeFor, predictor, active, loop, unloader, orphaned>>
BY DEF TaskStep, TakeFirst, TakeMore, CloseBatch

LEMMA PoolFrame ==
  ASSUME NEW e \in Engines, PoolStep(e)
  PROVE  UNCHANGED <<loaded, engine, madeFor, queue, loop, unloader, orphaned>>
BY DEF PoolStep, StartJob, RunJob, NextBatch, Finish, FailJob

LEMMA UnloadFrame ==
  ASSUME NEW u \in Unloaders, UnloadCancel(u) \/ UnloadStep(u)
  PROVE  /\ UNCHANGED <<madeFor, predictor, loop>>
         /\ UnloadCancel(u) \/ UNCHANGED orphaned
BY DEF UnloadCancel, UnloadStep, UnloadDrain, UnloadDelete, UnloadClear, UnloadFlag

------------------------------------------------------------------------------
(* The conjuncts about requests, the loop and the threads of /unload_model. *)

LEMMA StepRequestInv ==
  ASSUME IInv, [Next]_vars
  PROVE  RequestInv'
<1> SUFFICES ASSUME NEW r \in Clients
             PROVE  /\ req'[r].st = "new" => req'[r].model = "nobody"
                    /\ req'[r].st # "new" => req'[r].model \in Models
  BY DEF RequestInv, Clients
<1>1. req'[r] = req[r] \/ Arrives(r) \/ Clashes(r) \/ Fails(r) \/ GetsAnswer(r)
  BY StepOfRequest
<1>2. QED  BY <1>1 DEF IInv, RequestInv, Arrives, Clashes, Fails, GetsAnswer

(* An engine is built once.                                                *)
LEMMA StepOfMadeFor ==
  ASSUME IInv, [Next]_vars
  PROVE  \A e \in Engines : madeFor[e] # "nobody" => madeFor'[e] = madeFor[e]
<1>1. CASE LoadEngine
  BY <1>1 DEF LoadEngine, IInv, TypeOK
<1>2. CASE UNCHANGED madeFor
  BY <1>2
<1>3. QED
  BY <1>1, <1>2, HandlerFrame, LoopFrame, ProduceFrame, TaskFrame, PoolFrame, UnloadFrame
     DEF Next, vars

LEMMA StepLoopInv ==
  ASSUME IInv, [Next]_vars
  PROVE  LoopInv'
<1> USE DEF IInv
<1>1. ASSUME NEW r \in Clients, Evict(r) PROVE LoopInv'
  <2>1. PICK m \in Models, s \in Settings \cup {Unset} :
          /\ CanEvict(m) /\ req[r].st = "new" /\ Unloaded(Others(m), Arrived(r, m, s))
          /\ loop' = [pc |-> "evicted", model |-> m, client |-> r]
    BY <1>1 DEF Evict
  <2>2. r \notin Drained(Others(m))
    BY <2>1 DEF QueueInv, Drained, ToSet, Others
  <2>3. /\ Arrived(r, m, s) \in [Clients -> ClientRequest]
        /\ Arrived(r, m, s)[r].st = "waiting" /\ Arrived(r, m, s)[r].model = m
    BY ArrivedFacts
  <2>4. req'[r] = Arrived(r, m, s)[r]
    BY <2>1, <2>2, <2>3, FailedFacts DEF Unloaded
  <2>5. QED  BY <2>1, <2>3, <2>4 DEF LoopInv
<1>2. CASE /\ UNCHANGED loop \/ LoadEngine
  <2>1. /\ loop'.client = loop.client /\ loop'.model = loop.model
        /\ loop'.pc = "free" <=> loop.pc = "free"
    BY <1>2 DEF LoadEngine, TypeOK
  <2>2. ASSUME loop.client \in Clients PROVE req'[loop.client] = req[loop.client]
    <3>1. req[loop.client].st = "waiting" /\ loop.pc # "free"
      BY <2>2, ServerAssumption DEF LoopInv, Clients
    <3>2. loop' # FreeLoop
      BY <2>1, <3>1 DEF FreeLoop
    <3>3. QED  BY <2>2, <3>1, <3>2, StepOfRequest DEF Arrives, Clashes, Fails, GetsAnswer
  <2>3. QED  BY <2>1, <2>2 DEF LoopInv, Clients
<1>3. CASE loop' = FreeLoop
  BY <1>3, ServerAssumption DEF LoopInv, FreeLoop, Clients
<1>4. CASE CountTokens
  BY <1>4, ServerAssumption DEF LoopInv, CountTokens, Clients
<1>5. QED
  BY <1>1, <1>2, <1>3, <1>4, HandlerFrame, LoopFrame, ProduceFrame, TaskFrame, PoolFrame, UnloadFrame
     DEF Next, vars, HandlerStep, EvictClash, CountClash, Clash, DescribeModel, EvictUnknown

(* A thread of /unload_model begins once, and stays with its model.         *)
LEMMA StepOfUnloader ==
  ASSUME IInv, [Next]_vars
  PROVE  /\ UnloaderInv'
         /\ \A m \in Models : Untouched(m)' => Untouched(m)
<1> USE DEF IInv, TypeOK
<1>1. ASSUME NEW u \in Unloaders, NEW pc \in {"cancelled", "drained", "deleted", "cleared", "done"},
             NEW m \in Models, unloader[u].model \in {m, "nobody"},
             unloader' = [unloader EXCEPT ![u] = [pc |-> pc, model |-> m]]
      PROVE  /\ UnloaderInv'
             /\ \A x \in Models : Untouched(x)' => Untouched(x)
  BY <1>1, ServerAssumption DEF Untouched, UnloaderInv, At
<1>2. ASSUME NEW u \in Unloaders, UnloadCancel(u)
      PROVE  /\ UnloaderInv'
             /\ \A m \in Models : Untouched(m)' => Untouched(m)
  <2>1. unloader[u].model = "nobody"
    BY <1>2 DEF UnloadCancel, UnloaderInv, At
  <2>2. QED  BY <1>1, <1>2, <2>1 DEF UnloadCancel
<1>3. ASSUME NEW u \in Unloaders, UnloadStep(u)
      PROVE  /\ UnloaderInv'
             /\ \A m \in Models : Untouched(m)' => Untouched(m)
  <2>1. PICK pc \in {"cancelled", "drained", "deleted", "cleared", "done"} :
          unloader' = [unloader EXCEPT ![u].pc = pc]
    BY <1>3 DEF UnloadStep, UnloadDrain, UnloadDelete, UnloadClear, UnloadFlag, Goto
  <2>2. unloader[u].model \in Models
    BY <1>3 DEF UnloadStep, UnloadDrain, UnloadDelete, UnloadClear, UnloadFlag, At, UnloaderInv
  <2>3. [unloader[u] EXCEPT !.pc = pc] = [pc |-> pc, model |-> unloader[u].model]
    <3>1. unloader[u] \in [pc : {"start", "cancelled", "drained", "deleted", "cleared", "done"},
                           model : Models \cup {"nobody"}]
      OBVIOUS
    <3>2. QED  BY <3>1
  <2>4. unloader' = [unloader EXCEPT ![u] = [pc |-> pc, model |-> unloader[u].model]]
    BY <2>1, <2>3
  <2>5. QED  BY <1>1, <2>2, <2>4
<1>4. CASE UNCHANGED unloader
  BY <1>4 DEF UnloaderInv, Untouched, At
<1>5. QED
  BY <1>2, <1>3, <1>4, HandlerFrame, LoopFrame, ProduceFrame, TaskFrame, PoolFrame, UnloadFrame
     DEF Next, vars

(* What is left of a job that was running when its batch processor was     *)
(* canceled.                                                               *)
LeftOf(b, a, X) ==
    /\ b.ph = a.ph /\ b.using = a.using /\ b.set = a.set
    /\ b.job.kind = a.job.kind /\ b.job.model = a.job.model
    /\ b.job.reqs = a.job.reqs /\ b.job.set = a.job.set
    /\ b.job.live => b = a
    /\ a.job.kind = "stream" => b = a
    /\ a.job.model \notin X => b = a
    /\ ~OwnedBy(b.job, X)

LEMMA CancelActive ==
  ASSUME TypeOK, NEW X, CancelTasks(X), NEW e \in Engines, NEW b \in active'[e]
  PROVE  \E a \in active[e] : LeftOf(b, a, X)
<1>0. \A y \in active'[e] : \E a \in active[e] :
        y = IF OwnedBy(a.job, X) THEN [a EXCEPT !.job.live = FALSE] ELSE a
  BY CancelFacts
<1>1. PICK a \in active[e] :
        b = IF OwnedBy(a.job, X) THEN [a EXCEPT !.job.live = FALSE] ELSE a
  BY <1>0
<1>2. a \in ActiveJob /\ a.job \in Job
  BY DEF TypeOK, ActiveJob
<1>3. CASE OwnedBy(a.job, X)
  <2> DEFINE j == [a.job EXCEPT !.live = FALSE]
  <2>1. /\ j.kind = a.job.kind /\ j.model = a.job.model /\ j.reqs = a.job.reqs
        /\ j.set = a.job.set /\ j.live = FALSE
    BY <1>2 DEF Job
  <2>2. b = [a EXCEPT !.job = j]
    BY <1>1, <1>2, <1>3 DEF ActiveJob
  <2> HIDE DEF j
  <2>3. b.job = j /\ b.ph = a.ph /\ b.using = a.using /\ b.set = a.set
    BY <1>2, <2>2 DEF ActiveJob
  <2>4. a.job.kind # "stream"
    BY <1>3 DEF OwnedBy
  <2>5. a.job.model \in X
    BY <1>3 DEF OwnedBy
  <2>6. QED  BY <2>1, <2>3, <2>4, <2>5 DEF LeftOf, OwnedBy
<1>4. CASE ~OwnedBy(a.job, X)
  BY <1>1, <1>4 DEF LeftOf
<1>5. QED  BY <1>3, <1>4

(* What the handlers have in common that evict the models of X.            *)
Evicts(X) ==
    /\ LoopFree /\ loop'.pc # "created"
    /\ loop'.client \in Clients => req[loop'.client].st = "new"
    /\ CancelTasks(X)
    /\ queue' = [m \in Models |-> IF m \in X THEN <<>> ELSE queue[m]]
    /\ \A r \in Clients : req[r].st # "new" => req'[r] = Failed(req, Drained(X))[r]
    /\ \A r \in Clients : req[r].st = "new" /\ req'[r].st = "waiting" => r = loop'.client
    /\ \A m \in Models \ X : engine'[m] = engine[m] /\ loaded'[m] = loaded[m]
    /\ \A m \in X : engine[m] # Deleted => engine'[m] = NoEngine /\ ~loaded'[m]
    /\ \A m \in Models : /\ engine'[m] = engine[m] \/ engine'[m] = NoEngine
                         /\ loaded'[m] => loaded[m]
    /\ UNCHANGED <<madeFor, predictor, unloader>>

(* f is req with what the handler makes of its own request, if it has one. *)
LEMMA UnloadedEvicts ==
  ASSUME IInv, NEW m, NEW f \in [Clients -> ClientRequest], CanEvict(m), Unloaded(Others(m), f),
         \A r \in Clients : f[r] = req[r] \/ (req[r].st = "new" /\ r = loop'.client),
         loop'.pc # "created",
         loop'.client \in Clients => req[loop'.client].st = "new"
  PROVE  Evicts(Others(m))
<1> DEFINE X == Others(m)
<1>1. X \subseteq Models /\ LoopFree
  BY DEF Others, CanEvict
<1>2. /\ CancelTasks(X) /\ req' = Failed(f, Drained(X))
      /\ queue' = [x \in Models |-> IF x \in X THEN <<>> ELSE queue[x]]
      /\ engine' = [x \in Models |-> IF x \in X THEN NoEngine ELSE engine[x]]
      /\ loaded' = [x \in Models |-> x \notin X /\ loaded[x]]
      /\ UNCHANGED <<madeFor, predictor, unloader>>
  BY DEF Unloaded
<1> HIDE DEF X
<1>3. ASSUME NEW r \in Clients
      PROVE  /\ req[r].st # "new" => req'[r] = Failed(req, Drained(X))[r]
             /\ req[r].st = "new" /\ req'[r].st = "waiting" => r = loop'.client
  <2>1. CASE f[r] = req[r]
    <3>1. req'[r] = Failed(req, Drained(X))[r]
      BY <1>2, <2>1 DEF Failed
    <3>2. req'[r].st = IF r \in Drained(X) /\ f[r].st = "waiting" THEN "error" ELSE f[r].st
      BY <1>2, FailedFacts
    <3>3. QED  BY <2>1, <3>1, <3>2
  <2>2. CASE req[r].st = "new" /\ r = loop'.client
    BY <2>2
  <2>3. QED  BY <2>1, <2>2
<1>4. \A x \in Models : loaded[x] \in BOOLEAN
  BY DEF IInv, TypeOK
<1>5. Evicts(X)
  BY <1>1, <1>2, <1>3, <1>4 DEF Evicts
<1>6. QED  BY <1>5 DEF X

LEMMA ClashEvicts ==
  ASSUME IInv, NEW m, NEW x \in Models, NEW before \in SUBSET Models,
         NEW f \in [Clients -> ClientRequest], Clash(m, x, before, f),
         \A r \in Clients : f[r] = req[r] \/ (req[r].st = "new" /\ f[r].st = "error")
  PROVE  Evicts(before \cup {x})
<1> DEFINE X == before \cup {x}
<1>1. LoopFree => loop.client \notin Clients
  BY ServerAssumption DEF LoopFree, IInv, LoopInv, Clients
<1>2. /\ LoopFree /\ engine[x] = Deleted
      /\ CancelTasks(X) /\ req' = Failed(f, Drained(X))
      /\ queue' = [y \in Models |-> IF y \in X THEN <<>> ELSE queue[y]]
      /\ engine' = [y \in Models |-> IF y \in before THEN NoEngine ELSE engine[y]]
      /\ loaded' = [y \in Models |-> loaded[y] /\ y \notin before]
      /\ UNCHANGED <<madeFor, predictor, loop, unloader>>
  BY DEF Clash
<1>3. /\ \A y \in Models \ X : y \notin before
      /\ \A y \in X : engine[y] # Deleted => y \in before
      /\ X \subseteq Models
  BY <1>2
<1> HIDE DEF X
<1>4. ASSUME NEW r \in Clients
      PROVE  /\ req[r].st # "new" => req'[r] = Failed(req, Drained(X))[r]
             /\ ~(req[r].st = "new" /\ req'[r].st = "waiting")
  <2>1. req'[r].st = IF r \in Drained(X) /\ f[r].st = "waiting" THEN "error" ELSE f[r].st
    BY <1>2, FailedFacts
  <2>2. f[r] = req[r] => req'[r] = Failed(req, Drained(X))[r]
    BY <1>2 DEF Failed
  <2>3. QED  BY <2>1, <2>2
<1>5. \A y \in Models : loaded[y] \in BOOLEAN
  BY DEF IInv, TypeOK
<1>6. LoopFree => loop.pc # "created"
  BY DEF LoopFree
<1>7. Evicts(X)
  BY <1>1, <1>2, <1>3, <1>4, <1>5, <1>6 DEF Evicts
<1>8. QED  BY <1>7 DEF X

LEMMA HandlerFacts ==
  ASSUME IInv, HandlerStep
  PROVE  \E X \in SUBSET Models : Evicts(X)
<1> USE DEF IInv
<1>1. LoopFree => loop.client \notin Clients /\ loop.pc # "created"
  BY ServerAssumption DEF LoopFree, LoopInv, Clients
<1>2. req \in [Clients -> ClientRequest] /\ \A m : Others(m) \in SUBSET Models
  BY DEF TypeOK, Others
<1>3. ASSUME NEW r \in Clients, Evict(r)
      PROVE  \E X \in SUBSET Models : Evicts(X)
  <2>1. PICK m \in Models, s \in Settings \cup {Unset} :
          /\ CanEvict(m) /\ req[r].st = "new" /\ Unloaded(Others(m), Arrived(r, m, s))
          /\ loop' = [pc |-> "evicted", model |-> m, client |-> r]
    BY <1>3 DEF Evict
  <2>2. /\ Arrived(r, m, s) \in [Clients -> ClientRequest]
        /\ \A x \in Clients \ {r} : Arrived(r, m, s)[x] = req[x]
    BY ArrivedFacts
  <2>3. loop'.client = r /\ loop'.pc # "created"
    BY <2>1
  <2>4. Evicts(Others(m))
    BY <2>1, <2>2, <2>3, UnloadedEvicts
  <2>5. QED  BY <1>2, <2>4
<1>4. ASSUME NEW r \in Clients, EvictClash(r)
      PROVE  \E X \in SUBSET Models : Evicts(X)
  <2>1. PICK m \in Models, x \in Models, before \in SUBSET Models :
          Clash(m, x, before, Refused(r, m))
    BY <1>4 DEF EvictClash
  <2>2. /\ Refused(r, m) \in [Clients -> ClientRequest]
        /\ \A y \in Clients : \/ Refused(r, m)[y] = req[y]
                              \/ req[y].st = "new" /\ Refused(r, m)[y].st = "error"
    BY <1>4, RefusedFacts DEF EvictClash
  <2>3. Evicts(before \cup {x})
    BY <2>1, <2>2, ClashEvicts
  <2>4. QED  BY <2>3
<1>5. CASE CountTokens \/ DescribeModel \/ EvictUnknown
  <2>1. PICK m : /\ CanEvict(m) /\ Unloaded(Others(m), req)
                 /\ \/ loop' = [pc |-> "evicted", model |-> m, client |-> "nobody"]
                    \/ UNCHANGED loop
    BY <1>5 DEF CountTokens, DescribeModel, EvictUnknown
  <2>2. loop'.client \notin Clients /\ loop'.pc # "created"
    BY <1>1, <2>1, ServerAssumption DEF CanEvict, Clients
  <2>3. Evicts(Others(m))
    BY <1>2, <2>1, <2>2, UnloadedEvicts
  <2>4. QED  BY <1>2, <2>3
<1>6. CASE CountClash
  <2>1. PICK m \in Models \cup {"nobody"}, x \in Models, before \in SUBSET Models :
          Clash(m, x, before, req)
    BY <1>6 DEF CountClash
  <2>2. Evicts(before \cup {x})
    BY <1>2, <2>1, ClashEvicts
  <2>3. QED  BY <2>2
<1>7. QED  BY <1>3, <1>4, <1>5, <1>6 DEF HandlerStep

(* A batch that was interrupted stays so.                                  *)
LEMMA StepOfOrphaned ==
  ASSUME IInv, [Next]_vars
  PROVE  /\ orphaned \subseteq orphaned'
         /\ \A r \in orphaned' : req[r].st # "new" /\ req'[r].st # "new"
                                /\ req'[r].model = req[r].model
         /\ \A m \in Models : Undisturbed(m)' => Undisturbed(m)
<1> USE DEF IInv
<1>0. \A r \in orphaned : r \in Clients /\ req[r].st # "new"
  BY DEF InHandInv, TypeOK, Clients
<1>1. ASSUME NEW X \in SUBSET Models, CancelTasks(X)
      PROVE  /\ orphaned \subseteq orphaned'
             /\ \A r \in orphaned' : r \in Clients /\ req[r].st # "new"
  <2>1. \A m \in X : \A r \in ToSet(task[m].batch) : req[r].st # "new"
    BY DEF TaskInv
  <2>2. /\ orphaned' \subseteq Requests /\ orphaned \subseteq orphaned'
        /\ \A r \in orphaned' : r \in orphaned \/ \E m \in X : r \in ToSet(task[m].batch)
    BY <1>1, CancelOrphans
  <2>3. \A r \in orphaned' : r \in Clients
    BY <2>2 DEF Clients
  <2>4. QED  BY <1>0, <2>1, <2>2, <2>3
<1>2. ASSUME UNCHANGED orphaned
      PROVE  /\ orphaned \subseteq orphaned'
             /\ \A r \in orphaned' : r \in Clients /\ req[r].st # "new"
  BY <1>0, <1>2
<1>3. ASSUME HandlerStep
      PROVE  /\ orphaned \subseteq orphaned'
             /\ \A r \in orphaned' : r \in Clients /\ req[r].st # "new"
  BY <1>1, <1>3, HandlerFacts DEF Evicts
<1>4. ASSUME NEW u \in Unloaders, UnloadCancel(u)
      PROVE  /\ orphaned \subseteq orphaned'
             /\ \A r \in orphaned' : r \in Clients /\ req[r].st # "new"
  <2>1. PICK m \in Models : CancelTasks({m})
    BY <1>4 DEF UnloadCancel
  <2>2. QED  BY <1>1, <2>1
<1>5. /\ orphaned \subseteq orphaned'
      /\ \A r \in orphaned' : r \in Clients /\ req[r].st # "new"
  BY <1>0, <1>2, <1>3, <1>4, LoopFrame, ProduceFrame, TaskFrame, PoolFrame, UnloadFrame
     DEF Next, vars
<1>6. \A r \in orphaned' : req'[r].st # "new" /\ req'[r].model = req[r].model
  BY <1>5, StepOfRequest DEF Arrives, Clashes, Fails, GetsAnswer
<1>7. \A m \in Models : Undisturbed(m)' => Undisturbed(m)
  BY <1>5, <1>6, StepOfUnloader DEF Undisturbed
<1>8. QED  BY <1>5, <1>6, <1>7

LEMMA StepAnswerInv ==
  ASSUME IInv, [Next]_vars
  PROVE  AnswerInv'
<1> SUFFICES ASSUME NEW r \in Clients, req'[r].st = "ok"
             PROVE  /\ req'[r].answer.engine \in Engines
                    /\ madeFor'[req'[r].answer.engine] = req'[r].model
                    /\ req'[r].set # Unset /\ Undisturbed(req[r].model)' =>
                         req'[r].answer.set = req'[r].set
  BY DEF AnswerInv, Clients
<1>1. req'[r] = req[r] \/ GetsAnswer(r)
  BY StepOfRequest DEF Arrives, Clashes, Fails
<1>2. req[r].model \in Models /\ "nobody" \notin Models
  BY <1>1, ServerAssumption DEF IInv, RequestInv, GetsAnswer
<1>3. req'[r].model = req[r].model
  BY <1>1 DEF GetsAnswer
<1>4. Undisturbed(req[r].model)' => Undisturbed(req[r].model)
  BY <1>2, <1>3, StepOfOrphaned DEF Undisturbed, Untouched
<1>5. QED  BY <1>1, <1>2, <1>3, <1>4, StepOfMadeFor DEF IInv, AnswerInv, GetsAnswer

------------------------------------------------------------------------------
(* The conjuncts about engines and the flags.                              *)

(* A model's jobs are in the pools of its own engines.                     *)
LEMMA StepEngineInv ==
  ASSUME IInv, [Next]_vars
  PROVE  EngineInv'
<1> USE DEF IInv
<1>1. ASSUME NEW X \in SUBSET Models, Evicts(X) PROVE EngineInv'
  <2>1. CancelTasks(X)
    BY <1>1 DEF Evicts
  <2>2. \A e \in Engines : \A i \in DOMAIN pending'[e] :
          \E k \in DOMAIN pending[e] : pending'[e][i] = pending[e][k]
    BY <2>1, CancelFacts
  <2>3. \A e \in Engines : \A b \in active'[e] : \E a \in active[e] : b.job.model = a.job.model
    BY <2>1, CancelActive DEF LeftOf
  <2>4. UNCHANGED madeFor /\ \A m \in Models : engine'[m] = engine[m] \/ engine'[m] = NoEngine
    BY <1>1 DEF Evicts
  <2>5. QED  BY <2>2, <2>3, <2>4, ServerAssumption DEF EngineInv
<1>2. ASSUME NEW u \in Unloaders, UnloadCancel(u) PROVE EngineInv'
  <2>1. PICK m \in Models : CancelTasks({m})
    BY <1>2 DEF UnloadCancel
  <2>2. \A e \in Engines : \A i \in DOMAIN pending'[e] :
          \E k \in DOMAIN pending[e] : pending'[e][i] = pending[e][k]
    BY <2>1, CancelFacts
  <2>3. \A e \in Engines : \A b \in active'[e] : \E a \in active[e] : b.job.model = a.job.model
    BY <2>1, CancelActive DEF LeftOf
  <2>4. QED  BY <1>2, <2>2, <2>3 DEF EngineInv, UnloadCancel
<1>3. ASSUME NEW u \in Unloaders, UnloadStep(u) PROVE EngineInv'
  <2>1. \A m \in Models : engine'[m] = engine[m] \/ engine'[m] \in {Deleted, NoEngine}
    BY <1>3 DEF UnloadStep, UnloadDrain, UnloadDelete, UnloadClear, UnloadFlag, TypeOK
  <2>2. UNCHANGED <<madeFor, pending, active>>
    BY <1>3 DEF UnloadStep, UnloadDrain, UnloadDelete, UnloadClear, UnloadFlag
  <2>3. QED  BY <2>1, <2>2, ServerAssumption DEF EngineInv
<1>4. CASE LoadEngine
  <2>1. PICK e \in Engines : /\ madeFor[e] = "nobody"
                             /\ madeFor' = [madeFor EXCEPT ![e] = loop.model]
                             /\ engine' = [engine EXCEPT ![loop.model] = e]
    BY <1>4 DEF LoadEngine
  <2>2. loop.model \in Models /\ "nobody" \notin Models
    BY <1>4, ServerAssumption DEF LoadEngine, LoopInv
  <2>3. \A f \in Engines : /\ \A i \in DOMAIN pending[f] : pending[f][i].model \in Models
                           /\ \A a \in active[f] : a.job.model \in Models
    <3>1. \A j \in Job : j.model \in Models
      BY DEF Job
    <3>2. \A f \in Engines : \A a \in active[f] : a.job \in Job
      BY DEF TypeOK, ActiveJob
    <3>3. \A f \in Engines : \A i \in DOMAIN pending[f] : pending[f][i] \in Job
      BY DEF TypeOK
    <3>4. QED  BY <3>1, <3>2, <3>3
  <2>4. UNCHANGED <<pending, active>>
    BY <1>4 DEF LoadEngine
  <2>5. QED  BY <2>1, <2>2, <2>3, <2>4 DEF EngineInv, TypeOK
(* A job enters the pool of its model's engine.                            *)
<1>5. ASSUME NEW m \in Models, engine[m] \in Engines, NEW j \in Job, j.model = m,
             pending' = [pending EXCEPT ![engine[m]] = Append(pending[engine[m]], j)],
             UNCHANGED <<engine, madeFor>>
      PROVE  \A e \in Engines : \A i \in DOMAIN pending'[e] : madeFor'[e] = pending'[e][i].model
  <2> SUFFICES ASSUME NEW e \in Engines, NEW i \in DOMAIN pending'[e]
               PROVE  madeFor[e] = pending'[e][i].model
    BY <1>5
  <2>1. CASE e # engine[m]
    BY <1>5, <2>1 DEF EngineInv, TypeOK
  <2>2. CASE e = engine[m]
    <3>1. pending[e] \in Seq(Job) /\ pending'[e] = Append(pending[e], j)
      BY <1>5, <2>2 DEF TypeOK
    <3>2. i \in 1 .. Len(pending[e]) + 1
      BY <3>1, AppendFacts
    <3>3. CASE i = Len(pending[e]) + 1
      BY <1>5, <2>2, <3>1, <3>3, AppendFacts DEF EngineInv
    <3>4. CASE i # Len(pending[e]) + 1
      <4>1. i \in DOMAIN pending[e] /\ pending'[e][i] = pending[e][i]
        BY <3>1, <3>2, <3>4, AppendFacts
      <4>2. QED  BY <4>1 DEF EngineInv
    <3>5. QED  BY <3>3, <3>4
  <2>3. QED  BY <2>1, <2>2
<1>6. ASSUME NEW r \in Streams, Produce(r) PROVE EngineInv'
  <2> DEFINE m == req[r].model
             j == [kind |-> "stream", model |-> m, reqs |-> <<r>>,
                   set |-> req[r].set, live |-> TRUE]
  <2>1. r \in Clients /\ m \in Models /\ req[r].set \in Settings \cup {Unset}
    BY <1>6 DEF Clients, TypeOK, ClientRequest, RequestInv, Produce
  <2>2. CASE engine[m] \in Engines
    <3>1. j \in Job /\ j.model = m
      BY <2>1 DEF Job, Clients
    <3>2. pending' = [pending EXCEPT ![engine[m]] = Append(pending[engine[m]], j)]
      BY <1>6, <2>2 DEF Produce, TypeOK
    <3>3. UNCHANGED <<engine, madeFor, active>>
      BY <1>6 DEF Produce
    <3> HIDE DEF j, m
    <3>4. \A e \in Engines : \A i \in DOMAIN pending'[e] : madeFor'[e] = pending'[e][i].model
      BY <1>5, <2>1, <2>2, <3>1, <3>2, <3>3
    <3>5. QED  BY <3>3, <3>4 DEF EngineInv
  <2>3. CASE engine[m] \notin Engines
    BY <1>6, <2>3 DEF Produce, EngineInv
  <2>4. QED  BY <2>2, <2>3
<1>7. ASSUME NEW m \in Models, NEW f \in [Clients -> ClientRequest],
             NEW todo \in Seq(Requests), SubmitNext(m, f, todo), UNCHANGED <<engine, madeFor>>
      PROVE  \A e \in Engines : \A i \in DOMAIN pending'[e] : madeFor'[e] = pending'[e][i].model
  <2>1. CASE UNCHANGED pending
    BY <1>7, <2>1 DEF EngineInv
  <2>2. CASE /\ engine[m] \in Engines
             /\ \E j \in Job :
                  /\ j = [kind |-> "batch", model |-> m, reqs |-> Group(todo),
                          set |-> req[Head(todo)].set, live |-> TRUE]
                  /\ pending' = [pending EXCEPT ![engine[m]] = Append(pending[engine[m]], j)]
    <3>1. PICK j \in Job :
             /\ j.model = m
             /\ pending' = [pending EXCEPT ![engine[m]] = Append(pending[engine[m]], j)]
      BY <2>2
    <3>2. QED  BY <1>5, <1>7, <2>2, <3>1
  <2>3. QED  BY <1>7, <2>1, <2>2, SubmitFacts
<1>8. ASSUME NEW m \in Models, TaskStep(m) PROVE EngineInv'
  <2>1. UNCHANGED <<engine, madeFor, active>>
    BY <1>8, TaskFrame
  <2>2. CASE CloseBatch(m)
    <3>1. task[m].batch \in Seq(Requests) /\ req \in [Clients -> ClientRequest]
      BY DEF TypeOK, Task
    <3>2. SubmitNext(m, req, task[m].batch)
      BY <2>2 DEF CloseBatch
    <3>3. QED  BY <1>7, <2>1, <3>1, <3>2 DEF EngineInv
  <2>3. CASE TakeFirst(m) \/ TakeMore(m)
    BY <2>3 DEF TakeFirst, TakeMore, EngineInv
  <2>4. QED  BY <1>8, <2>2, <2>3 DEF TaskStep
<1>9. ASSUME NEW e \in Engines, StartJob(e) PROVE EngineInv'
  <2>1. /\ pending[e] \in Seq(Job) /\ pending[e] # <<>>
        /\ pending' = [pending EXCEPT ![e] = Tail(pending[e])]
        /\ active' = [active EXCEPT ![e] = active[e] \cup
             {[job |-> Head(pending[e]), using |-> NoEngine, set |-> Unset, ph |-> "picked"]}]
        /\ UNCHANGED <<engine, madeFor>>
    BY <1>9 DEF StartJob, TypeOK
  <2>2. madeFor[e] = Head(pending[e]).model
    BY <2>1, TailFacts DEF EngineInv
  <2>3. \A i \in DOMAIN Tail(pending[e]) : madeFor[e] = Tail(pending[e])[i].model
    BY <2>1, TailFacts DEF EngineInv
  <2>4. \A f \in Engines : \A i \in DOMAIN pending'[f] : madeFor[f] = pending'[f][i].model
    BY <2>1, <2>3 DEF EngineInv, TypeOK
  <2>5. \A f \in Engines : \A b \in active'[f] : madeFor[f] = b.job.model
    BY <2>1, <2>2 DEF EngineInv, TypeOK
  <2>6. QED  BY <2>1, <2>4, <2>5 DEF EngineInv
<1>10. ASSUME NEW e \in Engines, RunJob(e) \/ NextBatch(e) PROVE EngineInv'
  <2>1. PICK a \in active[e] : Runs(e, a)
    BY <1>10, RunFacts
  <2>2. \A f \in Engines : \A b \in active'[f] : \E c \in active[f] : b.job = c.job
    BY <2>1 DEF Runs
  <2>3. UNCHANGED <<engine, madeFor, pending>>
    BY <2>1 DEF Runs
  <2>4. QED  BY <2>2, <2>3 DEF EngineInv
<1>11. ASSUME NEW e \in Engines, Finish(e) \/ FailJob(e) PROVE EngineInv'
  <2>1. PICK a \in active[e] : FinishOf(e, a) \/ FailOf(e, a)
    BY <1>11, PoolSteps
  <2>2. \A f \in Engines : active'[f] \subseteq active[f]
    <3>1. active' = [active EXCEPT ![e] = active[e] \ {a}]
      BY <2>1 DEF FinishOf, FailOf
    <3>2. QED  BY <3>1 DEF TypeOK
  <2>3. UNCHANGED <<engine, madeFor>>
    BY <2>1 DEF FinishOf, FailOf
  <2>4. CASE UNCHANGED pending
    BY <2>2, <2>3, <2>4 DEF EngineInv
  <2>5. CASE FinishOf(e, a) /\ a.job.live /\ a.job.kind # "stream"
    <3>1. /\ a.job \in Job /\ JobOK(a.job) /\ a.job.kind = "batch"
          /\ a.using \in Engines /\ a.set \in Settings \cup {Unset}
      BY <2>1, <2>5 DEF TypeOK, ActiveJob, Job, JobInv, ActiveInv, FinishOf
    <3>2. /\ a.job.model \in Models /\ task[a.job.model].todo \in Seq(Requests)
          /\ task[a.job.model].todo # <<>>
      BY <2>5, <3>1, LiveJobFacts
    <3>3. Rest(task[a.job.model].todo) \in Seq(Requests)
      BY <3>2, GroupFacts
    <3>4. Answered(ToSet(a.job.reqs), a) \in [Clients -> ClientRequest]
      BY <3>1, AnsweredFacts DEF TypeOK
    <3>5. SubmitNext(a.job.model, Answered(ToSet(a.job.reqs), a), Rest(task[a.job.model].todo))
      BY <2>5 DEF FinishOf
    <3>6. QED  BY <1>7, <2>2, <2>3, <3>2, <3>3, <3>4, <3>5 DEF EngineInv
  <2>6. QED  BY <2>1, <2>4, <2>5 DEF FinishOf, FailOf
<1>12. CASE AcceptLoaded \/ LoadFails \/ SetLoaded \/ UNCHANGED vars
  BY <1>12 DEF AcceptLoaded, LoadFails, SetLoaded, vars, EngineInv
<1>13. QED
  BY <1>1, <1>2, <1>3, <1>4, <1>6, <1>8, <1>9, <1>10, <1>11, <1>12, HandlerFacts
     DEF Next, LoopStep, PoolStep

(* A pool runs one job, on an engine of its model.                         *)
LEMMA StepActiveInv ==
  ASSUME IInv, [Next]_vars
  PROVE  ActiveInv'
<1> USE DEF IInv
<1> DEFINE Same(a) == a.ph = "running" =>
                        a.using \in Engines /\ madeFor'[a.using] = a.job.model
<1>1. \A e \in Engines : \A a \in active[e] : Same(a)
  <2> SUFFICES ASSUME NEW e \in Engines, NEW a \in active[e], a.ph = "running" PROVE Same(a)
    OBVIOUS
  <2>1. a \in ActiveJob
    BY DEF TypeOK
  <2>2. a.job \in Job
    BY <2>1 DEF ActiveJob
  <2>3. a.job.model \in Models
    BY <2>2 DEF Job
  <2>4. madeFor[a.using] = a.job.model /\ madeFor[a.using] # "nobody" /\ a.using \in Engines
    BY <2>3, ServerAssumption DEF ActiveInv
  <2>5. QED  BY <2>4, StepOfMadeFor DEF ActiveInv
<1>2. ASSUME \A e \in Engines : active'[e] \subseteq active[e] PROVE ActiveInv'
  BY <1>1, <1>2 DEF ActiveInv
<1>3. ASSUME NEW X, CancelTasks(X) PROVE ActiveInv'
  <2> SUFFICES ASSUME NEW e \in Engines, NEW b \in active'[e]
               PROVE  /\ \A c \in active'[e] : b = c
                      /\ Same(b)
    BY DEF ActiveInv
  <2>1. PICK a \in active[e] : LeftOf(b, a, X)
    BY <1>3, CancelActive
  <2>2. Same(b)
    BY <1>1, <2>1 DEF LeftOf
  <2>3. ASSUME NEW c \in active'[e] PROVE b = c
    <3> DEFINE Left(d) == IF OwnedBy(d.job, X) THEN [d EXCEPT !.job.live = FALSE] ELSE d
    <3>1. \A y \in active'[e] : \E d \in active[e] : y = Left(d)
      BY <1>3, CancelFacts
    <3> HIDE DEF Left
    <3>2. \A d \in active[e] : d = a
      BY DEF ActiveInv
    <3>3. QED  BY <2>3, <3>1, <3>2
  <2>4. QED  BY <2>2, <2>3
<1>4. ASSUME NEW e \in Engines, StartJob(e) PROVE ActiveInv'
  <2> DEFINE a == [job |-> Head(pending[e]), using |-> NoEngine, set |-> Unset, ph |-> "picked"]
  <2>1. a.ph # "running"
    OBVIOUS
  <2> HIDE DEF a
  <2>2. active'[e] = {a} /\ \A f \in Engines \ {e} : active'[f] = active[f]
    BY <1>4 DEF StartJob, TypeOK, a
  <2>3. QED  BY <1>1, <2>1, <2>2 DEF ActiveInv
<1>5. ASSUME NEW e \in Engines, RunJob(e) PROVE ActiveInv'
  <2>1. PICK a \in active[e], x \in Engines : RunOf(e, a, x)
    BY <1>5, PoolSteps
  <2> DEFINE b == [job |-> a.job, using |-> x, set |-> Effective(x, a.job.set), ph |-> "running"]
  <2>2. active[e] = {a}
    BY DEF ActiveInv
  <2>3. active'[e] = {b} /\ \A f \in Engines \ {e} : active'[f] = active[f]
    BY <2>1, <2>2 DEF RunOf, TypeOK
  <2>4. UNCHANGED madeFor
    BY <2>1 DEF RunOf
  <2>5. madeFor[x] = a.job.model
    <3>1. a \in ActiveJob
      BY DEF TypeOK
    <3>2. a.job \in Job
      BY <3>1 DEF ActiveJob
    <3>3. a.job.model \in Models
      BY <3>2 DEF Job
    <3>4. CASE a.job.kind = "stream"
      BY <2>1, <3>4 DEF RunOf, EngineInv
    <3>5. CASE a.job.kind # "stream"
      BY <2>1, <3>3, <3>5 DEF RunOf, EngineInv
    <3>6. QED  BY <3>4, <3>5
  <2>6. Same(b)
    BY <2>4, <2>5
  <2> HIDE DEF b
  <2>7. QED  BY <1>1, <2>3, <2>6 DEF ActiveInv
<1>10. ASSUME NEW e \in Engines, NextBatch(e) PROVE ActiveInv'
  <2>1. PICK a \in active[e] : NextOf(e, a)
    BY <1>10, PoolSteps
  <2> DEFINE b == [a EXCEPT !.set = predictor[a.using]]
  <2>2. active[e] = {a}
    BY DEF ActiveInv
  <2>3. active'[e] = {b} /\ \A f \in Engines \ {e} : active'[f] = active[f]
    BY <2>1, <2>2 DEF NextOf, TypeOK
  <2>4. b.job = a.job /\ b.using = a.using /\ a.ph = "running"
    BY <2>1 DEF NextOf, TypeOK, ActiveJob
  <2>5. Same(b)
    BY <1>1, <2>4
  <2> HIDE DEF b
  <2>6. QED  BY <1>1, <2>3, <2>5 DEF ActiveInv
<1>6. ASSUME NEW e \in Engines, Finish(e) \/ FailJob(e) PROVE ActiveInv'
  <2>1. PICK a \in active[e] : active' = [active EXCEPT ![e] = active[e] \ {a}]
    BY <1>6, PoolSteps DEF FinishOf, FailOf
  <2>2. \A f \in Engines : active'[f] \subseteq active[f]
    BY <2>1 DEF TypeOK
  <2>3. QED  BY <1>2, <2>2
<1>7. CASE UNCHANGED active
  BY <1>2, <1>7
<1>8. ASSUME NEW u \in Unloaders, UnloadCancel(u) \/ UnloadStep(u) PROVE ActiveInv'
  BY <1>3, <1>7, <1>8
     DEF UnloadCancel, UnloadStep, UnloadDrain, UnloadDelete, UnloadClear, UnloadFlag
<1>9. ASSUME NEW X \in SUBSET Models, Evicts(X) PROVE ActiveInv'
  BY <1>3, <1>9 DEF Evicts
<1>11. QED
  BY <1>4, <1>5, <1>6, <1>7, <1>8, <1>9, <1>10, HandlerFacts, LoopFrame, ProduceFrame, TaskFrame
     DEF Next, vars, PoolStep

(* Two models stay loaded only until a request is accepted.                *)
LEMMA StepLoadedInv ==
  ASSUME IInv, [Next]_vars
  PROVE  LoadedInv'
<1> USE DEF IInv
<1> DEFINE OneLoaded == \A m, x \in Models : loaded'[m] /\ loaded'[x] => m = x
<1>1. \A r \in Clients : req[r].st \in {"new", "error"} =>
         req'[r].st \in {"new", "error"} \/ loop'.pc # "free"
  BY StepOfRequest DEF Arrives, Clashes, Fails, GetsAnswer
(* The flags are only lowered, and the handler stays where it is.          *)
<1>2. ASSUME \A m \in Models : loaded'[m] => loaded[m],
             UNCHANGED loop \/ LoadEngine \/ loop' = FreeLoop
      PROVE  LoadedInv'
  <2>1. CASE loop.pc = "free" /\ UNCHANGED loop
    BY <1>1, <1>2, <2>1 DEF LoadedInv
  <2>2. CASE loop.pc # "free"
    <3>1. loop' = FreeLoop \/ (loop'.model = loop.model /\ loop'.pc # "free")
      BY <1>2, <2>2 DEF LoadEngine, TypeOK
    <3>2. QED  BY <1>2, <2>2, <3>1 DEF LoadedInv, FreeLoop
  <2>3. CASE loop.pc = "free" /\ loop' = FreeLoop
    BY <1>1, <1>2, <2>3 DEF LoadedInv, FreeLoop
  <2>4. QED  BY <1>2, <2>1, <2>2, <2>3 DEF LoadEngine
<1>3. ASSUME NEW m, NEW f, Unloaded(Others(m), f)
      PROVE  \A x \in Models : loaded'[x] => x = m
  BY <1>3 DEF Unloaded, Others, TypeOK
<1>4. ASSUME NEW r \in Clients, Evict(r) PROVE LoadedInv'
  <2>1. PICK m \in Models : /\ \A x \in Models : loaded'[x] => x = m
                            /\ loop'.model = m /\ loop'.pc = "evicted"
    BY <1>3, <1>4 DEF Evict
  <2>2. QED  BY <2>1 DEF LoadedInv
<1>5. CASE CountTokens \/ DescribeModel \/ EvictUnknown
  <2>1. PICK m : /\ \A x \in Models : loaded'[x] => x = m
                 /\ \/ loop'.model = m /\ loop'.pc = "evicted"
                    \/ UNCHANGED loop /\ LoopFree
    BY <1>3, <1>5 DEF CountTokens, DescribeModel, EvictUnknown, CanEvict
  <2>2. QED  BY <2>1 DEF LoadedInv, LoopFree
<1>6. CASE (\E r \in Clients : EvictClash(r)) \/ CountClash
  <2>1. /\ UNCHANGED loop
        /\ \E before : loaded' = [y \in Models |-> loaded[y] /\ y \notin before]
    BY <1>6 DEF EvictClash, CountClash, Clash
  <2>2. QED  BY <1>2, <2>1
<1>7. CASE SetLoaded
  <2>1. loop.model \in Models /\ loop.pc # "free" /\ loop' = FreeLoop
    BY <1>7 DEF SetLoaded, Accept, LoopInv
  <2>2. \A x \in Models : loaded'[x] => x = loop.model
    BY <1>7, <2>1 DEF SetLoaded, LoadedInv, TypeOK
  <2>3. QED  BY <2>1, <2>2 DEF LoadedInv, FreeLoop
<1>8. CASE AcceptLoaded \/ LoadEngine \/ LoadFails
  BY <1>2, <1>8 DEF AcceptLoaded, Accept, LoadEngine, LoadFails
<1>9. ASSUME NEW u \in Unloaders, UnloadCancel(u) \/ UnloadStep(u) PROVE LoadedInv'
  <2>1. \A m \in Models : loaded'[m] => loaded[m]
    BY <1>9 DEF TypeOK, UnloadCancel, UnloadStep, UnloadDrain, UnloadDelete, UnloadClear,
                UnloadFlag
  <2>2. QED  BY <1>2, <1>9, <2>1, UnloadFrame
<1>10. CASE UNCHANGED <<loaded, loop>>
  BY <1>2, <1>10
<1>11. QED
  BY <1>4, <1>5, <1>6, <1>7, <1>8, <1>9, <1>10, ProduceFrame, TaskFrame, PoolFrame
     DEF Next, vars, HandlerStep, LoopStep

------------------------------------------------------------------------------
(* What the steps do to the work in hand: the queues, the batch processors  *)
(* and the jobs of the pools.                                              *)

(* The tasks of X are canceled and the queues of Y drained.                *)
Clears(X, Y) ==
    /\ Y \subseteq X
    /\ CancelTasks(X)
    /\ queue' = [m \in Models |-> IF m \in Y THEN <<>> ELSE queue[m]]
    /\ \A r \in Clients : req[r].st # "new" => req'[r] = Failed(req, Drained(Y))[r]
    /\ loop'.client \in Clients =>
         loop'.client = loop.client \/ req[loop'.client].st = "new"

LEMMA ClearFacts ==
  ASSUME IInv, HandlerStep \/ \E u \in Unloaders : UnloadCancel(u)
  PROVE  \E X \in SUBSET Models, Y \in SUBSET Models : Clears(X, Y)
<1>1. ASSUME NEW X \in SUBSET Models, Evicts(X)
      PROVE  \E Z \in SUBSET Models, Y \in SUBSET Models : Clears(Z, Y)
  <2>1. Clears(X, X)
    BY <1>1 DEF Evicts, Clears
  <2>2. QED  BY <2>1
<1>2. ASSUME NEW u \in Unloaders, UnloadCancel(u)
      PROVE  \E X \in SUBSET Models, Y \in SUBSET Models : Clears(X, Y)
  <2>1. PICK m \in Models : CancelTasks({m})
    BY <1>2 DEF UnloadCancel
  <2>2. Drained({}) = {}
    BY DEF Drained
  <2>3. \A r \in Clients : req[r] = Failed(req, Drained({}))[r]
    BY <2>2 DEF Failed
  <2>4. UNCHANGED <<req, queue, loop>>
    BY <1>2 DEF UnloadCancel
  <2>5. queue' = [x \in Models |-> IF x \in {} THEN <<>> ELSE queue[x]]
    BY <2>4 DEF IInv, TypeOK
  <2>6. Clears({m}, {})
    BY <2>1, <2>3, <2>4, <2>5 DEF Clears
  <2>7. {m} \in SUBSET Models /\ {} \in SUBSET Models
    OBVIOUS
  <2>8. QED  BY <2>6, <2>7
<1>3. QED  BY <1>1, <1>2, HandlerFacts

(* What draining leaves of the requests.                                   *)
LEMMA DrainFacts ==
  ASSUME IInv, NEW Y \in SUBSET Models,
         \A r \in Clients : req[r].st # "new" => req'[r] = Failed(req, Drained(Y))[r]
  PROVE  \A r \in Clients : req[r].st # "new" =>
           /\ req'[r].model = req[r].model /\ req'[r].set = req[r].set
           /\ req'[r].st \in {req[r].st, "error"}
           /\ req'[r].st = "waiting" => req'[r] = req[r] /\ r \notin Drained(Y)
           /\ req[r].st # "waiting" => req'[r] = req[r]
           /\ r \in Streams \/ req[r].model \notin Y => r \notin Drained(Y)
           /\ r \notin Drained(Y) => req'[r] = req[r]
<1> SUFFICES ASSUME NEW r \in Clients, req[r].st # "new"
             PROVE  /\ req'[r].model = req[r].model /\ req'[r].set = req[r].set
                    /\ req'[r].st \in {req[r].st, "error"}
                    /\ req'[r].st = "waiting" => req'[r] = req[r] /\ r \notin Drained(Y)
                    /\ req[r].st # "waiting" => req'[r] = req[r]
                    /\ r \in Streams \/ req[r].model \notin Y => r \notin Drained(Y)
                    /\ r \notin Drained(Y) => req'[r] = req[r]
  OBVIOUS
<1>1. req \in [Clients -> ClientRequest] /\ req'[r] = Failed(req, Drained(Y))[r]
  BY DEF IInv, TypeOK
<1>2. ASSUME r \in Drained(Y) PROVE r \in Requests /\ req[r].st = "waiting" /\ req[r].model \in Y
  <2>1. PICK m \in Y : r \in ToSet(queue[m])
    BY <1>2 DEF Drained
  <2>2. PICK i \in DOMAIN queue[m] : r = queue[m][i]
    BY <2>1 DEF ToSet
  <2>3. queue[m] \in Seq(Requests)
    BY DEF IInv, TypeOK
  <2>4. QED  BY <2>2, <2>3 DEF IInv, QueueInv
<1>3. QED  BY <1>1, <1>2, FailedFacts, ServerAssumption

(* The batch processor of m finishes a step: it submits the next group of   *)
(* its batch, or finds nothing left to do.                                 *)
NextGroup(m, todo, j) ==
    /\ todo # <<>> /\ engine[m] \in Engines
    /\ j = [kind |-> "batch", model |-> m, reqs |-> Group(todo),
            set |-> req[Head(todo)].set, live |-> TRUE]
    /\ task' = [task EXCEPT ![m] = [st |-> "await", batch |-> task[m].batch, todo |-> todo]]
    /\ pending' = [pending EXCEPT ![engine[m]] = Append(pending[engine[m]], j)]
    /\ ToSet(todo) \subseteq ToSet(task[m].batch)
    /\ \A r \in ToSet(todo) : req[r].st = "waiting" /\ req'[r] = req[r]
    /\ \A r \in ToSet(task[m].batch) : req'[r].st = "waiting" => r \in ToSet(todo)
NothingLeft(m) ==
    /\ task' = [task EXCEPT ![m] = Idle]
    /\ UNCHANGED pending
    /\ \A r \in ToSet(task[m].batch) : req'[r].st # "waiting"
Serves(m) ==
    /\ task[m].st \in {"collect", "await"}
    /\ \A r \in Clients \ ToSet(task[m].batch) : req'[r] = req[r]
    /\ \A r \in ToSet(task[m].batch) : /\ req'[r].model = req[r].model
                                       /\ req'[r].set = req[r].set
                                       /\ req'[r].st # "new"
    /\ NothingLeft(m) \/ \E todo \in Seq(Requests), j \in Job : NextGroup(m, todo, j)
    /\ \A e \in Engines :
         /\ active'[e] = {a \in active[e] : ~WaitsFor(m, a.job)}
         /\ \A i \in DOMAIN pending[e] : ~WaitsFor(m, pending[e][i])
    /\ UNCHANGED <<loaded, engine, madeFor, queue, loop, unloader>>

(* A job that ends for nobody, or for a stream.                            *)
Ends(e, a) ==
    /\ a \in active[e]
    /\ active' = [active EXCEPT ![e] = active[e] \ {a}]
    /\ ~a.job.live \/ a.job.kind = "stream"
    /\ \A r \in Clients : req'[r] # req[r] =>
         r \in Streams /\ a.job.live /\ a.job.reqs = <<r>>
    /\ UNCHANGED <<loaded, engine, madeFor, queue, task, pending, loop, unloader>>

LEMMA SubmitServes ==
  ASSUME IInv, NEW m \in Models, task[m].st \in {"collect", "await"},
         NEW f \in [Clients -> ClientRequest], NEW todo \in Seq(Requests),
         SubmitNext(m, f, todo),
         ToSet(todo) \subseteq ToSet(task[m].batch),
         \A r \in ToSet(todo) : req[r].st = "waiting",
         \A r \in ToSet(task[m].batch) : f[r].st = "waiting" => r \in ToSet(todo),
         \A r \in Clients : f[r] = req[r] \/ (/\ r \in ToSet(task[m].batch) \ ToSet(todo)
                                              /\ f[r].model = req[r].model
                                              /\ f[r].set = req[r].set
                                              /\ f[r].st # "new")
  PROVE  /\ \A r \in Clients \ ToSet(task[m].batch) : req'[r] = req[r]
         /\ \A r \in ToSet(task[m].batch) : /\ req'[r].model = req[r].model
                                            /\ req'[r].set = req[r].set
                                            /\ req'[r].st # "new"
         /\ NothingLeft(m) \/ \E tl \in Seq(Requests), j \in Job : NextGroup(m, tl, j)
<1> USE DEF IInv
<1>1. task[m].batch \in Seq(Requests) /\ ToSet(task[m].batch) \subseteq Clients
  BY DEF TypeOK, Task, ToSet, Clients
<1>2. \A r \in ToSet(task[m].batch) : req[r].st # "new"
  BY DEF TaskInv
<1>3. \A r \in Clients : /\ f[r].model = req[r].model /\ f[r].set = req[r].set
                         /\ req[r].st # "new" => f[r].st # "new"
  OBVIOUS
<1>4. CASE todo = <<>>
  <2>1. task' = [task EXCEPT ![m] = Idle] /\ req' = f /\ UNCHANGED pending
    BY <1>4, SubmitFacts
  <2>2. ToSet(todo) = {}
    BY <1>4 DEF ToSet
  <2>3. NothingLeft(m)
    BY <2>1, <2>2 DEF NothingLeft
  <2>4. QED  BY <1>1, <1>2, <1>3, <2>1, <2>3
<1>5. CASE todo # <<>> /\ engine[m] \in Engines
  <2>1. /\ task' = [task EXCEPT ![m] = [st |-> "await", batch |-> task[m].batch, todo |-> todo]]
        /\ req' = f
        /\ \E j \in Job :
             /\ j = [kind |-> "batch", model |-> m, reqs |-> Group(todo),
                     set |-> req[Head(todo)].set, live |-> TRUE]
             /\ pending' = [pending EXCEPT ![engine[m]] = Append(pending[engine[m]], j)]
    BY <1>5, SubmitFacts
  <2>2. \A r \in ToSet(todo) : req'[r] = req[r]
    BY <1>1, <2>1
  <2>3. PICK j \in Job :
          /\ j = [kind |-> "batch", model |-> m, reqs |-> Group(todo),
                  set |-> req[Head(todo)].set, live |-> TRUE]
          /\ pending' = [pending EXCEPT ![engine[m]] = Append(pending[engine[m]], j)]
    BY <2>1
  <2>4. NextGroup(m, todo, j)
    BY <1>5, <2>1, <2>2, <2>3 DEF NextGroup
  <2>5. QED  BY <1>1, <1>2, <1>3, <2>1, <2>4
<1>6. CASE todo # <<>> /\ engine[m] \notin Engines
  <2> DEFINE rs == ToSet(task[m].batch)
  <2>1. task' = [task EXCEPT ![m] = Idle] /\ req' = Failed(f, rs) /\ UNCHANGED pending
    BY <1>6, SubmitFacts
  <2>2. \A r \in Clients : /\ req'[r].model = f[r].model /\ req'[r].set = f[r].set
                           /\ req'[r].st = IF r \in rs /\ f[r].st = "waiting"
                                           THEN "error" ELSE f[r].st
                           /\ r \notin rs => req'[r] = f[r]
    BY <2>1, FailedFacts
  <2>3. NothingLeft(m)
    BY <1>1, <2>1, <2>2 DEF NothingLeft
  <2>4. QED  BY <1>1, <1>2, <1>3, <2>2, <2>3
<1>7. QED  BY <1>4, <1>5, <1>6

(* Nobody else serves what a batch processor waits for.                    *)
LEMMA OnlyJob ==
  ASSUME IInv, NEW m \in Models, NEW e \in Engines, NEW a \in active[e], WaitsFor(m, a.job)
  PROVE  \A f \in Engines :
           /\ {b \in active[f] : ~WaitsFor(m, b.job)} = IF f = e THEN active[e] \ {a}
                                                                ELSE active[f]
           /\ \A i \in DOMAIN pending[f] : ~WaitsFor(m, pending[f][i])
<1> USE DEF IInv
<1>1. \A f \in Engines : \A b \in active[f] : WaitsFor(m, b.job) => f = e /\ b = a
  BY DEF RivalInv, Rivals, WaitsFor, ActiveInv
<1>2. \A f \in Engines : \A i \in DOMAIN pending[f] : ~WaitsFor(m, pending[f][i])
  BY DEF RivalInv, Rivals, WaitsFor
<1>3. QED  BY <1>1, <1>2

LEMMA ServeFacts ==
  ASSUME IInv
  PROVE  /\ \A m \in Models : CloseBatch(m) => Serves(m)
         /\ \A e \in Engines : Finish(e) \/ FailJob(e) =>
              (\E m \in Models : Serves(m)) \/ (\E a \in active[e] : Ends(e, a))
<1> USE DEF IInv
<1>1. ASSUME NEW m \in Models, CloseBatch(m) PROVE Serves(m)
  <2>1. /\ task[m].st = "collect" /\ SubmitNext(m, req, task[m].batch)
        /\ UNCHANGED <<loaded, engine, madeFor, queue, active, loop, unloader>>
    BY <1>1 DEF CloseBatch
  <2>2. task[m].batch \in Seq(Requests) /\ req \in [Clients -> ClientRequest]
    BY DEF TypeOK, Task
  <2>3. \A r \in ToSet(task[m].batch) : req[r].st = "waiting"
    BY <2>1 DEF TaskInv
  <2>4. /\ \A r \in Clients \ ToSet(task[m].batch) : req'[r] = req[r]
        /\ \A r \in ToSet(task[m].batch) : /\ req'[r].model = req[r].model
                                           /\ req'[r].set = req[r].set
                                           /\ req'[r].st # "new"
        /\ NothingLeft(m) \/ \E todo \in Seq(Requests), j \in Job : NextGroup(m, todo, j)
    BY <2>1, <2>2, <2>3, SubmitServes
  <2>5. \A j : JobOK(j) => ~WaitsFor(m, j)
    BY <2>1 DEF JobOK, JobFits, BatchFits, WaitsFor
  <2>6. \A e \in Engines : /\ active[e] = {a \in active[e] : ~WaitsFor(m, a.job)}
                           /\ \A i \in DOMAIN pending[e] : ~WaitsFor(m, pending[e][i])
    BY <2>5 DEF JobInv
  <2>7. QED  BY <2>1, <2>4, <2>6 DEF Serves
<1>2. ASSUME NEW e \in Engines, Finish(e) \/ FailJob(e)
      PROVE  (\E m \in Models : Serves(m)) \/ (\E a \in active[e] : Ends(e, a))
  <2>1. PICK a \in active[e] : FinishOf(e, a) \/ FailOf(e, a)
    BY <1>2, PoolSteps
  <2>2. /\ a \in ActiveJob /\ req \in [Clients -> ClientRequest] /\ JobOK(a.job)
        /\ active' = [active EXCEPT ![e] = active[e] \ {a}]
        /\ UNCHANGED <<loaded, engine, madeFor, queue, loop, unloader>>
    BY <2>1 DEF TypeOK, JobInv, FinishOf, FailOf
  <2>3. a.job \in Job /\ a.set \in Settings \cup {Unset}
    BY <2>2 DEF ActiveJob
  <2>4. CASE ~a.job.live
    <3>1. UNCHANGED <<req, task, pending>>
      BY <2>1, <2>4 DEF FinishOf, FailOf
    <3>2. Ends(e, a)
      BY <2>2, <2>4, <3>1 DEF Ends
    <3>3. QED  BY <3>2
  <2>5. CASE a.job.live /\ a.job.kind = "stream"
    <3>1. UNCHANGED <<task, pending>> /\ \/ req' = Failed(req, ToSet(a.job.reqs))
                                         \/ req' = Answered(ToSet(a.job.reqs), a)
      BY <2>1, <2>5 DEF FinishOf, FailOf
    <3>2. PICK r \in Streams : a.job.reqs = <<r>> /\ ToSet(a.job.reqs) = {r}
      BY <2>2, <2>3, <2>5, LiveJobFacts
    <3>3. \A x \in Clients \ {r} : req'[x] = req[x]
      <4>1. \A x \in Clients \ {r} : x \notin ToSet(a.job.reqs)
        BY <3>2
      <4>2. CASE req' = Failed(req, ToSet(a.job.reqs))
        BY <2>2, <4>1, <4>2, FailedFacts
      <4>3. CASE req' = Answered(ToSet(a.job.reqs), a)
        <5> DEFINE V(x) == [req[x] EXCEPT !.st = "ok",
                                          !.answer = [engine |-> a.using, set |-> a.set]]
        <5>1. req' = [x \in Clients |-> IF x \in ToSet(a.job.reqs) THEN V(x) ELSE req[x]]
          BY <4>3 DEF Answered
        <5> HIDE DEF V
        <5>2. QED  BY <4>1, <5>1
      <4>4. QED  BY <3>1, <4>2, <4>3
    <3>4. Ends(e, a)
      BY <2>2, <2>5, <3>1, <3>2, <3>3 DEF Ends
    <3>5. QED  BY <3>4
  <2>6. CASE a.job.live /\ a.job.kind # "stream"
    <3> DEFINE m == a.job.model
               rs == ToSet(a.job.reqs)
               t == task[m].todo
    <3>1. /\ m \in Models /\ a.job.kind = "batch" /\ task[m].st = "await"
          /\ a.job.reqs = Group(t) /\ t \in Seq(Requests) /\ t # <<>>
      <4>1. a.job.kind = "batch"
        BY <2>3, <2>6 DEF Job
      <4>2. QED  BY <2>2, <2>3, <2>6, <4>1, LiveJobFacts
    <3>2. /\ Rest(t) \in Seq(Requests)
          /\ rs \cup ToSet(Rest(t)) = ToSet(t) /\ rs \cap ToSet(Rest(t)) = {}
      BY <3>1, GroupFacts
    <3>3. /\ ToSet(t) \subseteq ToSet(task[m].batch)
          /\ \A r \in ToSet(t) : req[r].st = "waiting"
          /\ \A r \in ToSet(task[m].batch) : req[r].st = "waiting" => r \in ToSet(t)
          /\ \A r \in ToSet(task[m].batch) : req[r].st # "new"
      BY <3>1 DEF TaskInv
    <3>4. task[m].batch \in Seq(Requests) /\ ToSet(task[m].batch) \subseteq Clients
      <4>1. task[m] \in Task
        BY <3>1 DEF TypeOK
      <4>2. QED  BY <4>1 DEF Task, ToSet, Clients
    <3>5. WaitsFor(m, a.job)
      BY <2>6, <3>1 DEF WaitsFor
    <3>6. \A f \in Engines :
            /\ active'[f] = {b \in active[f] : ~WaitsFor(m, b.job)}
            /\ \A i \in DOMAIN pending[f] : ~WaitsFor(m, pending[f][i])
      <4>1. \A f \in Engines : active'[f] = IF f = e THEN active[e] \ {a} ELSE active[f]
        BY <2>2 DEF TypeOK
      <4> HIDE DEF m
      <4>2. QED  BY <3>1, <3>5, <4>1, OnlyJob
    <3>7. /\ \A r \in Clients \ ToSet(task[m].batch) : req'[r] = req[r]
          /\ \A r \in ToSet(task[m].batch) : /\ req'[r].model = req[r].model
                                             /\ req'[r].set = req[r].set
                                             /\ req'[r].st # "new"
          /\ NothingLeft(m) \/ \E tl \in Seq(Requests), j \in Job : NextGroup(m, tl, j)
      <4>1. CASE FinishOf(e, a)
        <5> DEFINE f == Answered(rs, a)
        <5>1. a.using \in Engines
          BY <4>1, <2>2 DEF ActiveInv, FinishOf
        <5>2. /\ f \in [Clients -> ClientRequest]
              /\ \A r \in Clients : /\ f[r].model = req[r].model /\ f[r].set = req[r].set
                                    /\ r \in rs => f[r].st = "ok"
                                    /\ r \notin rs => f[r] = req[r]
          BY <2>2, <2>3, <5>1, AnsweredFacts
        <5>3. SubmitNext(m, f, Rest(t))
          BY <4>1, <2>6 DEF FinishOf
        <5> HIDE DEF f, m, rs, t
        <5>4. \A r \in ToSet(task[m].batch) : f[r].st = "waiting" => r \in ToSet(Rest(t))
          BY <3>2, <3>3, <3>4, <5>2
        <5>5. \A r \in Clients : f[r] = req[r] \/ (/\ r \in ToSet(task[m].batch) \ ToSet(Rest(t))
                                                   /\ f[r].model = req[r].model
                                                   /\ f[r].set = req[r].set
                                                   /\ f[r].st # "new")
          BY <3>2, <3>3, <5>2
        <5>6. ToSet(Rest(t)) \subseteq ToSet(task[m].batch) /\ \A r \in ToSet(Rest(t)) : req[r].st = "waiting"
          BY <3>2, <3>3
        <5>7. QED  BY <3>1, <3>2, <5>2, <5>3, <5>4, <5>5, <5>6, SubmitServes
      <4>2. CASE FailOf(e, a)
        <5>1. /\ req' = Failed(req, ToSet(task[m].batch)) /\ task' = [task EXCEPT ![m] = Idle]
              /\ UNCHANGED pending
          BY <4>2, <2>6 DEF FailOf
        <5> HIDE DEF m, rs, t
        <5>2. \A r \in Clients : /\ req'[r].model = req[r].model /\ req'[r].set = req[r].set
                                 /\ req'[r].st = IF r \in ToSet(task[m].batch) /\ req[r].st = "waiting"
                                                 THEN "error" ELSE req[r].st
                                 /\ r \notin ToSet(task[m].batch) => req'[r] = req[r]
          BY <2>2, <5>1, FailedFacts
        <5>3. NothingLeft(m)
          BY <3>4, <5>1, <5>2 DEF NothingLeft
        <5>4. QED  BY <3>3, <3>4, <5>2, <5>3
      <4>3. QED  BY <2>1, <4>1, <4>2
    <3> HIDE DEF m, rs, t
    <3>8. Serves(m)
      BY <2>2, <3>1, <3>6, <3>7 DEF Serves
    <3>9. QED  BY <3>1, <3>8
  <2>7. QED  BY <2>4, <2>5, <2>6
<1>3. QED  BY <1>1, <1>2

(* A batch processor takes the first request of its queue.                 *)
Takes(m) ==
    /\ queue[m] # <<>> /\ queue' = [queue EXCEPT ![m] = Tail(queue[m])]
    /\ task[m].st \in {"idle", "collect"} /\ task'[m].st = "collect"
    /\ ToSet(task'[m].batch) = ToSet(task[m].batch) \cup {queue[m][1]}
    /\ \A x \in Models \ {m} : task'[x] = task[x]
    /\ UNCHANGED <<req, pending, active, loop, unloader>>

LEMMA TakeFacts ==
  ASSUME IInv, NEW m \in Models, TakeFirst(m) \/ TakeMore(m)
  PROVE  Takes(m)
<1> USE DEF IInv
<1>1. /\ queue[m] \in Seq(Requests) /\ queue[m] # <<>> /\ Head(queue[m]) = queue[m][1]
      /\ Head(queue[m]) \in Requests
  BY TailFacts DEF TypeOK, TakeFirst, TakeMore
<1>2. task \in [Models -> Task] /\ queue \in [Models -> Seq(Requests)]
  BY DEF TypeOK
<1>3. CASE TakeFirst(m)
  <2>1. task' = [task EXCEPT ![m] = [st |-> "collect", batch |-> <<Head(queue[m])>>, todo |-> <<>>]]
    BY <1>3 DEF TakeFirst
  <2>2. task[m].batch = <<>> /\ task[m].st = "idle"
    BY <1>3 DEF TakeFirst, TaskInv
  <2>3. ToSet(<<Head(queue[m])>>) = {Head(queue[m])} /\ ToSet(<<>>) = {}
    BY DEF ToSet
  <2>4. task'[m].batch = <<Head(queue[m])>> /\ task'[m].st = "collect"
    BY <1>2, <2>1
  <2>5. /\ queue' = [queue EXCEPT ![m] = Tail(queue[m])]
        /\ UNCHANGED <<req, pending, active, loop, unloader>>
    BY <1>2, <1>3 DEF TakeFirst
  <2>6. ToSet(task'[m].batch) = ToSet(task[m].batch) \cup {queue[m][1]}
    BY <1>1, <2>2, <2>3, <2>4
  <2>7. QED  BY <1>1, <1>2, <2>1, <2>2, <2>4, <2>5, <2>6 DEF Takes
<1>4. CASE TakeMore(m)
  <2> DEFINE b == Append(task[m].batch, Head(queue[m]))
  <2>1. task' = [task EXCEPT ![m].batch = b] /\ task[m].st = "collect"
    BY <1>2, <1>4 DEF TakeMore
  <2>2. task[m] \in Task /\ task[m].batch \in Seq(Requests)
    BY <1>2 DEF Task
  <2>3. ToSet(b) = ToSet(task[m].batch) \cup {Head(queue[m])}
    <3> DEFINE s == task[m].batch
               x == Head(queue[m])
    <3>1. s \in Seq(Requests) /\ x \in Requests
      BY <1>1, <2>2
    <3> HIDE DEF s, x
    <3>2. ToSet(Append(s, x)) = ToSet(s) \cup {x}
      <4>1. /\ DOMAIN Append(s, x) = 1 .. Len(s) + 1 /\ DOMAIN s = 1 .. Len(s) /\ Len(s) \in Nat
            /\ \A i \in 1 .. Len(s) : Append(s, x)[i] = s[i]
            /\ Append(s, x)[Len(s) + 1] = x
        BY <3>1, AppendFacts
      <4>2. \A y \in ToSet(Append(s, x)) : y \in ToSet(s) \cup {x}
        BY <4>1 DEF ToSet
      <4>3. \A y \in ToSet(s) : y \in ToSet(Append(s, x))
        BY <4>1 DEF ToSet
      <4>4. x \in ToSet(Append(s, x))
        <5>1. Len(s) + 1 \in DOMAIN Append(s, x)
          BY <4>1
        <5>2. QED  BY <4>1, <5>1 DEF ToSet
      <4>5. QED  BY <4>2, <4>3, <4>4
    <3>3. QED  BY <3>2 DEF s, x
  <2> HIDE DEF b
  <2>4. task'[m].batch = b /\ task'[m].st = "collect"
    BY <1>2, <2>1, <2>2 DEF Task
  <2>5. /\ queue' = [queue EXCEPT ![m] = Tail(queue[m])]
        /\ UNCHANGED <<req, pending, active, loop, unloader>>
    BY <1>2, <1>4 DEF TakeMore
  <2>6. \A x \in Models \ {m} : task'[x] = task[x]
    BY <1>2, <2>1
  <2>7. QED  BY <1>1, <2>1, <2>3, <2>4, <2>5, <2>6 DEF Takes
<1>5. QED  BY <1>3, <1>4

(* A handler ends: its request is queued, unless it streams or only counts. *)
Accepts ==
    /\ loop.pc # "free" /\ loop.model \in Models /\ loop' = FreeLoop
    /\ UNCHANGED <<req, engine, madeFor, pending, active, unloader>>
    /\ \/ loop.client \notin Requests /\ UNCHANGED <<task, queue>>
       \/ /\ loop.client \in Requests
          /\ queue' = [queue EXCEPT ![loop.model] = Append(queue[loop.model], loop.client)]
          /\ \A m \in Models : \/ task'[m] = task[m]
                               \/ task[m].st = "none" /\ task'[m] = Idle
          /\ task'[loop.model].st # "none"

LEMMA AcceptFacts ==
  ASSUME IInv, AcceptLoaded \/ SetLoaded
  PROVE  Accepts
<1> USE DEF IInv
<1>1. /\ loop.pc # "free" /\ loop.model \in Models
      /\ Accept(loop.model, loop.client)
      /\ UNCHANGED <<req, engine, madeFor, pending, active, unloader>>
  BY DEF AcceptLoaded, SetLoaded, LoopInv
<1>2. task \in [Models -> Task] /\ queue \in [Models -> Seq(Requests)]
  BY DEF TypeOK
<1>3. CASE loop.client \notin Requests
  BY <1>1, <1>3 DEF Accept, Accepts
<1>4. CASE loop.client \in Requests
  <2>1. /\ queue' = [queue EXCEPT ![loop.model] = Append(queue[loop.model], loop.client)]
        /\ task' = IF task[loop.model].st = "none" THEN [task EXCEPT ![loop.model] = Idle]
                                                  ELSE task
        /\ loop' = FreeLoop
    BY <1>1, <1>2, <1>4 DEF Accept
  <2>2. /\ \A m \in Models : \/ task'[m] = task[m]
                             \/ task[m].st = "none" /\ task'[m] = Idle
        /\ task'[loop.model].st # "none"
    BY <1>1, <1>2, <2>1 DEF Idle
  <2>3. QED  BY <1>1, <1>4, <2>1, <2>2 DEF Accepts
<1>5. QED  BY <1>3, <1>4

(* The steps of a specification of this size, sorted by what they do.      *)
Quiet == UNCHANGED <<req, queue, task, pending, active>> /\ loop'.client = loop.client
LoadFailed == /\ loop' = FreeLoop /\ UNCHANGED <<queue, task, pending, active, unloader>>
              /\ loop.pc # "free" /\ UNCHANGED <<engine, madeFor>>
              /\ \A r \in Clients \ {loop.client} : req'[r] = req[r]
Drains(u, m) == /\ At(u, "cancelled") /\ unloader[u].model = m
                /\ queue' = [queue EXCEPT ![m] = <<>>]
                /\ \A r \in Clients : req'[r] = Failed(req, Drained({m}))[r]
                /\ UNCHANGED <<task, pending, active, loop>>

LEMMA StepKinds ==
  ASSUME IInv, [Next]_vars
  PROVE  \/ \E X \in SUBSET Models, Y \in SUBSET Models : Clears(X, Y)
         \/ Accepts
         \/ LoadFailed
         \/ \E r \in Streams : Produce(r)
         \/ \E m \in Models : Takes(m) \/ Serves(m)
         \/ \E e \in Engines : StartJob(e) \/ \E a \in active[e] : Runs(e, a)
         \/ \E e \in Engines : \E a \in active[e] : Ends(e, a)
         \/ \E u \in Unloaders, m \in Models : Drains(u, m)
         \/ Quiet
<1> USE DEF IInv
<1>1. CASE HandlerStep \/ \E u \in Unloaders : UnloadCancel(u)
  BY <1>1, ClearFacts
<1>2. CASE AcceptLoaded \/ SetLoaded
  BY <1>2, AcceptFacts
<1>3. CASE LoadEngine
  BY <1>3 DEF LoadEngine, Quiet, TypeOK
<1>4. CASE LoadFails
  <2>1. LoadFailed
    BY <1>4 DEF LoadFails, LoadFailed, Failed
  <2>2. QED  BY <2>1
<1>5. CASE \E r \in Streams : Produce(r)
  BY <1>5
<1>6. ASSUME NEW m \in Models, TaskStep(m) PROVE Takes(m) \/ Serves(m)
  BY <1>6, TakeFacts, ServeFacts DEF TaskStep
<1>7. ASSUME NEW e \in Engines, StartJob(e) \/ RunJob(e) \/ NextBatch(e)
      PROVE  StartJob(e) \/ \E a \in active[e] : Runs(e, a)
  BY <1>7, RunFacts
<1>8. ASSUME NEW e \in Engines, Finish(e) \/ FailJob(e)
      PROVE  (\E m \in Models : Serves(m)) \/ (\E a \in active[e] : Ends(e, a))
  BY <1>8, ServeFacts
<1>9. ASSUME NEW u \in Unloaders, UnloadDrain(u)
      PROVE  \E m \in Models : Drains(u, m)
  <2>1. unloader[u].model \in Models
    BY <1>9 DEF UnloadDrain, UnloaderInv, At
  <2>2. Drains(u, unloader[u].model)
    <3>1. queue' = [queue EXCEPT ![unloader[u].model] = <<>>]
      BY <1>9, <2>1 DEF UnloadDrain, ClearQueues, TypeOK
    <3>2. QED  BY <1>9, <3>1 DEF UnloadDrain, ClearQueues, Drains
  <2>3. QED  BY <2>1, <2>2
<1>10. ASSUME NEW u \in Unloaders, UnloadDelete(u) \/ UnloadClear(u) \/ UnloadFlag(u) PROVE Quiet
  BY <1>10 DEF UnloadDelete, UnloadClear, UnloadFlag, Quiet
<1>11. CASE UNCHANGED vars
  BY <1>11 DEF vars, Quiet
<1>12. QED
  BY <1>1, <1>2, <1>3, <1>4, <1>5, <1>6, <1>7, <1>8, <1>9, <1>10, <1>11
     DEF Next, LoopStep, PoolStep, UnloadStep

(* What is known of the requests in a queue and in a batch.                *)
LEMMA InQueue ==
  ASSUME IInv, NEW m \in Models, NEW r \in ToSet(queue[m])
  PROVE  /\ r \in Requests /\ r \in Clients /\ r \notin Streams
         /\ req[r].st = "waiting" /\ req[r].model = m /\ r # loop.client
         /\ \A x \in Models : r \notin ToSet(task[x].batch)
<1>1. PICK i \in DOMAIN queue[m] : r = queue[m][i]
  BY DEF ToSet
<1>2. queue[m] \in Seq(Requests)
  BY DEF IInv, TypeOK
<1>3. r \in Requests /\ r \in Clients /\ r \notin Streams
  BY <1>1, <1>2, ServerAssumption DEF Clients
<1>4. \A x \in Models : r \in ToSet(task[x].batch) => req[r].model = x
  BY DEF IInv, TaskInv
<1>5. QED  BY <1>1, <1>3, <1>4 DEF IInv, QueueInv

LEMMA InBatch ==
  ASSUME IInv, NEW m \in Models, NEW r \in ToSet(task[m].batch)
  PROVE  /\ r \in Requests /\ r \in Clients /\ r \notin Streams
         /\ req[r].st # "new" /\ req[r].model = m /\ r # loop.client
<1>1. task[m] \in Task
  BY DEF IInv, TypeOK
<1>2. task[m].batch \in Seq(Requests)
  BY <1>1 DEF Task
<1>3. r \in Requests /\ r \in Clients /\ r \notin Streams
  BY <1>2, ServerAssumption DEF ToSet, Clients
<1>4. QED  BY <1>3 DEF IInv, TaskInv

(* Queues hold requests that wait, each of them once.                      *)
LEMMA StepQueueInv ==
  ASSUME IInv, [Next]_vars
  PROVE  QueueInv'
<1> USE DEF IInv
<1> SUFFICES ASSUME NEW m \in Models
             PROVE  /\ \A i \in DOMAIN queue'[m] :
                         /\ req'[queue'[m][i]].st = "waiting" /\ req'[queue'[m][i]].model = m
                         /\ queue'[m][i] # loop'.client
                         /\ queue'[m][i] \notin ToSet(task'[m].batch)
                    /\ \A i, k \in DOMAIN queue'[m] : queue'[m][i] = queue'[m][k] => i = k
  BY DEF QueueInv
<1> DEFINE Waits(r) == /\ req'[r].st = "waiting" /\ req'[r].model = m
                       /\ r # loop'.client /\ r \notin ToSet(task'[m].batch)
           Goal == /\ \A i \in DOMAIN queue'[m] : Waits(queue'[m][i])
                   /\ \A i, k \in DOMAIN queue'[m] : queue'[m][i] = queue'[m][k] => i = k
<1>1. queue[m] \in Seq(Requests) /\ queue \in [Models -> Seq(Requests)]
  BY DEF TypeOK
<1>2. ASSUME queue'[m] = queue[m], \A r \in ToSet(queue[m]) : Waits(r)
      PROVE  Goal
  BY <1>2 DEF QueueInv, ToSet
<1>3. ASSUME queue'[m] = queue[m],
             \A r \in ToSet(queue[m]) : /\ req'[r] = req[r] /\ r # loop'.client
                                        /\ \A x \in Models : r \notin ToSet(task'[x].batch)
      PROVE  Goal
  BY <1>2, <1>3, InQueue
<1>4. CASE queue'[m] = <<>>
  BY <1>4
<1>5. ToSet(<<>>) = {}
  BY DEF ToSet
<1>6. ASSUME NEW X \in SUBSET Models, NEW Y \in SUBSET Models, Clears(X, Y) PROVE Goal
  <2>1. CASE m \in Y
    BY <1>4, <1>6, <2>1 DEF Clears
  <2>2. CASE m \notin Y
    <3>1. queue'[m] = queue[m]
      BY <1>6, <2>2 DEF Clears
    <3>2. \A r \in ToSet(queue[m]) : req'[r] = req[r]
      BY <1>6, <2>2, InQueue, DrainFacts DEF Clears
    <3>3. \A r \in ToSet(queue[m]) : r # loop'.client
      BY <1>6, InQueue DEF Clears
    <3>4. \A x \in Models : task'[x] = NoTask \/ task'[x] = task[x]
      BY <1>6, CancelFacts DEF Clears
    <3>5. \A r \in ToSet(queue[m]), x \in Models : r \notin ToSet(task'[x].batch)
      BY <1>5, <3>4, InQueue DEF NoTask
    <3>6. QED  BY <1>3, <3>1, <3>2, <3>3, <3>5
  <2>3. QED  BY <2>1, <2>2
<1>7. CASE Accepts
  <2>1. \A r \in ToSet(queue[m]) : r # loop'.client /\ req'[r] = req[r]
    BY <1>7, InQueue, ServerAssumption DEF Accepts, FreeLoop, Clients
  <2>2. \A x \in Models : ToSet(task'[x].batch) \subseteq ToSet(task[x].batch)
    BY <1>5, <1>7 DEF Accepts, Idle
  <2>3. CASE queue'[m] = queue[m]
    BY <1>3, <2>1, <2>2, <2>3, InQueue
  <2>4. CASE /\ loop.client \in Requests /\ m = loop.model
             /\ queue' = [queue EXCEPT ![loop.model] = Append(queue[loop.model], loop.client)]
    <3> DEFINE c == loop.client
    <3>1. /\ queue'[m] = Append(queue[m], c)
          /\ DOMAIN queue'[m] = 1 .. Len(queue[m]) + 1
          /\ DOMAIN queue[m] = 1 .. Len(queue[m]) /\ Len(queue[m]) \in Nat
          /\ \A i \in 1 .. Len(queue[m]) : queue'[m][i] = queue[m][i]
          /\ queue'[m][Len(queue[m]) + 1] = c
      <4>1. queue'[m] = Append(queue[m], c)
        BY <1>1, <2>4
      <4>2. QED  BY <1>1, <2>4, <4>1, AppendFacts
    <3>2. c \in Clients /\ req[c].st = "waiting" /\ req[c].model = m
      BY <2>4 DEF LoopInv, Clients
    <3>3. Waits(c)
      <4>1. c # "nobody"
        BY <2>4, ServerAssumption
      <4>2. c \notin ToSet(task[m].batch)
        BY InBatch
      <4>3. QED  BY <1>7, <2>2, <3>2, <4>1, <4>2 DEF Accepts, FreeLoop
    <3>4. \A i \in 1 .. Len(queue[m]) : queue[m][i] \in ToSet(queue[m])
      BY <3>1 DEF ToSet
    <3>5. \A i \in 1 .. Len(queue[m]) : queue[m][i] # c /\ Waits(queue[m][i])
      BY <2>1, <2>2, <3>4, InQueue
    <3> HIDE DEF Waits, c
    <3>6. \A i \in DOMAIN queue'[m] : Waits(queue'[m][i])
      BY <3>1, <3>3, <3>5
    <3>7. \A i, k \in 1 .. Len(queue[m]) : queue[m][i] = queue[m][k] => i = k
      BY <3>1 DEF QueueInv
    <3>8. \A i, k \in DOMAIN queue'[m] : queue'[m][i] = queue'[m][k] => i = k
      BY <3>1, <3>5, <3>7
    <3>9. QED  BY <3>6, <3>8 DEF Waits
  <2>5. QED  BY <1>1, <1>7, <2>3, <2>4 DEF Accepts
<1>8. CASE LoadFailed
  <2>1. \A r \in ToSet(queue[m]) : r # loop'.client /\ req'[r] = req[r]
    BY <1>8, InQueue, ServerAssumption DEF LoadFailed, FreeLoop, Clients
  <2>2. QED  BY <1>3, <1>8, <2>1, InQueue DEF LoadFailed
<1>9. ASSUME NEW r \in Streams, Produce(r) PROVE Goal
  <2>1. UNCHANGED <<queue, task, loop>> /\ (req' = req \/ req' = [req EXCEPT ![r].st = "error"])
    BY <1>9 DEF Produce
  <2>2. \A x \in ToSet(queue[m]) : req'[x] = req[x]
    BY <2>1, InQueue DEF TypeOK
  <2>3. QED  BY <1>3, <2>1, <2>2, InQueue
<1>10. ASSUME NEW x \in Models, Takes(x) PROVE Goal
  <2>1. CASE x # m
    BY <1>1, <1>2, <1>10, <2>1, InQueue DEF Takes
  <2>2. CASE x = m
    <3>1. /\ queue'[m] = Tail(queue[m]) /\ queue[m] # <<>>
          /\ Len(queue[m]) \in Nat \ {0} /\ DOMAIN queue[m] = 1 .. Len(queue[m])
          /\ DOMAIN queue'[m] = 1 .. Len(queue[m]) - 1
          /\ \A i \in 1 .. Len(queue[m]) - 1 : queue'[m][i] = queue[m][i + 1]
      <4>1. queue'[m] = Tail(queue[m]) /\ queue[m] # <<>>
        BY <1>1, <1>10, <2>2 DEF Takes
      <4>2. QED  BY <1>1, <4>1, TailFacts
    <3>2. \A i, k \in 1 .. Len(queue[m]) : queue[m][i] = queue[m][k] => i = k
      BY <3>1 DEF QueueInv
    <3>3. \A i \in 1 .. Len(queue[m]) : queue[m][i] \in ToSet(queue[m])
      BY <3>1 DEF ToSet
    <3>4. ASSUME NEW i \in 1 .. Len(queue[m]) - 1 PROVE Waits(queue[m][i + 1])
      <4>1. i + 1 \in 1 .. Len(queue[m]) /\ 1 \in 1 .. Len(queue[m]) /\ i + 1 # 1
        BY <3>1
      <4>2. queue[m][i + 1] # queue[m][1]
        BY <3>2, <4>1
      <4>3. queue[m][i + 1] \in ToSet(queue[m])
        BY <3>3, <4>1
      <4>4. /\ ToSet(task'[m].batch) = ToSet(task[m].batch) \cup {queue[m][1]}
            /\ UNCHANGED <<req, loop>>
        BY <1>10, <2>2 DEF Takes
      <4>5. queue[m][i + 1] \notin ToSet(task'[m].batch)
        BY <4>2, <4>3, <4>4, InQueue
      <4>6. QED  BY <4>3, <4>4, <4>5, InQueue
    <3>5. \A i, k \in 1 .. Len(queue[m]) - 1 : queue[m][i + 1] = queue[m][k + 1] => i = k
      BY <3>1, <3>2
    <3> HIDE DEF Waits
    <3>6. \A i \in DOMAIN queue'[m] : Waits(queue'[m][i])
      BY <3>1, <3>4
    <3>7. QED  BY <3>1, <3>5, <3>6 DEF Waits
  <2>3. QED  BY <2>1, <2>2
<1>11. ASSUME NEW x \in Models, Serves(x) PROVE Goal
  <2>1. UNCHANGED <<queue, loop>> /\ \A r \in Clients \ ToSet(task[x].batch) : req'[r] = req[r]
    BY <1>11 DEF Serves
  <2>2. \A y \in Models : task'[y].batch = task[y].batch \/ task'[y].batch = <<>>
    <3>1. CASE NothingLeft(x)
      BY <3>1 DEF NothingLeft, Idle, TypeOK
    <3>2. ASSUME NEW todo \in Seq(Requests), NEW j \in Job, NextGroup(x, todo, j)
          PROVE  \A y \in Models : task'[y].batch = task[y].batch
      BY <3>2 DEF NextGroup, TypeOK
    <3>3. QED  BY <1>11, <3>1, <3>2 DEF Serves
  <2>3. \A r \in ToSet(queue[m]) : /\ req'[r] = req[r] /\ r # loop'.client
                                   /\ \A y \in Models : r \notin ToSet(task'[y].batch)
    BY <1>5, <2>1, <2>2, InQueue
  <2>4. QED  BY <1>3, <2>1, <2>3
<1>12. ASSUME NEW e \in Engines, StartJob(e) \/ \E a \in active[e] : Runs(e, a)
       PROVE  Goal
  <2>1. UNCHANGED <<req, queue, task, loop>>
    BY <1>12 DEF StartJob, Runs
  <2>2. QED  BY <1>3, <2>1, InQueue
<1>13. ASSUME NEW e \in Engines, NEW a \in active[e], Ends(e, a) PROVE Goal
  <2>1. UNCHANGED <<queue, task, loop>> /\ \A r \in Clients : req'[r] # req[r] => r \in Streams
    BY <1>13 DEF Ends
  <2>2. QED  BY <1>3, <2>1, InQueue
<1>14. ASSUME NEW u \in Unloaders, NEW x \in Models, Drains(u, x) PROVE Goal
  <2>1. CASE x = m
    BY <1>1, <1>4, <1>14, <2>1 DEF Drains
  <2>2. CASE x # m
    <3>1. queue'[m] = queue[m] /\ UNCHANGED <<task, loop>>
      BY <1>1, <1>14, <2>2 DEF Drains
    <3>2. \A r \in ToSet(queue[m]) : req'[r] = req[r]
      BY <1>14, <2>2, InQueue, DrainFacts DEF Drains
    <3>3. QED  BY <1>3, <3>1, <3>2, InQueue
  <2>3. QED  BY <2>1, <2>2
<1>15. CASE Quiet
  BY <1>3, <1>15, InQueue DEF Quiet
<1>16. QED
  BY <1>6, <1>7, <1>8, <1>9, <1>10, <1>11, <1>12, <1>13, <1>14, <1>15, StepKinds

(* Of the batch being served, those that wait are still to do.             *)
LEMMA StepTaskInv ==
  ASSUME IInv, [Next]_vars
  PROVE  TaskInv'
<1> USE DEF IInv
<1> DEFINE Goal(m) ==
      /\ \A r \in ToSet(task'[m].batch) :
           req'[r].st # "new" /\ req'[r].model = m /\ r # loop'.client
      /\ task'[m].st \in {"none", "idle"} => task'[m].batch = <<>>
      /\ task'[m].st = "collect" =>
           \A r \in ToSet(task'[m].batch) : req'[r].st = "waiting"
      /\ task'[m].st = "await" =>
           /\ task'[m].todo # <<>>
           /\ ToSet(task'[m].todo) \subseteq ToSet(task'[m].batch)
           /\ \A r \in ToSet(task'[m].todo) : req'[r].st = "waiting"
           /\ \A r \in ToSet(task'[m].batch) :
                req'[r].st = "waiting" => r \in ToSet(task'[m].todo)
<1> SUFFICES ASSUME NEW m \in Models PROVE Goal(m)
  BY DEF TaskInv
<1>1. ToSet(<<>>) = {} /\ task \in [Models -> Task]
  BY DEF ToSet, TypeOK
<1>2. ASSUME task'[m] = task[m],
             \A r \in ToSet(task[m].batch) : req'[r] = req[r] /\ r # loop'.client
      PROVE  Goal(m)
  <2>1. task[m].st = "await" => ToSet(task[m].todo) \subseteq ToSet(task[m].batch)
    BY DEF TaskInv
  <2>2. QED  BY <1>2, <2>1 DEF TaskInv
<1>3. CASE task'[m] = NoTask \/ task'[m] = Idle
  BY <1>1, <1>3 DEF NoTask, Idle
<1>4. ASSUME NEW X \in SUBSET Models, NEW Y \in SUBSET Models, Clears(X, Y) PROVE Goal(m)
  <2>1. task'[m] = IF m \in X THEN NoTask ELSE task[m]
    BY <1>4, CancelFacts DEF Clears
  <2>2. ASSUME m \notin X, NEW r \in ToSet(task[m].batch)
        PROVE  req'[r] = req[r] /\ r # loop'.client
    <3>1. m \notin Y /\ \A c \in Clients : req[c].st # "new" => req'[c] = Failed(req, Drained(Y))[c]
      BY <1>4, <2>2 DEF Clears
    <3>2. r \in Clients /\ req[r].st # "new" /\ req[r].model = m /\ r # loop.client
      BY <2>2, InBatch
    <3>3. req'[r] = req[r]
      BY <3>1, <3>2, DrainFacts
    <3>4. r # loop'.client
      BY <1>4, <3>2 DEF Clears
    <3>5. QED  BY <3>3, <3>4
  <2>3. QED  BY <1>2, <1>3, <2>1, <2>2
<1>5. CASE Accepts
  <2>1. \A r \in ToSet(task[m].batch) : r # loop'.client /\ req'[r] = req[r]
    BY <1>5, InBatch, ServerAssumption DEF Accepts, FreeLoop, Clients
  <2>2. task'[m] = task[m] \/ task'[m] = Idle
    BY <1>5 DEF Accepts
  <2>3. QED  BY <1>2, <1>3, <2>1, <2>2
<1>6. CASE LoadFailed
  <2>1. \A r \in ToSet(task[m].batch) : r # loop'.client /\ req'[r] = req[r]
    BY <1>6, InBatch, ServerAssumption DEF LoadFailed, FreeLoop, Clients
  <2>2. QED  BY <1>2, <1>6, <2>1 DEF LoadFailed
<1>7. ASSUME NEW r \in Streams, Produce(r) PROVE Goal(m)
  <2>1. UNCHANGED <<task, loop>> /\ (req' = req \/ req' = [req EXCEPT ![r].st = "error"])
    BY <1>7 DEF Produce
  <2>2. \A x \in ToSet(task[m].batch) : req'[x] = req[x]
    BY <2>1, InBatch DEF TypeOK
  <2>3. QED  BY <1>2, <2>1, <2>2, InBatch
<1>8. ASSUME NEW x \in Models, Takes(x) PROVE Goal(m)
  <2>1. CASE x # m
    BY <1>2, <1>8, <2>1, InBatch DEF Takes
  <2>2. CASE x = m
    <3>1. /\ task[m].st \in {"idle", "collect"} /\ task'[m].st = "collect"
          /\ ToSet(task'[m].batch) = ToSet(task[m].batch) \cup {queue[m][1]}
          /\ UNCHANGED <<req, loop>> /\ queue[m] # <<>>
      BY <1>8, <2>2 DEF Takes
    <3>2. queue[m][1] \in ToSet(queue[m])
      <4>1. 1 \in DOMAIN queue[m]
        <5>1. queue[m] \in Seq(Requests)
          BY DEF TypeOK
        <5>2. QED  BY <3>1, <5>1, TailFacts
      <4>2. QED  BY <4>1 DEF ToSet
    <3>3. \A r \in ToSet(task[m].batch) : req[r].st = "waiting"
      BY <1>1, <3>1 DEF TaskInv
    <3>4. \A r \in ToSet(task'[m].batch) : /\ req[r].st = "waiting" /\ req[r].model = m
                                           /\ r # loop.client
      <4> SUFFICES ASSUME NEW r \in ToSet(task'[m].batch)
                   PROVE  req[r].st = "waiting" /\ req[r].model = m /\ r # loop.client
        OBVIOUS
      <4>1. CASE r \in ToSet(task[m].batch)
        BY <3>3, <4>1, InBatch
      <4>2. CASE r = queue[m][1]
        BY <3>2, <4>2, InQueue
      <4>3. QED  BY <3>1, <4>1, <4>2
    <3>5. QED  BY <3>1, <3>4
  <2>3. QED  BY <2>1, <2>2
<1>9. ASSUME NEW x \in Models, Serves(x) PROVE Goal(m)
  <2>1. /\ UNCHANGED loop
        /\ \A r \in Clients \ ToSet(task[x].batch) : req'[r] = req[r]
        /\ \A r \in ToSet(task[x].batch) : req'[r].model = req[r].model /\ req'[r].st # "new"
    BY <1>9 DEF Serves
  <2>2. CASE x # m
    <3>1. task'[m] = task[m]
      <4>1. CASE NothingLeft(x)
        BY <2>2, <4>1 DEF NothingLeft, TypeOK
      <4>2. ASSUME NEW todo \in Seq(Requests), NEW j \in Job, NextGroup(x, todo, j)
            PROVE  task'[m] = task[m]
        BY <2>2, <4>2 DEF NextGroup, TypeOK
      <4>3. QED  BY <1>9, <4>1, <4>2 DEF Serves
    <3>2. \A r \in ToSet(task[m].batch) : r \notin ToSet(task[x].batch)
      BY <2>2, InBatch
    <3>3. \A r \in ToSet(task[m].batch) : req'[r] = req[r] /\ r # loop'.client
      BY <2>1, <3>2, InBatch
    <3>4. QED  BY <1>2, <3>1, <3>3
  <2>3. CASE x = m /\ NothingLeft(x)
    <3>1. task'[m] = Idle
      BY <1>1, <2>3 DEF NothingLeft
    <3>2. QED  BY <1>3, <3>1
  <2>4. ASSUME x = m, NEW todo \in Seq(Requests), NEW j \in Job, NextGroup(x, todo, j)
        PROVE  Goal(m)
    <3>1. task'[m] = [st |-> "await", batch |-> task[m].batch, todo |-> todo]
      BY <1>1, <2>4 DEF NextGroup
    <3>2. task'[m].st = "await" /\ task'[m].batch = task[m].batch /\ task'[m].todo = todo
      BY <3>1
    <3>3. /\ todo # <<>> /\ ToSet(todo) \subseteq ToSet(task[m].batch)
          /\ \A r \in ToSet(todo) : req'[r].st = "waiting"
          /\ \A r \in ToSet(task[m].batch) : req'[r].st = "waiting" => r \in ToSet(todo)
      BY <2>4 DEF NextGroup
    <3>4. \A r \in ToSet(task[m].batch) :
            req'[r].st # "new" /\ req'[r].model = m /\ r # loop'.client
      BY <2>1, <2>4, InBatch
    <3>5. QED  BY <3>2, <3>3, <3>4
  <2>5. QED  BY <1>9, <2>2, <2>3, <2>4 DEF Serves
<1>10. ASSUME NEW e \in Engines, StartJob(e) \/ \E a \in active[e] : Runs(e, a)
       PROVE  Goal(m)
  <2>1. UNCHANGED <<req, task, loop>>
    BY <1>10 DEF StartJob, Runs
  <2>2. QED  BY <1>2, <2>1, InBatch
<1>11. ASSUME NEW e \in Engines, NEW a \in active[e], Ends(e, a) PROVE Goal(m)
  <2>1. UNCHANGED <<task, loop>> /\ \A r \in Clients : req'[r] # req[r] => r \in Streams
    BY <1>11 DEF Ends
  <2>2. QED  BY <1>2, <2>1, InBatch
(* A request that is drained has not been taken into a batch.              *)
<1>12. ASSUME NEW u \in Unloaders, NEW x \in Models, Drains(u, x) PROVE Goal(m)
  <2>1. UNCHANGED <<task, loop>> /\ \A r \in Clients : req'[r] = Failed(req, Drained({x}))[r]
    BY <1>12 DEF Drains
  <2>2. \A r \in Drained({x}) : r \notin ToSet(task[m].batch)
    BY InQueue DEF Drained
  <2>3. {x} \in SUBSET Models
    OBVIOUS
  <2>4. \A r \in Clients : req[r].st # "new" /\ r \notin Drained({x}) => req'[r] = req[r]
    BY <2>1, <2>3, DrainFacts
  <2>5. \A r \in ToSet(task[m].batch) : req'[r] = req[r]
    BY <2>2, <2>4, InBatch
  <2>6. QED  BY <1>2, <2>1, <2>5, InBatch
<1>13. CASE Quiet
  BY <1>2, <1>13, InBatch DEF Quiet
<1>14. QED
  BY <1>4, <1>5, <1>6, <1>7, <1>8, <1>9, <1>10, <1>11, <1>12, <1>13, StepKinds

(* A job enters a pool, is started by its thread, and begins to run.       *)
LEMMA AppendJob ==
  ASSUME TypeOK, NEW e \in Engines, NEW j \in Job,
         pending' = [pending EXCEPT ![e] = Append(pending[e], j)]
  PROVE  /\ \A f \in Engines : \A i \in DOMAIN pending[f] :
              i \in DOMAIN pending'[f] /\ pending'[f][i] = pending[f][i]
         /\ \A f \in Engines : \A i \in DOMAIN pending'[f] :
              \/ i \in DOMAIN pending[f] /\ pending'[f][i] = pending[f][i]
              \/ f = e /\ i = Len(pending[e]) + 1 /\ pending'[f][i] = j
         /\ \E i \in DOMAIN pending'[e] : pending'[e][i] = j
<1>1. /\ pending[e] \in Seq(Job) /\ pending'[e] = Append(pending[e], j)
      /\ \A f \in Engines \ {e} : pending'[f] = pending[f]
  BY DEF TypeOK
<1>2. /\ DOMAIN pending'[e] = 1 .. Len(pending[e]) + 1
      /\ DOMAIN pending[e] = 1 .. Len(pending[e]) /\ Len(pending[e]) \in Nat
      /\ \A i \in 1 .. Len(pending[e]) : pending'[e][i] = pending[e][i]
      /\ pending'[e][Len(pending[e]) + 1] = j
  BY <1>1, AppendFacts
<1>3. \E i \in DOMAIN pending'[e] : pending'[e][i] = j
  <2>1. Len(pending[e]) + 1 \in DOMAIN pending'[e]
    BY <1>2
  <2>2. QED  BY <1>2, <2>1
<1>4. QED  BY <1>1, <1>2, <1>3

LEMMA StartFacts ==
  ASSUME TypeOK, NEW e \in Engines, StartJob(e)
  PROVE  /\ 1 \in DOMAIN pending[e]
         /\ \A i \in DOMAIN pending'[e] :
              i \in Nat /\ i + 1 \in DOMAIN pending[e] /\ i + 1 # 1
              /\ pending'[e][i] = pending[e][i + 1]
         /\ \A i \in DOMAIN pending[e] : i = 1 \/ \E k \in DOMAIN pending'[e] :
              pending'[e][k] = pending[e][i]
         /\ active[e] = {}
         /\ \E b : /\ active'[e] = {b}
                   /\ b.job = pending[e][1] /\ b.ph = "picked"
         /\ \A f \in Engines \ {e} : pending'[f] = pending[f] /\ active'[f] = active[f]
         /\ UNCHANGED <<req, task, queue, loop, engine, madeFor, unloader>>
<1>1. /\ pending[e] \in Seq(Job) /\ pending[e] # <<>> /\ pending'[e] = Tail(pending[e])
      /\ \A f \in Engines \ {e} : pending'[f] = pending[f]
      /\ active[e] = {}
      /\ UNCHANGED <<req, task, queue, loop, engine, madeFor, unloader>>
  BY DEF StartJob, TypeOK
<1>2. /\ Head(pending[e]) = pending[e][1]
      /\ Len(pending[e]) \in Nat \ {0} /\ DOMAIN pending[e] = 1 .. Len(pending[e])
      /\ DOMAIN pending'[e] = 1 .. Len(pending[e]) - 1
      /\ \A i \in 1 .. Len(pending[e]) - 1 : pending'[e][i] = pending[e][i + 1]
  BY <1>1, TailFacts
<1>3. /\ \E b : /\ active'[e] = {b}
                /\ b.job = pending[e][1] /\ b.ph = "picked"
      /\ \A f \in Engines \ {e} : active'[f] = active[f]
  <2> DEFINE b == [job |-> Head(pending[e]), using |-> NoEngine, set |-> Unset, ph |-> "picked"]
  <2>1. b.job = Head(pending[e]) /\ b.ph = "picked"
    OBVIOUS
  <2>2. active' = [active EXCEPT ![e] = active[e] \cup {b}]
    BY DEF StartJob, TypeOK
  <2> HIDE DEF b
  <2>3. active'[e] = {b} /\ \A f \in Engines \ {e} : active'[f] = active[f]
    BY <1>1, <2>2 DEF TypeOK
  <2>4. QED  BY <1>2, <2>1, <2>3
<1>4. ASSUME NEW i \in DOMAIN pending[e], i # 1
      PROVE  \E k \in DOMAIN pending'[e] : pending'[e][k] = pending[e][i]
  <2>1. i - 1 \in DOMAIN pending'[e] /\ pending'[e][i - 1] = pending[e][i]
    BY <1>2, <1>4
  <2>2. QED  BY <2>1
<1>5. 1 \in DOMAIN pending[e] /\ \A i \in DOMAIN pending'[e] :
        i \in Nat /\ i + 1 \in DOMAIN pending[e] /\ i + 1 # 1
        /\ pending'[e][i] = pending[e][i + 1]
  BY <1>2
<1>6. QED  BY <1>1, <1>3, <1>4, <1>5

(* The thread of a stream finds an engine, or no engine.                   *)
LEMMA ProduceFacts ==
  ASSUME IInv, NEW r \in Streams, Produce(r)
  PROVE  /\ r \in Clients /\ req[r].st = "waiting" /\ r # loop.client /\ ~StreamRuns(r)
         /\ UNCHANGED <<queue, task, active, loop, engine, madeFor, unloader>>
         /\ \A x \in Clients \ {r} : req'[x] = req[x]
         /\ \/ UNCHANGED pending
            \/ /\ UNCHANGED req
               /\ \E e \in Engines, j \in Job :
                    /\ j = [kind |-> "stream", model |-> req[r].model, reqs |-> <<r>>,
                            set |-> req[r].set, live |-> TRUE]
                    /\ pending' = [pending EXCEPT ![e] = Append(pending[e], j)]
<1> DEFINE x == req[r].model
           j == [kind |-> "stream", model |-> x, reqs |-> <<r>>,
                 set |-> req[r].set, live |-> TRUE]
<1>1. r \in Clients /\ req[r].set \in Settings \cup {Unset}
  BY DEF Clients, IInv, TypeOK, ClientRequest
<1>2. x \in Models
  BY <1>1 DEF Produce, IInv, RequestInv
<1>3. j \in Job
  BY <1>1, <1>2 DEF Job
<1>4. /\ req[r].st = "waiting" /\ r # loop.client /\ ~StreamRuns(r)
      /\ UNCHANGED <<queue, task, active, loop, engine, madeFor, unloader>>
  BY DEF Produce
<1>5. CASE engine[x] \in Engines
  <2>1. pending' = [pending EXCEPT ![engine[x]] = Append(pending[engine[x]], j)] /\ UNCHANGED req
    BY <1>5 DEF Produce, IInv, TypeOK
  <2> DEFINE Enters(e, k) == /\ k = j
                             /\ pending' = [pending EXCEPT ![e] = Append(pending[e], k)]
  <2>2. Enters(engine[x], j)
    BY <2>1
  <2>3. \E e \in Engines, k \in Job : Enters(e, k)
    <3> HIDE DEF Enters, j, x
    <3>1. QED  BY <1>3, <1>5, <2>2
  <2>4. QED  BY <1>1, <1>4, <2>1, <2>3
<1>6. CASE engine[x] \notin Engines
  <2>1. req' = [req EXCEPT ![r].st = "error"] /\ UNCHANGED pending
    BY <1>6 DEF Produce
  <2>2. \A y \in Clients \ {r} : req'[y] = req[y]
    BY <2>1 DEF IInv, TypeOK
  <2>3. QED  BY <1>1, <1>4, <2>1, <2>2
<1>7. QED  BY <1>5, <1>6

(* A batch processor that waits has a job.                                 *)
LEMMA StepAwaitInv ==
  ASSUME IInv, [Next]_vars
  PROVE  AwaitInv'
<1> USE DEF IInv
<1> DEFINE Has(m) == \E e \in Engines : \/ \E i \in DOMAIN pending'[e] : WaitsFor(m, pending'[e][i])
                                        \/ \E a \in active'[e] : WaitsFor(m, a.job)
           Stays(m) == \A e \in Engines :
             /\ \A i \in DOMAIN pending[e] : WaitsFor(m, pending[e][i]) =>
                  \/ \E k \in DOMAIN pending'[e] : pending'[e][k] = pending[e][i]
                  \/ \E b \in active'[e] : b.job = pending[e][i]
             /\ \A a \in active[e] : WaitsFor(m, a.job) => \E b \in active'[e] : b.job = a.job
<1> SUFFICES ASSUME NEW m \in Models, task'[m].st = "await" PROVE Has(m)
  BY DEF AwaitInv, WaitsFor
<1>1. ASSUME task[m].st = "await", Stays(m) PROVE Has(m)
  <2>1. CASE \E e \in Engines : \E i \in DOMAIN pending[e] : WaitsFor(m, pending[e][i])
    <3>1. PICK e \in Engines : \E i \in DOMAIN pending[e] : WaitsFor(m, pending[e][i])
      BY <2>1
    <3>2. PICK i \in DOMAIN pending[e] : WaitsFor(m, pending[e][i])
      BY <3>1
    <3>3. \/ \E k \in DOMAIN pending'[e] : pending'[e][k] = pending[e][i]
          \/ \E b \in active'[e] : b.job = pending[e][i]
      BY <1>1, <3>2
    <3>4. QED  BY <3>2, <3>3
  <2>2. CASE \E e \in Engines : \E a \in active[e] : WaitsFor(m, a.job)
    <3>1. PICK e \in Engines : \E a \in active[e] : WaitsFor(m, a.job)
      BY <2>2
    <3>2. PICK a \in active[e] : WaitsFor(m, a.job)
      BY <3>1
    <3>3. \E b \in active'[e] : b.job = a.job
      BY <1>1, <3>2
    <3>4. QED  BY <3>2, <3>3
  <2>3. QED  BY <1>1, <2>1, <2>2 DEF AwaitInv
<1>2. CASE UNCHANGED <<pending, active>> /\ task[m].st = "await"
  <2>1. Stays(m)
    BY <1>2
  <2>2. QED  BY <1>1, <1>2, <2>1
<1>3. ASSUME NEW X \in SUBSET Models, NEW Y \in SUBSET Models, Clears(X, Y) PROVE Has(m)
  <2>1. CancelTasks(X)
    BY <1>3 DEF Clears
  <2>2. task'[m] = IF m \in X THEN NoTask ELSE task[m]
    BY <2>1, CancelFacts
  <2>3. m \notin X /\ task[m].st = "await"
    BY <2>2 DEF NoTask
  <2>4. \A j : WaitsFor(m, j) => ~OwnedBy(j, X)
    BY <2>3 DEF WaitsFor, OwnedBy
  <2>5. \A e \in Engines :
          /\ \A i \in DOMAIN pending[e] : ~OwnedBy(pending[e][i], X) =>
               \E k \in DOMAIN pending'[e] : pending'[e][k] = pending[e][i]
          /\ \A a \in active[e] : ~OwnedBy(a.job, X) => a \in active'[e]
    BY <2>1, CancelFacts
  <2>6. Stays(m)
    BY <2>4, <2>5
  <2>7. QED  BY <1>1, <2>3, <2>6
<1>4. CASE Accepts
  <2>1. task[m].st = "await"
    BY <1>4 DEF Accepts, Idle
  <2>2. QED  BY <1>2, <1>4, <2>1 DEF Accepts
<1>5. CASE LoadFailed \/ Quiet
  BY <1>2, <1>5 DEF LoadFailed, Quiet
<1>6. ASSUME NEW e \in Engines, NEW j \in Job,
             pending' = [pending EXCEPT ![e] = Append(pending[e], j)]
      PROVE  \A f \in Engines : \A i \in DOMAIN pending[f] :
               i \in DOMAIN pending'[f] /\ pending'[f][i] = pending[f][i]
  BY <1>6, AppendJob
<1>7. ASSUME NEW r \in Streams, Produce(r) PROVE Has(m)
  <2>1. UNCHANGED <<task, active>>
    BY <1>7, ProduceFacts
  <2>2. CASE UNCHANGED pending
    BY <1>2, <2>1, <2>2
  <2>3. ASSUME NEW e \in Engines, NEW j \in Job,
               pending' = [pending EXCEPT ![e] = Append(pending[e], j)]
        PROVE  Has(m)
    <3>1. Stays(m)
      BY <1>6, <2>1, <2>3
    <3>2. QED  BY <1>1, <2>1, <3>1
  <2>4. QED  BY <1>7, <2>2, <2>3, ProduceFacts
<1>8. ASSUME NEW x \in Models, Takes(x) PROVE Has(m)
  BY <1>2, <1>8 DEF Takes
<1>9. ASSUME NEW x \in Models, Serves(x) PROVE Has(m)
  <2>1. \A e \in Engines : active'[e] = {a \in active[e] : ~WaitsFor(x, a.job)}
    BY <1>9 DEF Serves
  <2>2. x # m => \A j : WaitsFor(m, j) => ~WaitsFor(x, j)
    BY DEF WaitsFor
  <2>3. CASE NothingLeft(x)
    <3>1. task'[x].st = "idle" /\ \A y \in Models \ {x} : task'[y] = task[y]
      BY <2>3 DEF NothingLeft, Idle, TypeOK
    <3>2. x # m /\ task[m].st = "await"
      BY <3>1
    <3>3. UNCHANGED pending
      BY <2>3 DEF NothingLeft
    <3>4. Stays(m)
      BY <2>1, <2>2, <3>2, <3>3
    <3>5. QED  BY <1>1, <3>2, <3>4
  <2>4. ASSUME NEW todo \in Seq(Requests), NEW j \in Job, NextGroup(x, todo, j) PROVE Has(m)
    <3>1. /\ \A f \in Engines : \A i \in DOMAIN pending[f] :
               i \in DOMAIN pending'[f] /\ pending'[f][i] = pending[f][i]
          /\ engine[x] \in Engines
          /\ \E i \in DOMAIN pending'[engine[x]] : pending'[engine[x]][i] = j
      <4> DEFINE g == engine[x]
      <4>1. g \in Engines /\ pending' = [pending EXCEPT ![g] = Append(pending[g], j)]
        BY <2>4 DEF NextGroup
      <4> HIDE DEF g
      <4>2. /\ \A f \in Engines : \A i \in DOMAIN pending[f] :
                 i \in DOMAIN pending'[f] /\ pending'[f][i] = pending[f][i]
            /\ \E i \in DOMAIN pending'[g] : pending'[g][i] = j
        BY <4>1, AppendJob
      <4>3. QED  BY <4>1, <4>2 DEF g
    <3>2. WaitsFor(x, j)
      BY <2>4 DEF NextGroup, WaitsFor
    <3>3. CASE x = m
      BY <3>1, <3>2, <3>3
    <3>4. CASE x # m
      <4>1. task[m].st = "await"
        BY <2>4, <3>4 DEF NextGroup, TypeOK
      <4>2. Stays(m)
        BY <2>1, <2>2, <3>1, <3>4
      <4>3. QED  BY <1>1, <4>1, <4>2
    <3>5. QED  BY <3>3, <3>4
  <2>5. QED  BY <1>9, <2>3, <2>4 DEF Serves
<1>10. ASSUME NEW e \in Engines, StartJob(e) PROVE Has(m)
  <2>1. Stays(m)
    BY <1>10, StartFacts
  <2>2. QED  BY <1>1, <1>10, <2>1, StartFacts
<1>11. ASSUME NEW e \in Engines, NEW a \in active[e], Runs(e, a)
       PROVE  Has(m)
  <2>1. \A f \in Engines : \A c \in active[f] : \E d \in active'[f] : d.job = c.job
    BY <1>11 DEF Runs
  <2>2. UNCHANGED <<task, pending>>
    BY <1>11 DEF Runs
  <2>3. Stays(m)
    BY <2>1, <2>2
  <2>4. QED  BY <1>1, <2>2, <2>3
<1>12. ASSUME NEW e \in Engines, NEW a \in active[e], Ends(e, a) PROVE Has(m)
  <2>1. /\ UNCHANGED <<task, pending>>
        /\ active' = [active EXCEPT ![e] = active[e] \ {a}]
        /\ ~WaitsFor(m, a.job)
    BY <1>12 DEF Ends, WaitsFor
  <2>2. Stays(m)
    BY <2>1 DEF TypeOK
  <2>3. QED  BY <1>1, <2>1, <2>2
<1>13. ASSUME NEW u \in Unloaders, NEW x \in Models, Drains(u, x) PROVE Has(m)
  BY <1>2, <1>13 DEF Drains
<1>14. QED
  BY <1>3, <1>4, <1>5, <1>7, <1>8, <1>9, <1>10, <1>11, <1>12, <1>13, StepKinds

(* No two live jobs are about the same thing.                              *)
LEMMA StepRivalInv ==
  ASSUME IInv, [Next]_vars
  PROVE  RivalInv'
<1> USE DEF IInv
<1> DEFINE Goal == \A e, f \in Engines :
        /\ \A i \in DOMAIN pending'[e], k \in DOMAIN pending'[f] :
             Rivals(pending'[e][i], pending'[f][k]) => e = f /\ i = k
        /\ \A i \in DOMAIN pending'[e], a \in active'[f] : ~Rivals(pending'[e][i], a.job)
        /\ \A a \in active'[e], b \in active'[f] : Rivals(a.job, b.job) => e = f
<1> SUFFICES Goal
  BY DEF RivalInv, Rivals
<1>1. \A j, k : Rivals(j, k) <=> Rivals(k, j)
  BY DEF Rivals
<1>2. CASE UNCHANGED <<pending, active>>
  BY <1>2 DEF RivalInv
<1>3. ASSUME NEW X, CancelTasks(X) PROVE Goal
  <2> SUFFICES ASSUME NEW e \in Engines, NEW f \in Engines
               PROVE  /\ \A i \in DOMAIN pending'[e], k \in DOMAIN pending'[f] :
                           Rivals(pending'[e][i], pending'[f][k]) => e = f /\ i = k
                      /\ \A i \in DOMAIN pending'[e], a \in active'[f] :
                           ~Rivals(pending'[e][i], a.job)
                      /\ \A a \in active'[e], b \in active'[f] : Rivals(a.job, b.job) => e = f
    OBVIOUS
  <2>1. \A g \in Engines : \E place \in [DOMAIN pending'[g] -> DOMAIN pending[g]] :
          /\ \A i \in DOMAIN pending'[g] : /\ pending'[g][i] = pending[g][place[i]]
                                           /\ ~OwnedBy(pending'[g][i], X)
          /\ \A i, k \in DOMAIN pending'[g] : place[i] = place[k] => i = k
    BY <1>3, CancelFacts
  <2>2. PICK p \in [DOMAIN pending'[e] -> DOMAIN pending[e]] :
          /\ \A i \in DOMAIN pending'[e] : pending'[e][i] = pending[e][p[i]]
          /\ \A i, k \in DOMAIN pending'[e] : p[i] = p[k] => i = k
    BY <2>1
  <2>3. PICK q \in [DOMAIN pending'[f] -> DOMAIN pending[f]] :
          /\ \A i \in DOMAIN pending'[f] : pending'[f][i] = pending[f][q[i]]
          /\ (e = f => q = p)
    BY <2>1, <2>2
  <2>4. \A g \in Engines : \A b \in active'[g] : b.job.live => b \in active[g]
    BY <1>3, CancelActive DEF LeftOf
  <2>5. \A j, k : Rivals(j, k) => j.live /\ k.live
    BY DEF Rivals
  <2>6. \A i \in DOMAIN pending'[e], k \in DOMAIN pending'[f] :
          Rivals(pending'[e][i], pending'[f][k]) => e = f /\ i = k
    BY <2>2, <2>3 DEF RivalInv
  <2>7. \A i \in DOMAIN pending'[e], a \in active'[f] : ~Rivals(pending'[e][i], a.job)
    BY <2>2, <2>4, <2>5 DEF RivalInv
  <2>8. \A a \in active'[e], b \in active'[f] : Rivals(a.job, b.job) => e = f
    BY <2>4, <2>5 DEF RivalInv
  <2>9. QED  BY <2>6, <2>7, <2>8
(* A job that has no rival enters a pool.                                  *)
<1>4. ASSUME NEW g \in Engines, NEW j \in Job,
             pending' = [pending EXCEPT ![g] = Append(pending[g], j)],
             \A e \in Engines : active'[e] \subseteq active[e],
             \A e \in Engines : /\ \A i \in DOMAIN pending[e] : ~Rivals(j, pending[e][i])
                                /\ \A a \in active'[e] : ~Rivals(j, a.job)
      PROVE  Goal
  <2>1. \A f \in Engines : \A i \in DOMAIN pending'[f] :
          \/ i \in DOMAIN pending[f] /\ pending'[f][i] = pending[f][i]
          \/ f = g /\ i = Len(pending[g]) + 1 /\ pending'[f][i] = j
    BY <1>4, AppendJob
  <2>2. \A e, f \in Engines : \A i \in DOMAIN pending'[e], k \in DOMAIN pending'[f] :
          Rivals(pending'[e][i], pending'[f][k]) => e = f /\ i = k
    BY <1>1, <1>4, <2>1 DEF RivalInv
  <2>3. \A e, f \in Engines : \A i \in DOMAIN pending'[e], a \in active'[f] :
          ~Rivals(pending'[e][i], a.job)
    BY <1>4, <2>1 DEF RivalInv
  <2>4. \A e, f \in Engines : \A a \in active'[e], b \in active'[f] :
          Rivals(a.job, b.job) => e = f
    BY <1>4 DEF RivalInv
  <2>5. QED  BY <2>2, <2>3, <2>4
<1>5. ASSUME UNCHANGED pending, \A e \in Engines : active'[e] \subseteq active[e]
      PROVE  Goal
  BY <1>5 DEF RivalInv
<1>6. ASSUME NEW X \in SUBSET Models, NEW Y \in SUBSET Models, Clears(X, Y) PROVE Goal
  BY <1>3, <1>6 DEF Clears
<1>7. CASE Accepts \/ LoadFailed \/ Quiet
  BY <1>2, <1>7 DEF Accepts, LoadFailed, Quiet
<1>8. ASSUME NEW r \in Streams, Produce(r) PROVE Goal
  <2>1. UNCHANGED active
    BY <1>8, ProduceFacts
  <2>2. CASE UNCHANGED pending
    BY <1>2, <2>1, <2>2
  <2>3. ASSUME NEW g \in Engines, NEW j \in Job,
               j = [kind |-> "stream", model |-> req[r].model, reqs |-> <<r>>,
                    set |-> req[r].set, live |-> TRUE],
               pending' = [pending EXCEPT ![g] = Append(pending[g], j)]
        PROVE  Goal
    <3>1. \A k \in Jobs : ~(k.kind = "stream" /\ k.reqs = <<r>>)
      BY <1>8, ProduceFacts DEF StreamRuns
    <3>2. \A e \in Engines : /\ \A i \in DOMAIN pending[e] : pending[e][i] \in Jobs
                             /\ \A a \in active[e] : a.job \in Jobs
      BY DEF Jobs, ToSet
    <3>3. \A k : Rivals(j, k) => k.kind = "stream" /\ k.reqs = <<r>>
      BY <2>3 DEF Rivals
    <3>4. \A e \in Engines : /\ \A i \in DOMAIN pending[e] : ~Rivals(j, pending[e][i])
                             /\ \A a \in active'[e] : ~Rivals(j, a.job)
      BY <2>1, <3>1, <3>2, <3>3
    <3>5. \A e \in Engines : active'[e] \subseteq active[e]
      BY <2>1
    <3> HIDE DEF Goal
    <3>6. QED  BY <1>4, <2>3, <3>4, <3>5
  <2>4. QED  BY <1>8, <2>2, <2>3, ProduceFacts
<1>9. ASSUME NEW x \in Models, Takes(x) PROVE Goal
  BY <1>2, <1>9 DEF Takes
<1>10. ASSUME NEW x \in Models, Serves(x) PROVE Goal
  <2>1. \A e \in Engines :
          /\ active'[e] = {a \in active[e] : ~WaitsFor(x, a.job)}
          /\ \A i \in DOMAIN pending[e] : ~WaitsFor(x, pending[e][i])
    BY <1>10 DEF Serves
  <2>2. CASE NothingLeft(x)
    BY <1>5, <2>1, <2>2 DEF NothingLeft
  <2>3. ASSUME NEW todo \in Seq(Requests), NEW j \in Job, NextGroup(x, todo, j) PROVE Goal
    <3>1. /\ engine[x] \in Engines
          /\ pending' = [pending EXCEPT ![engine[x]] = Append(pending[engine[x]], j)]
          /\ j.kind = "batch" /\ j.model = x
      BY <2>3 DEF NextGroup
    <3>2. \A k : Rivals(j, k) => WaitsFor(x, k)
      BY <3>1 DEF Rivals, WaitsFor
    <3>3. \A e \in Engines : /\ \A i \in DOMAIN pending[e] : ~Rivals(j, pending[e][i])
                             /\ \A a \in active'[e] : ~Rivals(j, a.job)
      BY <2>1, <3>2
    <3>4. \A e \in Engines : active'[e] \subseteq active[e]
      BY <2>1
    <3> DEFINE g == engine[x]
    <3>5. g \in Engines /\ pending' = [pending EXCEPT ![g] = Append(pending[g], j)]
      BY <3>1
    <3> HIDE DEF Goal, g
    <3>6. QED  BY <1>4, <3>3, <3>4, <3>5
  <2>4. QED  BY <1>10, <2>2, <2>3 DEF Serves
<1>11. ASSUME NEW g \in Engines, StartJob(g) PROVE Goal
  <2>1. PICK c : active'[g] = {c} /\ c.job = pending[g][1]
    BY <1>11, StartFacts
  <2>2. /\ 1 \in DOMAIN pending[g]
        /\ \A i \in DOMAIN pending'[g] :
             i \in Nat /\ i + 1 \in DOMAIN pending[g] /\ i + 1 # 1
             /\ pending'[g][i] = pending[g][i + 1]
        /\ active[g] = {}
        /\ \A f \in Engines \ {g} : pending'[f] = pending[f] /\ active'[f] = active[f]
    BY <1>11, StartFacts
  <2>3. \A e, f \in Engines : \A i \in DOMAIN pending'[e], k \in DOMAIN pending'[f] :
          Rivals(pending'[e][i], pending'[f][k]) => e = f /\ i = k
    <3> SUFFICES ASSUME NEW e \in Engines, NEW f \in Engines,
                        NEW i \in DOMAIN pending'[e], NEW k \in DOMAIN pending'[f],
                        Rivals(pending'[e][i], pending'[f][k])
                 PROVE  e = f /\ i = k
      OBVIOUS
    <3>1. CASE e = g /\ f = g
      BY <2>2, <3>1 DEF RivalInv
    <3>2. CASE e = g /\ f # g
      BY <2>2, <3>2 DEF RivalInv
    <3>3. CASE e # g /\ f = g
      BY <2>2, <3>3 DEF RivalInv
    <3>4. CASE e # g /\ f # g
      BY <2>2, <3>4 DEF RivalInv
    <3>5. QED  BY <3>1, <3>2, <3>3, <3>4
  <2>4. \A e, f \in Engines : \A i \in DOMAIN pending'[e], a \in active'[f] :
          ~Rivals(pending'[e][i], a.job)
    <3> SUFFICES ASSUME NEW e \in Engines, NEW f \in Engines,
                        NEW i \in DOMAIN pending'[e], NEW a \in active'[f],
                        Rivals(pending'[e][i], a.job)
                 PROVE  FALSE
      OBVIOUS
    <3>1. CASE e = g /\ f = g
      BY <2>1, <2>2, <3>1 DEF RivalInv
    <3>2. CASE e = g /\ f # g
      BY <2>2, <3>2 DEF RivalInv
    <3>3. CASE e # g /\ f = g
      BY <2>1, <2>2, <3>3 DEF RivalInv
    <3>4. CASE e # g /\ f # g
      BY <2>2, <3>4 DEF RivalInv
    <3>5. QED  BY <3>1, <3>2, <3>3, <3>4
  <2>5. \A e, f \in Engines : \A a \in active'[e], b \in active'[f] :
          Rivals(a.job, b.job) => e = f
    <3> SUFFICES ASSUME NEW e \in Engines, NEW f \in Engines, e # f,
                        NEW a \in active'[e], NEW b \in active'[f]
                 PROVE  ~Rivals(a.job, b.job)
      OBVIOUS
    <3>1. CASE e = g
      BY <2>1, <2>2, <3>1 DEF RivalInv
    <3>2. CASE f = g
      BY <1>1, <2>1, <2>2, <3>2 DEF RivalInv
    <3>3. CASE e # g /\ f # g
      BY <2>2, <3>3 DEF RivalInv
    <3>4. QED  BY <3>1, <3>2, <3>3
  <2>6. QED  BY <2>3, <2>4, <2>5
<1>12. ASSUME NEW g \in Engines, NEW a \in active[g], Runs(g, a)
       PROVE  Goal
  <2>1. UNCHANGED pending
    BY <1>12 DEF Runs
  <2>2. \A f \in Engines : \A b \in active'[f] : \E c \in active[f] : b.job = c.job
    BY <1>12 DEF Runs
  <2>3. QED  BY <2>1, <2>2 DEF RivalInv
<1>13. ASSUME NEW g \in Engines, NEW a \in active[g], Ends(g, a) PROVE Goal
  <2>1. UNCHANGED pending /\ active' = [active EXCEPT ![g] = active[g] \ {a}]
    BY <1>13 DEF Ends
  <2>2. \A f \in Engines : active'[f] \subseteq active[f]
    BY <2>1 DEF TypeOK
  <2>3. QED  BY <1>5, <2>1, <2>2
<1>14. ASSUME NEW u \in Unloaders, NEW x \in Models, Drains(u, x) PROVE Goal
  BY <1>2, <1>14 DEF Drains
<1>15. QED
  BY <1>6, <1>7, <1>8, <1>9, <1>10, <1>11, <1>12, <1>13, <1>14, StepKinds

(* A job stays what it was as long as its batch processor waits for it, or *)
(* its stream's client waits.                                              *)
LEMMA JobStays ==
  ASSUME NEW j, NEW t, NEW f, NEW c, NEW t2, NEW f2, NEW c2, JobFits(j, t, f, c),
         j.kind = "batch" /\ j.live =>
           /\ t2[j.model] = t[j.model] /\ t[j.model].todo \in Seq(Requests)
           /\ t[j.model].todo # <<>>
           /\ \A r \in ToSet(t[j.model].todo) : f2[r].set = f[r].set,
         j.kind # "batch" => \A r \in Streams : j.reqs = <<r>> => f2[r] = f[r] /\ r # c2
  PROVE  JobFits(j, t2, f2, c2)
<1>1. CASE j.kind # "batch"
  BY <1>1 DEF JobFits, StreamFits
<1>2. CASE j.kind = "batch" /\ ~j.live
  BY <1>2 DEF JobFits, BatchFits
<1>3. CASE j.kind = "batch" /\ j.live
  <2> DEFINE todo == t[j.model].todo
             S == {r \in Requests : f[r].set = f[Head(todo)].set}
             R == {r \in Requests : f2[r].set = f2[Head(todo)].set}
  <2>1. todo \in Seq(Requests) /\ todo # <<>> /\ \A r \in ToSet(todo) : f2[r].set = f[r].set
    BY <1>3
  <2>2. /\ \A r \in ToSet(j.reqs) : r \in Requests /\ j.set = f[r].set
        /\ t[j.model].st = "await" /\ j.reqs = GroupIn(f, todo)
    BY <1>3 DEF JobFits, BatchFits
  <2>3. t2[j.model] = t[j.model]
    BY <1>3
  <2> HIDE DEF todo
  <2>4. Head(todo) \in ToSet(todo) /\ ToSet(todo) \subseteq Requests
    BY <2>1 DEF ToSet
  <2>5. \A r \in ToSet(todo) : r \in S <=> r \in R
    BY <2>1, <2>4
  <2> HIDE DEF S, R
  <2>6. Kept(todo, S) = Kept(todo, R)
    BY <2>1, <2>5, KeptAgree
  <2>7. ToSet(Kept(todo, S)) = ToSet(todo) \cap S
    BY <2>1, KeptElements
  <2>8. j.reqs = GroupIn(f2, todo) /\ ToSet(j.reqs) \subseteq ToSet(todo)
    BY <2>2, <2>6, <2>7 DEF GroupIn, S, R
  <2>9. BatchFits(j, t2, f2)
    BY <2>1, <2>2, <2>3, <2>8 DEF BatchFits, todo
  <2>10. QED  BY <1>3, <2>9 DEF JobFits
<1>4. QED  BY <1>1, <1>2, <1>3

(* Live jobs are what somebody waits for.                                  *)
LEMMA StepJobInv ==
  ASSUME IInv, [Next]_vars
  PROVE  JobInv'
<1> USE DEF IInv
<1> DEFINE c2 == loop'.client
           Fits(j) == JobFits(j, task, req, loop.client)
           FitsNow(j) == JobFits(j, task', req', c2)
           Goal == \A e \in Engines : /\ \A i \in DOMAIN pending'[e] : FitsNow(pending'[e][i])
                                      /\ \A a \in active'[e] : FitsNow(a.job)
           Calm(j) ==
             /\ j.kind = "batch" /\ j.live =>
                  /\ task'[j.model] = task[j.model]
                  /\ \A r \in ToSet(task[j.model].batch) : req'[r].set = req[r].set
             /\ j.kind # "batch" => \A r \in Streams : /\ j.reqs = <<r>>
                                                       /\ req[r].st = "waiting"
                                                       /\ r # loop.client
                                                       => req'[r] = req[r] /\ r # c2
<1> SUFFICES Goal
  BY DEF JobInv, JobOK
<1>1. /\ \A e \in Engines : \A i \in DOMAIN pending[e] : pending[e][i] \in Job /\ Fits(pending[e][i])
      /\ \A e \in Engines : \A a \in active[e] : a.job \in Job /\ Fits(a.job)
  BY DEF JobInv, JobOK, TypeOK, ActiveJob
<1>2. ASSUME NEW j \in Job, Fits(j), Calm(j) PROVE FitsNow(j)
  <2>1. CASE j.kind = "batch" /\ j.live
    <3>1. j.model \in Models /\ task[j.model].st = "await"
      BY <1>2, <2>1 DEF Job, JobFits, BatchFits
    <3>2. task[j.model] \in Task
      BY <3>1 DEF TypeOK
    <3>3. /\ task[j.model].todo \in Seq(Requests) /\ task[j.model].todo # <<>>
          /\ ToSet(task[j.model].todo) \subseteq ToSet(task[j.model].batch)
      BY <3>1, <3>2 DEF Task, TaskInv
    <3>4. QED  BY <1>2, <2>1, <3>3, JobStays
  <2>2. CASE j.kind = "batch" /\ ~j.live
    BY <1>2, <2>2 DEF JobFits, BatchFits
  <2>3. CASE j.kind # "batch"
    <3>1. PICK r \in Streams : /\ j.reqs = <<r>> /\ j.live
                               /\ req[r].st = "waiting" /\ req[r].model = j.model
                               /\ r # loop.client /\ j.set = req[r].set
      BY <1>2, <2>3 DEF JobFits, StreamFits
    <3>2. req'[r] = req[r] /\ r # c2
      BY <1>2, <2>3, <3>1
    <3>3. QED  BY <2>3, <3>1, <3>2 DEF JobFits, StreamFits
  <2>4. QED  BY <2>1, <2>2, <2>3
<1> HIDE DEF FitsNow, Fits, Calm, c2
<1>3. ASSUME \A e \in Engines : \A i \in DOMAIN pending'[e] :
               \E k \in DOMAIN pending[e] : pending'[e][i] = pending[e][k],
             \A e \in Engines : \A b \in active'[e] :
               \/ \E a \in active[e] : b.job = a.job
               \/ \E k \in DOMAIN pending[e] : b.job = pending[e][k],
             \A e \in Engines : /\ \A i \in DOMAIN pending[e] : Calm(pending[e][i])
                                /\ \A a \in active[e] : Calm(a.job)
      PROVE  Goal
  BY <1>1, <1>2, <1>3
<1>4. ASSUME UNCHANGED <<pending, active>>,
             \A j \in Job : Fits(j) => Calm(j)
      PROVE  Goal
  BY <1>1, <1>2, <1>4
<1>5. ASSUME UNCHANGED <<task, req, loop>> PROVE \A j : Calm(j)
  BY <1>5 DEF Calm, c2
<1>6. \A j \in Job : Fits(j) /\ j.live /\ j.kind = "batch" =>
        j.model \in Models /\ task[j.model].st = "await"
  BY DEF Job, Fits, JobFits, BatchFits
<1>7. ASSUME NEW X \in SUBSET Models, NEW Y \in SUBSET Models, Clears(X, Y) PROVE Goal
  <2>1. /\ CancelTasks(X)
        /\ \A r \in Clients : req[r].st # "new" => req'[r] = Failed(req, Drained(Y))[r]
        /\ c2 \in Clients => c2 = loop.client \/ req[c2].st = "new"
    BY <1>7 DEF Clears, c2
  <2>2. \A r \in Clients : req[r].st # "new" =>
          /\ req'[r].set = req[r].set
          /\ r \in Streams => req'[r] = req[r]
    BY <2>1, DrainFacts
  <2>3. \A m \in Models \ X : task'[m] = task[m]
    BY <2>1, CancelFacts
  <2>4. ASSUME NEW j \in Job, Fits(j), ~OwnedBy(j, X) PROVE Calm(j)
    <3>1. CASE j.kind = "batch" /\ j.live
      <4>1. j.model \in Models \ X
        BY <1>6, <2>4, <3>1 DEF OwnedBy
      <4>2. \A r \in ToSet(task[j.model].batch) : r \in Clients /\ req[r].st # "new"
        BY <4>1, InBatch
      <4>3. QED  BY <2>2, <2>3, <3>1, <4>1, <4>2 DEF Calm
    <3>2. CASE ~(j.kind = "batch" /\ j.live)
      BY <2>1, <2>2, <3>2 DEF Calm, Clients
    <3>3. QED  BY <3>1, <3>2
  <2>5. \A e \in Engines : \A i \in DOMAIN pending'[e] :
          /\ ~OwnedBy(pending'[e][i], X)
          /\ \E k \in DOMAIN pending[e] : pending'[e][i] = pending[e][k]
    <3> SUFFICES ASSUME NEW e \in Engines
                 PROVE  \A i \in DOMAIN pending'[e] :
                          /\ ~OwnedBy(pending'[e][i], X)
                          /\ \E k \in DOMAIN pending[e] : pending'[e][i] = pending[e][k]
      OBVIOUS
    <3>1. \E p \in [DOMAIN pending'[e] -> DOMAIN pending[e]] :
                   /\ \A i \in DOMAIN pending'[e] :
                        /\ pending'[e][i] = pending[e][p[i]]
                        /\ ~OwnedBy(pending'[e][i], X)
                   /\ \A i, k \in DOMAIN pending'[e] : p[i] = p[k] => i = k
      BY <2>1, CancelFacts
    <3>2. QED  BY <3>1
  <2>6. \A e \in Engines : \A i \in DOMAIN pending'[e] : FitsNow(pending'[e][i])
    BY <1>1, <1>2, <2>4, <2>5
  <2>7. ASSUME NEW e \in Engines, NEW b \in active'[e] PROVE FitsNow(b.job)
    <3>1. PICK a \in active[e] : LeftOf(b, a, X)
      BY <2>1, CancelActive
    <3>2. CASE b = a
      BY <1>1, <1>2, <2>4, <3>1, <3>2 DEF LeftOf
    <3>3. CASE b # a
      <4>1. /\ ~b.job.live /\ b.job.kind = a.job.kind /\ a.job.kind # "stream"
            /\ b.job.reqs = a.job.reqs
        BY <3>1, <3>3 DEF LeftOf
      <4>2. a.job \in Job /\ Fits(a.job) /\ a.job.kind = "batch"
        BY <1>1, <4>1 DEF Job
      <4>3. \A r \in ToSet(a.job.reqs) : r \in Requests
        BY <4>2 DEF Fits, JobFits, BatchFits
      <4>4. QED  BY <4>1, <4>2, <4>3 DEF FitsNow, JobFits, BatchFits
    <3>4. QED  BY <3>2, <3>3
  <2>8. QED  BY <2>6, <2>7
<1>8. CASE Accepts
  <2>1. \A j \in Job : Fits(j) => Calm(j)
    <3> SUFFICES ASSUME NEW j \in Job, Fits(j) PROVE Calm(j)
      OBVIOUS
    <3>1. UNCHANGED req /\ c2 = "nobody"
      BY <1>8 DEF Accepts, FreeLoop, c2
    <3>2. \A m \in Models : task[m].st = "await" => task'[m] = task[m]
      BY <1>8 DEF Accepts
    <3>3. QED  BY <1>6, <3>1, <3>2, ServerAssumption DEF Calm
  <2>2. QED  BY <1>4, <1>8, <2>1 DEF Accepts
<1>9. CASE LoadFailed
  <2>1. \A j \in Job : Fits(j) => Calm(j)
    <3> SUFFICES ASSUME NEW j \in Job, Fits(j) PROVE Calm(j)
      OBVIOUS
    <3>1. /\ UNCHANGED task /\ c2 = "nobody"
          /\ \A r \in Clients \ {loop.client} : req'[r] = req[r]
      BY <1>9 DEF LoadFailed, FreeLoop, c2
    <3>2. \A m \in Models : \A r \in ToSet(task[m].batch) : r \in Clients /\ r # loop.client
      BY InBatch
    <3>3. QED  BY <1>6, <3>1, <3>2, ServerAssumption DEF Calm, Clients
  <2>2. QED  BY <1>4, <1>9, <2>1 DEF LoadFailed
<1>10. CASE Quiet
  <2>1. \A j : Calm(j)
    BY <1>10 DEF Quiet, Calm, c2
  <2>2. QED  BY <1>4, <1>10, <2>1 DEF Quiet
<1>11. ASSUME NEW r \in Streams, Produce(r) PROVE Goal
  <2>1. /\ r \in Clients /\ req[r].st = "waiting" /\ r # loop.client
        /\ UNCHANGED <<task, active, loop>> /\ ~StreamRuns(r)
        /\ \A x \in Clients \ {r} : req'[x] = req[x]
    BY <1>11, ProduceFacts
  <2>2. \A k \in Jobs : ~(k.kind = "stream" /\ k.reqs = <<r>>)
    BY <2>1 DEF StreamRuns
  <2>3. \A e \in Engines : /\ \A i \in DOMAIN pending[e] : pending[e][i] \in Jobs
                           /\ \A a \in active[e] : a.job \in Jobs
    BY DEF Jobs, ToSet
  <2>4. ASSUME NEW j \in Job, j \in Jobs, Fits(j) PROVE FitsNow(j)
    <3>1. c2 = loop.client
      BY <2>1 DEF c2
    <3>2. CASE j.kind = "batch" /\ j.live
      <4>1. j.model \in Models
        BY <1>6, <2>4, <3>2
      <4>2. \A x \in ToSet(task[j.model].batch) : req'[x] = req[x]
        BY <2>1, <4>1, InBatch
      <4>3. Calm(j)
        BY <2>1, <3>2, <4>2 DEF Calm
      <4>4. QED  BY <1>2, <2>4, <4>3
    <3>3. CASE j.kind = "batch" /\ ~j.live
      BY <1>2, <2>4, <3>3 DEF Calm
    <3>4. CASE j.kind # "batch"
      <4>1. j.reqs # <<r>>
        BY <2>2, <2>4, <3>4 DEF Job
      <4>2. Calm(j)
        BY <2>1, <3>1, <3>4, <4>1 DEF Calm, Clients
      <4>3. QED  BY <1>2, <2>4, <4>2
    <3>5. QED  BY <3>2, <3>3, <3>4
  <2>5. \A e \in Engines : \A a \in active'[e] : FitsNow(a.job)
    BY <1>1, <2>1, <2>3, <2>4
  <2>6. \A e \in Engines : \A i \in DOMAIN pending[e] : FitsNow(pending[e][i])
    BY <1>1, <2>3, <2>4
  <2>7. CASE UNCHANGED pending
    BY <2>5, <2>6, <2>7
  <2>8. ASSUME UNCHANGED req, NEW g \in Engines, NEW j \in Job,
               j = [kind |-> "stream", model |-> req[r].model, reqs |-> <<r>>,
                    set |-> req[r].set, live |-> TRUE],
               pending' = [pending EXCEPT ![g] = Append(pending[g], j)]
        PROVE  Goal
    <3>1. FitsNow(j)
      BY <2>1, <2>8 DEF FitsNow, JobFits, StreamFits, c2
    <3>2. \A f \in Engines : \A i \in DOMAIN pending'[f] :
              \/ i \in DOMAIN pending[f] /\ pending'[f][i] = pending[f][i]
              \/ f = g /\ i = Len(pending[g]) + 1 /\ pending'[f][i] = j
      BY <2>8, AppendJob
    <3>3. QED  BY <2>5, <2>6, <3>1, <3>2
  <2>9. QED  BY <1>11, <2>7, <2>8, ProduceFacts
<1>12. ASSUME NEW x \in Models, Takes(x) PROVE Goal
  <2>1. \A j \in Job : Fits(j) => Calm(j)
    <3> SUFFICES ASSUME NEW j \in Job, Fits(j) PROVE Calm(j)
      OBVIOUS
    <3>1. /\ UNCHANGED <<req, loop>> /\ task[x].st \in {"idle", "collect"}
          /\ \A m \in Models \ {x} : task'[m] = task[m]
      BY <1>12 DEF Takes
    <3>2. QED  BY <1>6, <3>1 DEF Calm, c2
  <2>2. QED  BY <1>4, <1>12, <2>1 DEF Takes
<1>13. ASSUME NEW x \in Models, Serves(x) PROVE Goal
  <2>1. /\ UNCHANGED loop
        /\ \A r \in Clients \ ToSet(task[x].batch) : req'[r] = req[r]
        /\ \A e \in Engines : /\ active'[e] = {a \in active[e] : ~WaitsFor(x, a.job)}
                              /\ \A i \in DOMAIN pending[e] : ~WaitsFor(x, pending[e][i])
    BY <1>13 DEF Serves
  <2>2. \A m \in Models \ {x} : task'[m] = task[m]
    <3>1. CASE NothingLeft(x)
      BY <3>1 DEF NothingLeft, TypeOK
    <3>2. ASSUME NEW todo \in Seq(Requests), NEW j \in Job, NextGroup(x, todo, j)
          PROVE  \A m \in Models \ {x} : task'[m] = task[m]
      BY <3>2 DEF NextGroup, TypeOK
    <3>3. QED  BY <1>13, <3>1, <3>2 DEF Serves
  <2>3. ASSUME NEW j \in Job, Fits(j), ~WaitsFor(x, j) PROVE FitsNow(j)
    <3>1. CASE j.kind = "batch" /\ j.live
      <4>1. j.model \in Models \ {x}
        BY <1>6, <2>3, <3>1 DEF WaitsFor
      <4>2. \A r \in ToSet(task[j.model].batch) : r \in Clients \ ToSet(task[x].batch)
        BY <4>1, InBatch
      <4>3. Calm(j)
        BY <2>1, <2>2, <3>1, <4>1, <4>2 DEF Calm
      <4>4. QED  BY <1>2, <2>3, <4>3
    <3>2. CASE ~(j.kind = "batch" /\ j.live)
      <4>1. \A r \in Streams : r \in Clients \ ToSet(task[x].batch)
        BY InBatch DEF Clients
      <4>2. Calm(j)
        BY <2>1, <3>2, <4>1 DEF Calm, c2
      <4>3. QED  BY <1>2, <2>3, <4>2
    <3>3. QED  BY <3>1, <3>2
  <2>4. \A e \in Engines : \A a \in active'[e] : FitsNow(a.job)
    BY <1>1, <2>1, <2>3
  <2>5. \A e \in Engines : \A i \in DOMAIN pending[e] : FitsNow(pending[e][i])
    BY <1>1, <2>1, <2>3
  <2>6. CASE NothingLeft(x)
    BY <2>4, <2>5, <2>6 DEF NothingLeft
  <2>7. ASSUME NEW todo \in Seq(Requests), NEW j \in Job, NextGroup(x, todo, j) PROVE Goal
    <3> DEFINE g == engine[x]
    <3>1. /\ g \in Engines /\ pending' = [pending EXCEPT ![g] = Append(pending[g], j)]
          /\ todo # <<>>
          /\ j = [kind |-> "batch", model |-> x, reqs |-> Group(todo),
                  set |-> req[Head(todo)].set, live |-> TRUE]
          /\ \A r \in ToSet(todo) : req'[r] = req[r]
      BY <2>7 DEF NextGroup
    <3>2. task'[x].st = "await" /\ task'[x].todo = todo
      BY <2>7 DEF NextGroup, TypeOK
    <3> HIDE DEF g
    <3>3. /\ \A r \in ToSet(Group(todo)) : r \in ToSet(todo) /\ req[r].set = req[Head(todo)].set
          /\ Head(todo) \in ToSet(todo) /\ ToSet(todo) \subseteq Requests
      <4>1. /\ ToSet(Group(todo)) \cup ToSet(Rest(todo)) = ToSet(todo)
            /\ Head(todo) \in ToSet(Group(todo))
            /\ \A r \in ToSet(Group(todo)) : req[r].set = req[Head(todo)].set
        BY <3>1, GroupFacts
      <4>2. ToSet(todo) \subseteq Requests
        BY DEF ToSet
      <4>3. QED  BY <4>1, <4>2
    <3>4. Group(todo) = GroupIn(req', todo)
      <4> DEFINE S == {r \in Requests : req[r].set = req[Head(todo)].set}
                 R == {r \in Requests : req'[r].set = req'[Head(todo)].set}
      <4>1. \A r \in ToSet(todo) : r \in S <=> r \in R
        BY <3>1, <3>3
      <4>2. Group(todo) = Kept(todo, S) /\ GroupIn(req', todo) = Kept(todo, R)
        BY DEF Group, SameGroup, GroupIn
      <4> HIDE DEF S, R
      <4>3. QED  BY <4>1, <4>2, KeptAgree
    <3>5. FitsNow(j)
      <4>1. j.kind = "batch" /\ j.model = x /\ j.reqs = Group(todo) /\ j.set = req[Head(todo)].set
        BY <3>1
      <4>2. \A r \in ToSet(j.reqs) : r \in Requests /\ j.set = req'[r].set
        BY <3>1, <3>3, <4>1
      <4>3. QED  BY <3>2, <3>4, <4>1, <4>2 DEF FitsNow, JobFits, BatchFits
    <3>6. \A f \in Engines : \A i \in DOMAIN pending'[f] :
              \/ i \in DOMAIN pending[f] /\ pending'[f][i] = pending[f][i]
              \/ f = g /\ i = Len(pending[g]) + 1 /\ pending'[f][i] = j
      BY <3>1, AppendJob
    <3>7. QED  BY <2>4, <2>5, <3>5, <3>6
  <2>8. QED  BY <1>13, <2>6, <2>7 DEF Serves
<1>14. ASSUME NEW e \in Engines, StartJob(e) PROVE Goal
  <2>1. \A j : Calm(j)
    BY <1>5, <1>14, StartFacts
  <2>2. /\ \A f \in Engines : \A i \in DOMAIN pending'[f] :
             \E k \in DOMAIN pending[f] : pending'[f][i] = pending[f][k]
        /\ \A f \in Engines : \A b \in active'[f] :
             \/ \E a \in active[f] : b.job = a.job
             \/ \E k \in DOMAIN pending[f] : b.job = pending[f][k]
    BY <1>14, StartFacts
  <2>3. QED  BY <1>3, <2>1, <2>2
<1>15. ASSUME NEW e \in Engines, NEW a \in active[e], Runs(e, a)
       PROVE  Goal
  <2>1. \A j : Calm(j)
    BY <1>5, <1>15 DEF Runs
  <2>2. /\ UNCHANGED pending
        /\ \A f \in Engines : \A b \in active'[f] : \E c \in active[f] : b.job = c.job
    BY <1>15 DEF Runs
  <2>3. QED  BY <1>3, <2>1, <2>2
<1>16. ASSUME NEW e \in Engines, NEW a \in active[e], Ends(e, a) PROVE Goal
  <2>1. /\ UNCHANGED <<task, pending, loop>>
        /\ active' = [active EXCEPT ![e] = active[e] \ {a}]
        /\ ~a.job.live \/ a.job.kind = "stream"
        /\ \A r \in Clients : req'[r] # req[r] => r \in Streams /\ a.job.live /\ a.job.reqs = <<r>>
    BY <1>16 DEF Ends
  <2>2. active'[e] = active[e] \ {a} /\ \A f \in Engines \ {e} : active'[f] = active[f]
    BY <2>1 DEF TypeOK
  <2>3. ASSUME NEW j \in Job, Fits(j), ~Rivals(j, a.job) PROVE FitsNow(j)
    <3>1. CASE j.kind = "batch" /\ j.live
      <4>1. j.model \in Models
        BY <1>6, <2>3, <3>1
      <4>2. \A x \in ToSet(task[j.model].batch) : req'[x] = req[x]
        BY <2>1, <4>1, InBatch
      <4>3. Calm(j)
        BY <2>1, <3>1, <4>2 DEF Calm
      <4>4. QED  BY <1>2, <2>3, <4>3
    <3>2. CASE j.kind = "batch" /\ ~j.live
      BY <1>2, <2>3, <3>2 DEF Calm
    <3>3. CASE j.kind # "batch"
      <4>1. j.live /\ j.kind = "stream"
        BY <2>3, <3>3 DEF Fits, JobFits, StreamFits, Job
      <4>2. \A r \in Streams : j.reqs = <<r>> => req'[r] = req[r]
        BY <2>1, <2>3, <4>1 DEF Rivals, Clients
      <4>3. Calm(j)
        BY <2>1, <3>3, <4>2 DEF Calm, c2
      <4>4. QED  BY <1>2, <2>3, <4>3
    <3>4. QED  BY <3>1, <3>2, <3>3
  <2>4. \A f \in Engines : /\ \A i \in DOMAIN pending[f] : ~Rivals(pending[f][i], a.job)
                           /\ \A b \in active'[f] : b \in active[f] /\ ~Rivals(b.job, a.job)
    BY <2>2 DEF RivalInv, ActiveInv
  <2>5. QED  BY <1>1, <2>1, <2>3, <2>4
<1>17. ASSUME NEW u \in Unloaders, NEW x \in Models, Drains(u, x) PROVE Goal
  <2>1. /\ UNCHANGED <<task, pending, active, loop>>
        /\ \A r \in Clients : req'[r] = Failed(req, Drained({x}))[r]
    BY <1>17 DEF Drains
  <2>2. {x} \in SUBSET Models
    OBVIOUS
  <2>3. \A r \in Clients : req[r].st # "new" =>
          /\ req'[r].set = req[r].set
          /\ r \in Streams => req'[r] = req[r]
    BY <2>1, <2>2, DrainFacts
  <2>4. ASSUME NEW j \in Job, Fits(j) PROVE Calm(j)
    <3>1. CASE j.kind = "batch" /\ j.live
      <4>1. \A r \in ToSet(task[j.model].batch) : r \in Clients /\ req[r].st # "new"
        BY <1>6, <2>4, <3>1, InBatch
      <4>2. QED  BY <2>1, <2>3, <3>1, <4>1 DEF Calm
    <3>2. CASE ~(j.kind = "batch" /\ j.live)
      BY <2>1, <2>3, <3>2 DEF Calm, Clients, c2
    <3>3. QED  BY <3>1, <3>2
  <2>5. QED  BY <1>4, <2>1, <2>4
<1>18. QED
  BY <1>7, <1>8, <1>9, <1>10, <1>11, <1>12, <1>13, <1>14, <1>15, <1>16, <1>17, StepKinds

------------------------------------------------------------------------------
(* A queue keeps a batch processor, or an unload thread about to drain it. *)
LEMMA StepProcessorInv ==
  ASSUME IInv, [Next]_vars
  PROVE  ProcessorInv'
<1> USE DEF IInv
<1> SUFFICES ASSUME NEW m \in Models, queue'[m] # <<>>
             PROVE  \/ task'[m].st # "none"
                    \/ \E u \in Unloaders : At(u, "cancelled")' /\ unloader'[u].model = m
  BY DEF ProcessorInv
<1> DEFINE Goal == \/ task'[m].st # "none"
                   \/ \E u \in Unloaders : At(u, "cancelled")' /\ unloader'[u].model = m
<1>1. ASSUME queue'[m] = queue[m], task'[m] = task[m],
             \A u \in Unloaders : At(u, "cancelled") /\ unloader[u].model = m =>
                                    unloader'[u] = unloader[u]
      PROVE  Goal
  BY <1>1 DEF ProcessorInv, At
<1>2. CASE UNCHANGED <<queue, task, unloader>>
  BY <1>1, <1>2
<1>3. CASE HandlerStep
  <2>1. PICK X \in SUBSET Models : Evicts(X)
    BY <1>3, HandlerFacts
  <2>2. m \notin X /\ queue'[m] = queue[m] /\ UNCHANGED unloader
    BY <2>1 DEF Evicts
  <2>3. task'[m] = task[m]
    BY <2>1, <2>2, CancelFacts DEF Evicts
  <2>4. QED  BY <1>1, <2>2, <2>3
<1>4. ASSUME NEW u \in Unloaders, UnloadCancel(u) PROVE Goal
  <2>1. PICK x \in Models :
          /\ CancelTasks({x})
          /\ unloader' = [unloader EXCEPT ![u] = [pc |-> "cancelled", model |-> x]]
    BY <1>4 DEF UnloadCancel
  <2>2. At(u, "start") /\ queue'[m] = queue[m]
    BY <1>4 DEF UnloadCancel
  <2>3. CASE m = x
    <3>1. unloader'[u] = [pc |-> "cancelled", model |-> m]
      BY <2>1, <2>3 DEF TypeOK
    <3>2. QED  BY <3>1 DEF At
  <2>4. CASE m # x
    <3>1. task'[m] = task[m]
      BY <2>1, <2>4, CancelFacts
    <3>2. \A w \in Unloaders : At(w, "cancelled") => unloader'[w] = unloader[w]
      BY <2>1, <2>2 DEF At, TypeOK
    <3>3. QED  BY <1>1, <2>2, <3>1, <3>2
  <2>5. QED  BY <2>3, <2>4
<1>5. CASE AcceptLoaded \/ SetLoaded
  <2>1. Accepts
    BY <1>5, AcceptFacts
  <2>2. CASE task[m].st = "none" /\ (loop.client \notin Requests \/ m # loop.model)
    <3>1. queue'[m] = queue[m] /\ UNCHANGED unloader
      BY <2>1, <2>2 DEF Accepts, TypeOK
    <3>2. QED  BY <2>2, <3>1 DEF ProcessorInv, At
  <2>3. CASE task[m].st # "none" \/ (loop.client \in Requests /\ m = loop.model)
    BY <2>1, <2>3 DEF Accepts
  <2>4. QED  BY <2>2, <2>3
<1>6. CASE LoadEngine \/ LoadFails
  BY <1>2, <1>6 DEF LoadEngine, LoadFails
<1>7. ASSUME NEW r \in Streams, Produce(r) PROVE Goal
  BY <1>2, <1>7 DEF Produce
<1>8. ASSUME NEW x \in Models, Takes(x) PROVE Goal
  <2>1. CASE x = m
    BY <1>8, <2>1 DEF Takes
  <2>2. CASE x # m
    BY <1>1, <1>8, <2>2 DEF Takes, TypeOK
  <2>3. QED  BY <2>1, <2>2
<1>9. ASSUME NEW x \in Models, Serves(x) PROVE Goal
  <2>1. UNCHANGED <<queue, unloader>>
    BY <1>9 DEF Serves
  <2>2. \A y \in Models : task'[y] = task[y] \/ task'[y].st # "none"
    <3>1. CASE NothingLeft(x)
      BY <3>1 DEF NothingLeft, Idle, TypeOK
    <3>2. ASSUME NEW todo \in Seq(Requests), NEW j \in Job, NextGroup(x, todo, j)
          PROVE  \A y \in Models : task'[y] = task[y] \/ task'[y].st # "none"
      <4> DEFINE t == [st |-> "await", batch |-> task[x].batch, todo |-> todo]
      <4>1. task' = [task EXCEPT ![x] = t] /\ t.st = "await"
        BY <3>2 DEF NextGroup
      <4> HIDE DEF t
      <4>2. QED  BY <4>1 DEF TypeOK
    <3>3. QED  BY <1>9, <3>1, <3>2 DEF Serves
  <2>3. QED  BY <1>1, <2>1, <2>2
<1>10. ASSUME NEW e \in Engines, PoolStep(e) PROVE Goal
  <2>1. CASE StartJob(e) \/ RunJob(e) \/ NextBatch(e)
    BY <1>2, <2>1 DEF StartJob, RunJob, NextBatch
  <2>2. ASSUME NEW a \in active[e], Ends(e, a) PROVE Goal
    BY <1>2, <2>2 DEF Ends
  <2>3. QED  BY <1>9, <1>10, <2>1, <2>2, ServeFacts DEF PoolStep
<1>11. ASSUME NEW u \in Unloaders, UnloadDrain(u) PROVE Goal
  <2> DEFINE x == unloader[u].model
  <2>1. x \in Models
    BY <1>11 DEF UnloadDrain, UnloaderInv, At
  <2>2. /\ queue' = [y \in Models |-> IF y \in {x} THEN <<>> ELSE queue[y]]
        /\ UNCHANGED task /\ unloader' = [unloader EXCEPT ![u].pc = "drained"]
    BY <1>11 DEF UnloadDrain, ClearQueues, Goto
  <2>3. m # x /\ queue'[m] = queue[m]
    BY <2>2
  <2>4. \A w \in Unloaders : unloader[w].model = m => unloader'[w] = unloader[w]
    BY <2>2, <2>3 DEF TypeOK
  <2>5. QED  BY <1>1, <2>2, <2>3, <2>4
<1>12. ASSUME NEW u \in Unloaders, UnloadDelete(u) \/ UnloadClear(u) \/ UnloadFlag(u) PROVE Goal
  <2>1. /\ UNCHANGED <<queue, task>> /\ ~At(u, "cancelled")
        /\ \E pc : unloader' = [unloader EXCEPT ![u].pc = pc]
    BY <1>12 DEF UnloadDelete, UnloadClear, UnloadFlag, Goto, At
  <2>2. \A w \in Unloaders : At(w, "cancelled") => unloader'[w] = unloader[w]
    BY <2>1 DEF At, TypeOK
  <2>3. QED  BY <1>1, <2>1, <2>2
<1>13. CASE UNCHANGED vars
  BY <1>2, <1>13 DEF vars
<1>14. ASSUME NEW x \in Models, TaskStep(x) PROVE Goal
  BY <1>8, <1>9, <1>14, TakeFacts, ServeFacts DEF TaskStep
<1>15. QED
  BY <1>3, <1>4, <1>5, <1>6, <1>7, <1>10, <1>11, <1>12, <1>13, <1>14
     DEF Next, LoopStep, UnloadStep

------------------------------------------------------------------------------
(* What holds of a model no unload has interrupted.                        *)

(* A batch processor is there from the acceptance of a request on.         *)
LEMMA StepOfTask ==
  ASSUME IInv, [Next]_vars, NEW m \in Models, task'[m].st # "none"
  PROVE  \/ task[m].st # "none"
         \/ m = loop.model /\ (AcceptLoaded \/ SetLoaded)
<1> USE DEF IInv
<1>1. ASSUME NEW X, CancelTasks(X) PROVE task[m].st # "none"
  BY <1>1, CancelFacts DEF NoTask
<1>2. CASE HandlerStep \/ \E u \in Unloaders : UnloadCancel(u)
  <2>1. \E X : CancelTasks(X)
    BY <1>2, HandlerFacts DEF Evicts, UnloadCancel
  <2>2. QED  BY <1>1, <2>1
<1>3. CASE AcceptLoaded \/ SetLoaded
  <2>1. Accept(loop.model, loop.client)
    BY <1>3 DEF AcceptLoaded, SetLoaded
  <2>2. task'[m] = task[m] \/ m = loop.model
    BY <2>1 DEF Accept, TypeOK
  <2>3. QED  BY <1>3, <2>2
<1>4. ASSUME NEW x \in Models, Takes(x) PROVE task[m].st # "none"
  BY <1>4 DEF Takes
<1>5. ASSUME NEW x \in Models, Serves(x) PROVE task[m].st # "none"
  <2>1. CASE m = x
    BY <1>5, <2>1 DEF Serves
  <2>2. CASE m # x
    BY <1>5, <2>2 DEF Serves, NothingLeft, NextGroup, TypeOK
  <2>3. QED  BY <2>1, <2>2
<1>6. CASE UNCHANGED task
  BY <1>6
<1>7. ASSUME NEW e \in Engines, PoolStep(e) PROVE task[m].st # "none"
  <2>1. CASE StartJob(e) \/ RunJob(e) \/ NextBatch(e)
    BY <1>6, <2>1 DEF StartJob, RunJob, NextBatch
  <2>2. CASE Finish(e) \/ FailJob(e)
    BY <1>5, <1>6, <2>2, ServeFacts DEF Ends
  <2>3. QED  BY <1>7, <2>1, <2>2 DEF PoolStep
<1>8. ASSUME NEW x \in Models, TaskStep(x) PROVE task[m].st # "none"
  BY <1>4, <1>5, <1>8, TakeFacts, ServeFacts DEF TaskStep
<1>9. ASSUME NEW u \in Unloaders, UnloadStep(u) PROVE task[m].st # "none"
  BY <1>6, <1>9 DEF UnloadStep, UnloadDrain, UnloadDelete, UnloadClear, UnloadFlag
<1>10. CASE LoadEngine \/ LoadFails
  BY <1>6, <1>10 DEF LoadEngine, LoadFails
<1>11. QED
  BY <1>2, <1>3, <1>6, <1>7, <1>8, <1>9, <1>10, ProduceFrame DEF Next, vars, LoopStep

(* Flag and engine agree as long as only the event loop writes them.       *)
LEMMA StepFlagInv ==
  ASSUME IInv, [Next]_vars
  PROVE  FlagInv'
<1> USE DEF IInv
<1> SUFFICES ASSUME NEW m \in Models, Untouched(m)' PROVE Agree(m)'
  BY DEF FlagInv
<1> DEFINE Flags ==
        /\ loop'.pc = "created" /\ loop'.model = m => engine'[m] \in Engines
        /\ engine'[m] # Deleted
        /\ loaded'[m] => engine'[m] \in Engines
        /\ engine'[m] \in Engines => loaded'[m] \/ (loop'.pc = "created" /\ loop'.model = m)
<1>1. Untouched(m) /\ Agree(m)
  BY StepOfUnloader DEF FlagInv
<1>2. ASSUME engine'[m] = engine[m], loaded'[m] = loaded[m], UNCHANGED loop
      PROVE  Flags
  BY <1>1, <1>2 DEF Agree
<1>3. CASE HandlerStep
  <2>1. PICK X \in SUBSET Models : Evicts(X)
    BY <1>3, HandlerFacts
  <2>2. CASE m \in X
    <3>1. engine'[m] = NoEngine /\ ~loaded'[m] /\ loop'.pc # "created"
      BY <1>1, <2>1, <2>2 DEF Evicts, Agree
    <3>2. task'[m].st = "none"
      BY <2>1, <2>2, CancelFacts DEF Evicts, NoTask
    <3>3. QED  BY <3>1, <3>2, ServerAssumption DEF Agree
  <2>3. CASE m \notin X
    <3>1. engine'[m] = engine[m] /\ loaded'[m] = loaded[m] /\ loop'.pc # "created"
          /\ loop.pc # "created"
      BY <2>1, <2>3 DEF Evicts, LoopFree
    <3>2. task'[m] = task[m]
      BY <2>1, <2>3, CancelFacts DEF Evicts
    <3>3. QED  BY <1>1, <3>1, <3>2 DEF Agree
  <2>4. QED  BY <2>2, <2>3
<1>4. ASSUME NEW u \in Unloaders, UnloadCancel(u) PROVE Flags
  BY <1>2, <1>4 DEF UnloadCancel
<1>5. ASSUME NEW u \in Unloaders, UnloadStep(u) PROVE Flags
  <2>1. unloader[u].model # m
    BY <1>1 DEF Untouched
  <2>2. engine'[m] = engine[m] /\ loaded'[m] = loaded[m] /\ UNCHANGED loop
    BY <1>5, <2>1
       DEF UnloadStep, UnloadDrain, UnloadDelete, UnloadClear, UnloadFlag, TypeOK
  <2>3. QED  BY <1>2, <2>2
<1>6. ASSUME LoadEngine PROVE Flags
  <2>1. /\ loop.model \in Models /\ loop'.pc = "created" /\ loop'.model = loop.model
        /\ UNCHANGED loaded /\ loop.pc = "evicted"
    BY <1>6 DEF LoadEngine, LoopInv, TypeOK
  <2>2. PICK e \in Engines : engine' = [engine EXCEPT ![loop.model] = e]
    BY <1>6 DEF LoadEngine
  <2>3. /\ loop.model = m => engine'[m] = e
        /\ loop.model # m => engine'[m] = engine[m]
    BY <2>1, <2>2 DEF TypeOK
  <2>4. e # Deleted
    BY ServerAssumption
  <2>5. CASE loop.model = m
    BY <1>6, <2>1, <2>3, <2>4, <2>5
  <2>6. CASE loop.model # m
    BY <1>1, <2>1, <2>3, <2>6 DEF Agree
  <2>7. QED  BY <2>5, <2>6
<1>7. ASSUME AcceptLoaded \/ LoadFails PROVE Flags
  <2>1. loop.pc = "evicted" /\ loop' = FreeLoop /\ UNCHANGED <<engine, loaded>>
    BY <1>7 DEF AcceptLoaded, LoadFails, Accept
  <2>2. loop'.pc # "created" /\ loop.pc # "created"
    BY <2>1 DEF FreeLoop
  <2>3. QED  BY <1>1, <2>1, <2>2 DEF Agree
<1>8. ASSUME SetLoaded PROVE Flags
  <2>1. /\ loop.pc = "created" /\ loop' = FreeLoop /\ UNCHANGED engine
        /\ loaded' = [loaded EXCEPT ![loop.model] = TRUE] /\ loop.model \in Models
    BY <1>8 DEF SetLoaded, Accept, LoopInv
  <2>2. loop'.pc # "created"
    BY <2>1 DEF FreeLoop
  <2>3. CASE loop.model = m
    <3>1. loaded'[m]
      BY <2>1, <2>3 DEF TypeOK
    <3>2. QED  BY <1>1, <2>1, <2>2, <2>3, <3>1 DEF Agree
  <2>4. CASE loop.model # m
    <3>1. loaded'[m] = loaded[m]
      BY <2>1, <2>4 DEF TypeOK
    <3>2. QED  BY <1>1, <2>1, <2>2, <2>4, <3>1 DEF Agree
  <2>5. QED  BY <2>3, <2>4
<1>9. ASSUME UNCHANGED <<loaded, engine, loop>> PROVE Flags
  <2>1. engine'[m] = engine[m] /\ loaded'[m] = loaded[m] /\ UNCHANGED loop
    BY <1>9
  <2> HIDE DEF Flags
  <2>2. QED  BY <1>2, <2>1
<1>10. ~HandlerStep => Flags
  <2> HIDE DEF Flags
  <2>1. QED
    BY <1>4, <1>5, <1>6, <1>7, <1>8, <1>9, ProduceFrame, TaskFrame, PoolFrame
       DEF Next, vars, LoopStep
<1>11. ASSUME ~HandlerStep, task'[m].st # "none" PROVE loaded'[m]
  <2>1. CASE m = loop.model /\ (AcceptLoaded \/ SetLoaded)
    BY <2>1 DEF AcceptLoaded, SetLoaded, TypeOK
  <2>2. CASE task[m].st # "none"
    <3>1. loaded[m]
      BY <1>1, <2>2 DEF Agree
    <3>2. ASSUME NEW u \in Unloaders, UnloadStep(u) PROVE loaded'[m]
      <4>1. unloader[u].model # m
        BY <1>1 DEF Untouched
      <4>2. QED
        BY <3>1, <3>2, <4>1
           DEF UnloadStep, UnloadDrain, UnloadDelete, UnloadClear, UnloadFlag, TypeOK
    <3>3. CASE LoopStep
      BY <3>1, <3>3 DEF LoopStep, AcceptLoaded, LoadEngine, LoadFails, SetLoaded, TypeOK
    <3>4. CASE UNCHANGED loaded
      BY <3>1, <3>4
    <3>5. QED
      BY <1>11, <3>2, <3>3, <3>4, ProduceFrame, TaskFrame, PoolFrame DEF Next, vars, UnloadCancel
  <2>3. QED  BY <1>11, <2>1, <2>2, StepOfTask
<1>12. QED  BY <1>3, <1>10, <1>11 DEF Agree

(* Under way for a model no unload interrupted: it has a batch processor,  *)
(* so nothing evicts the model and leaves it undisturbed.                  *)
LEMMA AwaitFacts ==
  ASSUME IInv, NEW m \in Models, Undisturbed(m), NEW j \in Job,
         j.kind = "batch", j.model = m, j.live, JobOK(j)
  PROVE  task[m].st = "await" /\ loaded[m] /\ ToSet(task[m].batch) # {}
<1> USE DEF IInv
<1>1. task[m].st = "await"
  BY DEF JobOK, JobFits, BatchFits
<1>2. loaded[m]
  BY <1>1 DEF Undisturbed, FlagInv, Agree
<1>3. task[m].todo # <<>> /\ task[m].todo \in Seq(Requests)
  BY <1>1 DEF TaskInv, TypeOK, Task
<1>4. Head(task[m].todo) \in ToSet(task[m].todo)
  BY <1>3 DEF ToSet
<1>5. QED  BY <1>1, <1>2, <1>4 DEF TaskInv

(* Jobs stay at home: a model that stays undisturbed is not unloaded while *)
(* it has any.                                                             *)
LEMMA StepHome ==
  ASSUME IInv, [Next]_vars, NEW m \in Models, Undisturbed(m)', NEW e \in Engines
  PROVE  /\ \A i \in DOMAIN pending'[e] : AtHome(m, engine'[m], e, pending'[e][i])
         /\ \A a \in active'[e] : AtHome(m, engine'[m], e, a.job)
<1> USE DEF IInv
<1> DEFINE Goal == /\ \A i \in DOMAIN pending'[e] : AtHome(m, engine'[m], e, pending'[e][i])
                   /\ \A a \in active'[e] : AtHome(m, engine'[m], e, a.job)
           IsOurs(j) == j.kind = "batch" /\ j.model = m
<1>1. /\ Undisturbed(m)
      /\ \A i \in DOMAIN pending[e] : AtHome(m, engine[m], e, pending[e][i])
      /\ \A a \in active[e] : AtHome(m, engine[m], e, a.job)
  BY StepOfOrphaned DEF PoolInv
<1>2. ASSUME engine'[m] = engine[m],
             \A i \in DOMAIN pending'[e] : \E k \in DOMAIN pending[e] :
               pending'[e][i] = pending[e][k],
             \A b \in active'[e] : b.job.model = m => \E a \in active[e] : b.job = a.job
      PROVE  Goal
  BY <1>1, <1>2 DEF AtHome
<1>3. ASSUME ToSet(task[m].batch) = {} \/ ~loaded[m]
      PROVE  /\ \A i \in DOMAIN pending[e] : ~IsOurs(pending[e][i])
             /\ \A a \in active[e] : ~IsOurs(a.job)
  <2>1. ASSUME NEW j \in Job, JobOK(j), AtHome(m, engine[m], e, j) PROVE ~IsOurs(j)
    BY <1>1, <1>3, <2>1, AwaitFacts DEF AtHome
  <2>2. pending[e] \in Seq(Job) /\ \A a \in active[e] : a.job \in Job
    BY DEF TypeOK, ActiveJob
  <2>3. QED  BY <1>1, <2>1, <2>2 DEF JobInv
<1>4. ASSUME NEW X, CancelTasks(X), m \notin X, engine'[m] = engine[m] PROVE Goal
  <2>1. \A b \in active'[e] : b.job.model = m => \E a \in active[e] : b.job = a.job
    BY <1>4, CancelActive DEF LeftOf
  <2>2. PICK place \in [DOMAIN pending'[e] -> DOMAIN pending[e]] :
          \A i \in DOMAIN pending'[e] : pending'[e][i] = pending[e][place[i]]
    BY <1>4, CancelFacts
  <2>3. QED  BY <1>2, <1>4, <2>1, <2>2
<1>5. ASSUME NEW X \in SUBSET Models, CancelTasks(X), m \in X PROVE Goal
  <2>1. ASSUME NEW r \in ToSet(task[m].batch) PROVE FALSE
    <3>1. r \in orphaned' /\ req[r].model = m
      BY <1>5, <2>1 DEF CancelTasks, TaskInv
    <3>2. req'[r].model = m
      BY <3>1, StepOfOrphaned
    <3>3. QED  BY <3>1, <3>2 DEF Undisturbed
  <2>2. /\ \A i \in DOMAIN pending[e] : ~IsOurs(pending[e][i])
        /\ \A a \in active[e] : ~IsOurs(a.job)
    BY <1>3, <2>1
  <2>3. \A b \in active'[e] : ~IsOurs(b.job)
    BY <1>5, <2>2, CancelActive DEF LeftOf
  <2>4. PICK place \in [DOMAIN pending'[e] -> DOMAIN pending[e]] :
          \A i \in DOMAIN pending'[e] : pending'[e][i] = pending[e][place[i]]
    BY <1>5, CancelFacts
  <2>5. QED  BY <2>2, <2>3, <2>4 DEF AtHome
<1>6. CASE HandlerStep
  <2>1. PICK X \in SUBSET Models : Evicts(X)
    BY <1>6, HandlerFacts
  <2>2. QED  BY <1>4, <1>5, <2>1 DEF Evicts
<1>7. ASSUME NEW u \in Unloaders, UnloadCancel(u) PROVE Goal
  <2>1. PICK x \in Models : /\ CancelTasks({x})
                            /\ unloader' = [unloader EXCEPT ![u] = [pc |-> "cancelled", model |-> x]]
    BY <1>7 DEF UnloadCancel
  <2>2. unloader'[u].model = x
    BY <2>1 DEF TypeOK
  <2>3. x # m
    BY <2>2 DEF Undisturbed, Untouched
  <2>4. UNCHANGED engine
    BY <1>7 DEF UnloadCancel
  <2>5. QED  BY <1>4, <2>1, <2>3, <2>4
<1>8. ASSUME NEW u \in Unloaders, UnloadStep(u) PROVE Goal
  <2>1. unloader[u].model # m
    BY <1>1 DEF Undisturbed, Untouched
  <2>2. engine'[m] = engine[m] /\ UNCHANGED <<pending, active>>
    BY <1>8, <2>1
       DEF UnloadStep, UnloadDrain, UnloadDelete, UnloadClear, UnloadFlag, TypeOK
  <2>3. QED  BY <1>2, <2>2
<1>9. CASE LoadEngine
  <2>1. UNCHANGED <<pending, active>>
    BY <1>9 DEF LoadEngine
  <2>2. CASE loop.model = m
    <3>1. ~loaded[m]
      BY <1>9, <2>2 DEF LoadEngine
    <3>2. QED  BY <1>3, <2>1, <3>1 DEF AtHome
  <2>3. CASE loop.model # m
    <3>1. engine'[m] = engine[m]
      BY <1>9, <2>3 DEF LoadEngine, TypeOK
    <3>2. QED  BY <1>2, <2>1, <3>1
  <2>4. QED  BY <2>2, <2>3
<1>10. CASE UNCHANGED <<engine, pending, active>>
  BY <1>2, <1>10
<1>11. ASSUME UNCHANGED <<engine, active>>, NEW f \in Engines, NEW j \in Job,
              pending' = [pending EXCEPT ![f] = Append(pending[f], j)],
              AtHome(m, engine[m], f, j)
       PROVE  Goal
  <2>1. \A i \in DOMAIN pending'[e] :
          \/ i \in DOMAIN pending[e] /\ pending'[e][i] = pending[e][i]
          \/ e = f /\ pending'[e][i] = j
    BY <1>11, AppendJob
  <2>2. QED  BY <1>1, <1>11, <2>1
<1>12. ASSUME NEW r \in Streams, Produce(r) PROVE Goal
  <2>1. UNCHANGED <<engine, active>>
    BY <1>12, ProduceFrame
  <2>2. CASE UNCHANGED pending
    BY <1>10, <2>1, <2>2
  <2>3. ASSUME NEW f \in Engines, NEW j \in Job, j.kind = "stream",
               pending' = [pending EXCEPT ![f] = Append(pending[f], j)]
        PROVE  Goal
    BY <1>11, <2>1, <2>3 DEF AtHome
  <2>4. \A j, x, c, s : j = [kind |-> "stream", model |-> x, reqs |-> c,
                             set |-> s, live |-> TRUE] => j.kind = "stream"
    OBVIOUS
  <2>5. UNCHANGED pending \/ \E f \in Engines, j \in Job :
          j.kind = "stream" /\ pending' = [pending EXCEPT ![f] = Append(pending[f], j)]
    BY <1>12, <2>4, ProduceFacts
  <2>6. QED  BY <2>2, <2>3, <2>5
<1>13. ASSUME NEW x \in Models, Serves(x) PROVE Goal
  <2>1. UNCHANGED engine /\ active'[e] \subseteq active[e]
    BY <1>13 DEF Serves
  <2>2. CASE NothingLeft(x)
    BY <1>2, <2>1, <2>2 DEF NothingLeft
  <2>3. ASSUME NEW todo \in Seq(Requests), NEW j \in Job, NextGroup(x, todo, j) PROVE Goal
    <3>1. /\ engine[x] \in Engines /\ j.model = x /\ j.live
          /\ pending' = [pending EXCEPT ![engine[x]] = Append(pending[engine[x]], j)]
      BY <2>3 DEF NextGroup
    <3>2. \A i \in DOMAIN pending'[e] :
            \/ i \in DOMAIN pending[e] /\ pending'[e][i] = pending[e][i]
            \/ e = engine[x] /\ pending'[e][i] = j
      BY <3>1, AppendJob
    <3>3. QED  BY <1>1, <2>1, <3>1, <3>2 DEF AtHome
  <2>4. QED  BY <1>13, <2>2, <2>3 DEF Serves
<1>14. ASSUME NEW f \in Engines, StartJob(f) PROVE Goal
  <2>1. CASE f = e
    <3>1. /\ \A i \in DOMAIN pending'[e] : \E k \in DOMAIN pending[e] :
               pending'[e][i] = pending[e][k]
          /\ \A b \in active'[e] : b.job = pending[e][1]
          /\ 1 \in DOMAIN pending[e] /\ UNCHANGED engine
      BY <1>14, <2>1, StartFacts
    <3>2. QED  BY <1>1, <3>1 DEF AtHome
  <2>2. CASE f # e
    BY <1>2, <1>14, <2>2, StartFacts
  <2>3. QED  BY <2>1, <2>2
<1>15. ASSUME NEW f \in Engines, NEW a \in active[f], Runs(f, a) PROVE Goal
  <2>1. UNCHANGED <<engine, pending>>
    BY <1>15 DEF Runs
  <2>2. \A b \in active'[e] : \E c \in active[e] : b.job = c.job
    BY <1>15 DEF Runs
  <2>3. QED  BY <1>2, <2>1, <2>2
<1>16. ASSUME NEW f \in Engines, NEW a \in active[f], Ends(f, a) PROVE Goal
  <2>1. UNCHANGED <<engine, pending>> /\ active'[e] \subseteq active[e]
    BY <1>16 DEF Ends, TypeOK
  <2>2. QED  BY <1>2, <2>1
<1>17. ASSUME NEW x \in Models, TaskStep(x) PROVE Goal
  <2>1. CASE TakeFirst(x) \/ TakeMore(x)
    BY <1>10, <2>1 DEF TakeFirst, TakeMore
  <2>2. QED  BY <1>13, <1>17, <2>1, ServeFacts DEF TaskStep
<1>18. ASSUME NEW f \in Engines, PoolStep(f) PROVE Goal
  BY <1>13, <1>14, <1>15, <1>16, <1>18, RunFacts, ServeFacts DEF PoolStep
<1>19. CASE AcceptLoaded \/ LoadFails \/ SetLoaded
  BY <1>10, <1>19 DEF AcceptLoaded, LoadFails, SetLoaded
<1>20. QED
  BY <1>6, <1>7, <1>8, <1>9, <1>10, <1>12, <1>17, <1>18, <1>19 DEF Next, vars, LoopStep

(* A prediction's engine is that of its pool and nobody else writes to its *)
(* predictor.                                                              *)
LEMMA StepSettled ==
  ASSUME IInv, [Next]_vars, NEW m \in Models, Undisturbed(m)', NEW e \in Engines
  PROVE  \A b \in active'[e] : Settled(m, predictor'[e], e, b)
<1> USE DEF IInv
<1>1. /\ Undisturbed(m)
      /\ \A f \in Engines : \A a \in active[f] : /\ AtHome(m, engine[m], f, a.job)
                                                 /\ Settled(m, predictor[f], f, a)
  BY StepOfOrphaned DEF PoolInv
<1> SUFFICES ASSUME NEW b \in active'[e] PROVE Settled(m, predictor'[e], e, b)
  OBVIOUS
<1>2. CASE b \in active[e] /\ UNCHANGED predictor
  BY <1>1, <1>2
<1>3. ASSUME NEW X, CancelTasks(X), UNCHANGED predictor PROVE Settled(m, predictor'[e], e, b)
  BY <1>1, <1>3, CancelActive DEF LeftOf, Settled
<1>4. CASE HandlerStep \/ \E u \in Unloaders : UnloadCancel(u)
  <2>1. UNCHANGED predictor /\ \E X : CancelTasks(X)
    BY <1>4, HandlerFacts, UnloadFrame DEF Evicts, UnloadCancel
  <2>2. QED  BY <1>3, <2>1
<1>5. ASSUME NEW f \in Engines, StartJob(f) PROVE Settled(m, predictor'[e], e, b)
  <2>1. b \in active[e] \/ b.ph = "picked"
    BY <1>5, StartFacts
  <2>2. UNCHANGED predictor
    BY <1>5 DEF StartJob
  <2>3. QED  BY <1>2, <2>1, <2>2 DEF Settled
<1>6. ASSUME NEW f \in Engines, RunJob(f) PROVE Settled(m, predictor'[e], e, b)
  <2>1. PICK a \in active[f], x \in Engines : RunOf(f, a, x)
    BY <1>6, PoolSteps
  <2>2. predictor'[x] = Effective(x, a.job.set)
        /\ \A y \in Engines \ {x} : predictor'[y] = predictor[y]
    BY <2>1 DEF RunOf, TypeOK
  <2>3. a.job.kind \in {"batch", "stream"} /\ a.job.model \in Models
    BY DEF TypeOK, ActiveJob, Job
  <2>4. a.job.model = m => x = f
    BY <1>1, <2>1, <2>3 DEF RunOf, AtHome
  <2>5. CASE f = e
    <3> DEFINE c == [job |-> a.job, using |-> x, set |-> Effective(x, a.job.set),
                     ph |-> "running"]
    <3>1. active[e] = {a}
      BY <2>5 DEF ActiveInv
    <3>2. active'[e] = {c}
      BY <2>1, <2>5, <3>1 DEF RunOf, TypeOK
    <3>3. b.job = a.job /\ b.using = x /\ b.set = Effective(x, a.job.set)
      BY <3>2
    <3>4. QED  BY <2>2, <2>4, <2>5, <3>3 DEF Settled, Effective
  <2>6. CASE f # e
    <3>1. b \in active[e]
      BY <2>1, <2>6 DEF RunOf, TypeOK
    <3>2. ASSUME b.job.model = m, x = e PROVE FALSE
      <4>1. madeFor[e] = m /\ madeFor[f] = a.job.model
        BY <3>1, <3>2 DEF EngineInv
      <4>2. a.job.model = m
        BY <2>1, <2>3, <2>6, <3>2, <4>1 DEF RunOf, EngineInv
      <4>3. QED  BY <2>4, <2>6, <3>2, <4>2
    <3>3. CASE b.job.model = m
      <4>1. predictor'[e] = predictor[e]
        BY <2>2, <3>2, <3>3
      <4>2. QED  BY <1>1, <3>1, <4>1
    <3>4. QED  BY <3>3 DEF Settled
  <2>7. QED  BY <2>5, <2>6
<1>7. ASSUME NEW f \in Engines, NextBatch(f) PROVE Settled(m, predictor'[e], e, b)
  <2>1. PICK a \in active[f] : NextOf(f, a)
    BY <1>7, PoolSteps
  <2>2. UNCHANGED predictor
    BY <2>1 DEF NextOf
  <2>3. a.job.model # m
    BY <1>1, <2>1 DEF NextOf, Settled
  <2>4. b \in active[e] \/ b = [a EXCEPT !.set = predictor[a.using]]
    BY <2>1 DEF NextOf, TypeOK
  <2>5. b \in active[e] \/ b.job = a.job
    BY <2>4 DEF TypeOK, ActiveJob
  <2>6. QED  BY <1>2, <2>2, <2>3, <2>5 DEF Settled
<1>8. ASSUME NEW f \in Engines, Finish(f) \/ FailJob(f) PROVE Settled(m, predictor'[e], e, b)
  <2>1. UNCHANGED predictor
    BY <1>8 DEF Finish, FailJob
  <2>2. b \in active[e]
    <3>1. ASSUME NEW x \in Models, Serves(x) PROVE b \in active[e]
      BY <3>1 DEF Serves
    <3>2. ASSUME NEW a \in active[f], Ends(f, a) PROVE b \in active[e]
      BY <3>2 DEF Ends, TypeOK
    <3>3. QED  BY <1>8, <3>1, <3>2, ServeFacts
  <2>3. QED  BY <1>2, <2>1, <2>2
<1>9. CASE UNCHANGED <<predictor, active>>
  BY <1>2, <1>9
<1>10. ASSUME NEW u \in Unloaders, UnloadStep(u) PROVE Settled(m, predictor'[e], e, b)
  BY <1>9, <1>10 DEF UnloadStep, UnloadDrain, UnloadDelete, UnloadClear, UnloadFlag
<1>11. ASSUME NEW f \in Engines, PoolStep(f) PROVE Settled(m, predictor'[e], e, b)
  BY <1>5, <1>6, <1>7, <1>8, <1>11 DEF PoolStep
<1>12. QED
  BY <1>4, <1>9, <1>10, <1>11, LoopFrame, ProduceFrame, TaskFrame DEF Next, vars

LEMMA StepPoolInv ==
  ASSUME IInv, [Next]_vars
  PROVE  PoolInv'
BY StepHome, StepSettled DEF PoolInv

(* A request the server has accepted stays in a queue or in a batch until  *)
(* it is answered, or until its batch loses its processor.                 *)
LEMMA StepInHand ==
  ASSUME IInv, [Next]_vars, NEW r \in Requests, r \notin orphaned',
         req'[r].st = "waiting", loop'.client # r
  PROVE  InHand(r)'
<1> USE DEF IInv
<1>1. req[r].st = "waiting" /\ loop.client # r => InHand(r)
  BY StepOfOrphaned DEF InHandInv
<1>2. r \in Clients /\ r \notin Streams /\ r # "nobody"
  BY ServerAssumption DEF Clients
<1>3. ASSUME \A m \in Models : ToSet(queue[m]) \cup ToSet(task[m].batch) \subseteq
                                 ToSet(queue'[m]) \cup ToSet(task'[m].batch),
             req[r].st = "waiting", loop.client # r
      PROVE  InHand(r)'
  BY <1>1, <1>3 DEF InHand
<1>4. ASSUME UNCHANGED <<queue, task>>, req'[r] = req[r], loop.client # r PROVE InHand(r)'
  BY <1>3, <1>4
<1>5. ASSUME NEW X \in SUBSET Models, NEW Y \in SUBSET Models, Clears(X, Y),
             req[r].st # "new", loop.client # r
      PROVE  InHand(r)'
  <2>1. req'[r] = req[r] /\ r \notin Drained(Y)
    BY <1>2, <1>5, DrainFacts DEF Clears
  <2>2. PICK m \in Models : r \in ToSet(queue[m]) \/ r \in ToSet(task[m].batch)
    BY <1>1, <1>5, <2>1 DEF InHand
  <2>3. CASE r \in ToSet(queue[m])
    <3>1. m \notin Y
      BY <2>1, <2>3 DEF Drained
    <3>2. queue'[m] = queue[m]
      BY <1>5, <3>1 DEF Clears
    <3>3. QED  BY <2>3, <3>2 DEF InHand
  <2>4. CASE r \in ToSet(task[m].batch)
    <3>1. m \notin X
      BY <1>5, <2>4 DEF Clears, CancelTasks
    <3>2. task'[m] = task[m]
      BY <1>5, <3>1, CancelFacts DEF Clears
    <3>3. QED  BY <2>4, <3>2 DEF InHand
  <2>5. QED  BY <2>2, <2>3, <2>4
<1>6. CASE HandlerStep
  <2>1. PICK X \in SUBSET Models : Evicts(X)
    BY <1>6, HandlerFacts
  <2>2. Clears(X, X) /\ req[r].st # "new"
    BY <1>2, <2>1 DEF Evicts, Clears
  <2>3. loop.client # r
    BY <1>2, <2>1 DEF Evicts, LoopFree, LoopInv
  <2>4. QED  BY <1>5, <2>2, <2>3
<1>7. CASE LoadEngine
  BY <1>4, <1>7 DEF LoadEngine, TypeOK
<1>8. CASE LoadFails
  <2>1. UNCHANGED <<queue, task>> /\ req' = Failed(req, {loop.client})
    BY <1>8 DEF LoadFails
  <2>2. loop.client # r
    BY <1>2, <2>1 DEF Failed, LoopInv, TypeOK, ClientRequest
  <2>3. req'[r] = req[r]
    BY <1>2, <2>1, <2>2 DEF Failed
  <2>4. QED  BY <1>4, <2>1, <2>2, <2>3
<1>9. CASE AcceptLoaded \/ SetLoaded
  <2>1. Accepts
    BY <1>9, AcceptFacts
  <2>2. \A m \in Models : task[m].st = "none" => task[m].batch = <<>>
    BY DEF TaskInv
  <2>3. \A m \in Models : task'[m].batch = task[m].batch
    BY <2>1, <2>2 DEF Accepts, Idle
  <2>4. ASSUME loop.client \in Requests,
               queue' = [queue EXCEPT ![loop.model] = Append(queue[loop.model], loop.client)]
        PROVE  /\ \A m \in Models : ToSet(queue[m]) \subseteq ToSet(queue'[m])
               /\ loop.client \in ToSet(queue'[loop.model])
    <3> DEFINE s == queue[loop.model]
               c == loop.client
    <3>1. s \in Seq(Requests) /\ queue'[loop.model] = Append(s, c) /\ c \in Requests
          /\ \A m \in Models \ {loop.model} : queue'[m] = queue[m]
      BY <2>1, <2>4 DEF Accepts, TypeOK
    <3>2. ToSet(s) \subseteq ToSet(Append(s, c)) /\ c \in ToSet(Append(s, c))
      <4> HIDE DEF s, c
      <4>1. /\ DOMAIN Append(s, c) = 1 .. Len(s) + 1
            /\ DOMAIN s = 1 .. Len(s) /\ Len(s) \in Nat
            /\ \A i \in 1 .. Len(s) : Append(s, c)[i] = s[i]
            /\ Append(s, c)[Len(s) + 1] = c
        BY <3>1, AppendFacts
      <4>2. \A i \in DOMAIN s : i \in DOMAIN Append(s, c) /\ Append(s, c)[i] = s[i]
        BY <4>1
      <4>3. Len(s) + 1 \in DOMAIN Append(s, c)
        BY <4>1
      <4>4. QED  BY <4>1, <4>2, <4>3 DEF ToSet
    <3>3. QED  BY <3>1, <3>2
  <2>5. CASE r = loop.client
    <3>1. loop.model \in Models /\ r \in ToSet(queue'[loop.model])
      BY <2>1, <2>4, <2>5 DEF Accepts
    <3>2. QED  BY <3>1 DEF InHand
  <2>6. CASE r # loop.client
    <3>1. \A m \in Models : ToSet(queue[m]) \subseteq ToSet(queue'[m])
      BY <2>1, <2>4 DEF Accepts
    <3>2. UNCHANGED req
      BY <2>1 DEF Accepts
    <3>3. QED  BY <1>3, <2>3, <2>6, <3>1, <3>2
  <2>7. QED  BY <2>5, <2>6
<1>10. ASSUME NEW s \in Streams, Produce(s) PROVE InHand(r)'
  BY <1>2, <1>4, <1>10, ProduceFacts
<1>11. ASSUME NEW x \in Models, Takes(x) PROVE InHand(r)'
  <2>1. /\ queue[x] \in Seq(Requests) /\ queue[x] # <<>>
        /\ queue'[x] = Tail(queue[x])
        /\ ToSet(task'[x].batch) = ToSet(task[x].batch) \cup {queue[x][1]}
        /\ \A m \in Models \ {x} : queue'[m] = queue[m] /\ task'[m] = task[m]
        /\ UNCHANGED <<req, loop>>
    BY <1>11 DEF Takes, TypeOK
  <2>2. ToSet(queue[x]) \subseteq ToSet(queue'[x]) \cup {queue[x][1]}
    <3>1. /\ Len(queue[x]) \in Nat \ {0} /\ DOMAIN queue[x] = 1 .. Len(queue[x])
          /\ DOMAIN queue'[x] = 1 .. Len(queue[x]) - 1
          /\ \A i \in 1 .. Len(queue[x]) - 1 : queue'[x][i] = queue[x][i + 1]
      BY <2>1, TailFacts
    <3>2. ASSUME NEW i \in DOMAIN queue[x], i # 1
          PROVE  i - 1 \in DOMAIN queue'[x] /\ queue'[x][i - 1] = queue[x][i]
      BY <3>1, <3>2
    <3>3. QED  BY <3>2 DEF ToSet
  <2>3. \A m \in Models : ToSet(queue[m]) \cup ToSet(task[m].batch) \subseteq
                            ToSet(queue'[m]) \cup ToSet(task'[m].batch)
    BY <2>1, <2>2
  <2>4. QED  BY <1>3, <2>1, <2>3
<1>12. ASSUME NEW x \in Models, Serves(x) PROVE InHand(r)'
  <2>1. /\ UNCHANGED <<queue, loop>>
        /\ \A c \in Clients \ ToSet(task[x].batch) : req'[c] = req[c]
    BY <1>12 DEF Serves
  <2>2. CASE NothingLeft(x)
    <3>1. r \notin ToSet(task[x].batch) /\ \A m \in Models \ {x} : task'[m] = task[m]
      BY <2>2 DEF NothingLeft, TypeOK
    <3>2. req'[r] = req[r]
      BY <1>2, <2>1, <3>1
    <3>3. InHand(r)
      BY <1>1, <2>1, <3>2
    <3>4. PICK m \in Models : r \in ToSet(queue[m]) \cup ToSet(task[m].batch)
      BY <3>3 DEF InHand
    <3>5. r \in ToSet(queue'[m]) \cup ToSet(task'[m].batch)
      BY <2>1, <3>1, <3>4
    <3>6. QED  BY <3>5 DEF InHand
  <2>3. ASSUME NEW todo \in Seq(Requests), NEW j \in Job, NextGroup(x, todo, j)
        PROVE  InHand(r)'
    <3>1. \A m \in Models : task'[m].batch = task[m].batch
      <4> DEFINE b == task[x].batch
                 t == [st |-> "await", batch |-> b, todo |-> todo]
      <4>1. task' = [task EXCEPT ![x] = t] /\ t.batch = b
        BY <2>3 DEF NextGroup
      <4> HIDE DEF t
      <4>2. QED  BY <4>1 DEF TypeOK
    <3>2. r \in ToSet(task[x].batch) => req'[r] = req[r]
      BY <2>3 DEF NextGroup
    <3>3. req'[r] = req[r]
      BY <1>2, <2>1, <3>2
    <3>4. QED  BY <1>3, <2>1, <3>1, <3>3
  <2>4. QED  BY <1>12, <2>2, <2>3 DEF Serves
<1>13. ASSUME NEW e \in Engines, PoolStep(e) PROVE InHand(r)'
  <2>1. CASE StartJob(e) \/ RunJob(e) \/ NextBatch(e)
    BY <1>4, <2>1 DEF StartJob, RunJob, NextBatch
  <2>2. ASSUME NEW a \in active[e], Ends(e, a) PROVE InHand(r)'
    BY <1>2, <1>4, <2>2 DEF Ends
  <2>3. QED  BY <1>12, <1>13, <2>1, <2>2, ServeFacts DEF PoolStep
<1>14. ASSUME NEW x \in Models, TaskStep(x) PROVE InHand(r)'
  BY <1>11, <1>12, <1>14, TakeFacts, ServeFacts DEF TaskStep
<1>15. ASSUME NEW u \in Unloaders, UnloadCancel(u) PROVE InHand(r)'
  <2>1. PICK X \in SUBSET Models, Y \in SUBSET Models : Clears(X, Y)
    BY <1>15, ClearFacts
  <2>2. UNCHANGED <<req, loop>>
    BY <1>15 DEF UnloadCancel
  <2>3. QED  BY <1>5, <2>1, <2>2
<1>16. ASSUME NEW u \in Unloaders, UnloadDrain(u) PROVE InHand(r)'
  <2> DEFINE x == unloader[u].model
  <2>1. x \in Models /\ UNCHANGED <<task, loop>>
    BY <1>16 DEF UnloadDrain, UnloaderInv, At
  <2>2. req' = Failed(req, Drained({x})) /\ \A m \in Models \ {x} : queue'[m] = queue[m]
    BY <1>16 DEF UnloadDrain, ClearQueues
  <2>3. req'[r] = req[r] /\ r \notin ToSet(queue[x])
    <3>1. Drained({x}) = ToSet(queue[x])
      BY DEF Drained
    <3>2. req \in [Clients -> ClientRequest]
      BY DEF TypeOK
    <3>3. /\ req'[r].st = IF r \in Drained({x}) /\ req[r].st = "waiting"
                          THEN "error" ELSE req[r].st
          /\ req'[r].st # "error" => req'[r] = req[r]
      BY <1>2, <2>2, <3>2, FailedFacts
    <3>4. QED  BY <3>1, <3>3
  <2>4. InHand(r)
    BY <1>1, <2>1, <2>3
  <2>5. QED  BY <2>1, <2>2, <2>3, <2>4 DEF InHand
<1>17. ASSUME NEW u \in Unloaders, UnloadDelete(u) \/ UnloadClear(u) \/ UnloadFlag(u)
       PROVE  InHand(r)'
  BY <1>4, <1>17 DEF UnloadDelete, UnloadClear, UnloadFlag
<1>18. CASE UNCHANGED vars
  BY <1>4, <1>18 DEF vars
<1>19. QED
  BY <1>6, <1>7, <1>8, <1>9, <1>10, <1>13, <1>14, <1>15, <1>16, <1>17, <1>18
     DEF Next, LoopStep, UnloadStep

LEMMA StepInHandInv ==
  ASSUME IInv, [Next]_vars
  PROVE  InHandInv'
BY StepInHand, StepOfOrphaned DEF InHandInv

------------------------------------------------------------------------------
(* The invariant holds when the server has started: engines exist for the  *)
(* preloaded models, one each, and nobody has asked for anything.          *)
LEMMA InitIInv == Init => IInv
<1> SUFFICES ASSUME Init PROVE IInv
  OBVIOUS
<1> USE ServerAssumption
<1>1. TypeOK
  BY InitTypeOK
<1>2. PICK made \in Injection(Preloaded, Engines) :
        /\ engine = [m \in Models |-> IF m \in Preloaded THEN made[m] ELSE NoEngine]
        /\ madeFor = [e \in Engines |-> IF e \in Range(made) THEN AntiFunction(made)[e]
                                                             ELSE "nobody"]
  BY DEF Init
<1>3. /\ made \in [Preloaded -> Engines]
      /\ \A m, x \in Preloaded : made[m] = made[x] => m = x
  BY DEF Injection, IsInjective
<1>4. \A m \in Preloaded : made[m] \in Range(made) /\ AntiFunction(made)[made[m]] = m
  <2> SUFFICES ASSUME NEW m \in Preloaded
               PROVE  made[m] \in Range(made) /\ AntiFunction(made)[made[m]] = m
    OBVIOUS
  <2> DEFINE back == CHOOSE x \in DOMAIN made : made[m] \in Range(made) => made[x] = made[m]
  <2>1. made[m] \in Range(made) /\ DOMAIN made = Preloaded
    BY <1>3 DEF Range
  <2>2. AntiFunction(made)[made[m]] = back
    BY <2>1 DEF AntiFunction, Inverse
  <2>3. back \in Preloaded /\ made[back] = made[m]
    BY <2>1
  <2>4. QED  BY <1>3, <2>1, <2>2, <2>3
<1>5. \A m \in Models : engine[m] = IF m \in Preloaded THEN made[m] ELSE NoEngine
  BY <1>2
<1>6. \A m \in Models : engine[m] \in Engines => m \in Preloaded /\ madeFor[engine[m]] = m
  BY <1>2, <1>3, <1>4, <1>5
<1>7. /\ \A e \in Engines : pending[e] = <<>> /\ active[e] = {}
      /\ \A m \in Models : queue[m] = <<>> /\ task[m] = NoTask
      /\ \A r \in Clients : req[r].st = "new" /\ req[r].model = "nobody"
      /\ \A m \in Models : loaded[m] = (m \in Preloaded)
      /\ loop.pc = "free" /\ loop.client = "nobody" /\ loop.model = "nobody"
      /\ \A u \in Unloaders : At(u, "start") /\ unloader[u].model = "nobody"
      /\ orphaned = {}
  BY DEF Init, FreeLoop, At
<1>8. ToSet(<<>>) = {}
  BY DEF ToSet
<1>9. RequestInv /\ LoopInv /\ AnswerInv /\ UnloaderInv
  BY <1>7 DEF RequestInv, LoopInv, AnswerInv, UnloaderInv, Clients
<1>10. EngineInv /\ JobInv /\ ActiveInv /\ RivalInv
  BY <1>6, <1>7 DEF EngineInv, JobInv, ActiveInv, RivalInv
<1>11. QueueInv /\ TaskInv /\ AwaitInv /\ ProcessorInv
  BY <1>7, <1>8 DEF QueueInv, TaskInv, AwaitInv, ProcessorInv, NoTask
<1>12. LoadedInv
  BY <1>7 DEF LoadedInv
<1>13. FlagInv
  <2>1. \A m \in Models : /\ engine[m] # Deleted
                          /\ engine[m] \in Engines <=> m \in Preloaded
    BY <1>3, <1>5
  <2>2. \A m \in Models : Agree(m)
    <3>1. \A m \in Models : task[m].st = "none" /\ loop.pc # "created"
      BY <1>7 DEF NoTask
    <3>2. ASSUME NEW m \in Models PROVE loaded[m] <=> engine[m] \in Engines
      <4>1. loaded[m] = (m \in Preloaded)
        BY <1>7
      <4>2. QED  BY <2>1, <4>1
    <3>3. QED  BY <2>1, <3>1, <3>2 DEF Agree
  <2>3. QED  BY <2>2 DEF FlagInv
<1>14. PoolInv /\ InHandInv
  BY <1>7 DEF PoolInv, InHandInv, Clients
<1>15. QED
  BY <1>1, <1>9, <1>10, <1>11, <1>12, <1>13, <1>14 DEF IInv

(* No step breaks it.                                                      *)
LEMMA StepIInv == IInv /\ [Next]_vars => IInv'
<1> SUFFICES ASSUME IInv, [Next]_vars PROVE IInv'
  OBVIOUS
<1>1. TypeOK' /\ RequestInv' /\ LoopInv' /\ EngineInv' /\ UnloaderInv'
  BY StepTypeOK, StepRequestInv, StepLoopInv, StepEngineInv, StepOfUnloader DEF IInv
<1>2. QueueInv' /\ TaskInv' /\ JobInv' /\ ActiveInv' /\ RivalInv' /\ AwaitInv'
  BY StepQueueInv, StepTaskInv, StepJobInv, StepActiveInv, StepRivalInv, StepAwaitInv DEF IInv
<1>3. AnswerInv' /\ LoadedInv' /\ FlagInv' /\ PoolInv' /\ InHandInv' /\ ProcessorInv'
  BY StepAnswerInv, StepLoadedInv, StepFlagInv, StepPoolInv, StepInHandInv, StepProcessorInv
     DEF IInv
<1>4. QED  BY <1>1, <1>2, <1>3 DEF IInv

------------------------------------------------------------------------------
(* The theorems.                                                           *)

(* In every state the server can reach, whatever threads of /unload_model  *)
(* run beside its event loop, the invariant holds.                         *)
THEOREM Invariant == Spec => []IInv
<1>1. Init => IInv
  BY InitIInv
<1>2. IInv /\ [Next]_vars => IInv'
  BY StepIInv
<1> QED  BY <1>1, <1>2, PTL DEF Spec

(* Every variable keeps its type.                                          *)
THEOREM TypeCorrect == Spec => []TypeOK
<1>1. IInv => TypeOK
  BY DEF IInv
<1> QED  BY <1>1, Invariant, PTL

(* An answer comes from an engine that was built for the model the client  *)
(* named, whatever was evicted, unloaded and loaded again since.           *)
THEOREM AnswersCorrect == Spec => []AnswersFromOwnModel
<1>1. IInv => AnswersFromOwnModel
  BY DEF IInv, AnswerInv, AnswersFromOwnModel
<1> QED  BY <1>1, Invariant, PTL

(* A parameter that a request sets is the one its prediction ran with to   *)
(* the end, whatever the requests beside it in its batch ask for and       *)
(* whatever is loaded and evicted, unless an unload interrupted a batch of *)
(* the model.                                                              *)
THEOREM SettingsCorrect == Spec => []AnswersHonourOwnSettings
<1>1. IInv => AnswersHonourOwnSettings
  BY DEF IInv, AnswerInv, AnswersHonourOwnSettings
<1> QED  BY <1>1, Invariant, PTL

(* No failure and no unload changes an answer that a client was given.     *)
THEOREM AnswersFinal == Spec => AnswerIsFinal
<1> DEFINE Final == \A r \in Clients : req[r].st \in {"ok", "error"} => req'[r] = req[r]
<1>1. ASSUME IInv, [Next]_vars PROVE Final
  <2> SUFFICES ASSUME NEW r \in Clients, req[r].st \in {"ok", "error"}
               PROVE  req'[r] = req[r]
    OBVIOUS
  <2>1. QED
    BY <1>1, StepOfRequest DEF Arrives, Clashes, Fails, GetsAnswer
<1>2. IInv /\ [Next]_vars => [Final]_vars
  BY <1>1
<1> HIDE DEF Final
<1>3. Spec => [][Final]_vars
  BY <1>2, Invariant, PTL DEF Spec
<1> QED  BY <1>3 DEF AnswerIsFinal, Final

(* No two predictions run on one engine, however models come and go, unless *)
(* an unload interrupted a batch of the model the engine was built for.    *)
THEOREM InferenceCorrect == Spec => []InferenceIsSerialised
<1>1. ASSUME IInv PROVE InferenceIsSerialised
  <2> SUFFICES ASSUME NEW a \in Running, NEW b \in Running,
                      a.ph = "running", b.ph = "running", a.using = b.using,
                      Undisturbed(madeFor[a.using])
               PROVE  a = b
    BY DEF InferenceIsSerialised
  <2>1. PICK e \in Engines, f \in Engines : a \in active[e] /\ b \in active[f]
    BY DEF Running
  <2>2. /\ madeFor[a.using] = a.job.model /\ madeFor[b.using] = b.job.model
        /\ a.job.model \in Models
    BY <1>1, <2>1 DEF IInv, ActiveInv, TypeOK, ActiveJob, Job
  <2>3. a.using = e /\ b.using = f
    BY <1>1, <2>1, <2>2 DEF IInv, PoolInv, Settled
  <2>4. QED  BY <1>1, <2>1, <2>3 DEF IInv, ActiveInv
<1> QED  BY <1>1, Invariant, PTL

(* Two models are loaded at once only if both were preloaded and no        *)
(* request has been accepted yet.                                          *)
THEOREM LoadingCorrect == Spec => []SingleModelLoaded
<1>1. IInv => SingleModelLoaded
  BY DEF IInv, LoadedInv, SingleModelLoaded
<1> QED  BY <1>1, Invariant, PTL

(* As long as no thread of /unload_model was started, the flag of a model  *)
(* tells whether it has an engine.                                         *)
THEOREM FlagCorrect == Spec => []LoadedHasEngine
<1>1. ASSUME IInv, LoopFree, NoUnloadBegan, NEW m \in Models
      PROVE  loaded[m] <=> engine[m] \in Engines
  <2>1. Untouched(m)
    BY <1>1, ServerAssumption DEF NoUnloadBegan, IInv, UnloaderInv, Untouched
  <2>2. QED  BY <1>1, <2>1 DEF IInv, FlagInv, Agree, LoopFree, TypeOK
<1>2. IInv => LoadedHasEngine
  BY <1>1 DEF LoadedHasEngine
<1> QED  BY <1>2, Invariant, PTL

(* A queue has a processor, a processor that waits has the job of its      *)
(* group, and no request is lost but with its batch, when an unload cancels *)
(* its processor.                                                          *)
THEOREM NobodyForgotten == Spec => []NobodyIsForgotten
<1>1. ASSUME IInv PROVE NobodyIsForgotten
  <2> USE <1>1 DEF IInv
  <2>1. ASSUME NEW m \in Models, NEW j \in Job, JobOK(j), WaitsFor(m, j)
        PROVE  j.live /\ j.kind = "batch" /\ j.model = m /\ j.reqs = Group(task[m].todo)
    BY <2>1 DEF JobOK, JobFits, BatchFits, WaitsFor, GroupIn, Group, SameGroup
  <2>2. ASSUME NEW m \in Models, task[m].st = "await"
        PROVE  \E j \in Jobs : /\ j.live /\ j.kind = "batch" /\ j.model = m
                                /\ j.reqs = Group(task[m].todo)
    <3>1. PICK e \in Engines : \/ \E i \in DOMAIN pending[e] : WaitsFor(m, pending[e][i])
                               \/ \E a \in active[e] : WaitsFor(m, a.job)
      BY <2>2 DEF AwaitInv
    <3>2. PICK j : /\ j \in Job /\ JobOK(j) /\ WaitsFor(m, j)
                   /\ j \in ToSet(pending[e]) \cup {a.job : a \in active[e]}
      <4>1. CASE \E i \in DOMAIN pending[e] : WaitsFor(m, pending[e][i])
        <5>1. PICK i \in DOMAIN pending[e] : WaitsFor(m, pending[e][i])
          BY <4>1
        <5>2. pending[e] \in Seq(Job) /\ JobOK(pending[e][i])
          BY DEF TypeOK, JobInv
        <5>3. pending[e][i] \in Job /\ pending[e][i] \in ToSet(pending[e])
          BY <5>2 DEF ToSet
        <5>4. QED  BY <5>1, <5>2, <5>3
      <4>2. CASE \E a \in active[e] : WaitsFor(m, a.job)
        <5>1. PICK a \in active[e] : WaitsFor(m, a.job)
          BY <4>2
        <5>2. a \in ActiveJob /\ JobOK(a.job)
          BY DEF TypeOK, JobInv
        <5>3. a.job \in Job
          BY <5>2 DEF ActiveJob
        <5>4. QED  BY <5>1, <5>2, <5>3
      <4>3. QED  BY <3>1, <4>1, <4>2
    <3>3. j \in Jobs
      BY <3>2 DEF Jobs
    <3>4. QED  BY <2>1, <3>2, <3>3
  <2>3. QED  BY <2>2 DEF NobodyIsForgotten, InHandInv, ProcessorInv
<1> QED  BY <1>1, Invariant, PTL
==============================================================================
