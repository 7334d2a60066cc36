----------------------------- MODULE ModelServer -----------------------------
(***************************************************************************)
(* The inference server of eole/bin/run/serve.py: several models behind    *)
(* one asyncio event loop, each with a request queue, a batch-processor    *)
(* task and an engine whose one-thread pool runs the predictions.          *)
(*                                                                         *)
(* Three kinds of thread run here.  The event loop runs the endpoint       *)
(* handlers and the batch processors; what it does between two real        *)
(* suspensions is one action.  The pool thread of each engine runs the     *)
(* jobs.  /unload_model is a plain def, so each of its calls runs          *)
(* Model.unload in a thread of its own, statement by statement.            *)
(*                                                                         *)
(* Inputs, outputs and timing are abstracted: a request asks one model     *)
(* for one prediction under one setting, and batch_timeout may expire at   *)
(* any moment after the first request of a batch.  Task.cancel called from *)
(* a foreign thread is taken to act at once.                               *)
(***************************************************************************)
EXTENDS Filtering, FiniteSets, SequencesExt

CONSTANTS
    Models,      \* keys of Server.models
    Preloaded,   \* the models configured with preload
    Requests,    \* requests to the non-streaming endpoints
    Streams,     \* requests to the streaming endpoints
    Settings,    \* values of a decoding parameter such as top_k
    Unset,       \* the parameter is absent from the request's settings
    Configured,  \* the value the model's configuration gives it
    Engines,     \* identities of InferenceEnginePY instances
    NoEngine,    \* the attribute engine holds None
    Deleted,     \* the attribute engine has just been deleted
    Unloaders,   \* concurrent calls of /unload_model
    BatchSize    \* Model.batch_size

ASSUME ServerAssumption ==
    /\ Preloaded \subseteq Models
    /\ Requests \cap Streams = {}
    /\ "nobody" \notin Models \cup Requests \cup Streams
    /\ Configured \in Settings
    /\ Unset \notin Settings
    /\ NoEngine \notin Engines /\ Deleted \notin Engines /\ NoEngine # Deleted
    /\ BatchSize \in Nat \ {0}

VARIABLES
    req,        \* req[r]: the client's request and what became of it
    loaded,     \* Model.loaded
    engine,     \* Model.engine
    madeFor,    \* the model an engine was built for, or "nobody" before that
    predictor,  \* the value an engine's predictor currently holds
    queue,      \* Model.request_queue
    task,       \* Model.processing_task and its local variables
    pending,    \* jobs submitted to an engine's pool, not started
    active,     \* jobs an engine's pool is running
    loop,       \* the handler that holds the event loop, if any
    unloader,   \* the threads running unload_model
    orphaned    \* requests that were in a batch when its processor was cancelled

vars == <<req, loaded, engine, madeFor, predictor, queue, task, pending,
          active, loop, unloader, orphaned>>

Clients == Requests \cup Streams
NoTask == [st |-> "none", batch |-> <<>>, todo |-> <<>>]
Idle == [st |-> "idle", batch |-> <<>>, todo |-> <<>>]
FreeLoop == [pc |-> "free", model |-> "nobody", client |-> "nobody"]
NoAnswer == [engine |-> NoEngine, set |-> Unset]

(* A client's request, a batch processor, a job of an engine's pool, and a  *)
(* job that a pool's thread has begun.                                     *)
ClientRequest == [st : {"new", "waiting", "ok", "error"},
                  model : Models \cup {"nobody"}, set : Settings \cup {Unset},
                  answer : [engine : Engines \cup {NoEngine},
                            set : Settings \cup {Unset}]]
Task == [st : {"none", "idle", "collect", "await"},
         batch : Seq(Requests), todo : Seq(Requests)]
Job == [kind : {"batch", "stream"}, model : Models, reqs : Seq(Clients),
        set : Settings \cup {Unset}, live : BOOLEAN]
ActiveJob == [job : Job, using : Engines \cup {NoEngine},
              set : Settings \cup {Unset}, ph : {"picked", "running"}]

TypeOK ==
    /\ req \in [Clients -> ClientRequest]
    /\ loaded \in [Models -> BOOLEAN]
    /\ engine \in [Models -> Engines \cup {NoEngine, Deleted}]
    /\ madeFor \in [Engines -> Models \cup {"nobody"}]
    /\ predictor \in [Engines -> Settings]
    /\ queue \in [Models -> Seq(Requests)]
    /\ task \in [Models -> Task]
    /\ pending \in [Engines -> Seq(Job)]
    /\ active \in [Engines -> SUBSET ActiveJob]
    /\ loop \in [pc : {"free", "evicted", "created"},
                 model : Models \cup {"nobody"},
                 client : Clients \cup {"nobody"}]
    /\ unloader \in [Unloaders -> [pc : {"start", "cancelled", "drained",
                                         "deleted", "cleared", "done"},
                                   model : Models \cup {"nobody"}]]
    /\ orphaned \subseteq Requests

Init ==
    /\ req = [r \in Clients |-> [st |-> "new", model |-> "nobody",
                                 set |-> Unset, answer |-> NoAnswer]]
    /\ loaded = [m \in Models |-> m \in Preloaded]
    /\ \E made \in Injection(Preloaded, Engines) :
         /\ engine = [m \in Models |-> IF m \in Preloaded THEN made[m] ELSE NoEngine]
         /\ madeFor = [e \in Engines |-> IF e \in Range(made) THEN AntiFunction(made)[e]
                                                                ELSE "nobody"]
    /\ predictor = [e \in Engines |-> Configured]
    /\ queue = [m \in Models |-> <<>>]
    /\ task = [m \in Models |-> NoTask]
    /\ pending = [e \in Engines |-> <<>>]
    /\ active = [e \in Engines |-> {}]
    /\ loop = FreeLoop
    /\ unloader = [u \in Unloaders |-> [pc |-> "start", model |-> "nobody"]]
    /\ orphaned = {}

------------------------------------------------------------------------------
(* What Model.unload does, in the order of its statements.                 *)

(* Mutant: the failure overwrites the requests that were answered.         *)
FailedAll(f, rs) == [r \in Clients |-> IF r \in rs THEN [f[r] EXCEPT !.st = "error"]
                                                   ELSE f[r]]

Failed(f, rs) == [r \in Clients |-> IF r \in rs /\ f[r].st = "waiting"
                                    THEN [f[r] EXCEPT !.st = "error"]
                                    ELSE f[r]]

(* processing_task.cancel(): a job that waits in the pool is withdrawn,    *)
(* one that has started runs on with nobody to receive its result.  The    *)
(* batch is a local variable of the task and goes with it.                 *)
OwnedBy(j, X) == j.kind = "batch" /\ j.live /\ j.model \in X
CancelTasks(X) ==
    /\ task' = [m \in Models |-> IF m \in X THEN NoTask ELSE task[m]]
    /\ pending' = [e \in Engines |->
                     Kept(pending[e], {j \in ToSet(pending[e]) : ~OwnedBy(j, X)})]
    /\ active' = [e \in Engines |->
                    {IF OwnedBy(a.job, X) THEN [a EXCEPT !.job.live = FALSE]
                                          ELSE a : a \in active[e]}]
    /\ orphaned' = orphaned \cup UNION {ToSet(task[m].batch) : m \in X}

Drained(X) == UNION {ToSet(queue[m]) : m \in X}
ClearQueues(X) ==
    /\ queue' = [m \in Models |-> IF m \in X THEN <<>> ELSE queue[m]]
    /\ req' = Failed(req, Drained(X))

------------------------------------------------------------------------------
(* Endpoint handlers, on the event loop.                                   *)

LoopFree == loop.pc = "free"

(* Mutant: maybe_load_model forgets to unload the others.                  *)
OthersKept(m) == {}

(* What maybe_load_model unloads for an id, which need not be a key of     *)
(* models: "nobody" is one that is not, and then nothing stays.            *)
Others(m) == Models \ {m}

(* Model.unload, called by a handler for each model of X; f is req with the *)
(* request the handler is there for.                                       *)
Unloaded(X, f) ==
    /\ CancelTasks(X)
    /\ queue' = [x \in Models |-> IF x \in X THEN <<>> ELSE queue[x]]
    /\ req' = Failed(f, Drained(X))
    /\ engine' = [x \in Models |-> IF x \in X THEN NoEngine ELSE engine[x]]
    /\ loaded' = [x \in Models |-> x \notin X /\ loaded[x]]
    /\ UNCHANGED <<madeFor, predictor, unloader>>

(* A request for model m arrives and its handler awaits maybe_load_model,   *)
(* which unloads every other model.                                        *)
Arrived(r, m, s) == [req EXCEPT ![r] = [st |-> "waiting", model |-> m, set |-> s,
                                        answer |-> @.answer]]
CanEvict(m) == LoopFree /\ \A x \in Others(m) : engine[x] # Deleted

Evict(r) ==
    \E m \in Models, s \in Settings \cup {Unset} :
        /\ CanEvict(m)
        /\ req[r].st = "new"
        /\ Unloaded(Others(m), Arrived(r, m, s))
        /\ loop' = [pc |-> "evicted", model |-> m, client |-> r]

(* count_tokens goes on to load the model, for no prediction; the model    *)
(* descriptor does not even do that.                                       *)
CountTokens ==
    \E m \in Models :
        /\ CanEvict(m)
        /\ Unloaded(Others(m), req)
        /\ loop' = [pc |-> "evicted", model |-> m, client |-> "nobody"]

DescribeModel ==
    \E m \in Models :
        /\ CanEvict(m)
        /\ ~loaded[m]
        /\ Unloaded(Others(m), req)
        /\ UNCHANGED loop

(* /infer does not look the id up before: if no model has it, it unloads    *)
(* them all and raises KeyError.  The client who sent it is left out.      *)
EvictUnknown ==
    /\ CanEvict("nobody")
    /\ Unloaded(Others("nobody"), req)
    /\ UNCHANGED loop

(* A request for m while a thread of /unload_model sits between its del    *)
(* and its assignment for x: the second del raises AttributeError and the  *)
(* request fails, with the models that precede x in the dictionary already *)
(* unloaded.                                                               *)
Clash(m, x, before, f) ==
    /\ LoopFree
    /\ m # x /\ engine[x] = Deleted
    /\ before \subseteq {y \in Others(m) : engine[y] # Deleted}
    /\ CancelTasks(before \cup {x})
    /\ queue' = [y \in Models |-> IF y \in before \cup {x} THEN <<>> ELSE queue[y]]
    /\ req' = Failed(f, Drained(before \cup {x}))
    /\ engine' = [y \in Models |-> IF y \in before THEN NoEngine ELSE engine[y]]
    /\ loaded' = [y \in Models |-> loaded[y] /\ y \notin before]
    /\ UNCHANGED <<madeFor, predictor, loop, unloader>>

Refused(r, m) == [req EXCEPT ![r] = [st |-> "error", model |-> m, set |-> @.set,
                                     answer |-> @.answer]]
EvictClash(r) ==
    /\ req[r].st = "new"
    /\ \E m \in Models, x \in Models, before \in SUBSET Models :
            Clash(m, x, before, Refused(r, m))

(* The same for count_tokens and for an id that no model has.              *)
CountClash ==
    \E m \in Models \cup {"nobody"}, x \in Models, before \in SUBSET Models :
        Clash(m, x, before, req)

(* Mutant: the handler forgets ensure_batch_processor.                     *)
AcceptOnly(m, r) ==
    /\ loop' = FreeLoop
    /\ queue' = IF r \notin Requests THEN queue ELSE [queue EXCEPT ![m] = Append(@, r)]
    /\ UNCHANGED task

(* ensure_batch_processor and request_queue.put, or the start of the       *)
(* streaming response, or the counting of tokens.                          *)
Accept(m, r) ==
    /\ loop' = FreeLoop
    /\ IF r \notin Requests
       THEN UNCHANGED <<task, queue>>
       ELSE /\ task' = IF task[m].st = "none" THEN [task EXCEPT ![m] = Idle]
                                              ELSE task
            /\ queue' = [queue EXCEPT ![m] = Append(@, r)]

AcceptLoaded ==
    /\ loop.pc = "evicted"
    /\ loaded[loop.model]
    /\ Accept(loop.model, loop.client)
    /\ UNCHANGED <<req, loaded, engine, madeFor, predictor, pending, active,
                   unloader, orphaned>>

(* load(): the engine is built and bound first, the flag is set after.     *)
LoadEngine ==
    /\ loop.pc = "evicted"
    /\ ~loaded[loop.model]
    /\ \E e \in Engines :
         /\ madeFor[e] = "nobody"
         /\ madeFor' = [madeFor EXCEPT ![e] = loop.model]
         /\ engine' = [engine EXCEPT ![loop.model] = e]
    /\ loop' = [loop EXCEPT !.pc = "created"]
    /\ UNCHANGED <<req, loaded, predictor, queue, task, pending, active,
                   unloader, orphaned>>

(* Mutant: the flag is set before the engine is built.                     *)
LoadFailsFlagged ==
    /\ loop.pc = "evicted"
    /\ ~loaded[loop.model]
    /\ req' = Failed(req, {loop.client})
    /\ loaded' = [loaded EXCEPT ![loop.model] = TRUE]
    /\ loop' = FreeLoop
    /\ UNCHANGED <<engine, madeFor, predictor, queue, task, pending, active, unloader,
                   orphaned>>

LoadFails ==
    /\ loop.pc = "evicted"
    /\ ~loaded[loop.model]
    /\ req' = Failed(req, {loop.client})
    /\ loop' = FreeLoop
    /\ UNCHANGED <<loaded, engine, madeFor, predictor, queue, task, pending,
                   active, unloader, orphaned>>

SetLoaded ==
    /\ loop.pc = "created"
    /\ loaded' = [loaded EXCEPT ![loop.model] = TRUE]
    /\ Accept(loop.model, loop.client)
    /\ UNCHANGED <<req, engine, madeFor, predictor, pending, active, unloader,
                   orphaned>>

(* _produce, in a thread of its own, reads model_obj.engine when it gets   *)
(* to run: None raises, and the stream ends with that error.               *)
Jobs == UNION {ToSet(pending[e]) \cup {a.job : a \in active[e]} : e \in Engines}
StreamRuns(r) == \E j \in Jobs : j.kind = "stream" /\ j.reqs = <<r>>

(* Mutant: the stream runs on whichever engine is loaded.                  *)
ProduceAnywhere(r) ==
    /\ r \in Streams /\ req[r].st = "waiting" /\ loop.client # r /\ ~StreamRuns(r)
    /\ \E m \in Models :
         /\ engine[m] \in Engines
         /\ pending' = [pending EXCEPT ![engine[m]] =
              Append(@, [kind |-> "stream", model |-> m, reqs |-> <<r>>,
                         set |-> req[r].set, live |-> TRUE])]
    /\ UNCHANGED <<req, loaded, engine, madeFor, predictor, queue, task, active,
                   loop, unloader, orphaned>>

Produce(r) ==
    /\ r \in Streams
    /\ req[r].st = "waiting"
    /\ loop.client # r
    /\ ~StreamRuns(r)
    /\ LET m == req[r].model IN
       IF engine[m] \in Engines
       THEN /\ pending' = [pending EXCEPT ![engine[m]] =
                 Append(@, [kind |-> "stream", model |-> m, reqs |-> <<r>>,
                            set |-> req[r].set, live |-> TRUE])]
            /\ UNCHANGED req
       ELSE /\ req' = [req EXCEPT ![r].st = "error"]
            /\ UNCHANGED pending
    /\ UNCHANGED <<loaded, engine, madeFor, predictor, queue, task, active,
                   loop, unloader, orphaned>>

------------------------------------------------------------------------------
(* The batch processor of model m, on the event loop.                      *)

TakeFirst(m) ==
    /\ LoopFree
    /\ task[m].st = "idle"
    /\ queue[m] # <<>>
    /\ task' = [task EXCEPT ![m] = [st |-> "collect",
                                    batch |-> <<Head(queue[m])>>, todo |-> <<>>]]
    /\ queue' = [queue EXCEPT ![m] = Tail(@)]
    /\ UNCHANGED <<req, loaded, engine, madeFor, predictor, pending, active,
                   loop, unloader, orphaned>>

(* Mutant: the batch is replaced instead of extended.                      *)
TakeOther(m) ==
    /\ LoopFree
    /\ task[m].st = "collect" /\ Len(task[m].batch) < BatchSize /\ queue[m] # <<>>
    /\ task' = [task EXCEPT ![m].batch = <<Head(queue[m])>>]
    /\ queue' = [queue EXCEPT ![m] = Tail(@)]
    /\ UNCHANGED <<req, loaded, engine, madeFor, predictor, pending, active,
                   loop, unloader, orphaned>>

TakeMore(m) ==
    /\ LoopFree
    /\ task[m].st = "collect"
    /\ Len(task[m].batch) < BatchSize
    /\ queue[m] # <<>>
    /\ task' = [task EXCEPT ![m].batch = Append(@, Head(queue[m]))]
    /\ queue' = [queue EXCEPT ![m] = Tail(@)]
    /\ UNCHANGED <<req, loaded, engine, madeFor, predictor, pending, active,
                   loop, unloader, orphaned>>

(* Mutant: requests are batched whatever their settings.                   *)
AnyGroup(r, first) == TRUE

(* _process_batch groups the batch by settings; the group served next is   *)
(* that of the first request still to do.                                  *)
SameGroup(r, first) == req[r].set = req[first].set
Group(todo) == Kept(todo, {r \in Requests : SameGroup(r, Head(todo))})
Rest(todo) == Kept(todo, {r \in Requests : ~SameGroup(r, Head(todo))})

(* Submit the next group to the pool of the engine the model has now, or   *)
(* finish; without an engine the except branch answers the whole batch.    *)
(* f is req with the answers already distributed.                          *)
SubmitNext(m, f, todo) ==
    LET e == engine[m] IN
    CASE todo = <<>> ->
            /\ task' = [task EXCEPT ![m] = Idle]
            /\ req' = f
            /\ UNCHANGED pending
      [] todo # <<>> /\ e \in Engines ->
            /\ task' = [task EXCEPT ![m] = [st |-> "await", batch |-> @.batch,
                                            todo |-> todo]]
            /\ req' = f
            /\ pending' = [pending EXCEPT ![e] =
                 Append(@, [kind |-> "batch", model |-> m, reqs |-> Group(todo),
                            set |-> req[Head(todo)].set, live |-> TRUE])]
      [] OTHER ->
            /\ task' = [task EXCEPT ![m] = Idle]
            /\ req' = Failed(f, ToSet(task[m].batch))
            /\ UNCHANGED pending

CloseBatch(m) ==
    /\ LoopFree
    /\ task[m].st = "collect"
    /\ SubmitNext(m, req, task[m].batch)
    /\ UNCHANGED <<loaded, engine, madeFor, predictor, queue, active, loop,
                   unloader, orphaned>>

------------------------------------------------------------------------------
(* The pool thread of engine e.                                            *)

(* Mutant: a pool with more than one thread.                               *)
StartAnother(e) ==
    /\ pending[e] # <<>>
    /\ active' = [active EXCEPT ![e] = @ \cup
                   {[job |-> Head(pending[e]), using |-> NoEngine,
                     set |-> Unset, ph |-> "picked"]}]
    /\ pending' = [pending EXCEPT ![e] = Tail(@)]
    /\ UNCHANGED <<req, loaded, engine, madeFor, predictor, queue, task, loop,
                   unloader, orphaned>>

StartJob(e) ==
    /\ pending[e] # <<>>
    /\ active[e] = {}
    /\ active' = [active EXCEPT ![e] = @ \cup
                   {[job |-> Head(pending[e]), using |-> NoEngine,
                     set |-> Unset, ph |-> "picked"]}]
    /\ pending' = [pending EXCEPT ![e] = Tail(@)]
    /\ UNCHANGED <<req, loaded, engine, madeFor, predictor, queue, task, loop,
                   unloader, orphaned>>

(* A batch job evaluates self.engine only now; a stream is a closure over  *)
(* the engine it was submitted to.  update_settings writes the settings    *)
(* the job names into the predictor and leaves the others as they are; set *)
(* is the value with which the prediction runs.                            *)
Effective(e, s) == IF s = Unset THEN predictor[e] ELSE s
RunJob(e) ==
    \E a \in active[e] :
        LET x == IF a.job.kind = "stream" THEN e ELSE engine[a.job.model] IN
        /\ a.ph = "picked"
        /\ x \in Engines
        /\ predictor' = [predictor EXCEPT ![x] = Effective(x, a.job.set)]
        /\ active' = [active EXCEPT ![e] = (@ \ {a}) \cup
               {[job |-> a.job, using |-> x, set |-> Effective(x, a.job.set),
                 ph |-> "running"]}]
        /\ UNCHANGED <<req, loaded, engine, madeFor, queue, task, pending,
                       loop, unloader, orphaned>>

(* A prediction reads the predictor's attributes again for each of its     *)
(* batches, and finds what another prediction on its engine has written.   *)
NextBatch(e) ==
    \E a \in active[e] :
        /\ a.ph = "running"
        /\ a.set # predictor[a.using]
        /\ active' = [active EXCEPT ![e] = (@ \ {a}) \cup
               {[a EXCEPT !.set = predictor[a.using]]}]
        /\ UNCHANGED <<req, loaded, engine, madeFor, predictor, queue, task,
                       pending, loop, unloader, orphaned>>

(* The result reaches the event loop, where whoever awaits it resumes: the *)
(* batch processor distributes it and submits the next group, a stream     *)
(* ends its response.                                                      *)
Answered(rs, a) == [r \in Clients |->
    IF r \in rs THEN [req[r] EXCEPT !.st = "ok",
                        !.answer = [engine |-> a.using, set |-> a.set]]
                ELSE req[r]]
Finish(e) ==
    \E a \in active[e] :
        /\ a.ph = "running"
        /\ active' = [active EXCEPT ![e] = @ \ {a}]
        /\ IF ~a.job.live
           THEN UNCHANGED <<req, task, pending>>
           ELSE /\ LoopFree
                /\ IF a.job.kind = "stream"
                   THEN /\ req' = Answered(ToSet(a.job.reqs), a)
                        /\ UNCHANGED <<task, pending>>
                   ELSE SubmitNext(a.job.model, Answered(ToSet(a.job.reqs), a),
                                   Rest(task[a.job.model].todo))
        /\ UNCHANGED <<loaded, engine, madeFor, predictor, queue, loop,
                       unloader, orphaned>>

(* The job raises: in infer_list, or because the engine it looks up is     *)
(* gone.  The except branch answers every request of the batch that has no *)
(* answer yet.                                                             *)
FailJob(e) ==
    \E a \in active[e] :
        /\ active' = [active EXCEPT ![e] = @ \ {a}]
        /\ IF ~a.job.live
           THEN UNCHANGED <<req, task>>
           ELSE /\ LoopFree
                /\ IF a.job.kind = "stream"
                   THEN /\ req' = Failed(req, ToSet(a.job.reqs))
                        /\ UNCHANGED task
                   ELSE /\ req' = Failed(req, ToSet(task[a.job.model].batch))
                        /\ task' = [task EXCEPT ![a.job.model] = Idle]
        /\ UNCHANGED <<loaded, engine, madeFor, predictor, queue, pending,
                       loop, unloader, orphaned>>

------------------------------------------------------------------------------
(* /unload_model in a thread of its own.                                   *)

At(u, pc) == unloader[u].pc = pc
Goto(u, pc) == unloader' = [unloader EXCEPT ![u].pc = pc]

UnloadCancel(u) ==
    /\ At(u, "start")
    /\ \E m \in Models :
         /\ CancelTasks({m})
         /\ unloader' = [unloader EXCEPT ![u] = [pc |-> "cancelled", model |-> m]]
    /\ UNCHANGED <<req, loaded, engine, madeFor, predictor, queue, loop>>

UnloadDrain(u) ==
    /\ At(u, "cancelled")
    /\ ClearQueues({unloader[u].model})
    /\ Goto(u, "drained")
    /\ UNCHANGED <<loaded, engine, madeFor, predictor, task, pending, active,
                   loop, orphaned>>

UnloadDelete(u) ==
    LET m == unloader[u].model IN
    /\ At(u, "drained")
    /\ IF engine[m] = Deleted
       THEN Goto(u, "done") /\ UNCHANGED engine
       ELSE Goto(u, "deleted") /\ engine' = [engine EXCEPT ![m] = Deleted]
    /\ UNCHANGED <<req, loaded, madeFor, predictor, queue, task, pending,
                   active, loop, orphaned>>

UnloadClear(u) ==
    /\ At(u, "deleted")
    /\ engine' = [engine EXCEPT ![unloader[u].model] = NoEngine]
    /\ Goto(u, "cleared")
    /\ UNCHANGED <<req, loaded, madeFor, predictor, queue, task, pending,
                   active, loop, orphaned>>

UnloadFlag(u) ==
    /\ At(u, "cleared")
    /\ loaded' = [loaded EXCEPT ![unloader[u].model] = FALSE]
    /\ Goto(u, "done")
    /\ UNCHANGED <<req, engine, madeFor, predictor, queue, task, pending,
                   active, loop, orphaned>>

------------------------------------------------------------------------------
HandlerStep == \/ \E r \in Clients : Evict(r) \/ EvictClash(r)
               \/ CountTokens \/ DescribeModel \/ EvictUnknown \/ CountClash
LoopStep == AcceptLoaded \/ LoadEngine \/ LoadFails \/ SetLoaded
TaskStep(m) == TakeFirst(m) \/ TakeMore(m) \/ CloseBatch(m)
PoolStep(e) == \/ StartJob(e) \/ RunJob(e) \/ NextBatch(e)
               \/ Finish(e) \/ FailJob(e)
UnloadStep(u) == UnloadDrain(u) \/ UnloadDelete(u) \/ UnloadClear(u) \/ UnloadFlag(u)

Next ==
    \/ HandlerStep
    \/ LoopStep
    \/ \E r \in Streams : Produce(r)
    \/ \E m \in Models : TaskStep(m)
    \/ \E e \in Engines : PoolStep(e)
    \/ \E u \in Unloaders : UnloadCancel(u) \/ UnloadStep(u)

Spec == Init /\ [][Next]_vars

(* Threads and the event loop keep running; a prediction ends.  The ready  *)
(* queue of asyncio is first in, first out: a callback that is ready again *)
(* and again between the handlers of other requests runs in the end, hence *)
(* strong fairness for what waits for the loop.  Nothing obliges a client  *)
(* to send a request or to call /unload_model.                             *)
Fairness ==
    /\ WF_vars(LoopStep)
    /\ \A r \in Streams : WF_vars(Produce(r))
    /\ \A m \in Models : SF_vars(TaskStep(m))
    /\ \A e \in Engines : SF_vars(PoolStep(e))
    /\ \A u \in Unloaders : WF_vars(UnloadStep(u))

FairSpec == Spec /\ Fairness

------------------------------------------------------------------------------
(* Properties.                                                             *)

InHand(r) == r \in UNION {ToSet(queue[m]) \cup ToSet(task[m].batch) : m \in Models}
Running == UNION {active[e] : e \in Engines}

(* No unload interrupted a batch of model m: no call of /unload_model for  *)
(* it began, and no eviction cancelled a processor that had a batch.       *)
NoUnloadBegan == \A u \in Unloaders : At(u, "start")
Untouched(m) == \A u \in Unloaders : unloader[u].model # m
Undisturbed(m) ==
    /\ Untouched(m)
    /\ \A r \in orphaned : req[r].model # m

(* infer_async returns the result of its own request: an answer comes from *)
(* an engine built for the model the request named, although jobs look the *)
(* engine up after models may have been swapped.                           *)
AnswersFromOwnModel ==
    \A r \in Clients : req[r].st = "ok" =>
        /\ req[r].answer.engine \in Engines
        /\ madeFor[req[r].answer.engine] = req[r].model

(* _process_batch batches "only compatible requests": a parameter that a   *)
(* request sets explicitly is the one its prediction ran with, to the end; *)
(* unless an unload interrupted a batch of its model, whose job may then   *)
(* overwrite the predictor of the engine that was loaded since.            *)
AnswersHonourOwnSettings ==
    \A r \in Clients :
        req[r].st = "ok" /\ req[r].set # Unset /\ Undisturbed(req[r].model) =>
            req[r].answer.set = req[r].set

(* asyncio futures are set once: no later failure of another group of the  *)
(* same batch, and no unload, changes an answer that was given.            *)
AnswerIsFinal ==
    [][\A r \in Clients : req[r].st \in {"ok", "error"} => req'[r] = req[r]]_vars

(* "A pool size of 1 serialises inference, which is required because the   *)
(* KV cache belongs to a single model instance" (inference_engine.py): two *)
(* predictions run on one engine only if an unload interrupted a batch of  *)
(* its model.  A job looks the engine up when it starts, and what was      *)
(* loaded since is an engine with a pool of its own.                       *)
InferenceIsSerialised ==
    \A a, b \in Running :
        /\ a # b /\ a.ph = "running" /\ b.ph = "running"
        /\ a.using = b.using
        => ~Undisturbed(madeFor[a.using])

(* maybe_load_model is there "to ensure a single model is loaded": two     *)
(* models are loaded at once only if the configuration preloads both and   *)
(* no request was accepted yet (the first ones may fail, see EvictClash).  *)
SingleModelLoaded ==
    \A m, x \in Models : loaded[m] /\ loaded[x] /\ m # x =>
        /\ {m, x} \subseteq Preloaded
        /\ \A r \in Clients : req[r].st \in {"new", "error"}

(* Model.unload "clear[s] any pending requests": a model that is not       *)
(* loaded and has no batch processor leaves no request without an answer.  *)
UnloadClearsPending ==
    \A r \in Requests : req[r].st = "waiting" /\ loop.client # r =>
        InHand(r) \/ loaded[req[r].model]

(* A request the server accepted is in the hands of a component that will  *)
(* answer it, unless an unload cancelled the processor that had it in its  *)
(* batch; whatever is evicted, loaded and fails.  A queue has a processor, *)
(* but for an instant of unload, and a processor that waits has its job,   *)
(* with its group.                                                         *)
NobodyIsForgotten ==
    /\ TypeOK
    /\ \A r \in Requests \ orphaned :
            req[r].st = "waiting" /\ loop.client # r => InHand(r)
    /\ \A m \in Models :
         /\ queue[m] # <<>> =>
              \/ task[m].st # "none"
              \/ \E u \in Unloaders : At(u, "cancelled") /\ unloader[u].model = m
         /\ task[m].st = "await" =>
              \E j \in Jobs : /\ j.live /\ j.kind = "batch" /\ j.model = m
                               /\ j.reqs = Group(task[m].todo)

(* "Ensure model is loaded": whenever the handlers are at rest the flag    *)
(* tells whether there is an engine, as long as no thread of /unload_model *)
(* has been started: its statements may interleave with those of a load.   *)
LoadedHasEngine ==
    LoopFree /\ NoUnloadBegan =>
        \A m \in Models : loaded[m] <=> engine[m] \in Engines

(* Every request is answered in the end, whatever batches it waits behind  *)
(* and whatever is evicted meanwhile, unless its batch lost its processor. *)
EveryRequestIsAnswered ==
    \A r \in Clients :
        req[r].st = "waiting" ~> req[r].st \in {"ok", "error"} \/ r \in orphaned
==============================================================================
