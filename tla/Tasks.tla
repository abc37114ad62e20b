-------------------------------- MODULE Tasks -------------------------------
(* The batch (module Batch) over the task registry (module Registry): what an *)
(* execution finds when it looks its function up, what the payload adapter    *)
(* makes of the config's payload, and the context its log records carry.      *)
EXTENDS Registry

CONSTANTS
  Requests, Jobs, Owner, MaxConcurrent, FaultSets,  \* those of Batch
  NoMeta,      \* get_task_meta() outside of a task context
  Assignments  \* what the configs of the jobs may ask for

\* A config's task_func, and whether its payload validates against a model.
Call == [name : TaskNames, fits : BOOLEAN]

ASSUME OwnerAssumption ==
  /\ Owner \in [Jobs -> Requests]
  /\ \A r \in Requests : \E j \in Jobs : Owner[j] = r
  /\ MaxConcurrent \in Nat \ {0}
  /\ FaultSets \subseteq SUBSET {"timeout", "abort", "writeError", "hang", "swallow",
                               "selfCancel", "delete"}

ASSUME CallAssumption ==
  /\ Assignments \subseteq [Jobs -> Call]
  /\ NoMeta \notin Jobs /\ Jobs \cap Requests = {}

VARIABLES
  child, result, reraise, cancel, gather, request, row, faults,  \* of Batch
  call,   \* what each job's config asks for
  meta,   \* the value of _task_meta_var in the context of each asyncio task
  token,  \* what each child's reset token restores
  ran     \* history: the jobs whose function body has been entered

batchVars == <<child, result, reraise, cancel, gather, request, row, faults>>
contextVars == <<meta, token>>
vars == <<registryVars, batchVars, contextVars, call, ran>>

B == INSTANCE Batch

Init ==
  /\ RegistryInit
  /\ B!Init
  /\ call \in Assignments
  /\ meta = [x \in Jobs \cup Requests |-> NoMeta]
  /\ token = [j \in Jobs |-> NoMeta]
  /\ ran = {}

-----------------------------------------------------------------------------
(* The lookup and the payload adapter *)

\* registry.get raises KeyError for an unknown name. The wrapper of a function
\* without parameters drops the payload; any other validates it and passes on
\* nothing else, so further required parameters are missing.
Enters(c) ==
  /\ c.name \in DOMAIN registry
  /\ LET sig == Decl(registry[c.name].from).sig
     IN  sig = "none" \/ (sig = "model" /\ c.fits)

\* Every wrapper is a coroutine function, so iscoroutinefunction turns nothing
\* away: the body of a synchronous function is called, and awaiting what it
\* returns raises TypeError. ("async": what the function returns can be awaited.)
Runs(c) == Enters(c) /\ Decl(registry[c.name].from).async

-----------------------------------------------------------------------------
(* The context *)

\* Seeded fault: the children share the context of the request.
ScopeOfRequest(j) == Owner[j]

\* gather wraps each coroutine in a task, which runs in a copy of its own.
Scope(j) == j

Enter(j) ==
  /\ token' = [token EXCEPT ![j] = meta[Scope(j)]]
  /\ meta' = [meta EXCEPT ![Scope(j)] = j]

\* What the task logger binds to a record made in the context x.
Label(x) == meta[x]

Exit(j) == meta' = [meta EXCEPT ![Scope(j)] = token[j]] /\ UNCHANGED token

-----------------------------------------------------------------------------

Start(j) ==
  /\ B!Acquire(j)
  /\ Runs(call[j])
  /\ Enter(j)
  /\ ran' = ran \cup {j}

\* Seeded fault: an await between the permit and the lookup.
FailSuspended(j) ==
  /\ B!Acquire(j)
  /\ ~Enters(call[j])
  /\ Enter(j)
  /\ UNCHANGED ran

\* No function is entered: only the last except clause is reached.
Fail(j) ==
  /\ B!Reject(j)
  /\ ~Enters(call[j])
  /\ Enter(j)
  /\ UNCHANGED ran

\* A synchronous function: its body returns, and awaiting fails, or it raises
\* by itself, TimeoutError and CancelledError included.
RunSync(j) ==
  /\ B!Reject(j) \/ B!RejectForRetry(j)
  /\ Enters(call[j]) /\ ~Runs(call[j])
  /\ Enter(j)
  /\ ran' = ran \cup {j}

\* The child ends inside its task_context, which is left.
End(j) ==
  /\ B!Miss(j) \/ B!Write(j) \/ B!WriteFails(j) \/ B!CancelWriting(j)
  /\ Exit(j)
  /\ UNCHANGED ran

\* Everything else the batch does leaves contexts and functions alone.
Other ==
  /\ \/ \E j \in Jobs : \/ B!Return(j) \/ B!CancelItself(j) \/ B!CancelWaiting(j)
                        \/ B!CancelRunning(j) \/ B!Swallow(j) \/ B!Find(j)
                        \/ B!Delete(j)
     \/ \E r \in Requests : B!Expire(r) \/ B!Abort(r) \/ B!Answer(r)
     \/ B!Finished
  /\ UNCHANGED <<contextVars, ran>>

\* Requests are only answered once the start-up is over.
Dispatch ==
  /\ stage = "up"
  /\ \/ \E j \in Jobs : Start(j) \/ Fail(j) \/ RunSync(j) \/ End(j)
     \/ Other
  /\ UNCHANGED <<registryVars, call>>

Next ==
  \/ StartUp /\ UNCHANGED <<batchVars, contextVars, call, ran>>
  \/ Dispatch

Spec == Init /\ [][Next]_vars

-----------------------------------------------------------------------------
(* Properties *)

\* Types of the whole composition.
TypeOK ==
  /\ B!TypeOK
  /\ layout \in Layouts
  /\ stage \in {"down", "importing", "up", "failed"}
  /\ DOMAIN registry \subseteq TaskNames
  /\ \A k \in DOMAIN registry : registry[k].from \in Declared
  /\ call \in Assignments
  /\ meta \in [Jobs \cup Requests -> Jobs \cup {NoMeta}]
  /\ token \in [Jobs -> Jobs \cup {NoMeta}]
  /\ ran \subseteq Jobs

\* services.py:207-218: a row says SUCCESS only if the job's function was
\* entered, and that function is a declared coroutine function its payload
\* fits. The status is SUCCESS until an except clause changes it, so a failure
\* that slips past those clauses is recorded as a success.
SuccessMeansRan ==
  \A j \in Jobs : row[j] = "success" =>
    /\ j \in ran
    /\ \E d \in Declared :
         /\ Decl(d).name = call[j].name /\ Decl(d).async
         /\ Decl(d).sig = "none" \/ (Decl(d).sig = "model" /\ call[j].fits)

\* services.py:220-235: a job whose function is never entered - its task is
\* unknown, its payload does not fit, or the function wants more parameters -
\* never asks for a retry, timeouts and aborted requests included: nothing is
\* awaited between its permit and its failure, so no cancellation can take the
\* failure's place. (A function that was entered may raise TimeoutError, be it
\* a synchronous one, which fails in any case.)
HopelessNotRetried ==
  \A j \in Jobs : row[j] = "retry" => Enters(call[j]) /\ j \in ran

\* context.py:30-31: however executions interleave, a log record of one bears
\* its own config and run, and nothing leaks to the request or past its end.
OwnLabel ==
  /\ \A j \in Jobs : child[j] \in B!Holding => Label(Scope(j)) = j
  /\ \A j \in Jobs : child[j] \notin B!Holding => Label(j) = NoMeta
  /\ \A r \in Requests : Label(r) = NoMeta

=============================================================================
