------------------------------- MODULE Registry -----------------------------
(* Start-up: lifespan calls autodiscover, which imports the modules of        *)
(* app/features/tasks one after the other; importing one runs its @task       *)
(* decorators, which fill the registry. An exception stops the start-up,      *)
(* whether a decorator raises it or another statement of the module.          *)
(*                                                                            *)
(* A declaration is what a decorated function shows: the key it is registered *)
(* under, its signature and whether it is a coroutine function. Signatures:   *)
(* no parameters; a payload of a BaseModel class; that and further required   *)
(* parameters; parameters but no payload; a payload of another type.          *)
EXTENDS Naturals, Sequences

CONSTANTS
  TaskNames,  \* the keys that occur
  Layouts     \* what may be deployed: the declarations of each module, in the
              \* order in which pkgutil.iter_modules yields the modules

Signatures == {"none", "model", "modelAndMore", "noPayload", "otherPayload"}
WithModel == {"model", "modelAndMore"}

Declaration == [name : TaskNames, sig : Signatures, async : BOOLEAN]

ASSUME LayoutAssumption == Layouts \subseteq Seq(Seq(Declaration))

VARIABLES
  layout,    \* the deployed modules
  stage,     \* where the lifespan is
  at,        \* the module being imported and its next declaration
  registry   \* _registry: a function on the keys registered so far

registryVars == <<layout, stage, at, registry>>

\* A wrapper knows its function; functools.wraps lets inspect.signature see the
\* signature of that function too. Seeded fault: the wrapper without it.
WrappedBare(m, i) == [from |-> <<m, i>>, shows |-> "noPayload"]
Wrapped(m, i)     == [from |-> <<m, i>>, shows |-> layout[m][i].sig]

Declared == UNION {{m} \X DOMAIN layout[m] : m \in DOMAIN layout}
Decl(d) == layout[d[1]][d[2]]

RegistryInit ==
  /\ layout \in Layouts
  /\ stage = "down"
  /\ at = <<1, 1>>
  /\ registry = [k \in {} |-> <<1, 1>>]

\* lifespan is entered, also again in a process whose last start-up failed:
\* modules that were imported completely are not executed again.
Discover ==
  /\ stage \in {"down", "failed"}
  /\ stage' = "importing"
  /\ at' = <<at[1], 1>>
  /\ UNCHANGED <<layout, registry>>

\* Seeded fault: a name that is taken is overwritten.
RaisesUnlessTyped(d) == d.sig \in {"noPayload", "otherPayload"}

\* The decorator raises: a taken key, before the function is wrapped, or a
\* signature the payload adapter cannot serve.
Raises(d) == d.name \in DOMAIN registry \/ d.sig \in {"noPayload", "otherPayload"}

Importing(m, i) ==
  stage = "importing" /\ at = <<m, i>> /\ m \in DOMAIN layout /\ i \in DOMAIN layout[m]

Register(m, i) ==
  /\ Importing(m, i) /\ ~Raises(layout[m][i])
  /\ registry' = [k \in DOMAIN registry \cup {layout[m][i].name} |->
                    IF k = layout[m][i].name THEN Wrapped(m, i) ELSE registry[k]]
  /\ at' = <<m, i + 1>>
  /\ UNCHANGED <<layout, stage>>

\* What the module registered before it raised stays registered.
Refuse(m, i) ==
  /\ Importing(m, i) /\ Raises(layout[m][i])
  /\ stage' = "failed"
  /\ UNCHANGED <<layout, at, registry>>

\* A statement outside the decorators raises, before, between or after them: an
\* import that is not found, a setting that is missing. It may go well next time.
ImportFails ==
  /\ stage = "importing" /\ at[1] \in DOMAIN layout
  /\ stage' = "failed"
  /\ UNCHANGED <<layout, at, registry>>

Imported ==
  /\ stage = "importing"
  /\ at[1] \in DOMAIN layout /\ at[2] > Len(layout[at[1]])
  /\ at' = <<at[1] + 1, 1>>
  /\ UNCHANGED <<layout, stage, registry>>

Serve ==
  /\ stage = "importing"
  /\ at[1] > Len(layout)
  /\ stage' = "up"
  /\ UNCHANGED <<layout, at, registry>>

StartUp ==
  \/ Discover \/ ImportFails \/ Imported \/ Serve
  \/ \E d \in Declared : Register(d[1], d[2]) \/ Refuse(d[1], d[2])

\* GET /tasks/specs: one entry per key, with a schema when the signature shows one.
TaskSpecs ==
  {[name |-> k, schema |-> registry[k].shows \in WithModel] : k \in DOMAIN registry}

-----------------------------------------------------------------------------
(* Properties *)

\* registry.py:72-75 and main.py:16: an application that serves has registered
\* every declared task under its own key. Two modules that use one key, and a
\* start-up repeated after a failed one, must not let a task go missing.
UpMeansComplete ==
  stage = "up" =>
    /\ \A d \in Declared : /\ Decl(d).name \in DOMAIN registry
                           /\ registry[Decl(d).name].from = d
    /\ \A k \in DOMAIN registry : Decl(registry[k].from).name = k

\* The module being imported has registered a task, in this start-up or before.
HalfImported ==
  \E d \in Declared : d[1] = at[1] /\ \E k \in DOMAIN registry : registry[k].from = d

\* registry.py:73 and main.py:16: a module that failed after it had registered a
\* task cannot be imported any more in this process, whatever made it fail: the
\* first of its decorators raises, since what the module registered is in its own
\* way. (One that registered nothing may be imported by the next start-up.)
RestartFails ==
  stage = "failed" /\ HalfImported =>
    /\ at[1] \in DOMAIN layout /\ 1 \in DOMAIN layout[at[1]]
    /\ Raises(layout[at[1]][1])

\* task_spec.py:10-34: the specs clients write configs from are those of the
\* declared functions, although the registry only holds their wrappers.
SpecsMatchDeclarations ==
  stage = "up" =>
    TaskSpecs = {[name |-> Decl(d).name, schema |-> Decl(d).sig \in WithModel] :
                   d \in Declared}

=============================================================================
