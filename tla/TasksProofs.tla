----------------------------- MODULE TasksProofs ----------------------------
(* Proofs about Registry and Tasks for any deployment, any number of jobs    *)
(* and requests, and any set of faults.                                      *)
EXTENDS Tasks, TLAPS

-----------------------------------------------------------------------------
(* The registry *)

\* The declarations whose decorators have run in this start-up or an earlier one.
Passed(d) ==
  d[1] < at[1] \/ (stage = "importing" /\ d[1] = at[1] /\ d[2] < at[2])

\* Every key names the function it was registered for, and what was passed is
\* registered: nothing is ever overwritten.
Keyed ==
  \A k \in DOMAIN registry :
    /\ registry[k].from \in Declared
    /\ Decl(registry[k].from).name = k
    /\ registry[k].shows = Decl(registry[k].from).sig
Filled ==
  \A d \in Declared : Passed(d) =>
    Decl(d).name \in DOMAIN registry /\ registry[Decl(d).name].from = d

RegistryInv ==
  /\ layout \in Layouts
  /\ at \in Nat \X Nat
  /\ Keyed /\ Filled
  /\ stage = "up" => at[1] > Len(layout)

\* Declarations are pairs of a module's and a function's number.
LEMMA DeclaredType ==
  ASSUME layout \in Layouts, NEW d \in Declared
  PROVE  /\ d[1] \in DOMAIN layout /\ d[2] \in DOMAIN layout[d[1]]
         /\ d[1] \in 1 .. Len(layout) /\ d[2] \in 1 .. Len(layout[d[1]])
         /\ d = <<d[1], d[2]>>
<1>1. layout \in Seq(Seq(Declaration))
  BY LayoutAssumption
<1>2. PICK m \in DOMAIN layout : d \in {m} \X DOMAIN layout[m]
  BY DEF Declared
<1>3. layout[m] \in Seq(Declaration)
  BY <1>1, <1>2
<1> QED
  BY <1>1, <1>2, <1>3

LEMMA RegistryInvInit == RegistryInit => RegistryInv
<1> SUFFICES ASSUME RegistryInit PROVE RegistryInv
  OBVIOUS
<1>1. layout \in Layouts /\ at = <<1, 1>> /\ stage = "down" /\ DOMAIN registry = {}
  BY DEF RegistryInit
<1>2. \A d \in Declared : ~Passed(d)
  BY <1>1, DeclaredType DEF Passed
<1> QED
  BY <1>1, <1>2 DEF RegistryInv, Keyed, Filled

\* A step that registers nothing and passes only what was passed.
LEMMA IdleRegistry ==
  ASSUME RegistryInv, UNCHANGED <<layout, registry>>, at' \in Nat \X Nat,
         stage' = "up" => at'[1] > Len(layout),
         \A d \in Declared : Passed(d)' => Passed(d)
  PROVE  RegistryInv'
<1>1. Declared' = Declared /\ \A d : Decl(d)' = Decl(d)
  BY DEF Declared, Decl
<1>2. Keyed'
  BY <1>1 DEF RegistryInv, Keyed, Decl
<1>3. Filled'
  BY <1>1 DEF RegistryInv, Filled, Decl
<1> QED
  BY <1>2, <1>3 DEF RegistryInv

LEMMA RegisterInv ==
  ASSUME RegistryInv, NEW d \in Declared, Register(d[1], d[2])
  PROVE  RegistryInv'
<1>1. /\ stage = "importing" /\ at = <<d[1], d[2]>> /\ at' = <<d[1], d[2] + 1>>
      /\ UNCHANGED <<layout, stage>>
  BY DEF Register, Importing
<1>2. /\ d[1] \in DOMAIN layout /\ d[2] \in DOMAIN layout[d[1]] /\ d = <<d[1], d[2]>>
      /\ d[1] \in Nat /\ d[2] \in Nat
  BY DeclaredType DEF RegistryInv
<1> DEFINE key == Decl(d).name
<1>3. /\ key \notin DOMAIN registry
      /\ registry' = [k \in DOMAIN registry \cup {key} |->
                        IF k = key THEN Wrapped(d[1], d[2]) ELSE registry[k]]
  BY DEF Register, Raises, Decl
<1>4. Wrapped(d[1], d[2]).from = d /\ Wrapped(d[1], d[2]).shows = Decl(d).sig
  BY <1>2 DEF Wrapped, Decl
<1>5. Declared' = Declared /\ \A e : Decl(e)' = Decl(e)
  BY <1>1 DEF Declared, Decl
<1> HIDE DEF key
<1>6. DOMAIN registry' = DOMAIN registry \cup {key} /\ registry'[key].from = d
      /\ registry'[key].shows = Decl(d).sig
      /\ \A k \in DOMAIN registry : registry'[k] = registry[k]
  BY <1>3, <1>4
<1>7. Keyed'
  <2> SUFFICES ASSUME NEW k \in DOMAIN registry'
               PROVE  /\ registry'[k].from \in Declared
                      /\ Decl(registry'[k].from).name = k
                      /\ registry'[k].shows = Decl(registry'[k].from).sig
    BY <1>1, <1>5 DEF Keyed, Decl
  <2>1. CASE k = key
    BY <1>6, <2>1 DEF key
  <2>2. CASE k \in DOMAIN registry
    BY <1>6, <2>2 DEF RegistryInv, Keyed
  <2> QED
    BY <1>6, <2>1, <2>2
<1>8. Filled'
  <2> SUFFICES ASSUME NEW e \in Declared, Passed(e)'
               PROVE  /\ Decl(e).name \in DOMAIN registry'
                      /\ registry'[Decl(e).name].from = e
    BY <1>1, <1>5 DEF Filled, Decl
  <2>1. e = <<e[1], e[2]>> /\ e[1] \in Nat /\ e[2] \in Nat
    BY DeclaredType DEF RegistryInv
  <2>2. CASE e = d
    BY <1>6, <2>2 DEF key
  <2>3. CASE e # d
    <3>1. Passed(e)
      BY <1>1, <1>2, <2>1, <2>3 DEF Passed
    <3> QED
      BY <1>6, <3>1 DEF RegistryInv, Filled
  <2> QED
    BY <2>2, <2>3
<1> QED
  BY <1>1, <1>2, <1>7, <1>8 DEF RegistryInv

LEMMA ImportedInv ==
  ASSUME RegistryInv, Imported PROVE RegistryInv'
<1>1. /\ stage = "importing" /\ at[1] \in DOMAIN layout /\ at[2] > Len(layout[at[1]])
      /\ at' = <<at[1] + 1, 1>> /\ UNCHANGED <<layout, stage, registry>>
  BY DEF Imported
<1>2. at \in Nat \X Nat /\ at' \in Nat \X Nat
  BY <1>1 DEF RegistryInv
<1>3. ASSUME NEW d \in Declared, Passed(d)' PROVE Passed(d)
  <2>1. /\ d[1] \in Nat /\ d[2] \in Nat /\ d[2] <= Len(layout[d[1]])
        /\ d[2] >= 1
    BY DeclaredType DEF RegistryInv
  <2>2. d[1] < at[1] + 1
    BY <1>1, <1>2, <1>3, <2>1 DEF Passed
  <2>3. CASE d[1] = at[1]
    <3>1. Len(layout[at[1]]) \in Nat
      <4>1. layout \in Seq(Seq(Declaration))
        BY LayoutAssumption DEF RegistryInv
      <4>2. layout[at[1]] \in Seq(Declaration)
        BY <1>1, <4>1
      <4> QED
        BY <4>2
    <3> QED
      BY <1>1, <1>2, <2>1, <2>3, <3>1 DEF Passed
  <2> QED
    BY <1>2, <2>1, <2>2, <2>3 DEF Passed
<1> QED
  BY <1>1, <1>2, <1>3, IdleRegistry

LEMMA StartUpInv ==
  ASSUME RegistryInv, StartUp \/ UNCHANGED registryVars PROVE RegistryInv'
<1>1. CASE Discover
  <2>1. \A d \in Declared : d[1] \in Nat /\ d[2] \in Nat /\ d[2] >= 1
    BY DeclaredType DEF RegistryInv
  <2>2. \A d \in Declared : Passed(d)' => Passed(d)
    BY <1>1, <2>1 DEF Discover, Passed, RegistryInv
  <2> QED
    BY <1>1, <2>2, IdleRegistry DEF Discover, RegistryInv
<1>2. CASE Imported
  BY <1>2, ImportedInv
<1>3. CASE Serve
  BY <1>3, IdleRegistry DEF Serve, Passed, RegistryInv
<1>4. ASSUME NEW d \in Declared, Refuse(d[1], d[2]) PROVE RegistryInv'
  BY <1>4, IdleRegistry DEF Refuse, Passed, RegistryInv
<1>5. CASE ImportFails
  BY <1>5, IdleRegistry DEF ImportFails, Passed, RegistryInv
<1>6. CASE UNCHANGED registryVars
  BY <1>6, IdleRegistry DEF registryVars, Passed, RegistryInv
<1> QED
  BY <1>1, <1>2, <1>3, <1>4, <1>5, <1>6, RegisterInv DEF StartUp

LEMMA RegistryInvariance == Spec => []RegistryInv
<1>1. Init => RegistryInv
  BY RegistryInvInit DEF Init
<1>2. RegistryInv /\ [Next]_vars => RegistryInv'
  <2>1. [Next]_vars => StartUp \/ UNCHANGED registryVars
    BY DEF Next, Dispatch, vars, registryVars
  <2> QED
    BY <2>1, StartUpInv
<1> QED
  BY <1>1, <1>2, PTL DEF Spec

\* Whatever modules are deployed and however often the start-up was repeated, an
\* application that serves has every declared task under its own key.
THEOREM ServingIsComplete == Spec => []UpMeansComplete
<1>1. RegistryInv => UpMeansComplete
  <2> SUFFICES ASSUME RegistryInv, stage = "up"
               PROVE  /\ \A d \in Declared : /\ Decl(d).name \in DOMAIN registry
                                             /\ registry[Decl(d).name].from = d
                      /\ \A k \in DOMAIN registry : Decl(registry[k].from).name = k
    BY DEF UpMeansComplete
  <2>1. layout \in Seq(Seq(Declaration))
    BY LayoutAssumption DEF RegistryInv
  <2>2. \A d \in Declared : Passed(d)
    BY <2>1, DeclaredType DEF RegistryInv, Passed
  <2> QED
    BY <2>2 DEF RegistryInv, Keyed, Filled
<1> QED
  BY <1>1, RegistryInvariance, PTL

\* And its specs are those of the declared functions.
THEOREM SpecsAreDeclared == Spec => []SpecsMatchDeclarations
<1>1. RegistryInv /\ UpMeansComplete => SpecsMatchDeclarations
  <2> SUFFICES ASSUME RegistryInv, UpMeansComplete, stage = "up"
               PROVE  TaskSpecs = {[name |-> Decl(d).name, schema |-> Decl(d).sig \in WithModel] :
                                     d \in Declared}
    BY DEF SpecsMatchDeclarations
  <2>1. ASSUME NEW k \in DOMAIN registry
        PROVE  /\ registry[k].from \in Declared
               /\ [name |-> k, schema |-> registry[k].shows \in WithModel] =
                    [name |-> Decl(registry[k].from).name,
                     schema |-> Decl(registry[k].from).sig \in WithModel]
    BY DEF RegistryInv, Keyed
  <2>2. ASSUME NEW d \in Declared
        PROVE  /\ Decl(d).name \in DOMAIN registry
               /\ [name |-> Decl(d).name, schema |-> Decl(d).sig \in WithModel] =
                    [name |-> Decl(d).name,
                     schema |-> registry[Decl(d).name].shows \in WithModel]
    BY DEF RegistryInv, Keyed, UpMeansComplete
  <2> QED
    BY <2>1, <2>2 DEF TaskSpecs
<1> QED
  BY <1>1, RegistryInvariance, ServingIsComplete, PTL

\* What is registered comes from the modules up to the one being imported; if
\* that one has registered a task, the first of its decorators will raise.
HalfInv ==
  /\ \A k \in DOMAIN registry : registry[k].from[1] <= at[1]
  /\ HalfImported =>
       /\ at[1] \in DOMAIN layout /\ 1 \in DOMAIN layout[at[1]]
       /\ Raises(layout[at[1]][1])

\* A step that registers nothing and stays at its module.
LEMMA HalfIdle ==
  ASSUME HalfInv, UNCHANGED <<layout, registry>>, at'[1] = at[1] PROVE HalfInv'
BY DEF HalfInv, HalfImported, Declared, Raises

LEMMA HalfRegister ==
  ASSUME RegistryInv, HalfInv, NEW d \in Declared, Register(d[1], d[2])
  PROVE  HalfInv'
<1>1. /\ d[1] \in DOMAIN layout /\ d[2] \in 1 .. Len(layout[d[1]]) /\ d = <<d[1], d[2]>>
      /\ layout \in Seq(Seq(Declaration))
  BY DeclaredType, LayoutAssumption DEF RegistryInv
<1>2. /\ stage = "importing" /\ at = <<d[1], d[2]>> /\ at' = <<d[1], d[2] + 1>>
      /\ layout' = layout
      /\ registry' = [k \in DOMAIN registry \cup {layout[d[1]][d[2]].name} |->
                        IF k = layout[d[1]][d[2]].name THEN Wrapped(d[1], d[2])
                                                       ELSE registry[k]]
  BY DEF Register, Importing
<1>3. d[1] \in Nat /\ \A k \in DOMAIN registry' : registry'[k].from[1] <= at'[1]
  BY <1>1, <1>2 DEF HalfInv, Wrapped
<1>4. 1 \in DOMAIN layout[d[1]]
  BY <1>1
<1>5. layout[d[1]][1].name \in DOMAIN registry'
  <2>1. CASE d[2] = 1
    BY <1>2, <2>1
  <2>2. CASE d[2] > 1
    <3>1. <<d[1], 1>> \in Declared
      BY <1>1, <1>4 DEF Declared
    <3>2. Passed(<<d[1], 1>>)
      BY <1>1, <1>2, <2>2 DEF Passed
    <3> QED
      BY <1>2, <3>1, <3>2 DEF RegistryInv, Filled, Decl
  <2> QED
    BY <1>1, <2>1, <2>2
<1> QED
  BY <1>1, <1>2, <1>3, <1>4, <1>5 DEF HalfInv, Raises

\* The next module has registered nothing yet.
LEMMA HalfImportedNext ==
  ASSUME RegistryInv, HalfInv, Imported PROVE HalfInv'
<1>1. at \in Nat \X Nat /\ at' = <<at[1] + 1, 1>> /\ UNCHANGED <<layout, registry>>
  BY DEF Imported, RegistryInv
<1>2. \A k \in DOMAIN registry : registry[k].from[1] \in Nat
  BY DeclaredType DEF RegistryInv, Keyed
<1>3. \A k \in DOMAIN registry : registry[k].from[1] < at'[1]
  BY <1>1, <1>2 DEF HalfInv
<1>4. ~HalfImported'
  BY <1>1, <1>2, <1>3 DEF HalfImported
<1> QED
  BY <1>1, <1>2, <1>3, <1>4 DEF HalfInv

LEMMA HalfInvariance == Spec => []HalfInv
<1>1. Init => HalfInv
  BY DEF Init, RegistryInit, HalfInv, HalfImported
<1>2. ASSUME RegistryInv, HalfInv, [Next]_vars PROVE HalfInv'
  <2>1. CASE Discover \/ Serve \/ ImportFails \/ UNCHANGED registryVars
    BY <1>2, <2>1, HalfIdle DEF Discover, Serve, ImportFails, registryVars, RegistryInv
  <2>2. ASSUME NEW d \in Declared, Refuse(d[1], d[2]) PROVE HalfInv'
    BY <1>2, <2>2, HalfIdle DEF Refuse
  <2> QED
    BY <1>2, <2>1, <2>2, HalfRegister, HalfImportedNext DEF Next, Dispatch, StartUp,
       vars, registryVars
<1> QED
  BY <1>1, <1>2, RegistryInvariance, PTL DEF Spec

\* A module that failed after it had registered a task is refused from then on.
THEOREM RestartsFail == Spec => []RestartFails
<1>1. HalfInv => RestartFails
  BY DEF HalfInv, RestartFails
<1> QED
  BY <1>1, HalfInvariance, PTL

\* It has failed, or is about to at the first task of its module.
Doomed ==
  /\ stage = "failed" \/ (stage = "importing" /\ at[2] = 1)
  /\ at[1] \in DOMAIN layout /\ 1 \in DOMAIN layout[at[1]]
  /\ Raises(layout[at[1]][1])

LEMMA DoomedStep ==
  ASSUME RegistryInv, Doomed, [Next]_vars PROVE Doomed'
<1>1. layout \in Seq(Seq(Declaration)) /\ at \in Nat \X Nat
  BY LayoutAssumption DEF RegistryInv
<1>2. at[1] <= Len(layout) /\ 1 <= Len(layout[at[1]])
  <2>1. layout[at[1]] \in Seq(Declaration)
    BY <1>1 DEF Doomed
  <2> QED
    BY <1>1, <2>1 DEF Doomed
<1>3. CASE Discover
  BY <1>1, <1>3 DEF Doomed, Discover, Raises
<1>4. ASSUME Imported \/ Serve PROVE FALSE
  BY <1>1, <1>2, <1>4 DEF Doomed, Imported, Serve
<1>5. ASSUME NEW d \in Declared, Register(d[1], d[2]) PROVE FALSE
  BY <1>5 DEF Doomed, Register, Importing
<1>6. CASE \E d \in Declared : Refuse(d[1], d[2])
  BY <1>6 DEF Doomed, Refuse, Raises
<1>7. CASE ImportFails
  BY <1>7 DEF Doomed, ImportFails, Raises
<1>8. CASE UNCHANGED registryVars
  BY <1>8 DEF registryVars, Doomed, Raises
<1> QED
  BY <1>3, <1>4, <1>5, <1>6, <1>7, <1>8 DEF Next, Dispatch, StartUp, vars, registryVars

\* main.py:16, registry.py:73: a process in which a module has failed after it had
\* registered a task never serves a request, however often its lifespan is
\* entered, and also if the cause of the failure is gone.
THEOREM FailedNeverServes ==
  Spec => [](stage = "failed" /\ HalfImported => [](stage # "up"))
<1>1. RestartFails /\ stage = "failed" /\ HalfImported => Doomed
  BY DEF RestartFails, Doomed
<1>2. Doomed => stage # "up"
  BY DEF Doomed
<1>3. RegistryInv /\ Doomed /\ [Next]_vars => Doomed'
  BY DoomedStep
<1> QED
  BY <1>1, <1>2, <1>3, RestartsFail, RegistryInvariance, PTL DEF Spec

-----------------------------------------------------------------------------
(* The executions *)

\* Types of what the executions read and write.
Typed ==
  /\ child \in [Jobs -> {"waiting"} \cup B!Holding \cup B!Ended]
  /\ result \in [Jobs -> B!Outcomes]
  /\ row \in [Jobs -> {"PENDING", "deleted"} \cup B!Outcomes]
  /\ meta \in [Jobs \cup Requests -> Jobs \cup {NoMeta}]
  /\ token \in [Jobs -> Jobs \cup {NoMeta}]

\* The function of j has been entered; and it is one that can run.
Called(j) == j \in ran /\ Enters(call[j])
Entered(j) == j \in ran /\ Runs(call[j])

\* An execution is in its context exactly while it holds a permit. It has no
\* outcome but failure unless its function was entered, and no success unless
\* that is one that can run.
Exec(j) ==
  /\ child[j] \in B!Holding => meta[j] = j /\ token[j] = NoMeta
  /\ child[j] \notin B!Holding => meta[j] = NoMeta
  /\ child[j] = "running" => Entered(j)
  /\ child[j] \in B!Writing =>
       /\ result[j] = "success" => Entered(j)
       /\ result[j] = "retry" => Called(j)
  /\ row[j] = "success" => Entered(j)
  /\ row[j] = "retry" => Called(j)

ExecInv ==
  /\ Typed
  /\ \A j \in Jobs : Exec(j)
  /\ \A r \in Requests : meta[r] = NoMeta
  /\ stage # "up" => \A j \in Jobs : child[j] = "waiting" /\ row[j] = "PENDING"

LEMMA ExecInvInit == Init => ExecInv
<1> SUFFICES ASSUME Init PROVE ExecInv
  OBVIOUS
<1>1. /\ child = [j \in Jobs |-> "waiting"] /\ result = [j \in Jobs |-> "success"]
      /\ row = [j \in Jobs |-> "PENDING"]
      /\ meta = [x \in Jobs \cup Requests |-> NoMeta] /\ token = [j \in Jobs |-> NoMeta]
  BY DEF Init, B!Init
<1>2. Typed
  BY <1>1 DEF Typed, B!Outcomes
<1> QED
  BY <1>1, <1>2 DEF ExecInv, Exec, B!Holding, B!Writing

\* While the start-up is under way nothing executes.
LEMMA StartUpKeeps ==
  ASSUME ExecInv, StartUp, UNCHANGED <<batchVars, contextVars, call, ran>>
  PROVE  ExecInv'
<1>1. stage # "up"
  BY DEF StartUp, Discover, ImportFails, Imported, Serve, Register, Refuse, Importing
<1>2. UNCHANGED <<child, result, row, meta, token>>
  BY DEF batchVars, contextVars
<1>3. Typed'
  BY <1>2 DEF ExecInv, Typed
<1>4. ASSUME NEW j \in Jobs PROVE Exec(j)'
  BY <1>1, <1>2 DEF ExecInv, Exec, B!Holding, B!Writing
<1> QED
  BY <1>1, <1>2, <1>3, <1>4 DEF ExecInv

\* A step that concerns one execution: the others keep what they had.
LEMMA OneExecution ==
  ASSUME ExecInv, stage = "up", UNCHANGED <<registryVars, call>>, Typed', NEW j \in Jobs,
         \A i \in Jobs \ {j} : /\ child'[i] = child[i] /\ result'[i] = result[i]
                               /\ row'[i] = row[i] /\ meta'[i] = meta[i]
                               /\ token'[i] = token[i] /\ (i \in ran => i \in ran'),
         \A r \in Requests : meta'[r] = meta[r],
         Exec(j)'
  PROVE  ExecInv'
<1>1. \A i \in Jobs : /\ Runs(call[i])' <=> Runs(call[i])
                      /\ Enters(call[i])' <=> Enters(call[i])
  BY DEF registryVars, Runs, Enters, Decl
<1>2. ASSUME NEW i \in Jobs \ {j} PROVE Exec(i)'
  BY <1>1, <1>2 DEF ExecInv, Exec, Entered, Called
<1>3. stage' = "up"
  BY DEF registryVars
<1> QED
  BY <1>2, <1>3 DEF ExecInv

LEMMA StartKeeps ==
  ASSUME ExecInv, stage = "up", UNCHANGED <<registryVars, call>>,
         NEW j \in Jobs, Start(j) \/ Fail(j) \/ RunSync(j)
  PROVE  ExecInv'
<1>1. /\ child[j] = "waiting" /\ UNCHANGED row
      /\ meta' = [meta EXCEPT ![j] = j] /\ token' = [token EXCEPT ![j] = meta[j]]
  BY DEF Start, Fail, RunSync, B!Acquire, B!Reject, B!RejectForRetry, B!AtOnce, Enter, Scope
<1>2. meta[j] = NoMeta /\ meta[j] \in Jobs \cup {NoMeta}
  BY <1>1 DEF ExecInv, Exec, B!Holding, B!Writing, Typed
<1>3. \A i \in Jobs : /\ Runs(call[i])' <=> Runs(call[i])
                      /\ Enters(call[i])' <=> Enters(call[i])
  BY DEF registryVars, Runs, Enters, Decl
<1>4. \A r \in Requests : meta'[r] = meta[r]
  BY <1>1, CallAssumption DEF ExecInv, Typed
<1>5. CASE Start(j)
  <2>1. /\ child' = [child EXCEPT ![j] = "running"] /\ UNCHANGED result
        /\ Runs(call[j]) /\ ran' = ran \cup {j}
    BY <1>5 DEF Start, B!Acquire
  <2>2. Typed'
    BY <1>1, <1>2, <2>1 DEF ExecInv, Typed, B!Holding, B!Writing
  <2>3. Exec(j)'
    BY <1>1, <1>2, <1>3, <2>1 DEF ExecInv, Typed, Exec, Entered, Called, B!Holding, B!Writing
  <2> QED
    BY <1>1, <1>4, <2>1, <2>2, <2>3, OneExecution DEF ExecInv, Typed
<1>6. CASE Fail(j) \/ RunSync(j)
  <2>1. PICK o \in {"failure", "retry"} :
          /\ child' = [child EXCEPT ![j] = "writing"]
          /\ result' = [result EXCEPT ![j] = o] /\ ran \subseteq ran'
          /\ o = "retry" => Enters(call[j]) /\ j \in ran'
    BY <1>6 DEF Fail, RunSync, B!Reject, B!RejectForRetry, B!AtOnce
  <2>2. Typed'
    BY <1>1, <1>2, <2>1 DEF ExecInv, Typed, B!Holding, B!Writing, B!Outcomes
  <2>3. Exec(j)'
    BY <1>1, <1>2, <1>3, <2>1 DEF ExecInv, Typed, Exec, Entered, Called, B!Holding, B!Writing
  <2> QED
    BY <1>1, <1>4, <2>1, <2>2, <2>3, OneExecution DEF ExecInv, Typed
<1> QED
  BY <1>5, <1>6

LEMMA EndKeeps ==
  ASSUME ExecInv, stage = "up", UNCHANGED <<registryVars, call>>, NEW j \in Jobs, End(j)
  PROVE  ExecInv'
<1> USE DEF End, B!Miss, B!Write, B!WriteFails, B!CancelWriting, B!CannotWrite
<1>1. /\ child[j] \in B!Writing /\ UNCHANGED <<result, ran, token>>
      /\ meta' = [meta EXCEPT ![j] = token[j]]
  BY DEF Exit, Scope, B!Writing
<1>2. PICK e \in B!Ended : child' = [child EXCEPT ![j] = e]
  BY DEF B!HowDone, B!End, B!Ended
<1>3. PICK w \in {row[j], result[j]} : row' = [row EXCEPT ![j] = w]
  <2>1. row = [row EXCEPT ![j] = row[j]]
    BY DEF ExecInv, Typed
  <2> QED
    BY <2>1
<1> HIDE DEF End, B!Miss, B!Write, B!WriteFails, B!CancelWriting, B!CannotWrite
<1>4. token[j] = NoMeta
  BY <1>1 DEF ExecInv, Exec, B!Holding
<1>5. \A i \in Jobs : /\ Runs(call[i])' <=> Runs(call[i])
                      /\ Enters(call[i])' <=> Enters(call[i])
  BY DEF registryVars, Runs, Enters, Decl
<1>6. Typed'
  BY <1>1, <1>2, <1>3, <1>4 DEF ExecInv, Typed
<1>7. Exec(j)'
  <2>1. child'[j] = e /\ row'[j] = w /\ meta'[j] = NoMeta
    BY <1>1, <1>2, <1>3, <1>4 DEF ExecInv, Typed
  <2>2. (w = "success" => Entered(j)) /\ (w = "retry" => Called(j))
    BY <1>1, <1>3 DEF ExecInv, Exec
  <2> QED
    BY <1>1, <1>5, <2>1, <2>2 DEF Exec, Entered, Called, B!Holding, B!Writing, B!Ended
<1>8. \A r \in Requests : meta'[r] = meta[r]
  BY <1>1, CallAssumption DEF ExecInv, Typed
<1> QED
  BY <1>1, <1>2, <1>3, <1>6, <1>7, <1>8, OneExecution DEF ExecInv, Typed

LEMMA OtherKeeps ==
  ASSUME ExecInv, stage = "up", UNCHANGED <<registryVars, call>>, Other
  PROVE  ExecInv'
<1>1. UNCHANGED <<meta, token, ran>>
  BY DEF Other, contextVars
<1>2. \A i \in Jobs : /\ Runs(call[i])' <=> Runs(call[i])
                      /\ Enters(call[i])' <=> Enters(call[i])
  BY DEF registryVars, Runs, Enters, Decl
<1>3. ASSUME NEW j \in Jobs, B!Return(j) \/ B!CancelItself(j) \/ B!CancelRunning(j)
      PROVE  ExecInv'
  <2>1. PICK o \in B!Outcomes :
          /\ child[j] = "running" /\ child' = [child EXCEPT ![j] = "writing"]
          /\ result' = [result EXCEPT ![j] = o] /\ UNCHANGED row
    BY <1>3 DEF B!Return, B!CancelItself, B!CancelRunning, B!Conclude, B!Outcomes
  <2>2. Typed'
    BY <1>1, <2>1 DEF ExecInv, Typed, B!Holding, B!Writing
  <2>3. Entered(j) /\ Called(j)
    BY <2>1 DEF ExecInv, Exec, Entered, Called, Runs
  <2>4. Entered(j)' /\ Called(j)'
    BY <1>1, <1>2, <2>3 DEF Entered, Called
  <2>5. Exec(j)'
    BY <1>1, <2>1, <2>4 DEF ExecInv, Typed, Exec, B!Holding, B!Writing
  <2> QED
    BY <1>1, <2>1, <2>2, <2>5, OneExecution DEF ExecInv, Typed
<1>4. ASSUME NEW j \in Jobs, B!CancelWaiting(j)
      PROVE  ExecInv'
  <2>1. /\ child[j] = "waiting" /\ child' = [child EXCEPT ![j] = "cancelled"]
        /\ UNCHANGED <<result, row>>
    BY <1>4 DEF B!CancelWaiting, B!End
  <2>2. Typed'
    BY <1>1, <2>1 DEF ExecInv, Typed, B!Ended
  <2>3. Exec(j)'
    BY <1>1, <1>2, <2>1 DEF ExecInv, Typed, Exec, Entered, Called, B!Holding, B!Writing
  <2> QED
    BY <1>1, <2>1, <2>2, <2>3, OneExecution DEF ExecInv, Typed
<1>5. ASSUME NEW j \in Jobs, B!Delete(j)
      PROVE  ExecInv'
  <2>1. row' = [row EXCEPT ![j] = "deleted"] /\ UNCHANGED <<child, result>>
    BY <1>5 DEF B!Delete
  <2>2. Typed'
    BY <1>1, <2>1 DEF ExecInv, Typed
  <2>3. Exec(j)'
    BY <1>1, <1>2, <2>1 DEF ExecInv, Typed, Exec, Entered, Called
  <2> QED
    BY <1>1, <2>1, <2>2, <2>3, OneExecution DEF ExecInv, Typed
<1>6. ASSUME UNCHANGED <<child, result, row>> PROVE ExecInv'
  <2>1. Typed'
    BY <1>1, <1>6 DEF ExecInv, Typed
  <2> QED
    BY <1>1, <1>2, <1>6, <2>1 DEF ExecInv, Exec, Entered, Called, registryVars
<1>7. ASSUME NEW j \in Jobs, B!Swallow(j) PROVE ExecInv'
  BY <1>6, <1>7 DEF B!Swallow
<1>8. ASSUME NEW r \in Requests, B!Expire(r) \/ B!Abort(r) \/ B!Answer(r) PROVE ExecInv'
  BY <1>6, <1>8 DEF B!Expire, B!Abort, B!Answer, B!Interrupt
<1>9. ASSUME B!Finished PROVE ExecInv'
  BY <1>6, <1>9 DEF B!Finished, B!vars
<1>10. ASSUME NEW j \in Jobs, B!Find(j) PROVE ExecInv'
  <2>1. /\ child[j] = "writing" /\ child' = [child EXCEPT ![j] = "flushing"]
        /\ UNCHANGED <<result, row>>
    BY <1>10 DEF B!Find
  <2>2. Typed'
    BY <1>1, <2>1 DEF ExecInv, Typed, B!Holding, B!Writing
  <2>3. Exec(j)'
    BY <1>1, <1>2, <2>1 DEF ExecInv, Typed, Exec, Entered, Called, B!Holding, B!Writing
  <2> QED
    BY <1>1, <2>1, <2>2, <2>3, OneExecution DEF ExecInv, Typed
<1> QED
  BY <1>3, <1>4, <1>5, <1>7, <1>8, <1>9, <1>10 DEF Other

LEMMA ExecInvariance == Spec => []ExecInv
<1>1. ASSUME ExecInv, Next PROVE ExecInv'
  BY <1>1, StartUpKeeps, StartKeeps, EndKeeps, OtherKeeps DEF Next, Dispatch
<1>2. ASSUME ExecInv, UNCHANGED vars PROVE ExecInv'
  <2>1. UNCHANGED <<child, result, row, meta, token, ran, call, registry, layout, stage>>
    BY <1>2 DEF vars, registryVars, batchVars, contextVars
  <2> QED
    BY <1>2, <2>1 DEF ExecInv, Typed, Exec, Entered, Called, Runs, Enters, Decl
<1> QED
  BY <1>1, <1>2, ExecInvInit, PTL DEF Spec

\* However many executions interleave, fail and are cancelled, each log record
\* bears its own execution.
THEOREM LabelsAreOwn == Spec => []OwnLabel
<1>1. ExecInv => OwnLabel
  BY DEF ExecInv, Exec, OwnLabel, Label, Scope
<1> QED
  BY <1>1, ExecInvariance, PTL

\* A job whose function is never entered is recorded as failed for good; what
\* asks for a retry has entered one.
THEOREM HopelessStayFailed == Spec => []HopelessNotRetried
<1>1. ExecInv => HopelessNotRetried
  BY DEF ExecInv, Exec, Called, HopelessNotRetried
<1> QED
  BY <1>1, ExecInvariance, PTL

\* No failure slips past the except clauses: what is recorded as a success has
\* entered a function that was declared under the name the config asks for.
THEOREM SuccessIsEarned == Spec => []SuccessMeansRan
<1>1. ASSUME RegistryInv, ExecInv, NEW j \in Jobs, row[j] = "success"
      PROVE  /\ j \in ran
             /\ \E d \in Declared :
                  /\ Decl(d).name = call[j].name /\ Decl(d).async
                  /\ Decl(d).sig = "none" \/ (Decl(d).sig = "model" /\ call[j].fits)
  <2>1. j \in ran /\ Runs(call[j])
    BY <1>1 DEF ExecInv, Exec, Entered, Called
  <2> DEFINE d == registry[call[j].name].from
  <2>2. d \in Declared /\ Decl(d).name = call[j].name
    BY <1>1, <2>1 DEF RegistryInv, Keyed, Runs, Enters
  <2>3. Decl(d).async /\ (Decl(d).sig = "none" \/ (Decl(d).sig = "model" /\ call[j].fits))
    BY <2>1 DEF Runs, Enters
  <2> HIDE DEF d
  <2> QED
    BY <2>1, <2>2, <2>3
<1>2. RegistryInv /\ ExecInv => SuccessMeansRan
  BY <1>1 DEF SuccessMeansRan
<1> QED
  BY <1>2, RegistryInvariance, ExecInvariance, PTL

-----------------------------------------------------------------------------
(* The batch, inside the composition *)

\* What is proved of Batch by itself.
BP == INSTANCE BatchProofs

LEMMA SameAssumption == BP!BatchAssumption
BY OwnerAssumption DEF BP!BatchAssumption, BP!AllFaults

LEMMA SameCardinality == \A S : B!Cardinality(S) = BP!Cardinality(S)
BY DEF B!Cardinality, BP!Cardinality

LEMMA SamePermits == \A r \in Requests : B!Permits(r) = BP!Permits(r)
<1> TAKE r \in Requests
<1>1. {j \in B!JobsOf(r) : child[j] \in B!Holding} = {j \in BP!JobsOf(r) : child[j] \in BP!Holding}
  BY DEF B!JobsOf, BP!JobsOf, B!Holding, B!Writing, BP!Holding, BP!Writing
<1> QED
  BY <1>1, SameCardinality DEF B!Permits, BP!Permits

LEMMA SameUnfinished == \A r \in Requests : B!Unfinished(r) = BP!Unfinished(r)
BY DEF B!Unfinished, BP!Unfinished, B!JobsOf, BP!JobsOf, B!Ended, BP!Ended

\* The two instances of Batch are the same module twice.
LEMMA SameInit == B!Init => BP!Init
BY DEF B!Init, BP!Init

LEMMA SameEnd ==
  ASSUME NEW j \in Jobs, NEW how, B!End(j, how) PROVE BP!End(j, how)
<1>1. Owner[j] \in Requests
  BY OwnerAssumption
<1>2. B!Resolved(Owner[j], j, how) = BP!Resolved(Owner[j], j, how)
  BY <1>1, SameUnfinished DEF B!Resolved, BP!Resolved
<1> QED
  BY <1>2 DEF B!End, BP!End

LEMMA SameChild ==
  ASSUME NEW j \in Jobs
  PROVE  /\ B!Acquire(j) => BP!Acquire(j)
         /\ B!Reject(j) => BP!Reject(j)
         /\ B!RejectForRetry(j) => BP!RejectForRetry(j)
         /\ B!Return(j) => BP!Return(j)
         /\ B!CancelItself(j) => BP!CancelItself(j)
         /\ B!CancelRunning(j) => BP!CancelRunning(j)
         /\ B!Swallow(j) => BP!Swallow(j)
         /\ B!Delete(j) => BP!Delete(j)
         /\ B!Find(j) => BP!Find(j)
         /\ B!Miss(j) => BP!Miss(j)
         /\ B!Write(j) => BP!Write(j)
         /\ B!WriteFails(j) => BP!WriteFails(j)
         /\ B!CancelWaiting(j) => BP!CancelWaiting(j)
         /\ B!CancelWriting(j) => BP!CancelWriting(j)
<1>1. Owner[j] \in Requests
  BY OwnerAssumption
<1>2. /\ B!Acquire(j) => BP!Acquire(j)
      /\ B!Reject(j) => BP!Reject(j)
      /\ B!RejectForRetry(j) => BP!RejectForRetry(j)
  BY <1>1, SamePermits DEF B!Acquire, BP!Acquire, B!Reject, BP!Reject, B!RejectForRetry,
     BP!RejectForRetry, B!AtOnce, BP!AtOnce
<1>3. \A o, c : B!Conclude(j, o, c) => BP!Conclude(j, o, c)
  BY DEF B!Conclude, BP!Conclude
<1>4. /\ B!Return(j) => BP!Return(j)
      /\ B!CancelItself(j) => BP!CancelItself(j)
      /\ B!CancelRunning(j) => BP!CancelRunning(j)
  BY <1>3 DEF B!Return, BP!Return, B!CancelItself, BP!CancelItself, B!CancelRunning,
     BP!CancelRunning, B!Outcomes, BP!Outcomes
<1>5. /\ B!Swallow(j) => BP!Swallow(j)
      /\ B!Delete(j) => BP!Delete(j)
      /\ B!Find(j) => BP!Find(j)
  BY DEF B!Swallow, BP!Swallow, B!Delete, BP!Delete, B!Find, BP!Find
<1>6. B!HowDone(j) = BP!HowDone(j) /\ (B!CannotWrite(j) <=> BP!CannotWrite(j))
      /\ B!Writing = BP!Writing
  BY DEF B!HowDone, BP!HowDone, B!CannotWrite, BP!CannotWrite, B!Writing, BP!Writing
<1>7. /\ B!Miss(j) => BP!Miss(j)
      /\ B!Write(j) => BP!Write(j)
      /\ B!WriteFails(j) => BP!WriteFails(j)
      /\ B!CancelWaiting(j) => BP!CancelWaiting(j)
      /\ B!CancelWriting(j) => BP!CancelWriting(j)
  BY <1>6, SameEnd DEF B!Miss, BP!Miss, B!Write, BP!Write, B!WriteFails, BP!WriteFails,
     B!CancelWaiting, BP!CancelWaiting, B!CancelWriting, BP!CancelWriting
<1> QED
  BY <1>2, <1>4, <1>5, <1>7

LEMMA SameRequest ==
  ASSUME NEW r \in Requests
  PROVE  /\ B!Expire(r) => BP!Expire(r)
         /\ B!Abort(r) => BP!Abort(r)
         /\ B!Answer(r) => BP!Answer(r)
<1>1. \A p, o : B!Interrupt(r, p, o) => BP!Interrupt(r, p, o)
  BY SameUnfinished DEF B!Interrupt, BP!Interrupt
<1> QED
  BY <1>1 DEF B!Expire, BP!Expire, B!Abort, BP!Abort, B!Answer, BP!Answer, B!Open, BP!Open

LEMMA SameFinished == B!Finished => BP!Finished
BY DEF B!Finished, BP!Finished, B!Ended, BP!Ended, B!Open, BP!Open, B!vars, BP!vars

\* The batch of the composition does what a batch does: lookups, adapters and
\* contexts make it do nothing else.
THEOREM BatchInside == Spec => BP!Spec
<1>1. Init => BP!Init
  BY SameInit DEF Init
<1>2. [Next]_vars => [BP!Next]_(BP!vars)
  <2> SUFFICES ASSUME [Next]_vars, BP!vars' # BP!vars PROVE BP!Next
    OBVIOUS
  <2>1. UNCHANGED batchVars => UNCHANGED BP!vars
    BY DEF batchVars, BP!vars
  <2>2. ~UNCHANGED vars /\ Dispatch
    BY <2>1 DEF Next, vars
  <2>3. ASSUME NEW j \in Jobs, Start(j) \/ Fail(j) \/ RunSync(j) \/ End(j) PROVE BP!Next
    BY <2>3, SameChild DEF Start, Fail, RunSync, End, BP!Next, BP!ChildStep
  <2>4. CASE Other
    BY <2>4, SameChild, SameRequest, SameFinished DEF Other, BP!Next, BP!ChildStep
  <2> QED
    BY <2>2, <2>3, <2>4 DEF Dispatch
<1> QED
  BY <1>1, <1>2, PTL DEF Spec, BP!Spec

\* Batch's promises hold of batches whose tasks are looked up in the registry: a
\* completed one has recorded all of its jobs.
THEOREM CompletedInside == Spec => []B!CompletedMeansRecorded
<1>1. BP!CompletedMeansRecorded => B!CompletedMeansRecorded
  BY DEF BP!CompletedMeansRecorded, B!CompletedMeansRecorded, BP!JobsOf, B!JobsOf
<1>2. BP!Spec => []BP!CompletedMeansRecorded
  BY SameAssumption, BP!CompletedBatches
<1> QED
  BY <1>1, <1>2, BatchInside, PTL

\* And they are the executions module Dispatch assumes: an execution's row is
\* written by the step that ends it, if at all.
THEOREM ExecutionsInside == Spec => BP!ExecutionsSpec
BY SameAssumption, BP!BatchImplementsExecutions, BatchInside, PTL

\* What call, ran and the registry may hold.
HistoryTyped ==
  /\ stage \in {"down", "importing", "up", "failed"}
  /\ call \in Assignments
  /\ ran \subseteq Jobs

LEMMA HistoryStep == HistoryTyped /\ [Next]_vars => HistoryTyped'
<1> SUFFICES ASSUME HistoryTyped, [Next]_vars PROVE HistoryTyped'
  OBVIOUS
<1>1. call' = call
  BY DEF Next, Dispatch, vars
<1>2. stage' \in {"down", "importing", "up", "failed"}
  BY DEF HistoryTyped, Next, Dispatch, StartUp, Discover, ImportFails, Imported, Serve,
     Register, Refuse, vars, registryVars
<1>3. ran' \subseteq Jobs
  BY DEF HistoryTyped, Next, Dispatch, Start, Fail, RunSync, End, Other, vars
<1> QED
  BY <1>1, <1>2, <1>3 DEF HistoryTyped

\* Types of the whole composition, the batch's included.
THEOREM TasksTyped == Spec => []TypeOK
<1>1. BP!Spec => []BP!TypeOK
  BY SameAssumption, BP!BatchTyped
<1>2. BP!TypeOK => B!TypeOK
  BY DEF BP!TypeOK, B!TypeOK, BP!Holding, BP!Writing, B!Holding, B!Writing, BP!Ended, B!Ended, BP!Outcomes,
     B!Outcomes, BP!Open, B!Open
<1>3. Init => HistoryTyped
  BY DEF Init, RegistryInit, HistoryTyped
<1>4. RegistryInv /\ ExecInv /\ HistoryTyped /\ B!TypeOK => TypeOK
  <2> SUFFICES ASSUME RegistryInv, ExecInv, HistoryTyped, B!TypeOK PROVE TypeOK
    OBVIOUS
  <2>1. ASSUME NEW k \in DOMAIN registry
        PROVE  k \in TaskNames /\ registry[k].from \in Declared
    <3>1. registry[k].from \in Declared /\ Decl(registry[k].from).name = k
      BY DEF RegistryInv, Keyed
    <3> DEFINE d == registry[k].from
    <3>2. /\ layout \in Seq(Seq(Declaration)) /\ d[1] \in DOMAIN layout
          /\ d[2] \in DOMAIN layout[d[1]]
      BY <3>1, DeclaredType, LayoutAssumption DEF RegistryInv
    <3>3. layout[d[1]] \in Seq(Declaration)
      BY <3>2
    <3>4. Decl(d) \in Declaration
      BY <3>2, <3>3 DEF Decl
    <3> QED
      BY <3>1, <3>4 DEF Declaration
  <2> QED
    BY <2>1 DEF TypeOK, RegistryInv, ExecInv, Typed, HistoryTyped
<1> QED
  BY <1>1, <1>2, <1>3, <1>4, HistoryStep, BatchInside, RegistryInvariance,
     ExecInvariance, PTL DEF Spec
=============================================================================
