-------------------- MODULE WatcherDecisionEngineProofs ---------------------
(***************************************************************************)
(* Proofs about the reconciler of WatcherDecisionEngine, for every set of  *)
(* specs and versions and any number of changes and faults.                *)
(***************************************************************************)
EXTENDS WatcherDecisionEngine, TLAPS

\* Observed generations never run ahead of what the informer has delivered.
Generations ==
    /\ cache.gen <= cr.gen /\ cr.obs <= cache.gen
    /\ pc # "idle" => /\ base.gen <= cache.gen /\ cr.obs <= base.gen
                      /\ inst.obs = base.gen

\* A copy that is under deletion is right about it.
Phases ==
    /\ cache.phase # "Live" => cr.phase # "Live"
    /\ pc # "idle" /\ base.phase # "Live" => cr.phase # "Live"
    /\ pc = "delete" => base.phase = "Deleting"

\* With no event pending, the reconcile works on what the informer has.
Unqueued == pc # "idle" /\ ~queue => base = cache

\* The conditions of a reconcile that has come past the steps which set ts.
Passed(ts) == [t \in DecisionEngineConditions |->
                   IF t \in ts THEN "True" ELSE "Unknown"]

Middle == {"secret", "prometheus", "memcached", "config", "deploy"}

\* The inputs that wake the controller up when they change.
Watched == {"secret", "prometheus"}

\* What a reconcile has established when it is at a step.
Progress ==
    /\ pc # "exit" => outcome = "none"
    /\ pc = "exit" /\ outcome = "swallowed" => base.phase # "Live"
    /\ pc \in Middle => /\ base.phase = "Live" /\ inst.hash = base.hash
                        /\ inst.spec = base.spec
    /\ pc \in {"secret", "prometheus"} => inst.cond = Passed({})
    /\ pc = "memcached" => inst.cond = Passed({"InputReady"})
    /\ pc = "config" => inst.cond = Passed({"InputReady", "MemcachedReady"})
    /\ pc = "deploy" =>
         /\ inst.cond = Passed({"InputReady", "MemcachedReady",
                                "ServiceConfigReady"})
         /\ inst.hash = [cfg |-> base.spec.cfg, in |-> seen]
    /\ pc = "prometheus" /\ ~queue => seen["secret"] = input["secret"]
    /\ pc \in {"memcached", "config", "deploy"} /\ ~queue =>
         \A i \in Watched : seen[i] = input[i]

\* The resource o, if it is written, says the truth about the StatefulSet.
Truthful(o) ==
    /\ sts.exists /\ sts.img = base.spec.img
    /\ sts.replicas = base.spec.replicas
    /\ o.hash # NoHash /\ sts.hash = o.hash
    /\ o.hash.cfg = base.spec.cfg
    /\ \A i \in Watched : o.hash.in[i] = input[i]
    /\ (o.cond["Ready"] = "True") <=> Available

\* A reconcile that ends without an error, and with no event pending, writes
\* something, and so causes an event, or has nothing to say but the truth.
Settled ==
    pc = "exit" /\ ~queue /\ outcome = "none" /\ base.phase = "Live" =>
        \/ inst.fin # base.fin
        \/ inst.hash # base.hash
        \/ NilConditions(base.cond) /\ inst.cond["Ready"] = "Unknown"
        \/ Truthful(inst)

-----------------------------------------------------------------------------
(***************************************************************************)
(* What the operators of the reconciler return.                            *)
(***************************************************************************)

Resources == CRs(DecisionEngineConditions, DecisionEngineInputs)
DecisionEngineHashes == Hashes(DecisionEngineInputs)
StatefulSets ==
    [exists : BOOLEAN, img : {NoHash} \cup {s.img : s \in Specs},
     replicas : Nat, hash : DecisionEngineHashes, observed : BOOLEAN,
     ready : Nat, rolled : BOOLEAN]

\* Setting a condition yields a resource that differs in that condition only.
LEMMA MarkedFacts ==
    ASSUME NEW o \in Resources, NEW t \in DecisionEngineConditions,
           NEW status \in Statuses
    PROVE  /\ Marked(o, t, status) \in Resources
           /\ Marked(o, t, status).hash = o.hash
           /\ Marked(o, t, status).spec = o.spec
           /\ Marked(o, t, status).obs = o.obs
           /\ Marked(o, t, status).fin = o.fin
           /\ Marked(o, t, status).gen = o.gen
           /\ Marked(o, t, status).readyCount = o.readyCount
           /\ Marked(o, t, status).cond =
                 [u \in DecisionEngineConditions |->
                      IF u = t THEN status ELSE o.cond[u]]
  BY DEF Resources, CRs, Marked, SetCondition

\* initStatus resets every condition and observes the generation.
LEMMA InitStatusFacts ==
    ASSUME NEW o \in Resources
    PROVE  /\ InitStatus(o) \in Resources
           /\ InitStatus(o).obs = o.gen
           /\ InitStatus(o).cond = Passed({})
           /\ InitStatus(o).hash = o.hash
           /\ InitStatus(o).spec = o.spec
           /\ InitStatus(o).fin = o.fin
           /\ [InitStatus(o) EXCEPT !.fin = TRUE] \in Resources
           /\ [InitStatus(o) EXCEPT !.fin = TRUE].obs = o.gen
           /\ [InitStatus(o) EXCEPT !.fin = TRUE].fin = TRUE
           /\ [InitStatus(o) EXCEPT !.fin = TRUE].hash = o.hash
           /\ [InitStatus(o) EXCEPT !.fin = TRUE].cond = Passed({})
  BY DEF Resources, CRs, InitStatus, InitConditions, Passed, Statuses

\* The deferred function decides the overall condition only if the reconcile
\* did not, and then never as True.
LEMMA MirrorFacts ==
    ASSUME NEW o \in Resources
    PROVE  LET m == [o EXCEPT !.cond = MirrorUndecided(o.cond)]
           IN  /\ m \in Resources
               /\ m.hash = o.hash /\ m.obs = o.obs /\ m.fin = o.fin
               /\ m.readyCount = o.readyCount
               /\ (m.cond["Ready"] = "True") <=> (o.cond["Ready"] = "True")
               /\ o.cond["Ready"] = "Unknown" => m.cond["Ready"] # "NotSet"
  <1>1. "Ready" \in DecisionEngineConditions
    BY DEF DecisionEngineConditions
  <1>2. o.cond \in [DecisionEngineConditions -> Statuses]
    BY DEF Resources, CRs
  <1>3. /\ Mirror(o.cond) \in Statuses \ {"NotSet"}
        /\ o.cond["Ready"] # "True" => Mirror(o.cond) # "True"
    BY DEF Mirror, Statuses, FalseStatuses
  <1>4. /\ MirrorUndecided(o.cond) \in [DecisionEngineConditions -> Statuses]
        /\ (MirrorUndecided(o.cond)["Ready"] = "True")
              <=> (o.cond["Ready"] = "True")
        /\ o.cond["Ready"] = "Unknown" =>
              MirrorUndecided(o.cond)["Ready"] # "NotSet"
    BY <1>1, <1>2, <1>3 DEF MirrorUndecided
  <1> QED
    BY <1>4 DEF Resources, CRs

\* A patch leaves spec and generation alone, writes the fields that differ,
\* and removes the resource only if it was under deletion.
LEMMA PatchFacts ==
    ASSUME NEW server \in Resources, NEW before \in Resources,
           NEW after \in Resources
    PROVE  LET p == PatchInstance(server, before, after)
           IN  /\ p \in Resources
               /\ p.spec = server.spec /\ p.gen = server.gen
               /\ p.obs \in {server.obs, after.obs}
               /\ p.phase = "Live" <=> server.phase = "Live"
               /\ server.phase = "Gone" => p = server
               /\ p.phase = "Live" /\ p.fin = before.fin => after.fin = before.fin
               /\ p.phase = "Live" /\ p.hash = before.hash =>
                     after.hash = before.hash
               /\ p.phase = "Live" /\ p.obs = before.obs => after.obs = before.obs
               /\ p.phase = "Live" /\ p.cond = before.cond =>
                     after.cond = before.cond
               /\ p.phase = "Live" /\ p.readyCount = before.readyCount =>
                     after.readyCount = before.readyCount
  <1> DEFINE w == [server EXCEPT
                   !.fin = IF after.fin # before.fin THEN after.fin ELSE @,
                   !.obs = IF after.obs # before.obs THEN after.obs ELSE @,
                   !.cond = IF after.cond # before.cond THEN after.cond ELSE @,
                   !.hash = IF after.hash # before.hash THEN after.hash ELSE @,
                   !.readyCount = IF after.readyCount # before.readyCount THEN after.readyCount ELSE @]
             g == [w EXCEPT !.phase = "Gone"]
  <1>1. /\ w \in Resources /\ w.spec = server.spec /\ w.gen = server.gen
        /\ w.phase = server.phase
        /\ w.fin = IF after.fin # before.fin THEN after.fin ELSE server.fin
        /\ w.obs = IF after.obs # before.obs THEN after.obs ELSE server.obs
        /\ w.cond = IF after.cond # before.cond THEN after.cond ELSE server.cond
        /\ w.hash = IF after.hash # before.hash THEN after.hash ELSE server.hash
        /\ w.readyCount = IF after.readyCount # before.readyCount THEN after.readyCount ELSE server.readyCount
    BY DEF Resources, CRs
  <1>2. PatchInstance(server, before, after) =
            IF server.phase = "Gone" THEN server
            ELSE IF w.phase = "Deleting" /\ ~w.fin THEN g ELSE w
    BY DEF PatchInstance
  <1> HIDE DEF w
  <1>3. /\ g \in Resources /\ g.spec = w.spec /\ g.gen = w.gen /\ g.phase = "Gone"
        /\ g.fin = w.fin /\ g.obs = w.obs /\ g.cond = w.cond
        /\ g.hash = w.hash /\ g.readyCount = w.readyCount
    BY <1>1 DEF Resources, CRs
  <1> HIDE DEF g
  <1> QED
    BY <1>1, <1>2, <1>3

\* What the parent controller and the API server may do to the resource.
LEMMA SpecWritten ==
    ASSUME NEW o \in Resources, NEW s \in Specs
    PROVE  /\ [o EXCEPT !.spec = s, !.gen = @ + 1] \in Resources
           /\ [o EXCEPT !.spec = s, !.gen = @ + 1].gen = o.gen + 1
           /\ [o EXCEPT !.spec = s, !.gen = @ + 1].phase = o.phase
           /\ [o EXCEPT !.spec = s, !.gen = @ + 1].obs = o.obs
  <1>1. o.gen \in Nat /\ o.gen + 1 \in Nat
    BY DEF Resources, CRs
  <1>2. ASSUME NEW n \in Nat
        PROVE  /\ [o EXCEPT !.spec = s, !.gen = n] \in Resources
               /\ [o EXCEPT !.spec = s, !.gen = n].gen = n
               /\ [o EXCEPT !.spec = s, !.gen = n].phase = o.phase
               /\ [o EXCEPT !.spec = s, !.gen = n].obs = o.obs
    BY DEF Resources, CRs
  <1> QED
    BY <1>1, <1>2

\* Deletion gives the resource a new generation and its phase only.
LEMMA PhaseWritten ==
    ASSUME NEW o \in Resources, NEW p \in {"Live", "Deleting", "Gone"}
    PROVE  /\ [o EXCEPT !.phase = p, !.gen = @ + 1] \in Resources
           /\ [o EXCEPT !.phase = p, !.gen = @ + 1].gen = o.gen + 1
           /\ [o EXCEPT !.phase = p, !.gen = @ + 1].phase = p
           /\ [o EXCEPT !.phase = p, !.gen = @ + 1].obs = o.obs
  <1>1. o.gen \in Nat /\ o.gen + 1 \in Nat
    BY DEF Resources, CRs
  <1>2. ASSUME NEW n \in Nat
        PROVE  /\ [o EXCEPT !.phase = p, !.gen = n] \in Resources
               /\ [o EXCEPT !.phase = p, !.gen = n].gen = n
               /\ [o EXCEPT !.phase = p, !.gen = n].phase = p
               /\ [o EXCEPT !.phase = p, !.gen = n].obs = o.obs
    BY DEF Resources, CRs
  <1> QED
    BY <1>1, <1>2

\* Nothing the reconciler computes leaves its type.
LEMMA BlankType == ASSUME TypeOK PROVE Blank \in Resources
  <1>1. (CHOOSE s \in Specs : TRUE) \in Specs
    BY SpecsAssumption
  <1>2. DOMAIN cr.cond = DecisionEngineConditions
    BY DEF TypeOK, TypesOK, CRs
  <1> QED
    BY <1>1, <1>2 DEF Blank, NewCR, Resources, CRs, Hashes, Statuses

\* What goes into the config-data secret, and into the hash, is of their type,
\* and is told from having none.
LEMMA RenderedType ==
    ASSUME TypeOK, input["keystone"] \in Versions
    PROVE  /\ Rendered \in DecisionEngineHashes \ {NoHash}
           /\ Rendered.in \in [DecisionEngineInputs -> InputStates]
           /\ Rendered.cfg = base.spec.cfg
           /\ \A i \in Watched : Rendered.in[i] = seen[i]
  <1>1. /\ seen \in [DecisionEngineInputs -> InputStates] /\ base.spec \in Specs
        /\ input["keystone"] \in InputStates
        /\ Watched \subseteq DecisionEngineInputs \ {"keystone"}
    BY DEF TypeOK, TypesOK, CRs, InputStates, DecisionEngineInputs, Watched
  <1>2. Rendered \in [cfg : {s.cfg : s \in Specs},
                      in : [DecisionEngineInputs -> InputStates]]
    BY <1>1 DEF Rendered
  <1> QED
    BY <1>1, <1>2, HashAssumption DEF DecisionEngineHashes, Hashes, Rendered

\* CreateOrPatch of the StatefulSet yields one with the wanted image, replicas
\* and hash.
LEMMA AppliedStsFacts ==
    ASSUME NEW spec \in Specs, NEW h \in DecisionEngineHashes,
           sts \in StatefulSets
    PROVE  /\ AppliedSts(spec, h) \in StatefulSets
           /\ AppliedSts(spec, h).exists
           /\ AppliedSts(spec, h).img = spec.img
           /\ AppliedSts(spec, h).replicas = spec.replicas
           /\ AppliedSts(spec, h).hash = h
  <1>1. spec.replicas \in Nat
    BY SpecsAssumption DEF SpecShape
  <1> QED
    BY <1>1 DEF AppliedSts, StatefulSets

\* ensureDeployment and the end of Reconcile, once every earlier step has
\* set its condition: Ready is True exactly if the pods are.
LEMMA DeployedFacts ==
    ASSUME NEW o \in Resources, NEW s \in StatefulSets
    PROVE  LET d == Finished(Deployed(o, s))
           IN  /\ d \in Resources
               /\ d.hash = o.hash /\ d.obs = o.obs /\ d.fin = o.fin
               /\ d.spec = o.spec
               /\ s.observed => d.readyCount = s.ready
               /\ o.cond = Passed({"InputReady", "MemcachedReady",
                                   "ServiceConfigReady"}) =>
                    ((d.cond["Ready"] = "True") <=>
                        (s.observed /\ s.ready = o.spec.replicas))
  <1> DEFINE c == IF s.observed THEN [o EXCEPT !.readyCount = s.ready] ELSE o
             r == s.observed /\ c.readyCount = o.spec.replicas
             e == Marked(c, "DeploymentReady", IF r THEN "True" ELSE "Info")
  <1>1. /\ c \in Resources /\ c.hash = o.hash /\ c.obs = o.obs
        /\ c.fin = o.fin /\ c.spec = o.spec /\ c.cond = o.cond
        /\ s.observed => c.readyCount = s.ready
    BY DEF Resources, CRs, StatefulSets
  <1>2. /\ {"Ready", "DeploymentReady"} \subseteq DecisionEngineConditions
        /\ {"True", "Info"} \subseteq Statuses
    BY DEF DecisionEngineConditions, Statuses, FalseStatuses
  <1>3. /\ e \in Resources /\ e.hash = o.hash /\ e.obs = o.obs
        /\ e.fin = o.fin /\ e.spec = o.spec
        /\ s.observed => e.readyCount = s.ready
        /\ e.cond = [u \in DecisionEngineConditions |->
                        IF u = "DeploymentReady"
                        THEN IF r THEN "True" ELSE "Info" ELSE o.cond[u]]
    <2> HIDE DEF c, r
    <2>1. (IF r THEN "True" ELSE "Info") \in Statuses
      BY <1>2
    <2> QED
      BY <1>1, <1>2, <2>1, MarkedFacts
  <1>4. Deployed(o, s) = e
    BY DEF Deployed
  <1> HIDE DEF e
  <1> DEFINE m == Marked(e, "Ready", "True")
  <1>M. /\ m \in Resources /\ m.hash = e.hash /\ m.obs = e.obs
        /\ m.fin = e.fin /\ m.spec = e.spec /\ m.readyCount = e.readyCount
        /\ m.cond["Ready"] = "True"
    <2>1. /\ e \in Resources /\ "Ready" \in DecisionEngineConditions
          /\ "True" \in Statuses
      BY <1>2, <1>3
    <2>2. /\ m \in Resources /\ m.hash = e.hash /\ m.obs = e.obs
          /\ m.fin = e.fin /\ m.spec = e.spec /\ m.readyCount = e.readyCount
          /\ m.cond = [u \in DecisionEngineConditions |->
                           IF u = "Ready" THEN "True" ELSE e.cond[u]]
      BY ONLY <2>1, MarkedFacts, Zenon DEF m
    <2> HIDE DEF m
    <2>3. m.cond["Ready"] = "True"
      BY ONLY <2>1, <2>2, Zenon
    <2> QED
      BY ONLY <2>2, <2>3
  <1> HIDE DEF m
  <1>F. Finished(e) = IF AllSubConditionIsTrue(e.cond) THEN m ELSE e
    BY DEF Finished, m
  <1>5. /\ Finished(e) \in Resources /\ Finished(e).hash = o.hash
        /\ Finished(e).obs = o.obs /\ Finished(e).fin = o.fin
        /\ Finished(e).spec = o.spec
        /\ s.observed => Finished(e).readyCount = s.ready
    BY <1>3, <1>M, <1>F
  <1>6. ASSUME o.cond = Passed({"InputReady", "MemcachedReady",
                                "ServiceConfigReady"})
        PROVE  (Finished(e).cond["Ready"] = "True") <=> r
    <2>1. AllSubConditionIsTrue(e.cond) <=> r
      BY <1>3, <1>6
         DEF AllSubConditionIsTrue, Passed, DecisionEngineConditions
    <2>2. CASE r
      BY <1>M, <1>F, <2>1, <2>2
    <2>3. CASE ~r
      <3>1. e.cond["Ready"] = "Unknown"
        BY <1>2, <1>3, <1>6 DEF Passed, DecisionEngineConditions
      <3> QED
        BY <2>1, <2>3, <3>1 DEF Finished
    <2> QED
      BY <2>2, <2>3
  <1>7. r <=> (s.observed /\ s.ready = o.spec.replicas)
    BY <1>1
  <1> QED
    BY <1>4, <1>5, <1>6, <1>7

-----------------------------------------------------------------------------
(***************************************************************************)
(* Type correctness.                                                       *)
(***************************************************************************)

Facts == /\ {"Ready", "InputReady", "ServiceConfigReady", "MemcachedReady",
             "DeploymentReady"} = DecisionEngineConditions
         /\ {"True", "Info", "Warning"} \subseteq Statuses
         /\ {"secret", "prometheus", "memcached", "keystone"} =
                DecisionEngineInputs
         /\ Absent \in InputStates /\ Versions \subseteq InputStates

\* The members of the enumerated sets, for the leaves that need no more.
LEMMA FactsHold == Facts
  BY DEF Facts, DecisionEngineConditions, Statuses, FalseStatuses,
         DecisionEngineInputs, InputStates

\* TypeOK in the terms of the lemmas.
Types == /\ cr \in Resources /\ cache \in Resources
         /\ base \in Resources /\ inst \in Resources
         /\ queue \in BOOLEAN
         /\ outcome \in {"none", "after", "error", "swallowed"}
         /\ pc \in {"idle", "delete", "exit"} \cup Middle
         /\ seen \in [DecisionEngineInputs -> InputStates]
         /\ input \in [DecisionEngineInputs -> InputStates]
         /\ memFin \subseteq {s.memcached : s \in Specs}
         /\ sts \in StatefulSets
         /\ config \in DecisionEngineHashes
         /\ changes \in Nat /\ faults \in Nat

\* The type invariant of the model and its form in these proofs are the same.
LEMMA TypeOKUnfolded == TypeOK <=> Types
  BY DEF TypeOK, TypesOK, Types, Middle, Resources, StatefulSets,
         DecisionEngineHashes

\* A reconcile that ends leaves its variables in their types.
LEMMA ForgetType ==
    ASSUME TypeOK, Forget
    PROVE  /\ pc' = "idle" /\ base' \in Resources /\ inst' \in Resources
           /\ seen' \in [DecisionEngineInputs -> InputStates]
           /\ outcome' = "none"
  <1>1. NothingSeen \in [DecisionEngineInputs -> InputStates]
    BY TypeOKUnfolded, FactsHold DEF Types, NothingSeen, Facts
  <1> QED
    BY <1>1, BlankType DEF Forget

\* The type invariant holds in the initial states ...
LEMMA InitType == Init => TypeOK
  <1> SUFFICES ASSUME Init PROVE TypeOK
    OBVIOUS
  <1>1. PICK s \in Specs : cr = NewCR(s, DecisionEngineConditions)
    BY DEF Init, ServiceInit
  <1>2. /\ cr \in Resources /\ DOMAIN cr.cond = DecisionEngineConditions
    BY <1>1 DEF NewCR, Resources, CRs, Hashes, Statuses
  <1>3. (CHOOSE u \in Specs : TRUE) \in Specs
    BY SpecsAssumption
  <1>4. Blank \in Resources
    BY <1>2, <1>3 DEF Blank, NewCR, Resources, CRs, Hashes, Statuses
  <1>5. /\ input \in [DecisionEngineInputs -> InputStates]
        /\ NothingSeen \in [DecisionEngineInputs -> InputStates]
    BY StartAssumption DEF Init, ServiceInit, NothingSeen, InputStates
  <1>6. NoSts \in StatefulSets
    BY DEF NoSts, StatefulSets, DecisionEngineHashes, Hashes
  <1>7. NoHash \in DecisionEngineHashes
    BY DEF DecisionEngineHashes, Hashes
  <1> QED
    BY <1>2, <1>4, <1>5, <1>6, <1>7, TypeOKUnfolded
       DEF Init, ServiceInit, Types

\* ... and every step preserves it.
LEMMA NextType == TypeOK /\ [Next]_vars => TypeOK'
  <1> SUFFICES ASSUME TypeOK, [Next]_vars PROVE Types'
    BY DEF TypeOK, TypesOK, Types, Middle, Resources, StatefulSets,
           DecisionEngineHashes
  <1>0. Types /\ Facts
    BY TypeOKUnfolded, FactsHold
  <1>1. CASE Start
    <2>1. CASE cache.phase = "Gone"
      BY <1>0, <1>1, <2>1 DEF Types, Start, Fetch, controllerVars
    <2>2. CASE cache.phase # "Gone"
      <3>1. /\ InitStatus(cache) \in Resources
            /\ [InitStatus(cache) EXCEPT !.fin = TRUE] \in Resources
        BY <1>0, InitStatusFacts DEF Types
      <3>2. /\ base' = cache /\ inst' \in Resources
            /\ pc' \in {"delete", "exit", "secret"}
            /\ queue' = FALSE
            /\ UNCHANGED <<seen, outcome, cr, cache, input, memFin, config,
                           sts, changes, faults>>
        BY <1>1, <2>2, <3>1 DEF Start, Fetch
      <3> QED
        BY <1>0, <3>2 DEF Types, Middle
    <2> QED
      BY <2>1, <2>2
  <1>2. CASE Secret
    <2>1. \A t \in DecisionEngineConditions, v \in Statuses :
              Marked(inst, t, v) \in Resources
      BY <1>0, MarkedFacts DEF Types
    <2>2. /\ inst' \in Resources /\ pc' \in {"exit", "prometheus"}
          /\ outcome' \in {outcome, "after", "error"}
      BY <1>0, <1>2, <2>1
         DEF Secret, EnsureSecret, Return, GoTo, NoFault, Facts, Types
    <2>3. seen' \in [DecisionEngineInputs -> InputStates]
      BY <1>0, <1>2 DEF Secret, EnsureSecret, Types, Facts
    <2>4. faults' \in Nat
      BY <1>0, <1>2 DEF Secret, EnsureSecret, Types, NoFault, Fault
    <2> QED
      BY <1>0, <1>2, <2>2, <2>3, <2>4 DEF Secret, EnsureSecret, Types, Middle
  <1>16. CASE PrometheusSecret
    <2>1. \A t \in DecisionEngineConditions, v \in Statuses :
              Marked(inst, t, v) \in Resources
      BY <1>0, MarkedFacts DEF Types
    <2>2. /\ inst' \in Resources /\ pc' \in {"exit", "memcached"}
          /\ outcome' \in {outcome, "error"}
      BY <1>0, <1>16, <2>1
         DEF PrometheusSecret, RequireSecret, Return, GoTo, NoFault, Facts
    <2>3. seen' \in [DecisionEngineInputs -> InputStates]
      BY <1>0, <1>16 DEF PrometheusSecret, RequireSecret, Types, Facts
    <2>4. faults' \in Nat
      BY <1>0, <1>16 DEF PrometheusSecret, RequireSecret, Types, NoFault, Fault
    <2> QED
      BY <1>0, <1>16, <2>2, <2>3, <2>4
         DEF PrometheusSecret, RequireSecret, Types, Middle
  <1>3. CASE Memcached
    <2>1. \A t \in DecisionEngineConditions, v \in Statuses :
              Marked(inst, t, v) \in Resources
      BY <1>0, MarkedFacts DEF Types
    <2>2. /\ inst' \in Resources /\ pc' \in {"exit", "config"}
          /\ outcome' \in {outcome, "error"}
      BY <1>0, <1>3, <2>1
         DEF Memcached, EnsureMemcached, Return, GoTo, NoFault, Facts
    <2>3. seen' \in [DecisionEngineInputs -> InputStates]
      BY <1>0, <1>3 DEF Memcached, EnsureMemcached, Types, Facts
    <2>4. base.spec.memcached \in {s.memcached : s \in Specs}
      BY <1>0 DEF Types, Resources, CRs
    <2>5. memFin' \subseteq {s.memcached : s \in Specs}
      BY <1>0, <1>3, <2>4 DEF Memcached, EnsureMemcached, Types, AddFinalizer
    <2>6. faults' \in Nat
      BY <1>0, <1>3 DEF Memcached, EnsureMemcached, Types, NoFault, Fault
    <2> QED
      BY <1>0, <1>3, <2>2, <2>3, <2>5, <2>6
         DEF Memcached, EnsureMemcached, Types, Middle
  <1>4. CASE ServiceConfigs
    <2> USE <1>0 DEF Types
    <2>1. \A t \in DecisionEngineConditions, v \in Statuses :
              Marked(inst, t, v) \in Resources
      BY MarkedFacts
    <2>2. CASE KeystoneMissing
      <3>1. /\ pc' = "exit" /\ outcome' = "error"
            /\ inst' = Marked(inst, "ServiceConfigReady", "Warning")
            /\ UNCHANGED <<seen, config, queue>>
            /\ UNCHANGED <<cr, cache, base, input, memFin, sts, changes>>
        BY <1>4, <2>2 DEF ServiceConfigs, KeystoneMissing, Return
      <3>2. inst' \in Resources
        BY <1>0, <2>1, <3>1 DEF Facts
      <3>3. faults' \in Nat
        BY <2>2 DEF KeystoneMissing, NoFault, Fault
      <3> QED
        BY <3>1, <3>2, <3>3
    <2>3. CASE ConfigsFail
      BY <1>4, <2>3 DEF ServiceConfigs, ConfigsFail, Return, NoFault, Fault
    <2>4. CASE ConfigsWritten /\ CheckHash(Rendered, "deploy")
      <3>1. /\ Rendered \in DecisionEngineHashes
            /\ Rendered.in \in [DecisionEngineInputs -> InputStates]
        BY <2>4, RenderedType DEF ConfigsWritten
      <3>2. [inst EXCEPT !.hash = Rendered] \in Resources
        BY <3>1 DEF Resources, CRs, DecisionEngineHashes
      <3>3. /\ inst' \in Resources /\ pc' \in {"exit", "deploy"}
            /\ outcome' \in {outcome, "none"}
        BY <2>1, <2>4, <3>2 DEF CheckHash, Return, GoTo, Facts
      <3>4. /\ seen' = Rendered.in /\ config' = Rendered
            /\ queue' \in BOOLEAN /\ faults' = faults
        BY <2>4 DEF ConfigsWritten, NoFault
      <3> QED
        BY <1>4, <3>1, <3>3, <3>4 DEF ServiceConfigs, Middle
    <2> QED
      BY <1>4, <2>2, <2>3, <2>4 DEF ServiceConfigs
  <1>5. CASE EnsureDeployment
    <2> USE <1>0 DEF Types
    <2>1. \A t \in DecisionEngineConditions, v \in Statuses :
              Marked(inst, t, v) \in Resources
      BY MarkedFacts
    <2>2. base.spec \in Specs /\ inst.hash \in DecisionEngineHashes
      BY DEF Resources, CRs, DecisionEngineHashes
    <2>3. AppliedSts(base.spec, inst.hash) \in StatefulSets
      BY <2>2, AppliedStsFacts
    <2>4. \A s \in StatefulSets : Finished(Deployed(inst, s)) \in Resources
      BY DeployedFacts
    <2>5. Finished(Marked(inst, "DeploymentReady", "Info")) \in Resources
      BY <2>1, MarkedFacts DEF Finished, Facts
    <2>6. /\ sts' \in StatefulSets /\ inst' \in Resources
          /\ queue' \in BOOLEAN /\ pc' = "exit"
          /\ outcome' \in {"none", "error"}
      BY <1>5, <2>1, <2>3, <2>4, <2>5
         DEF EnsureDeployment, DeployAndFinish, Return, Facts
    <2>7. faults' \in Nat
      BY <1>5 DEF EnsureDeployment, DeployAndFinish, NoFault, Fault
    <2> QED
      BY <1>5, <2>6, <2>7 DEF EnsureDeployment, DeployAndFinish
  <1>6. CASE ReconcileDelete
    <2> USE <1>0 DEF Types
    <2>1. DropsFinalizer(inst) \in Resources
      BY DEF DropsFinalizer, Resources, CRs
    <2>2. /\ inst' \in Resources /\ pc' = "exit"
          /\ outcome' \in {"none", "error", "swallowed"}
          /\ memFin' \subseteq memFin
      BY <1>6, <2>1
         DEF ReconcileDelete, ReleaseMemcached, Return, RemoveFinalizer
    <2>3. faults' \in Nat
      BY <1>6 DEF ReconcileDelete, ReleaseMemcached, NoFault, Fault
    <2> QED
      BY <1>6, <2>2, <2>3 DEF ReconcileDelete
  <1>7. CASE Exit
    <2> USE <1>0 DEF Types
    <2> DEFINE after == [inst EXCEPT !.cond = MirrorUndecided(inst.cond)]
    <2>1. after \in Resources
      BY MirrorFacts
    <2>2. PatchInstance(cr, base, after) \in Resources
      BY <2>1, PatchFacts
    <2>3. cr' \in Resources /\ queue' \in BOOLEAN
      BY <1>7, <2>2, Zenon DEF Exit
    <2>5. faults' \in Nat
      BY <1>7 DEF Exit, NoFault, Fault
    <2>4. Forget /\ UNCHANGED <<cache, input, memFin, config, sts, changes>>
      BY <1>7 DEF Exit
    <2> QED
      BY <2>3, <2>4, <2>5, ForgetType
  <1>8. CASE SyncCache
    BY <1>0, <1>8 DEF Types, SyncCache, controllerVars
  <1>9. CASE StsController
    <2> USE <1>0 DEF Types
    <2>1. /\ [sts EXCEPT !.observed = TRUE] \in StatefulSets
          /\ [sts EXCEPT !.rolled = TRUE, !.ready = 0] \in StatefulSets
          /\ \A n \in Nat : [sts EXCEPT !.ready = n] \in StatefulSets
          /\ sts.ready \in Nat /\ sts.replicas \in Nat
      BY DEF StatefulSets
    <2>3. CASE ObserveSts
      BY <2>1, <2>3 DEF ObserveSts, StsEvent, controllerVars
    <2>4. CASE RollSts
      BY <2>1, <2>4 DEF RollSts, StsEvent, controllerVars
    <2>5. CASE ScaleSts
      <3>1. PICK n : /\ n = IF sts.ready < sts.replicas THEN sts.ready + 1
                            ELSE sts.ready - 1
                     /\ sts' = [sts EXCEPT !.ready = n]
                     /\ sts.ready # sts.replicas
        BY <2>5 DEF ScaleSts
      <3>2. n \in Nat
        BY <2>1, <3>1
      <3> QED
        BY <2>1, <2>5, <3>1, <3>2 DEF ScaleSts, StsEvent, controllerVars
    <2> QED
      BY <1>9, <2>3, <2>4, <2>5 DEF StsController
  <1>10. CASE UpdateSpec
    <2> USE <1>0 DEF Types
    <2>1. cr' \in Resources
      BY <1>10, SpecWritten DEF UpdateSpec
    <2>2. changes' \in Nat
      BY <1>10 DEF UpdateSpec, Change
    <2> QED
      BY <1>10, <2>1, <2>2 DEF UpdateSpec, controllerVars
  <1>11. CASE DeleteCR
    <2> USE <1>0 DEF Types
    <2>1. cr' \in Resources
      <3>1. (IF cr.fin THEN "Deleting" ELSE "Gone")
                \in {"Live", "Deleting", "Gone"}
        OBVIOUS
      <3> QED
        BY <1>11, <3>1, PhaseWritten DEF DeleteCR
    <2>2. changes' \in Nat
      BY <1>11 DEF DeleteCR, Change
    <2> QED
      BY <1>11, <2>1, <2>2 DEF DeleteCR, controllerVars
  <1>12. CASE ChangeInput
    <2> USE <1>0 DEF Types
    <2>1. input' \in [DecisionEngineInputs -> InputStates] /\ queue' \in BOOLEAN
      BY <1>12 DEF ChangeInput
    <2>2. changes' \in Nat
      BY <1>12 DEF ChangeInput, Change
    <2> QED
      BY <1>12, <2>1, <2>2 DEF ChangeInput, controllerVars
  <1>13. CASE DisturbSts
    <2> USE <1>0 DEF Types
    <2>1. NoSts \in StatefulSets
      BY DEF NoSts, StatefulSets, DecisionEngineHashes, Hashes
    <2>2. sts' \in StatefulSets
      BY <1>13, <2>1 DEF DisturbSts, StatefulSets
    <2>3. changes' \in Nat
      BY <1>13 DEF DisturbSts, Change
    <2> QED
      BY <1>13, <2>2, <2>3 DEF DisturbSts, StsEvent, controllerVars
  <1>14. CASE Crash
    <2>1. Forget
      BY <1>14 DEF Crash
    <2> QED
      BY <1>0, <1>14, <2>1, ForgetType DEF Types, Crash, Fault
  <1>15. CASE UNCHANGED vars
    BY <1>0, <1>15 DEF Types, vars
  <1> QED
    BY <1>1, <1>2, <1>3, <1>4, <1>5, <1>6, <1>7, <1>8, <1>9, <1>10, <1>11,
       <1>12, <1>13, <1>14, <1>15, <1>16 DEF Next, Reconcile, Environment

\* The variables of the reconciler of WatcherDecisionEngine stay in their types,
\* whatever the cluster does.
THEOREM TypeCorrect == Spec => []TypeOK
  BY InitType, NextType, PTL DEF Spec

-----------------------------------------------------------------------------
(***************************************************************************)
(* The steps of a specification by what they leave alone: those within a   *)
(* reconcile, and those of everybody else.                                 *)
(***************************************************************************)

Inner == \/ Secret \/ PrometheusSecret \/ Memcached \/ ServiceConfigs
         \/ EnsureDeployment \/ ReconcileDelete

Outer == \/ SyncCache \/ StsController \/ UpdateSpec \/ DeleteCR \/ ChangeInput
         \/ DisturbSts \/ UNCHANGED vars

\* The steps of the system, grouped by what they may write.
LEMMA StepCases == [Next]_vars => Start \/ Inner \/ Exit \/ Crash \/ Outer
  BY DEF Next, Reconcile, Environment, Inner, Outer

\* A step within a reconcile writes neither the resource nor the inputs.
LEMMA InnerFacts ==
    ASSUME TypeOK, Inner
    PROVE  /\ UNCHANGED <<cr, cache, base, input>>
           /\ inst'.obs = inst.obs
           /\ pc # "delete" => inst'.fin = inst.fin
           /\ pc # "idle" /\ pc # "exit" /\ pc' # "idle" /\ pc' # "delete"
           /\ queue => queue'
           /\ sts' # sts => queue'
  <1>0. Types /\ Facts
    BY TypeOKUnfolded, FactsHold
  <1>1. \A t \in DecisionEngineConditions, v \in Statuses :
            /\ Marked(inst, t, v) \in Resources
            /\ Marked(inst, t, v).obs = inst.obs
            /\ Marked(inst, t, v).fin = inst.fin
    BY <1>0, MarkedFacts DEF Types
  <1>2. CASE Secret
    BY <1>0, <1>1, <1>2 DEF Secret, EnsureSecret, Return, GoTo, Facts
  <1>16. CASE PrometheusSecret
    BY <1>0, <1>1, <1>16
       DEF PrometheusSecret, RequireSecret, Return, GoTo, Facts
  <1>3. CASE Memcached
    BY <1>0, <1>1, <1>3 DEF Memcached, EnsureMemcached, Return, GoTo, Facts
  <1>4. CASE ServiceConfigs
    <2>1. \A h : /\ [inst EXCEPT !.hash = h].obs = inst.obs
                 /\ [inst EXCEPT !.hash = h].fin = inst.fin
      BY <1>0 DEF Types, Resources, CRs
    <2>2. /\ pc = "config" /\ UNCHANGED <<cr, cache, base, input, sts>>
      BY <1>4 DEF ServiceConfigs
    <2>3. CASE KeystoneMissing
      BY <1>0, <1>1, <2>2, <2>3 DEF KeystoneMissing, Return, Facts
    <2>4. CASE ConfigsFail
      BY <2>2, <2>4 DEF ConfigsFail, Return
    <2>5. CASE ConfigsWritten /\ CheckHash(Rendered, "deploy")
      <3>1. \/ pc' = "exit" /\ inst' = [inst EXCEPT !.hash = Rendered]
            \/ /\ pc' = "deploy"
               /\ inst' = Marked(inst, "ServiceConfigReady", "True")
        BY <2>5, Zenon DEF CheckHash, Return, GoTo
      <3>2. /\ [inst EXCEPT !.hash = Rendered].obs = inst.obs
            /\ [inst EXCEPT !.hash = Rendered].fin = inst.fin
            /\ Marked(inst, "ServiceConfigReady", "True").obs = inst.obs
            /\ Marked(inst, "ServiceConfigReady", "True").fin = inst.fin
        BY <1>0, <1>1, <2>1 DEF Facts
      <3>3. queue => queue'
        BY <1>0, <2>5 DEF ConfigsWritten, Types
      <3> QED
        BY <2>2, <3>1, <3>2, <3>3
    <2> QED
      BY <1>4, <2>3, <2>4, <2>5 DEF ServiceConfigs
  <1>5. CASE EnsureDeployment
    <2>1. base.spec \in Specs /\ inst.hash \in DecisionEngineHashes
      BY <1>0 DEF Types, Resources, CRs, DecisionEngineHashes
    <2>2. AppliedSts(base.spec, inst.hash) \in StatefulSets
      BY <1>0, <2>1, AppliedStsFacts DEF Types
    <2>3. \A s \in StatefulSets :
              /\ Finished(Deployed(inst, s)).obs = inst.obs
              /\ Finished(Deployed(inst, s)).fin = inst.fin
      BY <1>0, DeployedFacts DEF Types
    <2>4. \A o \in Resources : /\ Finished(o).obs = o.obs
                                /\ Finished(o).fin = o.fin
      BY <1>0, MarkedFacts DEF Finished, Facts
    <2>5. inst'.obs = inst.obs /\ inst'.fin = inst.fin
      BY <1>0, <1>1, <1>5, <2>2, <2>3, <2>4
         DEF EnsureDeployment, DeployAndFinish, Return, Facts
    <2>6. /\ UNCHANGED <<cr, cache, base, input>>
          /\ pc = "deploy" /\ pc' = "exit"
      BY <1>5 DEF EnsureDeployment, DeployAndFinish, Return
    <2>7. (queue => queue') /\ (sts' # sts => queue')
      BY <1>0, <1>5 DEF EnsureDeployment, DeployAndFinish, Types
    <2> QED
      BY <2>5, <2>6, <2>7
  <1>6. CASE ReconcileDelete
    <2>1. DropsFinalizer(inst).obs = inst.obs
      BY <1>0 DEF DropsFinalizer, Types, Resources, CRs
    <2> QED
      BY <1>6, <2>1 DEF ReconcileDelete, ReleaseMemcached, Return
  <1> QED
    BY <1>2, <1>16, <1>3, <1>4, <1>5, <1>6 DEF Inner

\* Whoever else takes a step leaves the reconcile alone, wakes the controller
\* up if it changes what is watched, and gives a changed resource a new
\* generation.
LEMMA OuterFacts ==
    ASSUME TypeOK, Outer
    PROVE  /\ UNCHANGED <<controllerVars, memFin>>
           /\ queue => queue'
           /\ sts' # sts => queue'
           /\ sts'.exists => sts.exists
           /\ cache' # cache => queue' /\ cache' = cr /\ cr' = cr
           /\ cr' # cr => /\ cr.phase = "Live" /\ cr'.gen = cr.gen + 1
                          /\ cr'.obs = cr.obs
           /\ \A i \in Watched : input'[i] # input[i] => queue'
  <1>0. Types /\ Facts
    BY TypeOKUnfolded, FactsHold
  <1>1. CASE SyncCache
    BY <1>1 DEF SyncCache, controllerVars
  <1>2. CASE StsController
    <2>1. /\ queue' = TRUE
          /\ UNCHANGED <<cr, cache, controllerVars, input, memFin>>
      BY <1>2 DEF StsController, ObserveSts, RollSts, ScaleSts, StsEvent
    <2>2. sts.exists
      BY <1>2 DEF StsController, ObserveSts, RollSts, ScaleSts
    <2> QED
      BY <2>1, <2>2
  <1>3. CASE UpdateSpec
    <2>1. PICK s \in Specs : cr' = [cr EXCEPT !.spec = s, !.gen = @ + 1]
      BY <1>3 DEF UpdateSpec
    <2>2. cr'.gen = cr.gen + 1 /\ cr'.obs = cr.obs
      <3>1. cr \in Resources
        BY <1>0 DEF Types
      <3>2. /\ [cr EXCEPT !.spec = s, !.gen = @ + 1].gen = cr.gen + 1
            /\ [cr EXCEPT !.spec = s, !.gen = @ + 1].obs = cr.obs
        BY <3>1, SpecWritten
      <3> QED
        BY <2>1, <3>2
    <2> QED
      BY <1>3, <2>2 DEF UpdateSpec
  <1>4. CASE DeleteCR
    <2>1. PICK p \in {"Live", "Deleting", "Gone"} :
              cr' = [cr EXCEPT !.phase = p, !.gen = @ + 1]
      BY <1>4 DEF DeleteCR
    <2>2. cr'.gen = cr.gen + 1 /\ cr'.obs = cr.obs
      <3>1. cr \in Resources
        BY <1>0 DEF Types
      <3>2. /\ [cr EXCEPT !.phase = p, !.gen = @ + 1].gen = cr.gen + 1
            /\ [cr EXCEPT !.phase = p, !.gen = @ + 1].obs = cr.obs
        BY <3>1, PhaseWritten
      <3> QED
        BY <2>1, <3>2
    <2> QED
      BY <1>4, <2>2 DEF DeleteCR
  <1>5. CASE ChangeInput
    <2>1. PICK i \in DecisionEngineInputs, v \in InputStates :
              /\ input' = [input EXCEPT ![i] = v]
              /\ queue' = (queue \/ i \notin Unwatched)
      BY <1>0, <1>5 DEF ChangeInput, Types
    <2>2. /\ queue => queue'
          /\ \A j \in Watched : input'[j] # input[j] => queue'
      BY <1>0, <2>1 DEF Types, Facts, Unwatched, Watched
    <2> QED
      BY <1>5, <2>2 DEF ChangeInput
  <1>6. CASE DisturbSts
    BY <1>6 DEF DisturbSts, StsEvent, NoSts
  <1>7. CASE UNCHANGED vars
    BY <1>7 DEF vars, controllerVars
  <1> QED
    BY <1>1, <1>2, <1>3, <1>4, <1>5, <1>6, <1>7 DEF Outer

-----------------------------------------------------------------------------
(***************************************************************************)
(* Stale copies do no harm.                                                *)
(***************************************************************************)

\* What Exit does to the resource: the patch, or nothing.
LEMMA ExitFacts ==
    ASSUME TypeOK, Exit
    PROVE  /\ cr' \in Resources /\ cr'.spec = cr.spec /\ cr'.gen = cr.gen
           /\ cr'.obs \in {cr.obs, inst.obs}
           /\ cr'.phase = "Live" <=> cr.phase = "Live"
           /\ cr.phase = "Gone" => cr' = cr
           /\ pc' = "idle" /\ outcome' = "none"
           /\ UNCHANGED <<cache, input, memFin, sts>>
  <1>0. Types
    BY TypeOKUnfolded
  <1> DEFINE after == [inst EXCEPT !.cond = MirrorUndecided(inst.cond)]
  <1>1. after \in Resources /\ after.obs = inst.obs
    BY <1>0, MirrorFacts DEF Types
  <1>2. cr' = PatchInstance(cr, base, after) \/ cr' = cr
    BY DEF Exit
  <1> HIDE DEF after
  <1>3. CASE cr' = PatchInstance(cr, base, after)
    BY <1>0, <1>1, <1>3, PatchFacts DEF Types, Exit, Forget
  <1>4. CASE cr' = cr
    BY <1>0, <1>4 DEF Types, Exit, Forget
  <1> QED
    BY <1>2, <1>3, <1>4

\* What Start does, if it starts anything.
LEMMA StartFacts ==
    ASSUME TypeOK, Start
    PROVE  /\ UNCHANGED <<cr, cache, input, memFin, sts, seen, outcome>>
           /\ pc = "idle" /\ ~queue'
           /\ \/ cache.phase = "Gone" /\ pc' = "idle"
              \/ /\ cache.phase # "Gone" /\ base' = cache
                 /\ inst'.obs = cache.gen /\ inst'.cond = Passed({})
                 /\ inst'.hash = cache.hash
                 /\ \/ pc' = "exit" /\ ~cache.fin /\ inst'.fin
                    \/ pc' = "exit" /\ NilConditions(cache.cond)
                    \/ pc' = "delete" /\ cache.phase = "Deleting"
                    \/ pc' = "secret" /\ cache.phase = "Live"
                       /\ inst'.spec = cache.spec
  <1>0. Types
    BY TypeOKUnfolded
  <1>1. CASE cache.phase = "Gone"
    BY <1>1 DEF Start, Fetch, controllerVars
  <1>2. CASE cache.phase # "Gone"
    <2> DEFINE o == InitStatus(cache)
               f == [o EXCEPT !.fin = TRUE]
               adds == cache.phase = "Live" /\ ~cache.fin
    <2>1. /\ o.obs = cache.gen /\ o.cond = Passed({}) /\ o.hash = cache.hash
          /\ o.spec = cache.spec
          /\ f.obs = cache.gen /\ f.cond = Passed({}) /\ f.hash = cache.hash
          /\ f.fin = TRUE
      BY <1>0, InitStatusFacts DEF Types
    <2>2. /\ inst' = IF adds THEN f ELSE o
          /\ pc' = IF adds \/ NilConditions(cache.cond) THEN "exit"
                   ELSE IF cache.phase = "Deleting" THEN "delete"
                   ELSE "secret"
          /\ base' = cache
          /\ UNCHANGED <<cr, cache, input, memFin, sts, seen, outcome>>
          /\ pc = "idle" /\ queue' = FALSE
      BY <1>2 DEF Start, Fetch
    <2>3. cache.phase \in {"Live", "Deleting"}
      BY <1>0, <1>2 DEF Types, Resources, CRs
    <2> HIDE DEF o, f
    <2> QED
      BY <1>2, <2>1, <2>2, <2>3
  <1> QED
    BY <1>1, <1>2

\* Every step keeps the order of the generations: only a write of the spec makes
\* one, and the copies are never ahead.
LEMMA GenerationsKept ==
    ASSUME TypeOK, Generations, [Next]_vars
    PROVE  Generations'
  <1>0. Types
    BY TypeOKUnfolded
  <1>1. /\ cr.gen \in Nat /\ cr.obs \in Nat /\ cache.gen \in Nat
        /\ base.gen \in Nat /\ cache.obs \in Nat
    BY <1>0 DEF Types, Resources, CRs
  <1>2. CASE Start
    BY <1>1, <1>2, StartFacts DEF Generations
  <1>3. CASE Inner
    BY <1>3, InnerFacts DEF Generations
  <1>4. CASE Exit
    BY <1>1, <1>4, ExitFacts DEF Generations, Exit
  <1>5. CASE Crash
    BY <1>1, <1>5 DEF Generations, Crash, Forget
  <1>6. CASE Outer
    <2>1. UNCHANGED <<pc, base, inst>>
      BY <1>6, OuterFacts DEF controllerVars
    <2>2. CASE cache' = cache
      BY <1>1, <1>6, <2>1, <2>2, OuterFacts DEF Generations
    <2>3. CASE cache' # cache
      BY <1>1, <1>6, <2>1, <2>3, OuterFacts DEF Generations
    <2> QED
      BY <2>2, <2>3
  <1> QED
    BY <1>2, <1>3, <1>4, <1>5, <1>6, StepCases

\* Every step keeps the copies right about deletion, which is never taken back.
LEMMA PhasesKept ==
    ASSUME TypeOK, Phases, [Next]_vars
    PROVE  Phases'
  <1>2. CASE Start
    BY <1>2, StartFacts DEF Phases
  <1>3. CASE Inner
    BY <1>3, InnerFacts DEF Phases
  <1>4. CASE Exit
    BY <1>4, ExitFacts DEF Phases, Exit
  <1>5. CASE Crash
    BY <1>5 DEF Phases, Crash, Forget
  <1>6. CASE Outer
    <2>1. UNCHANGED <<pc, base, inst>>
      BY <1>6, OuterFacts DEF controllerVars
    <2> QED
      BY <1>6, <2>1, OuterFacts DEF Phases
  <1> QED
    BY <1>2, <1>3, <1>4, <1>5, <1>6, StepCases

\* A resource that was just created has been read by nobody.
LEMMA InitStale == Init => Generations /\ Phases
  <1> SUFFICES ASSUME Init PROVE Generations /\ Phases
    OBVIOUS
  <1>1. PICK s \in Specs : cr = NewCR(s, DecisionEngineConditions)
    BY DEF Init, ServiceInit
  <1>2. cr.gen = 1 /\ cr.obs = 0 /\ cr.phase = "Live"
    BY <1>1 DEF NewCR
  <1> QED
    BY <1>2 DEF Init, ServiceInit, Generations, Phases

\* A stale copy never takes observedGeneration back, and no patch brings a
\* deleted resource to life.
Onward ==
    /\ cr'.obs >= cr.obs
    /\ cr.phase # "Live" => cr'.phase # "Live"
    /\ cr.phase = "Gone" => cr' = cr
StatusMonotone == [][Onward]_vars

\* One step of StatusMonotone.
LEMMA MonotoneStep == TypeOK /\ Generations /\ [Next]_vars => Onward
  <1> SUFFICES ASSUME TypeOK, Generations, [Next]_vars PROVE Onward
    OBVIOUS
  <1>1. cr.obs \in Nat /\ base.gen \in Nat
    BY TypeOKUnfolded DEF Types, Resources, CRs
  <1>2. CASE Start
    BY <1>1, <1>2, StartFacts DEF Onward
  <1>3. CASE Inner
    BY <1>1, <1>3, InnerFacts DEF Onward
  <1>4. CASE Exit
    <2>1. cr.obs <= base.gen /\ inst.obs = base.gen
      BY <1>4 DEF Generations, Exit
    <2> QED
      BY <1>1, <1>4, <2>1, ExitFacts DEF Onward
  <1>5. CASE Crash
    BY <1>1, <1>5 DEF Crash, Onward
  <1>6. CASE Outer
    BY <1>1, <1>6, OuterFacts DEF Onward
  <1> QED
    BY <1>2, <1>3, <1>4, <1>5, <1>6, StepCases

\* The deferred patch, computed against a stale copy and sent without a
\* resource version, never takes observedGeneration back nor undoes a
\* deletion, however many spec updates, failures and restarts come between.
THEOREM StatusIsMonotone == Spec => StatusMonotone
  <1>1. Init => TypeOK /\ Generations
    BY InitType, InitStale
  <1>2. TypeOK /\ Generations /\ [Next]_vars => (TypeOK /\ Generations)'
    BY NextType, GenerationsKept
  <1> QED
    BY <1>1, <1>2, MonotoneStep, PTL DEF Spec, StatusMonotone

-----------------------------------------------------------------------------
(***************************************************************************)
(* No lost wake-up.                                                        *)
(***************************************************************************)

\* Every step keeps a reconcile without a pending event on the newest copy.
LEMMA UnqueuedKept ==
    ASSUME TypeOK, Unqueued, [Next]_vars
    PROVE  Unqueued'
  <1>1. CASE Start
    BY <1>1, StartFacts DEF Unqueued
  <1>2. CASE Inner
    BY <1>2, InnerFacts DEF Unqueued
  <1>3. CASE Exit
    BY <1>3, ExitFacts DEF Unqueued
  <1>4. CASE Crash
    BY <1>4 DEF Unqueued, Crash, Forget
  <1>5. CASE Outer
    BY <1>5, OuterFacts DEF Unqueued, controllerVars
  <1> QED
    BY <1>1, <1>2, <1>3, <1>4, <1>5, StepCases

\* Each step of a reconcile hands what it has established to the next.
LEMMA ProgressKept ==
    ASSUME TypeOK, Phases, Progress, [Next]_vars
    PROVE  Progress'
  <1>0. Types /\ Facts
    BY TypeOKUnfolded, FactsHold
  <1>1. \A t \in DecisionEngineConditions :
            /\ Marked(inst, t, "True").hash = inst.hash
            /\ Marked(inst, t, "True").spec = inst.spec
            /\ \A ts \in SUBSET DecisionEngineConditions :
                  inst.cond = Passed(ts) =>
                  Marked(inst, t, "True").cond = Passed(ts \cup {t})
    <2> SUFFICES ASSUME NEW t \in DecisionEngineConditions
                 PROVE  /\ Marked(inst, t, "True").hash = inst.hash
                        /\ Marked(inst, t, "True").spec = inst.spec
                        /\ \A ts \in SUBSET DecisionEngineConditions :
                              inst.cond = Passed(ts) =>
                                Marked(inst, t, "True").cond =
                                    Passed(ts \cup {t})
      OBVIOUS
    <2>1. /\ Marked(inst, t, "True").hash = inst.hash
          /\ Marked(inst, t, "True").spec = inst.spec
          /\ Marked(inst, t, "True").cond =
                [u \in DecisionEngineConditions |->
                     IF u = t THEN "True" ELSE inst.cond[u]]
      BY <1>0, MarkedFacts DEF Types, Facts
    <2> QED
      BY <2>1 DEF Passed
  <1>2. CASE Start
    BY <1>2, StartFacts DEF Progress, Middle
  <1>3. CASE Secret
    <2>1. /\ pc = "secret" /\ UNCHANGED <<base, input, queue>>
          /\ \/ pc' = "exit" /\ outcome' \in {"after", "error"}
             \/ /\ pc' = "prometheus" /\ UNCHANGED <<outcome, inst>>
                /\ seen' = [seen EXCEPT !["secret"] = input["secret"]]
      BY <1>3 DEF Secret, EnsureSecret, Return, GoTo
    <2>2. CASE pc' = "exit"
      BY <2>1, <2>2 DEF Progress, Middle
    <2>3. CASE pc' = "prometheus"
      <3>1. seen'["secret"] = input["secret"]
        BY <1>0, <2>1, <2>3 DEF Types, Facts
      <3> QED
        BY <2>1, <2>3, <3>1 DEF Progress, Middle
    <2> QED
      BY <2>1, <2>2, <2>3
  <1>16. CASE PrometheusSecret
    <2>1. /\ pc = "prometheus" /\ UNCHANGED <<base, input, queue>>
          /\ \/ pc' = "exit" /\ outcome' = "error"
             \/ /\ pc' = "memcached" /\ UNCHANGED outcome
                /\ inst' = Marked(inst, "InputReady", "True")
                /\ seen' = [seen EXCEPT !["prometheus"] = input["prometheus"]]
      BY <1>16 DEF PrometheusSecret, RequireSecret, Return, GoTo
    <2>2. CASE pc' = "exit"
      BY <2>1, <2>2 DEF Progress, Middle
    <2>3. CASE pc' = "memcached"
      <3>1. /\ inst'.hash = inst.hash /\ inst'.spec = inst.spec
            /\ inst'.cond = Passed({} \cup {"InputReady"})
        BY <1>0, <1>1, <2>1, <2>3 DEF Progress, Facts
      <3>2. /\ seen'["prometheus"] = input["prometheus"]
            /\ seen'["secret"] = seen["secret"]
        BY <1>0, <2>1, <2>3 DEF Types, Facts
      <3>3. {} \cup {"InputReady"} = {"InputReady"}
        OBVIOUS
      <3> QED
        BY <2>1, <2>3, <3>1, <3>2, <3>3 DEF Progress, Middle, Watched
    <2> QED
      BY <2>1, <2>2, <2>3
  <1>4. CASE Memcached
    <2>1. /\ pc = "memcached" /\ UNCHANGED <<base, input, queue>>
          /\ \/ pc' = "exit" /\ outcome' = "error"
             \/ /\ pc' = "config" /\ UNCHANGED outcome
                /\ inst' = Marked(inst, "MemcachedReady", "True")
                /\ seen' = [seen EXCEPT !["memcached"] = input["memcached"]]
      BY <1>4 DEF Memcached, EnsureMemcached, Return, GoTo
    <2>2. CASE pc' = "exit"
      BY <2>1, <2>2 DEF Progress, Middle
    <2>3. CASE pc' = "config"
      <3>1. /\ inst'.hash = inst.hash /\ inst'.spec = inst.spec
            /\ inst'.cond = Passed({"InputReady"} \cup {"MemcachedReady"})
        BY <1>0, <1>1, <2>1, <2>3 DEF Progress, Facts
      <3>2. \A i \in Watched : seen'[i] = seen[i]
        BY <1>0, <2>1, <2>3 DEF Types, Facts, Watched
      <3>3. {"InputReady"} \cup {"MemcachedReady"}
                = {"InputReady", "MemcachedReady"}
        OBVIOUS
      <3> QED
        BY <2>1, <2>3, <3>1, <3>2, <3>3 DEF Progress, Middle
    <2> QED
      BY <2>1, <2>2, <2>3
  <1>5. CASE ServiceConfigs
    <2>1. pc = "config" /\ UNCHANGED <<base, input>>
      BY <1>5 DEF ServiceConfigs
    <2>2. CASE KeystoneMissing \/ ConfigsFail
      <3>1. pc' = "exit" /\ outcome' = "error"
        BY <2>2 DEF KeystoneMissing, ConfigsFail, Return
      <3> QED
        BY <3>1 DEF Progress, Middle
    <2>3. CASE ConfigsWritten /\ CheckHash(Rendered, "deploy")
      <3>1. /\ \/ pc' = "exit" /\ outcome' = "none"
               \/ /\ pc' = "deploy" /\ UNCHANGED outcome
                  /\ inst' = Marked(inst, "ServiceConfigReady", "True")
                  /\ inst.hash = Rendered
        BY <2>3, Zenon DEF CheckHash, Return, GoTo
      <3>2. CASE pc' = "exit"
        BY <3>1, <3>2 DEF Progress, Middle
      <3>3. CASE pc' = "deploy"
        <4>1. /\ inst'.hash = inst.hash /\ inst'.spec = inst.spec
              /\ inst'.cond = Passed({"InputReady", "MemcachedReady"}
                                     \cup {"ServiceConfigReady"})
          BY <1>0, <1>1, <2>1, <3>1, <3>3 DEF Progress, Facts
        <4>2. {"InputReady", "MemcachedReady"} \cup {"ServiceConfigReady"}
                = {"InputReady", "MemcachedReady", "ServiceConfigReady"}
          OBVIOUS
        <4>3. seen' = Rendered.in /\ \A i \in Watched : seen'[i] = seen[i]
          BY <2>3, RenderedType DEF ConfigsWritten
        <4>4. Rendered = [cfg |-> base.spec.cfg, in |-> seen']
          BY <4>3 DEF Rendered
        <4>5. queue => queue'
          BY <1>0, <2>3 DEF ConfigsWritten, Types
        <4>6. /\ inst'.hash = [cfg |-> base'.spec.cfg, in |-> seen']
              /\ inst'.cond = Passed({"InputReady", "MemcachedReady",
                                      "ServiceConfigReady"})
              /\ outcome' = "none" /\ base'.phase = "Live"
              /\ inst'.hash = base'.hash /\ inst'.spec = base'.spec
              /\ ~queue' => \A i \in Watched : seen'[i] = input'[i]
          BY <2>1, <3>1, <3>3, <4>1, <4>2, <4>3, <4>4, <4>5
             DEF Progress, Middle
        <4> QED
          BY <3>3, <4>6 DEF Progress
      <3> QED
        BY <3>1, <3>2, <3>3
    <2> QED
      BY <1>5, <2>2, <2>3 DEF ServiceConfigs
  <1>6. CASE EnsureDeployment
    <2>1. pc' = "exit" /\ outcome' \in {"none", "error"}
      BY <1>6 DEF EnsureDeployment, DeployAndFinish, Return
    <2> QED
      BY <2>1 DEF Progress, Middle
  <1>7. CASE ReconcileDelete
    <2>1. pc = "delete" /\ pc' = "exit" /\ UNCHANGED base
      BY <1>7 DEF ReconcileDelete, ReleaseMemcached, Return
    <2> QED
      BY <2>1 DEF Phases, Progress, Middle
  <1>8. CASE Exit
    BY <1>8, ExitFacts DEF Progress, Middle
  <1>9. CASE Crash
    BY <1>9 DEF Progress, Middle, Crash, Forget
  <1>10. CASE Outer
    <2>1. /\ UNCHANGED <<pc, base, inst, seen, outcome>>
          /\ queue => queue'
          /\ \A i \in Watched : input'[i] # input[i] => queue'
      BY <1>10, OuterFacts DEF controllerVars
    <2> QED
      BY <2>1 DEF Progress, Watched
  <1> QED
    BY <1>2, <1>3, <1>16, <1>4, <1>5, <1>6, <1>7, <1>8, <1>9, <1>10, StepCases
       DEF Inner

\* A reconcile only ends silently if it will write something or if what it
\* leaves in the resource is true.
LEMMA SettledKept ==
    ASSUME TypeOK, Phases, Progress, Settled, [Next]_vars
    PROVE  Settled'
  <1>0. Types /\ Facts
    BY TypeOKUnfolded, FactsHold
  <1>1. CASE Start
    <2>1. Passed({})["Ready"] = "Unknown"
      BY <1>0 DEF Passed, Facts
    <2>2. pc' = "exit" => /\ base' = cache /\ inst'.cond = Passed({})
                          /\ \/ ~cache.fin /\ inst'.fin
                             \/ NilConditions(cache.cond)
      BY <1>1, StartFacts
    <2> QED
      BY <2>1, <2>2 DEF Settled
  <1>2. CASE Secret
    BY <1>2 DEF Settled, Secret, EnsureSecret, Return, GoTo
  <1>16. CASE PrometheusSecret
    BY <1>16 DEF Settled, PrometheusSecret, RequireSecret, Return, GoTo
  <1>3. CASE Memcached
    BY <1>3 DEF Settled, Memcached, EnsureMemcached, Return, GoTo
  <1>4. CASE ServiceConfigs
    <2>1. pc = "config" /\ UNCHANGED base
      BY <1>4 DEF ServiceConfigs
    <2>2. CASE KeystoneMissing \/ ConfigsFail
      <3>1. outcome' = "error"
        BY <2>2 DEF KeystoneMissing, ConfigsFail, Return
      <3> QED
        BY <3>1 DEF Settled
    <2>3. CASE ConfigsWritten /\ CheckHash(Rendered, "deploy")
      <3>1. \/ pc' = "deploy"
            \/ /\ inst' = [inst EXCEPT !.hash = Rendered]
               /\ inst.hash # Rendered
        BY <2>3, Zenon DEF CheckHash, Return, GoTo
      <3>2. [inst EXCEPT !.hash = Rendered].hash = Rendered
        BY <1>0 DEF Types, Resources, CRs
      <3>3. inst.hash = base.hash
        BY <2>1 DEF Progress, Middle
      <3> QED
        BY <2>1, <3>1, <3>2, <3>3 DEF Settled
    <2> QED
      BY <1>4, <2>2, <2>3 DEF ServiceConfigs
  <1>5. CASE EnsureDeployment
    <2> SUFFICES ASSUME ~queue', outcome' = "none"
                 PROVE  Truthful(inst)'
      BY DEF Settled
    <2>1. pc = "deploy" /\ UNCHANGED <<base, input, seen>>
      BY <1>5 DEF EnsureDeployment, DeployAndFinish
    <2>2. /\ sts' = AppliedSts(base.spec, inst.hash) /\ sts' = sts
          /\ inst' = Finished(Deployed(inst, sts')) /\ ~queue
      BY <1>0, <1>5 DEF EnsureDeployment, DeployAndFinish, Return, Types
    <2>3. base.spec \in Specs /\ inst.hash \in DecisionEngineHashes
      BY <1>0 DEF Types, Resources, CRs, DecisionEngineHashes
    <2>4. /\ sts \in StatefulSets /\ sts.exists /\ sts.img = base.spec.img
          /\ sts.replicas = base.spec.replicas /\ sts.hash = inst.hash
      <3> DEFINE a == AppliedSts(base.spec, inst.hash)
      <3>1. /\ a \in StatefulSets /\ a.exists /\ a.img = base.spec.img
            /\ a.replicas = base.spec.replicas /\ a.hash = inst.hash
        BY <1>0, <2>3, AppliedStsFacts DEF Types
      <3>2. a = sts
        BY <2>2
      <3> HIDE DEF a
      <3> QED
        BY <3>1, <3>2
    <2>5. /\ inst.spec = base.spec
          /\ inst.cond = Passed({"InputReady", "MemcachedReady",
                                 "ServiceConfigReady"})
          /\ inst.hash = [cfg |-> base.spec.cfg, in |-> seen]
          /\ \A i \in Watched : seen[i] = input[i]
      BY <2>1, <2>2 DEF Progress, Middle
    <2>6. /\ inst'.hash = inst.hash
          /\ sts.observed => inst'.readyCount = sts.ready
          /\ (inst'.cond["Ready"] = "True") <=>
                (sts.observed /\ sts.ready = inst.spec.replicas)
      BY <1>0, <2>2, <2>4, <2>5, DeployedFacts DEF Types
    <2>7. inst.hash # NoHash
      <3>1. inst.hash \in [cfg : {s.cfg : s \in Specs},
                           in : [DecisionEngineInputs -> InputStates]]
        BY <1>0, <2>3, <2>5 DEF Types
      <3> QED
        BY <3>1, HashAssumption
    <2>8. inst.hash.cfg = base.spec.cfg /\ inst.hash.in = seen
      BY <2>5
    <2> QED
      BY <2>1, <2>2, <2>4, <2>5, <2>6, <2>7, <2>8 DEF Truthful, Available
  <1>6. CASE ReconcileDelete
    <2>1. pc = "delete" /\ UNCHANGED base
      BY <1>6 DEF ReconcileDelete
    <2> QED
      BY <2>1 DEF Phases, Settled
  <1>7. CASE Exit
    BY <1>7, ExitFacts DEF Settled
  <1>8. CASE Crash
    BY <1>8 DEF Settled, Crash, Forget
  <1>9. CASE Outer
    <2>1. /\ UNCHANGED <<pc, base, inst, seen, outcome>>
          /\ queue => queue'
          /\ sts' # sts => queue'
          /\ \A i \in Watched : input'[i] # input[i] => queue'
      BY <1>9, OuterFacts DEF controllerVars
    <2> QED
      BY <2>1 DEF Settled, Truthful, Available, NilConditions
  <1> QED
    BY <1>1, <1>2, <1>16, <1>3, <1>4, <1>5, <1>6, <1>7, <1>8, <1>9, StepCases
       DEF Inner

\* At rest, in the terms of the lemmas.
LEMMA RestKept ==
    ASSUME TypeOK, Generations, Phases, Unqueued, Progress, Settled,
           RestIsTruthful, [Next]_vars
    PROVE  RestIsTruthful'
  <1>0. Types /\ Facts
    BY TypeOKUnfolded, FactsHold
  <1> SUFFICES ASSUME AtRest', cr'.phase = "Live"
               PROVE  /\ cr'.obs = cr'.gen
                      /\ UpToDate'
                      /\ (cr'.cond["Ready"] = "True") <=> Available'
    BY DEF RestIsTruthful
  <1>1. pc' = "idle" /\ ~queue' /\ cache' = cr'
    BY DEF AtRest
  <1>2. CASE Start
    BY <1>1, <1>2, StartFacts
  <1>3. CASE Inner
    BY <1>1, <1>3, InnerFacts
  <1>4. CASE Exit
    <2> DEFINE after == [inst EXCEPT !.cond = MirrorUndecided(inst.cond)]
    <2>1. /\ pc = "exit" /\ cr' = PatchInstance(cr, base, after)
          /\ ~queue /\ outcome \notin {"after", "error"}
      BY <1>0, <1>1, <1>4 DEF Exit, Types
    <2>2. /\ after \in Resources
          /\ after.hash = inst.hash /\ after.obs = inst.obs
          /\ after.fin = inst.fin /\ after.readyCount = inst.readyCount
          /\ (after.cond["Ready"] = "True") <=> (inst.cond["Ready"] = "True")
          /\ inst.cond["Ready"] = "Unknown" => after.cond["Ready"] # "NotSet"
      BY <1>0, MirrorFacts DEF Types
    <2> HIDE DEF after
    <2>3. /\ cr' = base
          /\ UNCHANGED <<input, sts>>
      BY <1>1, <1>4, <2>1, ExitFacts DEF Unqueued
    <2>4. /\ inst.fin = base.fin /\ inst.hash = base.hash
          /\ inst.obs = base.obs /\ after.cond = base.cond
          /\ inst.readyCount = base.readyCount
      <3> DEFINE p == PatchInstance(cr, base, after)
      <3>1. p = base /\ p.phase = "Live"
        BY <2>1, <2>3
      <3>2. /\ p.phase = "Live" /\ p.fin = base.fin => after.fin = base.fin
            /\ p.phase = "Live" /\ p.hash = base.hash =>
                  after.hash = base.hash
            /\ p.phase = "Live" /\ p.obs = base.obs => after.obs = base.obs
            /\ p.phase = "Live" /\ p.cond = base.cond =>
                  after.cond = base.cond
            /\ p.phase = "Live" /\ p.readyCount = base.readyCount =>
                  after.readyCount = base.readyCount
        BY <1>0, <2>2, PatchFacts DEF Types
      <3> HIDE DEF p
      <3> QED
        BY <2>2, <3>1, <3>2
    <2>5. base.phase = "Live" /\ outcome = "none"
      BY <1>0, <2>1, <2>3 DEF Progress, Types
    <2>6. ~(NilConditions(base.cond) /\ inst.cond["Ready"] = "Unknown")
      <3>1. "Ready" \in DOMAIN base.cond
        BY <1>0 DEF Types, Resources, CRs, Facts
      <3> QED
        BY <2>2, <2>4, <3>1 DEF NilConditions
    <2>7. Truthful(inst)
      BY <2>1, <2>4, <2>5, <2>6 DEF Settled
    <2>8. inst.obs = base.gen
      BY <2>1 DEF Generations
    <2>9. DOMAIN input \ Unwatched = Watched
      BY <1>0 DEF Types, Facts, Unwatched, Watched
    <2>10. UpToDate'
      BY <2>3, <2>4, <2>7, <2>9 DEF UpToDate, Truthful
    <2> QED
      BY <2>2, <2>3, <2>4, <2>7, <2>8, <2>10 DEF Truthful, Available
  <1>5. CASE Crash
    BY <1>1, <1>5 DEF Crash
  <1>6. CASE Outer
    <2>1. /\ UNCHANGED <<pc, cache, sts>> /\ ~queue
          /\ \A i \in Watched : input'[i] = input[i]
          /\ cr' # cr => cr'.gen = cr.gen + 1
      BY <1>1, <1>6, OuterFacts DEF controllerVars
    <2>2. cr' = cr
      <3>1. cr.gen \in Nat /\ cache.gen \in Nat /\ cache.gen <= cr.gen
        BY <1>0 DEF Types, Resources, CRs, Generations
      <3> QED
        BY <1>1, <2>1, <3>1
    <2>3. AtRest
      BY <1>1, <2>1, <2>2 DEF AtRest
    <2>4. DOMAIN input \ Unwatched = Watched
      BY <1>0 DEF Types, Facts, Unwatched, Watched
    <2>5. DOMAIN input' \ Unwatched = Watched
      <3>1. input' \in [DecisionEngineInputs -> InputStates]
        BY NextType DEF TypeOK, TypesOK
      <3> QED
        BY <1>0, <3>1 DEF Facts, Unwatched, Watched
    <2> QED
      BY <2>1, <2>2, <2>3, <2>4, <2>5
         DEF RestIsTruthful, UpToDate, Available
  <1> QED
    BY <1>2, <1>3, <1>4, <1>5, <1>6, StepCases

\* No wake-up is lost.  Whatever the interleaving of reconciles with changes
\* of the spec, the service's secret and the Prometheus secret, with the
\* StatefulSet controller, with failed calls and restarts: when the controller
\* has nothing left to do, it has observed the current generation, the
\* StatefulSet carries the current image, replicas and hash, and Ready is True
\* exactly if its pods are ready.
THEOREM NoWakeUpIsLost == Spec => []RestIsTruthful
  <1> DEFINE Inv == /\ TypeOK /\ Generations /\ Phases /\ Unqueued
                    /\ Progress /\ Settled /\ RestIsTruthful
  <1>1. Init => Inv
    <2> SUFFICES ASSUME Init PROVE Inv
      OBVIOUS
    <2>1. pc = "idle" /\ queue = TRUE /\ outcome = "none"
      BY DEF Init, ServiceInit
    <2>2. Unqueued /\ Progress /\ Settled /\ RestIsTruthful
      BY <2>1 DEF Unqueued, Progress, Middle, Settled, RestIsTruthful, AtRest
    <2> QED
      BY <2>2, InitType, InitStale
  <1>2. Inv /\ [Next]_vars => Inv'
    BY NextType, GenerationsKept, PhasesKept, UnqueuedKept, ProgressKept,
       SettledKept, RestKept
  <1>3. Inv => RestIsTruthful
    OBVIOUS
  <1> QED
    BY <1>1, <1>2, <1>3, PTL DEF Spec

-----------------------------------------------------------------------------
(***************************************************************************)
(* The reconciler implements ServicePromise.                               *)
(***************************************************************************)

\* A generation stands for one spec, whichever copy it is read from.
SameSpec ==
    /\ cache.gen = cr.gen => cache.spec = cr.spec
    /\ pc # "idle" /\ base.gen = cr.gen => base.spec = cr.spec

\* The StatefulSet, if there is one, was told the spec s.
Tells(s) == sts.exists => /\ sts.img = s.img /\ sts.replicas = s.replicas
                          /\ sts.hash.cfg = s.cfg

\* Only the end of a reconcile decides about Ready, and says True about the
\* spec it was started for.
Reported ==
    /\ pc \notin {"idle", "exit"} => inst.cond["Ready"] # "True"
    /\ pc = "exit" /\ inst.cond["Ready"] = "True" => Tells(base.spec)

\* What the refinement rests on.
Honest == TypeOK /\ Generations /\ Phases /\ Progress /\ SameSpec /\ Reported

\* A new spec and a deletion are new generations, which no copy has.
LEMMA SameSpecKept ==
    ASSUME TypeOK, Generations, SameSpec, [Next]_vars
    PROVE  SameSpec'
  <1>1. /\ cr.gen \in Nat /\ cache.gen \in Nat /\ base.gen \in Nat
    BY TypeOKUnfolded DEF Types, Resources, CRs
  <1>2. CASE Start
    BY <1>2, StartFacts DEF SameSpec
  <1>3. CASE Inner
    BY <1>3, InnerFacts DEF SameSpec
  <1>4. CASE Exit
    BY <1>4, ExitFacts DEF SameSpec
  <1>5. CASE Crash
    BY <1>5 DEF SameSpec, Crash, Forget
  <1>6. CASE Outer
    <2>1. UNCHANGED <<pc, base>>
      BY <1>6, OuterFacts DEF controllerVars
    <2>2. CASE cr' = cr
      BY <1>6, <2>1, <2>2, OuterFacts DEF SameSpec
    <2>3. CASE cr' # cr
      BY <1>1, <1>6, <2>1, <2>3, OuterFacts DEF SameSpec, Generations
    <2> QED
      BY <2>2, <2>3
  <1> QED
    BY <1>2, <1>3, <1>4, <1>5, <1>6, StepCases

\* Setting any other condition does not decide Ready.
LEMMA OtherCondition ==
    ASSUME NEW o \in Resources, NEW t \in DecisionEngineConditions \ {"Ready"},
           NEW status \in Statuses
    PROVE  Marked(o, t, status).cond["Ready"] = o.cond["Ready"]
  <1>1. t \in DecisionEngineConditions /\ "Ready" \in DecisionEngineConditions
    BY DEF DecisionEngineConditions
  <1>2. Marked(o, t, status).cond =
            [u \in DecisionEngineConditions |->
                IF u = t THEN status ELSE o.cond[u]]
    BY <1>1, MarkedFacts
  <1> QED
    BY <1>1, <1>2

\* Who else takes a step gives the StatefulSet no other spec.
LEMMA TellsKept ==
    ASSUME TypeOK, Outer, NEW s \in Specs, Tells(s)
    PROVE  Tells(s)'
  <1>0. sts \in StatefulSets
    BY TypeOKUnfolded DEF Types
  <1> SUFFICES sts'.exists => /\ sts.exists /\ sts'.img = sts.img
                              /\ sts'.replicas = sts.replicas
                              /\ sts'.hash = sts.hash
    BY DEF Tells
  <1>1. CASE ObserveSts
    BY <1>0, <1>1 DEF ObserveSts, StatefulSets
  <1>2. CASE RollSts
    BY <1>0, <1>2 DEF RollSts, StatefulSets
  <1>3. CASE ScaleSts
    <2>1. PICK n : sts' = [sts EXCEPT !.ready = n]
      BY <1>3 DEF ScaleSts
    <2> QED
      BY <1>0, <2>1 DEF StatefulSets
  <1>4. CASE DisturbSts
    <2>1. CASE sts' = NoSts
      BY <2>1 DEF NoSts
    <2>2. CASE \E n : sts' = [sts EXCEPT !.ready = n]
      BY <1>0, <2>2 DEF StatefulSets
    <2> QED
      BY <1>4, <2>1, <2>2 DEF DisturbSts
  <1>5. CASE sts' = sts
    BY <1>5
  <1> QED
    BY <1>1, <1>2, <1>3, <1>4, <1>5
       DEF Outer, StsController, SyncCache, UpdateSpec, DeleteCR, ChangeInput,
           vars

\* Every step keeps what a reconcile says about Ready true.
LEMMA ReportedKept ==
    ASSUME TypeOK, Progress, Reported, [Next]_vars
    PROVE  Reported'
  <1>0. Types /\ Facts
    BY TypeOKUnfolded, FactsHold
  <1>M. \A t \in DecisionEngineConditions \ {"Ready"}, v \in Statuses :
            /\ Marked(inst, t, v).cond["Ready"] = inst.cond["Ready"]
    BY <1>0, OtherCondition DEF Types
  <1>1. CASE Start
    <2>1. pc' # "idle" => inst'.cond["Ready"] = "Unknown"
      BY <1>0, <1>1, StartFacts DEF Passed, Facts
    <2> QED
      BY <2>1 DEF Reported
  <1>2. CASE Secret
    <2>1. inst'.cond["Ready"] = inst.cond["Ready"] /\ pc = "secret"
      BY <1>0, <1>2, <1>M DEF Secret, EnsureSecret, Return, GoTo, Facts
    <2> QED
      BY <2>1 DEF Reported
  <1>16. CASE PrometheusSecret
    <2>1. inst'.cond["Ready"] = inst.cond["Ready"] /\ pc = "prometheus"
      BY <1>0, <1>16, <1>M
         DEF PrometheusSecret, RequireSecret, Return, GoTo, Facts
    <2> QED
      BY <2>1 DEF Reported
  <1>3. CASE Memcached
    <2>1. inst'.cond["Ready"] = inst.cond["Ready"] /\ pc = "memcached"
      BY <1>0, <1>3, <1>M DEF Memcached, EnsureMemcached, Return, GoTo, Facts
    <2> QED
      BY <2>1 DEF Reported
  <1>4. CASE ServiceConfigs
    <2>1. \A h : [inst EXCEPT !.hash = h].cond = inst.cond
      BY <1>0 DEF Types, Resources, CRs
    <2>2. inst'.cond["Ready"] = inst.cond["Ready"]
      <3>1. CASE KeystoneMissing
        BY <1>0, <1>M, <3>1 DEF KeystoneMissing, Return, Facts
      <3>2. CASE ConfigsFail
        BY <3>2 DEF ConfigsFail, Return
      <3>3. CASE ConfigsWritten /\ CheckHash(Rendered, "deploy")
        <4>1. \/ inst' = [inst EXCEPT !.hash = Rendered]
              \/ inst' = Marked(inst, "ServiceConfigReady", "True")
          BY <3>3, Zenon DEF CheckHash, Return, GoTo
        <4>2. Marked(inst, "ServiceConfigReady", "True").cond["Ready"]
                 = inst.cond["Ready"]
          BY <1>0, <1>M DEF Facts
        <4> QED
          BY <2>1, <4>1, <4>2
      <3> QED
        BY <1>4, <3>1, <3>2, <3>3 DEF ServiceConfigs
    <2>3. pc = "config"
      BY <1>4 DEF ServiceConfigs
    <2> QED
      BY <2>2, <2>3 DEF Reported
  <1>5. CASE EnsureDeployment
    <2>1. /\ pc = "deploy" /\ pc' = "exit" /\ base' = base
          /\ base.spec \in Specs /\ inst.hash \in DecisionEngineHashes
          /\ inst.hash.cfg = base.spec.cfg
      BY <1>0, <1>5
         DEF EnsureDeployment, DeployAndFinish, Return, Progress, Types,
             Resources, CRs, DecisionEngineHashes
    <2>2. CASE sts' = AppliedSts(base.spec, inst.hash)
      BY <1>0, <2>1, <2>2, AppliedStsFacts DEF Reported, Tells, Types
    <2>3. CASE ~sts.exists /\ UNCHANGED sts
      BY <2>1, <2>3 DEF Reported, Tells
    <2>4. CASE inst' = Marked(inst, "DeploymentReady", "Warning")
      <3>1. inst'.cond["Ready"] = inst.cond["Ready"]
        BY <1>0, <1>M, <2>4 DEF Facts
      <3> QED
        BY <2>1, <3>1 DEF Reported
    <2> QED
      BY <1>5, <2>2, <2>3, <2>4 DEF EnsureDeployment, DeployAndFinish, Return
  <1>6. CASE ReconcileDelete
    <2>1. DropsFinalizer(inst).cond = inst.cond
      BY <1>0 DEF DropsFinalizer, Types, Resources, CRs
    <2>2. inst'.cond = inst.cond /\ pc = "delete"
      BY <1>6, <2>1 DEF ReconcileDelete, ReleaseMemcached, Return
    <2> QED
      BY <2>2 DEF Reported
  <1>7. CASE Exit
    BY <1>7, ExitFacts DEF Reported
  <1>8. CASE Crash
    BY <1>8 DEF Reported, Crash, Forget
  <1>9. CASE Outer
    <2>1. UNCHANGED <<pc, base, inst>> /\ base.spec \in Specs
      BY <1>0, <1>9, OuterFacts DEF controllerVars, Types, Resources, CRs
    <2>2. Tells(base.spec) => Tells(base.spec)'
      BY <1>9, <2>1, TellsKept DEF Tells
    <2> QED
      BY <2>1, <2>2 DEF Reported, Tells
  <1> QED
    BY <1>1, <1>2, <1>16, <1>3, <1>4, <1>5, <1>6, <1>7, <1>8, <1>9, StepCases
       DEF Inner

\* The patch makes Ready True only if the reconcile did, and removes nothing but
\* a resource under deletion.
LEMMA ExitReports ==
    ASSUME TypeOK, Exit
    PROVE  /\ \/ cr'.phase = cr.phase
              \/ cr.phase = "Deleting" /\ cr'.phase = "Gone"
           /\ cr'.cond["Ready"] = "True" /\ cr.cond["Ready"] # "True" =>
                 inst.cond["Ready"] = "True"
  <1>0. Types
    BY TypeOKUnfolded
  <1> DEFINE after == [inst EXCEPT !.cond = MirrorUndecided(inst.cond)]
             p == PatchInstance(cr, base, after)
  <1>1. /\ after \in Resources
        /\ (after.cond["Ready"] = "True") <=> (inst.cond["Ready"] = "True")
    BY <1>0, MirrorFacts DEF Types
  <1>2. cr' = p \/ cr' = cr
    BY DEF Exit
  <1> HIDE DEF after
  <1>3. /\ p.cond \in {cr.cond, after.cond}
        /\ p.phase = cr.phase \/ (cr.phase = "Deleting" /\ p.phase = "Gone")
    BY <1>0, <1>1 DEF PatchInstance, Types, Resources, CRs
  <1> QED
    BY <1>1, <1>2, <1>3

-----------------------------------------------------------------------------
(***************************************************************************)
(* Each step maps to a step of ServicePromise or to none.                  *)
(***************************************************************************)

\* A new resource has promised nothing yet.
LEMMA InitRefines == Init => Promise!Init
  <1> SUFFICES ASSUME Init PROVE Promise!Init
    OBVIOUS
  <1>1. PICK s \in Specs : cr = NewCR(s, DecisionEngineConditions)
    BY DEF Init, ServiceInit
  <1>2. /\ cr.phase = "Live" /\ cr.gen = 1 /\ cr.obs = 0
        /\ cr.cond["Ready"] = "NotSet"
    BY <1>1 DEF NewCR, DecisionEngineConditions
  <1>3. Told = NoHash
    BY DEF Init, ServiceInit, NoSts, Told
  <1> QED
    BY <1>2, <1>3 DEF Promise!Init

\* ensureDeployment tells the StatefulSet the current spec, or, as long as the
\* generation of the spec counts as observed by nobody, an earlier one.
LEMMA DeploymentRefines ==
    ASSUME Honest, EnsureDeployment
    PROVE  Promise!Tell \/ UNCHANGED Promise!vars
  <1>0. Types
    BY TypeOKUnfolded DEF Honest
  <1>1. /\ pc = "deploy" /\ cr' = cr
        /\ sts' = AppliedSts(base.spec, inst.hash) \/ sts' = sts
    BY DEF EnsureDeployment, DeployAndFinish
  <1>2. /\ base.spec \in Specs /\ inst.hash \in DecisionEngineHashes
        /\ inst.hash.cfg = base.spec.cfg
    BY <1>0, <1>1
       DEF Honest, Progress, Types, Resources, CRs, DecisionEngineHashes
  <1>3. Wanted' = Wanted
    BY <1>1 DEF Wanted
  <1>4. CASE sts' = sts
    BY <1>1, <1>3, <1>4 DEF Promise!vars, Told
  <1>5. CASE sts' = AppliedSts(base.spec, inst.hash)
    <2>1. Told' = [img |-> base.spec.img, replicas |-> base.spec.replicas,
                   cfg |-> base.spec.cfg]
      BY <1>0, <1>2, <1>5, AppliedStsFacts DEF Told, Types
    <2>2. cr.obs = cr.gen => base.spec = cr.spec
      <3>1. /\ cr.obs \in Nat /\ cr.gen \in Nat /\ base.gen \in Nat
            /\ cache.gen \in Nat
        BY <1>0 DEF Types, Resources, CRs
      <3> QED
        BY <1>1, <3>1 DEF Honest, Generations, SameSpec
    <2>3. cr.obs = cr.gen => Told' = Wanted'
      BY <1>3, <2>1, <2>2 DEF Wanted
    <2> QED
      BY <1>1, <1>3, <2>3 DEF Promise!Tell
  <1> QED
    BY <1>1, <1>4, <1>5

\* The patch of a stale copy does not take observing back, and a Ready that it
\* brings is about the spec whose generation it reports.
LEMMA ExitRefines ==
    ASSUME Honest, Exit
    PROVE  Promise!Report \/ Promise!Leave
  <1>0. Types
    BY TypeOKUnfolded DEF Honest
  <1>1. /\ cr.obs \in Nat /\ cr.gen \in Nat /\ base.gen \in Nat
        /\ cache.gen \in Nat
    BY <1>0 DEF Types, Resources, CRs
  <1>2. /\ cr'.spec = cr.spec /\ cr'.gen = cr.gen /\ sts' = sts
        /\ cr'.obs \in {cr.obs, inst.obs} /\ pc = "exit"
    BY ExitFacts DEF Honest, Exit
  <1>3. /\ cr.obs <= base.gen /\ base.gen <= cr.gen /\ inst.obs = base.gen
    BY <1>1, <1>2 DEF Honest, Generations
  <1>4. Wanted' = Wanted /\ Told' = Told
    BY <1>2 DEF Wanted, Told
  <1>5. cr.obs = cr.gen => cr'.obs = cr'.gen
    BY <1>1, <1>2, <1>3
  <1>6. ASSUME cr.cond["Ready"] # "True", cr'.cond["Ready"] = "True",
               cr'.obs = cr'.gen
        PROVE  Told \in {Wanted, NoHash}
    <2>1. base.spec = cr.spec
      BY <1>1, <1>2, <1>3, <1>6 DEF Honest, SameSpec
    <2>2. Tells(base.spec)
      BY <1>2, <1>6, ExitReports DEF Honest, Reported
    <2> QED
      BY <2>1, <2>2 DEF Tells, Told, Wanted
  <1>7. CASE cr'.phase = cr.phase
    BY <1>4, <1>5, <1>6, <1>7 DEF Promise!Report
  <1>8. CASE cr.phase = "Deleting" /\ cr'.phase = "Gone"
    BY <1>4, <1>5, <1>8 DEF Promise!Leave
  <1> QED
    BY <1>7, <1>8, ExitReports DEF Honest

\* Users and the cluster order, withdraw and lose, and nothing else.
LEMMA OuterRefines ==
    ASSUME Honest, Outer
    PROVE  Promise!Next \/ UNCHANGED Promise!vars
  <1>0. Types
    BY TypeOKUnfolded DEF Honest
  <1>1. /\ cr.obs \in Nat /\ cr.gen \in Nat /\ cache.gen \in Nat
        /\ cr.obs <= cr.gen
    BY <1>0 DEF Types, Resources, CRs, Honest, Generations
  <1>2. CASE UpdateSpec
    <2>1. PICK s \in Specs : cr' = [cr EXCEPT !.spec = s, !.gen = @ + 1]
      BY <1>2 DEF UpdateSpec
    <2>2. /\ cr'.gen = cr.gen + 1 /\ cr'.obs = cr.obs
          /\ cr'.phase = cr.phase /\ cr'.cond = cr.cond
      <3>1. cr'.cond = cr.cond
        BY <1>0, <2>1 DEF Types, Resources, CRs
      <3> QED
        BY <1>0, <2>1, <3>1, SpecWritten DEF Types
    <2>3. cr'.obs # cr'.gen
      BY <1>1, <2>2
    <2>4. Told' = Told /\ cr.phase = "Live"
      BY <1>2 DEF UpdateSpec, Told
    <2> QED
      BY <2>2, <2>3, <2>4 DEF Promise!Next, Promise!Order
  <1>3. CASE DeleteCR
    <2>1. PICK p \in {"Deleting", "Gone"} :
              cr' = [cr EXCEPT !.phase = p, !.gen = @ + 1]
      BY <1>3 DEF DeleteCR
    <2>2. /\ cr'.gen = cr.gen + 1 /\ cr'.obs = cr.obs /\ cr'.phase = p
          /\ cr'.cond = cr.cond /\ cr'.spec = cr.spec
      <3>1. cr'.cond = cr.cond /\ cr'.spec = cr.spec
        BY <1>0, <2>1 DEF Types, Resources, CRs
      <3>2. p \in {"Live", "Deleting", "Gone"}
        BY <2>1
      <3> DEFINE o == [cr EXCEPT !.phase = p, !.gen = @ + 1]
      <3>3. o.gen = cr.gen + 1 /\ o.phase = p /\ o.obs = cr.obs
        <4>1. cr \in Resources
          BY <1>0 DEF Types
        <4> QED
          BY <3>2, <4>1, PhaseWritten, Zenon
      <3> HIDE DEF o
      <3>4. cr' = o
        BY <2>1 DEF o
      <3> QED
        BY <3>1, <3>3, <3>4
    <2>3. cr'.obs # cr'.gen
      BY <1>1, <2>2
    <2>4. Told' = Told /\ Wanted' = Wanted /\ cr.phase = "Live"
      BY <1>3, <2>2 DEF DeleteCR, Told, Wanted
    <2> QED
      BY <2>2, <2>3, <2>4 DEF Promise!Next, Promise!Withdraw
  <1>4. CASE cr' = cr /\ (sts' = sts \/ ~sts'.exists)
    <2>1. Wanted' = Wanted
      BY <1>4 DEF Wanted
    <2>2. Told' = Told \/ Told' = NoHash
      BY <1>4 DEF Told
    <2> QED
      BY <1>4, <2>1, <2>2 DEF Promise!Next, Promise!Lose, Promise!vars
  <1>5. CASE /\ cr' = cr /\ sts'.exists /\ sts.exists /\ sts'.img = sts.img
             /\ sts'.replicas = sts.replicas /\ sts'.hash = sts.hash
    BY <1>5 DEF Promise!vars, Told, Wanted
  <1>6. CASE ObserveSts
    BY <1>0, <1>5, <1>6 DEF ObserveSts, StsEvent, Types, StatefulSets
  <1>7. CASE RollSts
    BY <1>0, <1>5, <1>7 DEF RollSts, StsEvent, Types, StatefulSets
  <1>8. CASE ScaleSts
    <2>1. PICK n : sts' = [sts EXCEPT !.ready = n]
      BY <1>8 DEF ScaleSts
    <2>2. sts.exists /\ cr' = cr
      BY <1>8 DEF ScaleSts, StsEvent
    <2> QED
      BY <1>0, <1>5, <2>1, <2>2 DEF Types, StatefulSets
  <1>9. CASE DisturbSts
    <2>1. sts.exists /\ cr' = cr
      BY <1>9 DEF DisturbSts, StsEvent
    <2>2. CASE sts' = NoSts
      BY <1>4, <2>1, <2>2 DEF NoSts
    <2>3. CASE \E n : sts' = [sts EXCEPT !.ready = n]
      BY <1>0, <1>5, <2>1, <2>3 DEF Types, StatefulSets
    <2> QED
      BY <1>9, <2>2, <2>3 DEF DisturbSts
  <1>10. CASE SyncCache \/ ChangeInput \/ UNCHANGED vars
    BY <1>4, <1>10 DEF SyncCache, ChangeInput, vars
  <1> QED
    BY <1>2, <1>3, <1>6, <1>7, <1>8, <1>9, <1>10 DEF Outer, StsController

\* Every step of the reconciler and of the cluster is one that a service may
\* take, or one that its owner cannot see.
LEMMA StepRefines ==
    ASSUME Honest, [Next]_vars
    PROVE  [Promise!Next]_(Promise!vars)
  <1>1. CASE Start
    BY <1>1, StartFacts DEF Honest, Promise!vars, Told, Wanted
  <1>2. CASE \/ Secret \/ PrometheusSecret \/ Memcached \/ ServiceConfigs
             \/ ReconcileDelete
    <2>1. UNCHANGED <<cr, sts>>
      BY <1>2 DEF Secret, EnsureSecret, PrometheusSecret, RequireSecret,
                  Memcached, EnsureMemcached, ServiceConfigs, ReconcileDelete
    <2> QED
      BY <2>1 DEF Promise!vars, Told, Wanted
  <1>3. CASE EnsureDeployment
    BY <1>3, DeploymentRefines DEF Promise!Next
  <1>4. CASE Exit
    BY <1>4, ExitRefines DEF Promise!Next
  <1>5. CASE Crash
    BY <1>5 DEF Crash, Promise!vars, Told, Wanted
  <1>6. CASE Outer
    BY <1>6, OuterRefines
  <1> QED
    BY <1>1, <1>2, <1>3, <1>4, <1>5, <1>6, StepCases DEF Inner

\* The reconciler of WatcherDecisionEngine keeps the promise that the Watcher
\* builds on, for every set of specs and inputs and any number of changes, failed
\* calls and restarts: a Ready it brings along with the generation of the spec
\* is about this spec, and the StatefulSet never goes back to an earlier one.
THEOREM KeepsThePromise == Spec => KeepsPromise
  <1>1. Init => Honest
    <2>1. Init => SameSpec /\ Reported
      BY DEF Init, ServiceInit, SameSpec, Reported
    <2>2. Init => Progress
      BY DEF Init, ServiceInit, Progress, Middle
    <2> QED
      BY <2>1, <2>2, InitType, InitStale DEF Honest
  <1>2. Honest /\ [Next]_vars => Honest'
    BY NextType, GenerationsKept, PhasesKept, ProgressKept, SameSpecKept,
       ReportedKept DEF Honest
  <1>3. Honest /\ [Next]_vars => [Promise!Next]_(Promise!vars)
    BY StepRefines
  <1> QED
    BY <1>1, <1>2, <1>3, InitRefines, PTL DEF Spec, KeepsPromise, Promise!Spec

-----------------------------------------------------------------------------
(***************************************************************************)
(* Finalizers: what is held is held by a resource that has to let go.      *)
(***************************************************************************)

\* A copy that is under deletion has the spec there is: no other is written.
Final == /\ cache.phase # "Live" => cache.spec = cr.spec
         /\ pc # "idle" /\ base.phase # "Live" => base.spec = cr.spec

\* Memcached carries no finalizer for a live resource that has none itself,
\* nor for one that is gone, and no copy is read as if it had one that it lost.
Holding ==
    /\ cr.phase = "Gone" => ~cr.fin /\ cr.spec.memcached \notin memFin
    /\ cr.phase = "Deleting" => cr.fin
    /\ cr.phase = "Live" /\ ~cr.fin => memFin = {}
    /\ cache.phase = "Live" /\ cache.fin => cr.fin
    /\ cache.phase = "Deleting" => cache.fin
    /\ pc # "idle" =>
          /\ base.phase = "Live" /\ base.fin => cr.fin
          /\ base.phase # "Live" => cache.phase # "Live"
          /\ base.phase = "Deleting" => base.fin
          /\ base.phase # "Gone"
    /\ pc \in Middle \cup {"delete"} => base.fin /\ inst.fin
    /\ pc = "exit" /\ ~inst.fin =>
          base.phase = "Deleting" /\ base.spec.memcached \notin memFin

\* A reconcile that starts works on a resource with its finalizer, or sets it
\* and ends.
LEMMA StartFinalizer ==
    ASSUME TypeOK, Start, pc' # "idle"
    PROVE  /\ pc = "idle" /\ cache.phase # "Gone"
           /\ base' = cache /\ pc' \in {"exit", "delete", "secret"}
           /\ inst'.fin = (cache.fin \/ cache.phase = "Live")
           /\ pc' = "secret" => cache.phase = "Live" /\ cache.fin
           /\ pc' = "delete" => cache.phase = "Deleting"
           /\ UNCHANGED <<cr, cache, memFin>>
  <1>0. cache \in Resources
    BY TypeOKUnfolded DEF Types
  <1> DEFINE o == InitStatus(cache)
             f == [o EXCEPT !.fin = TRUE]
             adds == cache.phase = "Live" /\ ~cache.fin
  <1>1. o.fin = cache.fin /\ f.fin = TRUE
    BY <1>0, InitStatusFacts
  <1>2. /\ pc = "idle" /\ cache.phase # "Gone" /\ base' = cache
        /\ inst' = IF adds THEN f ELSE o
        /\ pc' = IF adds \/ NilConditions(cache.cond) THEN "exit"
                 ELSE IF cache.phase = "Deleting" THEN "delete"
                 ELSE "secret"
        /\ UNCHANGED <<cr, cache, memFin>>
    BY DEF Start, Fetch, controllerVars
  <1>3. /\ cache.phase \in {"Live", "Deleting"}
        /\ cache.fin \in BOOLEAN
    BY <1>0, <1>2 DEF Resources, CRs
  <1> HIDE DEF o, f
  <1> QED
    BY <1>1, <1>2, <1>3

\* The patch writes the finalizer only if it differs, and the API server drops
\* a resource under deletion with it.
LEMMA PatchFinalizer ==
    ASSUME NEW server \in Resources, NEW before \in Resources,
           NEW after \in Resources, server.phase # "Gone"
    PROVE  LET p == PatchInstance(server, before, after)
               fin == IF after.fin # before.fin THEN after.fin ELSE server.fin
           IN  /\ p.fin = fin
               /\ p.phase = (IF server.phase = "Deleting" /\ ~fin THEN "Gone"
                             ELSE server.phase)
  <1> DEFINE w == [server EXCEPT
                     !.fin  = IF after.fin # before.fin THEN after.fin ELSE @,
                     !.obs  = IF after.obs # before.obs THEN after.obs ELSE @,
                     !.cond = IF after.cond # before.cond THEN after.cond ELSE @,
                     !.hash = IF after.hash # before.hash THEN after.hash ELSE @,
                     !.readyCount =
                        IF after.readyCount # before.readyCount
                        THEN after.readyCount ELSE @]
             fin == IF after.fin # before.fin THEN after.fin ELSE server.fin
  <1>1. /\ w.fin = fin /\ w.phase = server.phase
        /\ [w EXCEPT !.phase = "Gone"].fin = fin
        /\ [w EXCEPT !.phase = "Gone"].phase = "Gone"
    BY DEF Resources, CRs
  <1>2. PatchInstance(server, before, after) =
            IF w.phase = "Deleting" /\ ~w.fin
            THEN [w EXCEPT !.phase = "Gone"] ELSE w
    BY DEF PatchInstance
  <1> HIDE DEF w
  <1> QED
    BY <1>1, <1>2

\* At the end of a reconcile the finalizer is what the reconcile made of it.
LEMMA ExitFinalizer ==
    ASSUME TypeOK, Exit
    PROVE  \/ cr' = cr
           \/ /\ cr.phase # "Gone"
              /\ cr'.fin = (IF inst.fin # base.fin THEN inst.fin ELSE cr.fin)
              /\ cr'.phase = (IF cr.phase = "Deleting" /\ ~cr'.fin THEN "Gone"
                              ELSE cr.phase)
  <1>0. Types
    BY TypeOKUnfolded
  <1> DEFINE after == [inst EXCEPT !.cond = MirrorUndecided(inst.cond)]
  <1>1. after \in Resources /\ after.fin = inst.fin
    BY <1>0, MirrorFacts DEF Types
  <1>2. cr' = PatchInstance(cr, base, after) \/ cr' = cr
    BY DEF Exit
  <1> HIDE DEF after
  <1>3. cr.phase = "Gone" => PatchInstance(cr, base, after) = cr
    BY DEF PatchInstance
  <1> QED
    BY <1>0, <1>1, <1>2, <1>3, PatchFinalizer DEF Types

\* A step within a reconcile sets a finalizer in ensureMemcached and removes
\* one, of Memcached and of the resource, in reconcileDelete.
LEMMA InnerFinalizers ==
    ASSUME Inner
    PROVE  /\ pc \in Middle => pc' \in Middle \cup {"exit"}
           /\ pc \in Middle \ {"memcached"} => memFin' = memFin
           /\ pc = "memcached" =>
                 \/ /\ memFin' # {} /\ pc' = "config"
                    /\ input["memcached"] \in Versions
                 \/ memFin' = memFin /\ pc' = "exit"
           /\ pc' \in {"config", "deploy"} => pc \in {"memcached", "config"}
           /\ sts' # sts => pc = "deploy"
           /\ pc \notin Middle =>
                 /\ pc = "delete" /\ pc' = "exit"
                 /\ \/ memFin' = memFin /\ inst' = inst
                    \/ memFin' = memFin \ {base.spec.memcached}
  <1>1. CASE Secret \/ PrometheusSecret \/ ServiceConfigs \/ EnsureDeployment
    BY <1>1 DEF Secret, EnsureSecret, PrometheusSecret, RequireSecret,
                ServiceConfigs, KeystoneMissing, ConfigsFail,
                EnsureDeployment, DeployAndFinish, CheckHash,
                Return, GoTo, Middle
  <1>2. CASE Memcached
    BY <1>2 DEF Memcached, EnsureMemcached, AddFinalizer, Return, GoTo, Middle
  <1>3. CASE ReconcileDelete
    BY <1>3 DEF ReconcileDelete, ReleaseMemcached, RemoveFinalizer, Return,
                Middle
  <1> QED
    BY <1>1, <1>2, <1>3 DEF Inner

\* Who else takes a step changes no finalizer, and removes nothing that has
\* one.
LEMMA OuterFinalizers ==
    ASSUME TypeOK, Outer
    PROVE  /\ UNCHANGED <<pc, base, inst, memFin>>
           /\ cr'.fin = cr.fin
           /\ \/ cr'.phase = cr.phase
              \/ /\ cr.phase = "Live" /\ cr'.spec = cr.spec
                 /\ cr'.phase = IF cr.fin THEN "Deleting" ELSE "Gone"
           /\ cr'.spec # cr.spec => cr.phase = "Live" /\ cr'.phase = "Live"
           /\ cache' = cache \/ (cache' = cr /\ cr' = cr)
           /\ memFin # {} /\ input["memcached"] # Absent =>
                 input'["memcached"] # Absent
  <1>0. Types /\ Facts
    BY TypeOKUnfolded, FactsHold
  <1>1. /\ UNCHANGED <<pc, base, inst, memFin>>
        /\ cache' = cache \/ (cache' = cr /\ cr' = cr)
    BY OuterFacts DEF controllerVars
  <1>2. CASE UpdateSpec
    <2>1. PICK s \in Specs : cr' = [cr EXCEPT !.spec = s, !.gen = @ + 1]
      BY <1>2 DEF UpdateSpec
    <2>2. cr.phase = "Live" /\ input' = input
      BY <1>2 DEF UpdateSpec
    <2>3. cr'.fin = cr.fin /\ cr'.phase = cr.phase
      BY <1>0, <2>1 DEF Types, Resources, CRs
    <2> QED
      BY <1>1, <2>2, <2>3
  <1>3. CASE DeleteCR
    <2> DEFINE p == IF cr.fin THEN "Deleting" ELSE "Gone"
    <2>1. cr' = [cr EXCEPT !.phase = p, !.gen = @ + 1]
      BY <1>3 DEF DeleteCR
    <2>2. cr.phase = "Live" /\ input' = input
      BY <1>3 DEF DeleteCR
    <2> HIDE DEF p
    <2>3. cr'.fin = cr.fin /\ cr'.phase = p /\ cr'.spec = cr.spec
      BY <1>0, <2>1 DEF Types, Resources, CRs
    <2> QED
      BY <1>1, <2>2, <2>3 DEF p
  <1>4. CASE ChangeInput
    <2>1. PICK i \in DecisionEngineInputs, v \in InputStates :
              /\ i = "memcached" /\ v = Absent => memFin = {}
              /\ input' = [input EXCEPT ![i] = v]
      BY <1>0, <1>4 DEF ChangeInput, Types
    <2>2. memFin # {} /\ input["memcached"] # Absent =>
              input'["memcached"] # Absent
      BY <1>0, <2>1 DEF Types, Facts
    <2>3. cr' = cr
      BY <1>4 DEF ChangeInput
    <2> QED
      BY <1>1, <2>2, <2>3
  <1>5. CASE cr' = cr /\ input' = input
    BY <1>1, <1>5
  <1> QED
    BY <1>2, <1>3, <1>4, <1>5
       DEF Outer, StsController, ObserveSts, RollSts, ScaleSts, StsEvent,
           SyncCache, DisturbSts, vars

\* Every step keeps the copies under deletion right about the spec.
LEMMA FinalKept ==
    ASSUME TypeOK, Phases, Final, [Next]_vars
    PROVE  Final'
  <1>1. CASE Start
    BY <1>1, StartFacts DEF Final
  <1>2. CASE Inner
    BY <1>2, InnerFacts DEF Final
  <1>3. CASE Exit
    BY <1>3, ExitFacts DEF Final
  <1>4. CASE Crash
    BY <1>4 DEF Final, Crash, Forget
  <1>5. CASE Outer
    BY <1>5, OuterFinalizers DEF Final, Phases
  <1> QED
    BY <1>1, <1>2, <1>3, <1>4, <1>5, StepCases

\* Every step keeps the finalizer on Memcached behind the resource's own.
LEMMA HoldingKept ==
    ASSUME TypeOK, Phases, Progress, Final, Holding, [Next]_vars
    PROVE  Holding'
  <1>0. Types
    BY TypeOKUnfolded
  <1>T. /\ {cr.phase, cache.phase, base.phase}
              \subseteq {"Live", "Deleting", "Gone"}
        /\ {cr.fin, cache.fin, base.fin, inst.fin} \subseteq BOOLEAN
    BY <1>0 DEF Types, Resources, CRs
  <1>1. CASE Start
    <2>1. CASE pc' = "idle"
      <3>1. UNCHANGED <<cr, cache, memFin>>
        BY <1>1, StartFacts
      <3> QED
        BY <2>1, <3>1 DEF Holding, Middle
    <2>2. CASE pc' # "idle"
      <3>1. UNCHANGED <<cr, cache, memFin>> /\ base' = cache
        BY <1>1, <2>2, StartFinalizer
      <3>2. /\ base'.fin \/ pc' = "exit"
            /\ inst'.fin /\ cache.phase # "Gone"
        BY <1>1, <1>T, <2>2, StartFinalizer DEF Holding
      <3>3. pc' \in {"exit", "delete", "secret"}
        BY <1>1, <2>2, StartFinalizer
      <3> QED
        BY <2>2, <3>1, <3>2, <3>3 DEF Holding, Middle
    <2> QED
      BY <2>1, <2>2
  <1>2. CASE Inner
    <2>1. UNCHANGED <<cr, cache, base>> /\ pc \notin {"idle", "exit"}
      BY <1>2, InnerFacts
    <2>2. CASE pc \in Middle
      <3>1. base.phase = "Live" /\ base.fin /\ inst.fin /\ cr.fin
        BY <2>1, <2>2 DEF Holding, Progress
      <3>2. inst'.fin /\ pc' \in Middle \cup {"exit"}
        BY <1>2, <2>2, <3>1, InnerFacts, InnerFinalizers DEF Middle
      <3> QED
        BY <2>1, <2>2, <3>1, <3>2 DEF Holding, Middle
    <2>3. CASE pc \notin Middle
      <3>1. /\ pc = "delete" /\ pc' = "exit" /\ inst.fin
            /\ base.phase = "Deleting"
            /\ \/ memFin' = memFin /\ inst' = inst
               \/ memFin' = memFin \ {base.spec.memcached}
        BY <1>2, <2>3, InnerFinalizers DEF Holding, Phases
      <3> QED
        BY <2>1, <2>3, <3>1 DEF Holding, Middle
    <2> QED
      BY <2>2, <2>3
  <1>3. CASE Exit
    <2>1. /\ pc = "exit" /\ pc' = "idle" /\ cr'.spec = cr.spec
          /\ UNCHANGED <<cache, memFin>>
      BY <1>3, ExitFacts DEF Exit
    <2>2. CASE cr' = cr
      BY <2>1, <2>2 DEF Holding, Middle
    <2>3. CASE /\ cr.phase # "Gone"
               /\ cr'.fin = (IF inst.fin # base.fin THEN inst.fin ELSE cr.fin)
               /\ cr'.phase = (IF cr.phase = "Deleting" /\ ~cr'.fin THEN "Gone"
                               ELSE cr.phase)
      <3>1. CASE cr'.fin = cr.fin
        BY <1>T, <2>1, <2>3, <3>1 DEF Holding, Middle
      <3>2. CASE cr'.fin = TRUE /\ ~cr.fin
        BY <1>T, <2>1, <2>3, <3>2 DEF Holding, Middle
      <3>3. CASE ~inst.fin /\ cr'.fin = inst.fin
        <4>1. /\ base.phase = "Deleting" /\ cr.phase = "Deleting"
              /\ cache.phase # "Live" /\ cr.spec.memcached \notin memFin
          BY <1>T, <2>1, <2>3, <3>3 DEF Holding, Phases, Final
        <4> QED
          BY <1>T, <2>1, <2>3, <3>3, <4>1 DEF Holding, Middle
      <3> QED
        BY <1>T, <2>3, <3>1, <3>2, <3>3
    <2> QED
      BY <1>3, <2>2, <2>3, ExitFinalizer
  <1>4. CASE Crash
    BY <1>T, <1>4 DEF Holding, Crash, Forget, Middle
  <1>5. CASE Outer
    <2>1. UNCHANGED <<pc, base, inst, memFin>> /\ cr'.fin = cr.fin
      BY <1>5, OuterFinalizers
    <2>2. /\ cr'.phase = "Gone" =>
               ~cr'.fin /\ cr'.spec.memcached \notin memFin'
          /\ cr'.phase = "Deleting" => cr'.fin
          /\ cr'.phase = "Live" /\ ~cr'.fin => memFin' = {}
      BY <1>5, <2>1, OuterFinalizers DEF Holding
    <2>3. CASE cache' = cache
      BY <2>1, <2>2, <2>3 DEF Holding
    <2>4. CASE cache' = cr /\ cr' = cr
      <3>1. pc # "idle" /\ base.phase # "Live" => cr.phase # "Live"
        BY DEF Phases
      <3> QED
        BY <2>1, <2>2, <2>4, <3>1 DEF Holding
    <2> QED
      BY <1>5, <2>3, <2>4, OuterFinalizers
  <1> QED
    BY <1>1, <1>2, <1>3, <1>4, <1>5, StepCases

\* The Memcached instance of the service is not held back: when the resource
\* is gone, the instance that its spec named last carries no finalizer of it,
\* although the deletion starts from a copy, may fail at any call and be
\* interrupted by a restart.  An instance that an earlier spec named is not
\* released.
THEOREM NothingIsHeldBack == Spec => []MemcachedReleased
  <1> DEFINE Inv == /\ TypeOK /\ Generations /\ Phases /\ Progress
                    /\ Final /\ Holding
  <1>1. Init => Inv
    <2> SUFFICES ASSUME Init PROVE Inv
      OBVIOUS
    <2>1. PICK s \in Specs : cr = NewCR(s, DecisionEngineConditions)
      BY DEF Init, ServiceInit
    <2>2. cr.phase = "Live" /\ ~cr.fin
      BY <2>1 DEF NewCR
    <2>3. pc = "idle" /\ cache = cr /\ memFin = {} /\ outcome = "none"
      BY DEF Init, ServiceInit
    <2>4. Progress /\ Final /\ Holding
      BY <2>2, <2>3 DEF Progress, Final, Holding, Middle
    <2> QED
      BY <2>4, InitType, InitStale
  <1>2. Inv /\ [Next]_vars => Inv'
    BY NextType, GenerationsKept, PhasesKept, ProgressKept, FinalKept,
       HoldingKept
  <1>3. Inv => MemcachedReleased
    BY DEF Holding, MemcachedReleased
  <1> QED
    BY <1>1, <1>2, <1>3, PTL DEF Spec

\* The finalizer is on a Memcached instance from the step that puts it there
\* until the resource is deleted.
Held ==
    /\ memFin # {} => input["memcached"] # Absent
    /\ pc \in {"config", "deploy"} => memFin # {}
    /\ cr.phase = "Live" /\ sts.exists => memFin # {}

\* Every step keeps it there: only reconcileDelete removes it, and no user can
\* remove a Memcached that carries it.
LEMMA HeldKept ==
    ASSUME TypeOK, Phases, Held, [Next]_vars
    PROVE  Held'
  <1>1. CASE Start
    BY <1>1, StartFacts DEF Held
  <1>2. CASE Inner
    <2>1. UNCHANGED <<cr, input>> /\ pc \notin {"idle", "exit"}
      BY <1>2, InnerFacts
    <2>2. CASE pc = "memcached"
      <3>1. Absent \notin Versions
        BY InputAssumption
      <3>2. /\ sts' = sts
            /\ \/ /\ memFin' # {} /\ pc' = "config"
                  /\ input["memcached"] \in Versions
               \/ memFin' = memFin /\ pc' = "exit"
        BY <1>2, <2>2, InnerFinalizers
      <3> QED
        BY <2>1, <2>2, <3>1, <3>2 DEF Held
    <2>3. CASE pc \in Middle \ {"memcached"}
      <3>1. /\ memFin' = memFin
            /\ sts' # sts => pc = "deploy"
            /\ pc' \in {"config", "deploy"} => pc = "config"
        BY <1>2, <2>3, InnerFinalizers
      <3> QED
        BY <2>1, <2>3, <3>1 DEF Held
    <2>4. CASE pc \notin Middle
      <3>1. /\ pc = "delete" /\ pc' = "exit" /\ memFin' \subseteq memFin
            /\ cr.phase # "Live"
        BY <1>2, <2>4, InnerFinalizers DEF Phases
      <3> QED
        BY <2>1, <3>1 DEF Held
    <2> QED
      BY <2>2, <2>3, <2>4
  <1>3. CASE Exit
    BY <1>3, ExitFacts DEF Held
  <1>4. CASE Crash
    BY <1>4 DEF Held, Crash, Forget
  <1>5. CASE Outer
    <2>1. /\ UNCHANGED <<pc, memFin>> /\ (sts'.exists => sts.exists)
          /\ cr.phase # "Live" => cr'.phase # "Live"
          /\ memFin # {} /\ input["memcached"] # Absent =>
                input'["memcached"] # Absent
      BY <1>5, OuterFacts, OuterFinalizers
    <2> QED
      BY <2>1 DEF Held
  <1> QED
    BY <1>1, <1>2, <1>3, <1>4, <1>5, StepCases

\* As long as the resource is not deleted, the Memcached instance cannot
\* disappear under the pods that were configured with it: whatever the order
\* of spec updates, restarts and failed calls, the reconciler has put its
\* finalizer on an instance before it creates the StatefulSet.
THEOREM MemcachedIsProtected == Spec => []MemcachedProtected
  <1> DEFINE Inv == TypeOK /\ Phases /\ Held
  <1>1. Init => Inv
    <2>1. Init => Held
      BY DEF Init, ServiceInit, NoSts, Held
    <2> QED
      BY <2>1, InitType, InitStale
  <1>2. Inv /\ [Next]_vars => Inv'
    BY NextType, PhasesKept, HeldKept
  <1>3. Inv => MemcachedProtected
    BY DEF Held, MemcachedProtected
  <1> QED
    BY <1>1, <1>2, <1>3, PTL DEF Spec
=============================================================================
