-------------------------- MODULE WatcherAPIProofs --------------------------
(***************************************************************************)
(* Proofs about the reconciler of WatcherAPI, for every set of specs and   *)
(* versions and any number of changes and faults.                          *)
(***************************************************************************)
EXTENDS WatcherAPI, TLAPS

\* Observed generations never run ahead of what the informer has delivered.
Generations ==
    /\ cache.gen <= cr.gen /\ cr.obs <= cache.gen
    /\ pc # "idle" => /\ base.gen <= cache.gen /\ cr.obs <= base.gen
                      /\ inst.obs = base.gen

\* A copy that is under deletion is right about it.
Phases ==
    /\ cache.phase # "Live" => cr.phase # "Live"
    /\ pc # "idle" /\ base.phase # "Live" => cr.phase # "Live"
    /\ pc \in {"delete", "release"} => base.phase = "Deleting"

\* With no event pending, the reconcile works on what the informer has.
Unqueued == pc # "idle" /\ ~queue => base = cache

\* The conditions of a reconcile that has come past the steps which set ts.
Passed(ts) == [t \in APIConditions |-> IF t \in ts THEN "True" ELSE "Unknown"]

Configured == {"InputReady", "MemcachedReady", "TLSInputReady",
               "ServiceConfigReady"}
Running == Configured \cup {"DeploymentReady"}
Exposed == Running \cup {"CreateServiceReady"}

Middle == {"secret", "prometheus", "memcached", "config", "caBundle",
           "apiCerts", "deploy", "service", "endpoint"}

\* The inputs that wake the controller up when they change.
Watched == {"secret", "prometheus"} \cup Certificates

\* The StatefulSet is the one of the spec and the hash of this reconcile.
Applied == /\ sts.exists /\ sts.img = base.spec.img
           /\ sts.replicas = base.spec.replicas /\ sts.hash = inst.hash

\* What a reconcile has established when it is at a step, ...
Progress ==
    /\ pc # "exit" => outcome = "none"
    /\ pc = "exit" /\ outcome = "swallowed" => base.phase # "Live"
    /\ pc \in Middle => /\ base.phase = "Live" /\ inst.hash = base.hash
                        /\ inst.spec = base.spec
    /\ pc \in {"secret", "prometheus"} => inst.cond = Passed({})
    /\ pc = "memcached" => inst.cond = Passed({"InputReady"})
    /\ pc \in {"config", "caBundle", "apiCerts"} =>
         inst.cond = Passed({"InputReady", "MemcachedReady"})
    /\ pc = "deploy" => inst.cond = Passed(Configured)
    /\ pc = "service" => inst.cond = Passed(Running)
    /\ pc = "endpoint" => inst.cond = Passed(Exposed)
    /\ pc \in {"deploy", "service", "endpoint"} =>
         inst.hash = [cfg |-> base.spec.cfg, in |-> seen]

\* ... what it has read, ...
Reading ==
    /\ pc = "prometheus" /\ ~queue => seen["secret"] = input["secret"]
    /\ pc \in {"memcached", "config", "caBundle"} /\ ~queue =>
         \A i \in Watched \ Certificates : seen[i] = input[i]
    /\ pc = "apiCerts" /\ ~queue =>
         /\ \A i \in Watched \ {"apiCerts"} : seen[i] = input[i]
         /\ input["caBundle"] \in Versions
    /\ pc \in {"deploy", "service", "endpoint"} /\ ~queue =>
         /\ \A i \in Watched : seen[i] = input[i]
         /\ HaveCertificates

\* ... and, with no event pending, what it has found to be so.
Reached ==
    /\ pc \in {"service", "endpoint"} /\ ~queue => Applied /\ Available
    /\ pc = "endpoint" /\ ~queue => svc = "up"

\* The resource o, if it is written, tells of the StatefulSet there is.
Current(o) == /\ sts.exists /\ sts.img = base.spec.img
              /\ sts.replicas = base.spec.replicas
              /\ o.hash # NoHash /\ sts.hash = o.hash
              /\ o.hash.cfg = base.spec.cfg
              /\ \A i \in Watched : o.hash.in[i] = input[i]

\* It says the truth about the StatefulSet, Services and KeystoneEndpoint.
Truthful(o) ==
    /\ HaveCertificates => Current(o)
    /\ (o.cond["Ready"] = "True") <=>
          (/\ HaveCertificates /\ Available /\ svc = "up"
           /\ ke.url = base.spec.url /\ ke.status = "True")

\* A reconcile that ends without an error, and with no event pending, writes
\* something, and so causes an event, or has nothing to say but the truth.
Settled ==
    pc = "exit" /\ ~queue /\ outcome = "none" /\ base.phase = "Live" =>
        \/ inst.fin # base.fin
        \/ inst.hash # base.hash
        \/ NilConditions(base.cond) /\ inst.cond["Ready"] = "Unknown"
        \/ Truthful(inst)

-----------------------------------------------------------------------------
(***************************************************************************)
(* What the operators of the reconciler return.                            *)
(***************************************************************************)

Resources == CRs(APIConditions, APIInputs)
APIHashes == Hashes(APIInputs)
StatefulSets ==
    [exists : BOOLEAN, img : {NoHash} \cup {s.img : s \in Specs},
     replicas : Nat, hash : APIHashes, observed : BOOLEAN, ready : Nat,
     rolled : BOOLEAN]
Endpoints == [url : {NoURL} \cup {s.url : s \in Specs},
              registered : {NoURL} \cup {s.url : s \in Specs},
              status : Statuses, fin : BOOLEAN]

\* Setting a condition yields a resource that differs in that condition only.
LEMMA MarkedFacts ==
    ASSUME NEW o \in Resources, NEW t \in APIConditions,
           NEW status \in Statuses
    PROVE  /\ Marked(o, t, status) \in Resources
           /\ Marked(o, t, status).hash = o.hash
           /\ Marked(o, t, status).spec = o.spec
           /\ Marked(o, t, status).obs = o.obs
           /\ Marked(o, t, status).fin = o.fin
           /\ Marked(o, t, status).gen = o.gen
           /\ Marked(o, t, status).readyCount = o.readyCount
           /\ Marked(o, t, status).cond =
                 [u \in APIConditions |->
                      IF u = t THEN status ELSE o.cond[u]]
  BY DEF Resources, CRs, Marked, SetCondition

\* initStatus resets every condition and observes the generation.
LEMMA InitStatusFacts ==
    ASSUME NEW o \in Resources
    PROVE  /\ InitStatus(o) \in Resources
           /\ InitStatus(o).obs = o.gen
           /\ InitStatus(o).cond = Passed({})
           /\ InitStatus(o).hash = o.hash
           /\ InitStatus(o).spec = o.spec
           /\ InitStatus(o).fin = o.fin
           /\ [InitStatus(o) EXCEPT !.fin = TRUE] \in Resources
           /\ [InitStatus(o) EXCEPT !.fin = TRUE].obs = o.gen
           /\ [InitStatus(o) EXCEPT !.fin = TRUE].fin = TRUE
           /\ [InitStatus(o) EXCEPT !.fin = TRUE].hash = o.hash
           /\ [InitStatus(o) EXCEPT !.fin = TRUE].cond = Passed({})
  BY DEF Resources, CRs, InitStatus, InitConditions, Passed, Statuses

\* The deferred function decides the overall condition only if the reconcile
\* did not, and then never as True.
LEMMA MirrorFacts ==
    ASSUME NEW o \in Resources
    PROVE  LET m == [o EXCEPT !.cond = MirrorUndecided(o.cond)]
           IN  /\ m \in Resources
               /\ m.hash = o.hash /\ m.obs = o.obs /\ m.fin = o.fin
               /\ m.readyCount = o.readyCount
               /\ (m.cond["Ready"] = "True") <=> (o.cond["Ready"] = "True")
               /\ o.cond["Ready"] = "Unknown" => m.cond["Ready"] # "NotSet"
  <1>1. "Ready" \in APIConditions
    BY DEF APIConditions
  <1>2. o.cond \in [APIConditions -> Statuses]
    BY DEF Resources, CRs
  <1>3. /\ Mirror(o.cond) \in Statuses \ {"NotSet"}
        /\ o.cond["Ready"] # "True" => Mirror(o.cond) # "True"
    BY DEF Mirror, Statuses, FalseStatuses
  <1>4. /\ MirrorUndecided(o.cond) \in [APIConditions -> Statuses]
        /\ (MirrorUndecided(o.cond)["Ready"] = "True")
              <=> (o.cond["Ready"] = "True")
        /\ o.cond["Ready"] = "Unknown" =>
              MirrorUndecided(o.cond)["Ready"] # "NotSet"
    BY <1>1, <1>2, <1>3 DEF MirrorUndecided
  <1> QED
    BY <1>4 DEF Resources, CRs

\* A patch leaves spec and generation alone, writes the fields that differ,
\* and removes the resource only if it was under deletion.
LEMMA PatchFacts ==
    ASSUME NEW server \in Resources, NEW before \in Resources,
           NEW after \in Resources
    PROVE  LET p == PatchInstance(server, before, after)
           IN  /\ p \in Resources
               /\ p.spec = server.spec /\ p.gen = server.gen
               /\ p.obs \in {server.obs, after.obs}
               /\ p.phase = "Live" <=> server.phase = "Live"
               /\ server.phase = "Gone" => p = server
               /\ p.phase = "Live" /\ p.fin = before.fin => after.fin = before.fin
               /\ p.phase = "Live" /\ p.hash = before.hash =>
                     after.hash = before.hash
               /\ p.phase = "Live" /\ p.obs = before.obs => after.obs = before.obs
               /\ p.phase = "Live" /\ p.cond = before.cond =>
                     after.cond = before.cond
               /\ p.phase = "Live" /\ p.readyCount = before.readyCount =>
                     after.readyCount = before.readyCount
  <1> DEFINE w == [server EXCEPT
                   !.fin = IF after.fin # before.fin THEN after.fin ELSE @,
                   !.obs = IF after.obs # before.obs THEN after.obs ELSE @,
                   !.cond = IF after.cond # before.cond THEN after.cond ELSE @,
                   !.hash = IF after.hash # before.hash THEN after.hash ELSE @,
                   !.readyCount = IF after.readyCount # before.readyCount THEN after.readyCount ELSE @]
             g == [w EXCEPT !.phase = "Gone"]
  <1>1. /\ w \in Resources /\ w.spec = server.spec /\ w.gen = server.gen
        /\ w.phase = server.phase
        /\ w.fin = IF after.fin # before.fin THEN after.fin ELSE server.fin
        /\ w.obs = IF after.obs # before.obs THEN after.obs ELSE server.obs
        /\ w.cond = IF after.cond # before.cond THEN after.cond ELSE server.cond
        /\ w.hash = IF after.hash # before.hash THEN after.hash ELSE server.hash
        /\ w.readyCount = IF after.readyCount # before.readyCount THEN after.readyCount ELSE server.readyCount
    BY DEF Resources, CRs
  <1>2. PatchInstance(server, before, after) =
            IF server.phase = "Gone" THEN server
            ELSE IF w.phase = "Deleting" /\ ~w.fin THEN g ELSE w
    BY DEF PatchInstance
  <1> HIDE DEF w
  <1>3. /\ g \in Resources /\ g.spec = w.spec /\ g.gen = w.gen /\ g.phase = "Gone"
        /\ g.fin = w.fin /\ g.obs = w.obs /\ g.cond = w.cond
        /\ g.hash = w.hash /\ g.readyCount = w.readyCount
    BY <1>1 DEF Resources, CRs
  <1> HIDE DEF g
  <1> QED
    BY <1>1, <1>2, <1>3

\* What the parent controller and the API server may do to the resource.
LEMMA SpecWritten ==
    ASSUME NEW o \in Resources, NEW s \in Specs
    PROVE  /\ [o EXCEPT !.spec = s, !.gen = @ + 1] \in Resources
           /\ [o EXCEPT !.spec = s, !.gen = @ + 1].gen = o.gen + 1
           /\ [o EXCEPT !.spec = s, !.gen = @ + 1].phase = o.phase
           /\ [o EXCEPT !.spec = s, !.gen = @ + 1].obs = o.obs
  <1>1. o.gen \in Nat /\ o.gen + 1 \in Nat
    BY DEF Resources, CRs
  <1>2. ASSUME NEW n \in Nat
        PROVE  /\ [o EXCEPT !.spec = s, !.gen = n] \in Resources
               /\ [o EXCEPT !.spec = s, !.gen = n].gen = n
               /\ [o EXCEPT !.spec = s, !.gen = n].phase = o.phase
               /\ [o EXCEPT !.spec = s, !.gen = n].obs = o.obs
    BY DEF Resources, CRs
  <1> QED
    BY <1>1, <1>2

\* Deletion gives the resource a new generation and its phase only.
LEMMA PhaseWritten ==
    ASSUME NEW o \in Resources, NEW p \in {"Live", "Deleting", "Gone"}
    PROVE  /\ [o EXCEPT !.phase = p, !.gen = @ + 1] \in Resources
           /\ [o EXCEPT !.phase = p, !.gen = @ + 1].gen = o.gen + 1
           /\ [o EXCEPT !.phase = p, !.gen = @ + 1].phase = p
           /\ [o EXCEPT !.phase = p, !.gen = @ + 1].obs = o.obs
  <1>1. o.gen \in Nat /\ o.gen + 1 \in Nat
    BY DEF Resources, CRs
  <1>2. ASSUME NEW n \in Nat
        PROVE  /\ [o EXCEPT !.phase = p, !.gen = n] \in Resources
               /\ [o EXCEPT !.phase = p, !.gen = n].gen = n
               /\ [o EXCEPT !.phase = p, !.gen = n].phase = p
               /\ [o EXCEPT !.phase = p, !.gen = n].obs = o.obs
    BY DEF Resources, CRs
  <1> QED
    BY <1>1, <1>2

\* Nothing the reconciler computes leaves its type.
LEMMA BlankType == ASSUME TypeOK PROVE Blank \in Resources
  <1>1. (CHOOSE s \in Specs : TRUE) \in Specs
    BY SpecsAssumption
  <1>2. DOMAIN cr.cond = APIConditions
    BY DEF TypeOK, TypesOK, CRs
  <1> QED
    BY <1>1, <1>2 DEF Blank, NewCR, Resources, CRs, Hashes, Statuses

\* What goes into the config-data secret, and into the hash, is of their type,
\* and is told from having none.
LEMMA RenderedType ==
    ASSUME TypeOK, input["keystone"] \in Versions
    PROVE  /\ Rendered \in APIHashes \ {NoHash}
           /\ Rendered.in \in [APIInputs -> InputStates]
           /\ Rendered.cfg = base.spec.cfg
           /\ \A i \in Watched : Rendered.in[i] = seen[i]
  <1>1. /\ seen \in [APIInputs -> InputStates] /\ base.spec \in Specs
        /\ input["keystone"] \in InputStates
        /\ Watched \subseteq APIInputs \ {"keystone"}
    BY DEF TypeOK, TypesOK, CRs, InputStates, APIInputs, Watched, Certificates
  <1>2. Rendered \in [cfg : {s.cfg : s \in Specs},
                      in : [APIInputs -> InputStates]]
    BY <1>1 DEF Rendered
  <1> QED
    BY <1>1, <1>2, HashAssumption DEF APIHashes, Hashes, Rendered

\* The hash over all inputs is told from having none.
LEMMA HashedType ==
    ASSUME TypeOK, NEW in \in [APIInputs -> InputStates]
    PROVE  /\ Hashed(in) \in APIHashes \ {NoHash}
           /\ Hashed(in) = [cfg |-> base.spec.cfg, in |-> in]
  <1>1. base.spec \in Specs
    BY DEF TypeOK, TypesOK, CRs
  <1>2. Hashed(in) \in [cfg : {s.cfg : s \in Specs},
                        in : [APIInputs -> InputStates]]
    BY <1>1 DEF Hashed
  <1> QED
    BY <1>2, HashAssumption DEF APIHashes, Hashes, Hashed

\* CreateOrPatch of the StatefulSet yields one with the wanted image, replicas
\* and hash.
LEMMA AppliedStsFacts ==
    ASSUME NEW spec \in Specs, NEW h \in APIHashes,
           sts \in StatefulSets
    PROVE  /\ AppliedSts(spec, h) \in StatefulSets
           /\ AppliedSts(spec, h).exists
           /\ AppliedSts(spec, h).img = spec.img
           /\ AppliedSts(spec, h).replicas = spec.replicas
           /\ AppliedSts(spec, h).hash = h
  <1>1. spec.replicas \in Nat
    BY SpecsAssumption DEF SpecShape
  <1> QED
    BY <1>1 DEF AppliedSts, StatefulSets

\* ensureDeployment sets DeploymentReady, to True exactly if the pods are.
LEMMA DeployedFacts ==
    ASSUME NEW o \in Resources, NEW s \in StatefulSets
    PROVE  LET d == Deployed(o, s)
           IN  /\ d \in Resources
               /\ d.hash = o.hash /\ d.obs = o.obs /\ d.fin = o.fin
               /\ d.spec = o.spec
               /\ d.cond["Ready"] = o.cond["Ready"]
               /\ (d.cond["DeploymentReady"] = "True") <=>
                     (s.observed /\ s.ready = o.spec.replicas)
               /\ d.cond["DeploymentReady"] = "True" =>
                     \A ts \in SUBSET APIConditions : o.cond = Passed(ts) =>
                        d.cond = Passed(ts \cup {"DeploymentReady"})
  <1> DEFINE c == IF s.observed THEN [o EXCEPT !.readyCount = s.ready] ELSE o
             r == s.observed /\ c.readyCount = o.spec.replicas
             v == IF r THEN "True" ELSE "Info"
             e == Marked(c, "DeploymentReady", v)
  <1>1. /\ c \in Resources /\ c.hash = o.hash /\ c.obs = o.obs
        /\ c.fin = o.fin /\ c.spec = o.spec /\ c.cond = o.cond
        /\ s.observed => c.readyCount = s.ready
    BY DEF Resources, CRs, StatefulSets
  <1>2. /\ {"Ready", "DeploymentReady"} \subseteq APIConditions
        /\ {"True", "Info"} \subseteq Statuses
    BY DEF APIConditions, Statuses, FalseStatuses
  <1>3. v \in Statuses /\ (v = "True" <=> r)
    BY <1>2
  <1>4. r <=> (s.observed /\ s.ready = o.spec.replicas)
    BY <1>1
  <1>5. Deployed(o, s) = e
    BY DEF Deployed
  <1> HIDE DEF c, v, r
  <1>6. /\ e \in Resources /\ e.hash = o.hash /\ e.obs = o.obs
        /\ e.fin = o.fin /\ e.spec = o.spec
        /\ e.cond = [u \in APIConditions |->
                        IF u = "DeploymentReady" THEN v ELSE o.cond[u]]
    BY <1>1, <1>2, <1>3, MarkedFacts
  <1> HIDE DEF e
  <1>7. /\ e.cond["Ready"] = o.cond["Ready"] /\ e.cond["DeploymentReady"] = v
        /\ v = "True" =>
              \A ts \in SUBSET APIConditions : o.cond = Passed(ts) =>
                 e.cond = Passed(ts \cup {"DeploymentReady"})
    BY <1>2, <1>6 DEF Passed
  <1> QED
    BY <1>3, <1>4, <1>5, <1>6, <1>7

\* The end of Reconcile sets no condition but Ready, and that to True exactly
\* if every step before has set its own.
LEMMA FinishedFacts ==
    ASSUME NEW o \in Resources
    PROVE  /\ Finished(o) \in Resources
           /\ Finished(o).hash = o.hash /\ Finished(o).obs = o.obs
           /\ Finished(o).fin = o.fin /\ Finished(o).spec = o.spec
           /\ o.cond["Ready"] = "Unknown" =>
                 ((Finished(o).cond["Ready"] = "True") <=>
                     AllSubConditionIsTrue(o.cond))
  <1>1. "Ready" \in APIConditions /\ "True" \in Statuses
    BY DEF APIConditions, Statuses
  <1>2. /\ Marked(o, "Ready", "True") \in Resources
        /\ Marked(o, "Ready", "True").hash = o.hash
        /\ Marked(o, "Ready", "True").obs = o.obs
        /\ Marked(o, "Ready", "True").fin = o.fin
        /\ Marked(o, "Ready", "True").spec = o.spec
        /\ Marked(o, "Ready", "True").cond["Ready"] = "True"
    BY <1>1, MarkedFacts
  <1> QED
    BY <1>2 DEF Finished

\* The reconcile takes KeystoneEndpointReady over from the KeystoneEndpoint.
\* If it has come that far, Ready becomes True exactly if that is True.
LEMMA MirrorEndpointFacts ==
    ASSUME NEW o \in Resources, ke \in Endpoints
    PROVE  LET m == MirrorEndpoint(o)
           IN  /\ m \in Resources
               /\ m.hash = o.hash /\ m.obs = o.obs /\ m.fin = o.fin
               /\ m.spec = o.spec /\ m.cond["Ready"] = o.cond["Ready"]
               /\ o.cond = Passed(Exposed) =>
                     (AllSubConditionIsTrue(m.cond) <=> ke.status = "True")
  <1>1. /\ {"Ready", "KeystoneEndpointReady"} \subseteq APIConditions
        /\ ke.status \in Statuses
    BY DEF APIConditions, Endpoints
  <1>2. CASE ke.status = "NotSet"
    <2>1. MirrorEndpoint(o) = o
      BY <1>2 DEF MirrorEndpoint
    <2>2. ASSUME o.cond = Passed(Exposed) PROVE ~AllSubConditionIsTrue(o.cond)
      BY <2>2 DEF AllSubConditionIsTrue, Passed, Exposed, Running, Configured,
                  APIConditions
    <2> QED
      BY <1>2, <2>1, <2>2
  <1>3. CASE ke.status # "NotSet"
    <2> DEFINE m == Marked(o, "KeystoneEndpointReady", ke.status)
    <2>1. MirrorEndpoint(o) = m
      BY <1>3 DEF MirrorEndpoint
    <2>2. /\ m \in Resources /\ m.hash = o.hash /\ m.obs = o.obs
          /\ m.fin = o.fin /\ m.spec = o.spec
          /\ m.cond = [u \in APIConditions |->
                          IF u = "KeystoneEndpointReady" THEN ke.status
                          ELSE o.cond[u]]
      BY <1>1, MarkedFacts
    <2> HIDE DEF m
    <2>3. ASSUME o.cond = Passed(Exposed)
          PROVE  AllSubConditionIsTrue(m.cond) <=> ke.status = "True"
      BY <1>3, <2>2, <2>3
         DEF AllSubConditionIsTrue, Passed, Exposed, Running, Configured,
             APIConditions
    <2>4. m.cond["Ready"] = o.cond["Ready"]
      BY <1>1, <2>2
    <2> QED
      BY <2>1, <2>2, <2>3, <2>4
  <1> QED
    BY <1>2, <1>3

-----------------------------------------------------------------------------
(***************************************************************************)
(* Type correctness.                                                       *)
(***************************************************************************)

Facts == /\ {"Ready", "InputReady", "TLSInputReady", "ServiceConfigReady",
             "MemcachedReady", "DeploymentReady", "CreateServiceReady",
             "KeystoneEndpointReady"} = APIConditions
         /\ {"True", "Info", "Warning"} \subseteq Statuses
         /\ {"secret", "prometheus", "memcached", "keystone", "caBundle",
             "apiCerts"} = APIInputs
         /\ Absent \in InputStates /\ Versions \subseteq InputStates

\* The members of the enumerated sets, for the leaves that need no more.
LEMMA FactsHold == Facts
  BY DEF Facts, APIConditions, Statuses, FalseStatuses,
         APIInputs, Certificates, InputStates

\* TypeOK in the terms of the lemmas.
Types == /\ cr \in Resources /\ cache \in Resources
         /\ base \in Resources /\ inst \in Resources
         /\ queue \in BOOLEAN
         /\ outcome \in {"none", "after", "error", "swallowed"}
         /\ pc \in {"idle", "delete", "release", "exit"} \cup Middle
         /\ seen \in [APIInputs -> InputStates]
         /\ input \in [APIInputs -> InputStates]
         /\ memFin \subseteq {s.memcached : s \in Specs}
         /\ sts \in StatefulSets
         /\ config \in APIHashes
         /\ changes \in Nat /\ faults \in Nat
         /\ svc \in {"none", "pending", "up"}
         /\ ke \in Endpoints

\* The type invariant of the model and its form in these proofs are the same.
LEMMA TypeOKUnfolded == TypeOK <=> Types
  BY DEF TypeOK, TypesOK, Types, Middle, Resources, StatefulSets,
         APIHashes, Endpoints

\* A reconcile that ends leaves its variables in their types.
LEMMA ForgetType ==
    ASSUME TypeOK, Forget
    PROVE  /\ pc' = "idle" /\ base' \in Resources /\ inst' \in Resources
           /\ seen' \in [APIInputs -> InputStates]
           /\ outcome' = "none"
  <1>1. NothingSeen \in [APIInputs -> InputStates]
    BY TypeOKUnfolded, FactsHold DEF Types, NothingSeen, Facts
  <1> QED
    BY <1>1, BlankType DEF Forget

\* The type invariant holds in the initial states ...
LEMMA InitType == Init => TypeOK
  <1> SUFFICES ASSUME Init PROVE TypeOK
    OBVIOUS
  <1>1. PICK s \in Specs : cr = NewCR(s, APIConditions)
    BY DEF Init, ServiceInit
  <1>2. /\ cr \in Resources /\ DOMAIN cr.cond = APIConditions
    BY <1>1 DEF NewCR, Resources, CRs, Hashes, Statuses
  <1>3. (CHOOSE u \in Specs : TRUE) \in Specs
    BY SpecsAssumption
  <1>4. Blank \in Resources
    BY <1>2, <1>3 DEF Blank, NewCR, Resources, CRs, Hashes, Statuses
  <1>5. /\ input \in [APIInputs -> InputStates]
        /\ NothingSeen \in [APIInputs -> InputStates]
    BY StartAssumption DEF Init, ServiceInit, NothingSeen, InputStates
  <1>6. NoSts \in StatefulSets
    BY DEF NoSts, StatefulSets, APIHashes, Hashes
  <1>7. NoHash \in APIHashes
    BY DEF APIHashes, Hashes
  <1>8. NoEndpoint \in Endpoints
    BY DEF NoEndpoint, Endpoints, Statuses
  <1> QED
    BY <1>2, <1>4, <1>5, <1>6, <1>7, <1>8, TypeOKUnfolded
       DEF Init, ServiceInit, Types

\* The steps that read an input keep the types, ...
LEMMA InputStepsType ==
    ASSUME TypeOK,
           \/ Secret \/ PrometheusSecret \/ Memcached \/ ServiceConfigs
           \/ CABundle \/ APICerts
    PROVE  Types'
  <1>0. Types /\ Facts
    BY TypeOKUnfolded, FactsHold
  <1>1. \A t \in APIConditions, v \in Statuses : Marked(inst, t, v) \in Resources
    BY <1>0, MarkedFacts DEF Types
  <1>2. CASE Secret
    <2>1. /\ inst' \in Resources /\ pc' \in {"exit", "prometheus"}
          /\ outcome' \in {outcome, "after", "error"}
      BY <1>0, <1>1, <1>2
         DEF Secret, EnsureSecret, Return, GoTo, NoFault, Facts, Types
    <2>2. seen' \in [APIInputs -> InputStates]
      BY <1>0, <1>2 DEF Secret, EnsureSecret, Types, Facts
    <2>3. faults' \in Nat
      BY <1>0, <1>2 DEF Secret, EnsureSecret, Types, NoFault, Fault
    <2> QED
      BY <1>0, <1>2, <2>1, <2>2, <2>3
         DEF Secret, EnsureSecret, Types, Middle, NotExposing
  <1>3. CASE PrometheusSecret
    <2>1. /\ inst' \in Resources /\ pc' \in {"exit", "memcached"}
          /\ outcome' \in {outcome, "error"}
      BY <1>0, <1>1, <1>3
         DEF PrometheusSecret, RequireSecret, Return, GoTo, NoFault, Facts
    <2>2. seen' \in [APIInputs -> InputStates]
      BY <1>0, <1>3 DEF PrometheusSecret, RequireSecret, Types, Facts
    <2>3. faults' \in Nat
      BY <1>0, <1>3 DEF PrometheusSecret, RequireSecret, Types, NoFault, Fault
    <2> QED
      BY <1>0, <1>3, <2>1, <2>2, <2>3
         DEF PrometheusSecret, RequireSecret, Types, Middle, NotExposing
  <1>4. CASE Memcached
    <2>1. /\ inst' \in Resources /\ pc' \in {"exit", "config"}
          /\ outcome' \in {outcome, "error"}
      BY <1>0, <1>1, <1>4
         DEF Memcached, EnsureMemcached, Return, GoTo, NoFault, Facts
    <2>2. seen' \in [APIInputs -> InputStates]
      BY <1>0, <1>4 DEF Memcached, EnsureMemcached, Types, Facts
    <2>3. base.spec.memcached \in {s.memcached : s \in Specs}
      BY <1>0 DEF Types, Resources, CRs
    <2>4. memFin' \subseteq {s.memcached : s \in Specs}
      BY <1>0, <1>4, <2>3 DEF Memcached, EnsureMemcached, Types, AddFinalizer
    <2>5. faults' \in Nat
      BY <1>0, <1>4 DEF Memcached, EnsureMemcached, Types, NoFault, Fault
    <2> QED
      BY <1>0, <1>4, <2>1, <2>2, <2>4, <2>5
         DEF Memcached, EnsureMemcached, Types, Middle, NotExposing
  <1>5. CASE ServiceConfigs
    <2> USE <1>0 DEF Types
    <2>1. CASE KeystoneMissing
      BY <1>1, <1>5, <2>1
         DEF ServiceConfigs, KeystoneMissing, Return, NoFault, Fault, Facts,
             NotExposing
    <2>2. CASE ConfigsFail
      BY <1>5, <2>2
         DEF ServiceConfigs, ConfigsFail, Return, NoFault, Fault, NotExposing
    <2>3. CASE ConfigsWritten /\ GoTo("caBundle", inst)
      <3>1. /\ Rendered \in APIHashes
            /\ Rendered.in \in [APIInputs -> InputStates]
        BY <2>3, RenderedType DEF ConfigsWritten
      <3>2. /\ seen' = Rendered.in /\ config' = Rendered
            /\ queue' \in BOOLEAN /\ faults' = faults
        BY <2>3 DEF ConfigsWritten, NoFault
      <3> QED
        BY <1>5, <2>3, <3>1, <3>2 DEF ServiceConfigs, GoTo, Middle, NotExposing
    <2> QED
      BY <1>5, <2>1, <2>2, <2>3 DEF ServiceConfigs
  <1>6. CASE CABundle
    <2>1. /\ inst' \in Resources /\ pc' \in {"exit", "apiCerts"}
          /\ outcome' \in {outcome, "none", "error"}
      BY <1>0, <1>1, <1>6 DEF CABundle, CertificateFails, Return, GoTo, Facts, Types
    <2>2. seen' \in [APIInputs -> InputStates]
      BY <1>0, <1>6 DEF CABundle, CertificateFails, Types, Facts
    <2>3. faults' \in Nat
      BY <1>0, <1>6 DEF CABundle, CertificateFails, Types, NoFault, Fault
    <2> QED
      BY <1>0, <1>6, <2>1, <2>2, <2>3 DEF CABundle, Types, Middle, NotExposing
  <1>7. CASE APICerts
    <2>1. /\ seen' \in [APIInputs -> InputStates] /\ faults' \in Nat
          /\ UNCHANGED <<cr, cache, queue, base, input, memFin, config, sts,
                         changes, svc, ke>>
      BY <1>0, <1>7
         DEF APICerts, CertificateFails, Types, Facts, NoFault, Fault,
             NotExposing
    <2>2. CASE CertificateFails("apiCerts")
      <3>1. /\ inst' \in Resources /\ pc' = "exit"
            /\ outcome' \in {"none", "error"}
        BY <1>0, <1>1, <2>2 DEF CertificateFails, Return, Facts
      <3> QED
        BY <1>0, <2>1, <3>1 DEF Types, Middle
    <2>3. CASE /\ input["apiCerts"] \in Versions /\ NoFault
               /\ \/ Return([Marked(inst, "TLSInputReady", "True")
                                EXCEPT !.hash = Hashed(seen')], "none")
                  \/ GoTo("deploy",
                          Marked(Marked(inst, "TLSInputReady", "True"),
                                 "ServiceConfigReady", "True"))
      <3> DEFINE valid == Marked(inst, "TLSInputReady", "True")
      <3>1. valid \in Resources
        BY <1>0, <1>1 DEF Facts
      <3>2. Hashed(seen') \in APIHashes
        BY <2>1, HashedType
      <3> HIDE DEF valid
      <3>3. [valid EXCEPT !.hash = Hashed(seen')] \in Resources
        BY <3>1, <3>2 DEF Resources, CRs, APIHashes
      <3>4. Marked(valid, "ServiceConfigReady", "True") \in Resources
        BY <1>0, <3>1, MarkedFacts DEF Facts
      <3>5. \/ Return([valid EXCEPT !.hash = Hashed(seen')], "none")
            \/ GoTo("deploy", Marked(valid, "ServiceConfigReady", "True"))
        BY <2>3 DEF valid
      <3>6. /\ inst' \in Resources /\ pc' \in {"exit", "deploy"}
            /\ outcome' \in {outcome, "none"}
        BY <3>3, <3>4, <3>5 DEF Return, GoTo
      <3> QED
        BY <1>0, <2>1, <3>6 DEF Types, Middle
    <2> QED
      BY <1>7, <2>2, <2>3, Zenon DEF APICerts
  <1> QED
    BY <1>2, <1>3, <1>4, <1>5, <1>6, <1>7

\* ... and so do those that deploy, expose and release the service, ...
LEMMA OutputStepsType ==
    ASSUME TypeOK,
           \/ EnsureDeployment \/ EnsureServiceExposed
           \/ EnsureKeystoneEndpoint \/ KeystoneEndpointDeletion
           \/ ReconcileDelete
    PROVE  Types'
  <1>0. Types /\ Facts
    BY TypeOKUnfolded, FactsHold
  <1> USE <1>0 DEF Types
  <1>1. \A t \in APIConditions, v \in Statuses : Marked(inst, t, v) \in Resources
    BY MarkedFacts
  <1>2. CASE EnsureDeployment
    <2>1. base.spec \in Specs /\ inst.hash \in APIHashes
      BY DEF Resources, CRs, APIHashes
    <2>2. AppliedSts(base.spec, inst.hash) \in StatefulSets
      BY <2>1, AppliedStsFacts
    <2>3. \A s \in StatefulSets : Deployed(inst, s) \in Resources
      BY DeployedFacts
    <2>4. /\ sts' \in StatefulSets /\ inst' \in Resources
          /\ queue' \in BOOLEAN /\ pc' \in {"exit", "service"}
          /\ outcome' \in {outcome, "none", "after", "error"}
      BY <1>1, <1>2, <2>2, <2>3 DEF EnsureDeployment, Return, GoTo, Facts
    <2>5. faults' \in Nat
      BY <1>2 DEF EnsureDeployment, NoFault, Fault
    <2> QED
      BY <1>2, <2>4, <2>5 DEF EnsureDeployment, NotExposing, Middle
  <1>3. CASE EnsureServiceExposed
    <2>1. /\ svc' \in {"none", "pending", "up"} /\ inst' \in Resources
          /\ queue' \in BOOLEAN /\ pc' \in {"exit", "endpoint"}
          /\ outcome' \in {outcome, "none", "error"}
      BY <1>1, <1>3 DEF EnsureServiceExposed, ServicesReported, Return, GoTo, Facts
    <2>2. faults' \in Nat
      BY <1>3 DEF EnsureServiceExposed, NoFault, Fault
    <2> QED
      BY <1>3, <2>1, <2>2 DEF EnsureServiceExposed, Middle
  <1>4. CASE EnsureKeystoneEndpoint
    <2>1. MirrorEndpoint(inst) \in Resources
      BY MirrorEndpointFacts
    <2>2. Finished(MirrorEndpoint(inst)) \in Resources
      BY <2>1, FinishedFacts
    <2>3. /\ inst' \in Resources /\ queue' \in BOOLEAN /\ pc' = "exit"
          /\ outcome' \in {"none", "after", "error"}
      BY <1>4, <2>1, <2>2 DEF EnsureKeystoneEndpoint, Return
    <2>4. base.spec.url \in {s.url : s \in Specs}
      BY DEF Resources, CRs
    <2>5. ke' \in Endpoints
      BY <1>4, <2>4 DEF EnsureKeystoneEndpoint, Endpoints
    <2>6. faults' \in Nat
      BY <1>4 DEF EnsureKeystoneEndpoint, NoFault, Fault
    <2> QED
      BY <1>4, <2>3, <2>5, <2>6 DEF EnsureKeystoneEndpoint
  <1>5. CASE KeystoneEndpointDeletion
    <2>1. /\ inst' \in Resources /\ queue' \in BOOLEAN
          /\ pc' \in {"exit", "release"} /\ outcome' \in {outcome, "error"}
          /\ ke' \in Endpoints
      BY <1>5 DEF KeystoneEndpointDeletion, Return, GoTo, Endpoints
    <2>2. faults' \in Nat
      BY <1>5 DEF KeystoneEndpointDeletion, NoFault, Fault
    <2> QED
      BY <1>5, <2>1, <2>2 DEF KeystoneEndpointDeletion
  <1>6. CASE ReconcileDelete
    <2>1. DropsFinalizer(inst) \in Resources
      BY DEF DropsFinalizer, Resources, CRs
    <2>2. /\ inst' \in Resources /\ pc' = "exit"
          /\ outcome' \in {"none", "error", "swallowed"}
          /\ memFin' \subseteq memFin
      BY <1>6, <2>1
         DEF ReconcileDelete, ReleaseMemcached, Return, RemoveFinalizer
    <2>3. faults' \in Nat
      BY <1>6 DEF ReconcileDelete, ReleaseMemcached, NoFault, Fault
    <2> QED
      BY <1>6, <2>2, <2>3 DEF ReconcileDelete, NotExposing
  <1> QED
    BY <1>2, <1>3, <1>4, <1>5, <1>6

\* ... what others do to the Services and the KeystoneEndpoint, ...
LEMMA ExposureStepsType ==
    ASSUME TypeOK, Cluster \/ DisturbExposure
    PROVE  Types'
  <1>0. Types
    BY TypeOKUnfolded
  <1>1. ke' \in Endpoints /\ svc' \in {"none", "pending", "up"}
    BY <1>0 DEF Cluster, AssignAddress, RegisterEndpoint, DisturbExposure, Types,
                Endpoints, Statuses, FalseStatuses
  <1>2. /\ queue' = TRUE /\ changes' \in Nat
        /\ UNCHANGED <<cr, cache, controllerVars, input, memFin, config, sts,
                       faults>>
    BY <1>0 DEF Cluster, AssignAddress, RegisterEndpoint, DisturbExposure,
                ExposureEvent, Change, Types
  <1> QED
    BY <1>0, <1>1, <1>2 DEF Types, controllerVars

\* ... and what every service resource is subject to.
LEMMA SharedStepsType ==
    ASSUME TypeOK, NotExposing,
           \/ Fetch("secret") \/ Exit
           \/ SyncCache \/ StsController \/ Environment
    PROVE  Types'
  <1>0. Types /\ Facts /\ svc' = svc /\ ke' = ke
    BY TypeOKUnfolded, FactsHold DEF NotExposing
  <1>1. CASE Fetch("secret")
    <2>1. CASE cache.phase = "Gone"
      BY <1>0, <1>1, <2>1 DEF Types, Fetch, controllerVars
    <2>2. CASE cache.phase # "Gone"
      <3>1. /\ InitStatus(cache) \in Resources
            /\ [InitStatus(cache) EXCEPT !.fin = TRUE] \in Resources
        BY <1>0, InitStatusFacts DEF Types
      <3>2. /\ base' = cache /\ inst' \in Resources
            /\ pc' \in {"delete", "exit", "secret"}
            /\ queue' = FALSE
            /\ UNCHANGED <<seen, outcome, cr, cache, input, memFin, config,
                           sts, changes, faults>>
        BY <1>1, <2>2, <3>1 DEF Fetch
      <3> QED
        BY <1>0, <3>2 DEF Types, Middle
    <2> QED
      BY <2>1, <2>2
  <1>2. CASE Exit
    <2> USE <1>0 DEF Types
    <2> DEFINE after == [inst EXCEPT !.cond = MirrorUndecided(inst.cond)]
    <2>1. after \in Resources
      BY MirrorFacts
    <2>2. PatchInstance(cr, base, after) \in Resources
      BY <2>1, PatchFacts
    <2>3. cr' \in Resources /\ queue' \in BOOLEAN
      BY <1>2, <2>2, Zenon DEF Exit
    <2>4. faults' \in Nat
      BY <1>2 DEF Exit, NoFault, Fault
    <2>5. Forget /\ UNCHANGED <<cache, input, memFin, config, sts, changes>>
      BY <1>2 DEF Exit
    <2> QED
      BY <2>3, <2>4, <2>5, ForgetType
  <1>3. CASE SyncCache
    BY <1>0, <1>3 DEF Types, SyncCache, controllerVars
  <1>4. CASE StsController
    <2> USE <1>0 DEF Types
    <2>1. /\ [sts EXCEPT !.observed = TRUE] \in StatefulSets
          /\ [sts EXCEPT !.rolled = TRUE, !.ready = 0] \in StatefulSets
          /\ \A n \in Nat : [sts EXCEPT !.ready = n] \in StatefulSets
          /\ sts.ready \in Nat /\ sts.replicas \in Nat
      BY DEF StatefulSets
    <2>3. CASE ObserveSts
      BY <2>1, <2>3 DEF ObserveSts, StsEvent, controllerVars
    <2>4. CASE RollSts
      BY <2>1, <2>4 DEF RollSts, StsEvent, controllerVars
    <2>5. CASE ScaleSts
      <3>1. PICK n : /\ n = IF sts.ready < sts.replicas THEN sts.ready + 1
                            ELSE sts.ready - 1
                     /\ sts' = [sts EXCEPT !.ready = n]
                     /\ sts.ready # sts.replicas
        BY <2>5 DEF ScaleSts
      <3>2. n \in Nat
        BY <2>1, <3>1
      <3> QED
        BY <2>1, <2>5, <3>1, <3>2 DEF ScaleSts, StsEvent, controllerVars
    <2> QED
      BY <1>4, <2>3, <2>4, <2>5 DEF StsController
  <1>5. CASE UpdateSpec
    <2> USE <1>0 DEF Types
    <2>1. cr' \in Resources
      <3>1. PICK s \in Specs : cr' = [cr EXCEPT !.spec = s, !.gen = @ + 1]
        BY <1>5 DEF UpdateSpec
      <3>2. cr \in Resources
        OBVIOUS
      <3> QED
        BY ONLY <3>1, <3>2, SpecWritten
    <2>2. changes' \in Nat
      BY <1>5 DEF UpdateSpec, Change
    <2> QED
      BY <1>5, <2>1, <2>2 DEF UpdateSpec, controllerVars
  <1>6. CASE DeleteCR
    <2> USE <1>0 DEF Types
    <2>1. cr' \in Resources
      <3>1. (IF cr.fin THEN "Deleting" ELSE "Gone")
                \in {"Live", "Deleting", "Gone"}
        OBVIOUS
      <3> QED
        BY <1>6, <3>1, PhaseWritten DEF DeleteCR
    <2>2. changes' \in Nat
      BY <1>6 DEF DeleteCR, Change
    <2> QED
      BY <1>6, <2>1, <2>2 DEF DeleteCR, controllerVars
  <1>7. CASE ChangeInput
    <2> USE <1>0 DEF Types
    <2>1. input' \in [APIInputs -> InputStates] /\ queue' \in BOOLEAN
      BY <1>7 DEF ChangeInput
    <2>2. changes' \in Nat
      BY <1>7 DEF ChangeInput, Change
    <2> QED
      BY <1>7, <2>1, <2>2 DEF ChangeInput, controllerVars
  <1>8. CASE DisturbSts
    <2> USE <1>0 DEF Types
    <2>1. NoSts \in StatefulSets
      BY DEF NoSts, StatefulSets, APIHashes, Hashes
    <2>2. sts' \in StatefulSets
      BY <1>8, <2>1 DEF DisturbSts, StatefulSets
    <2>3. changes' \in Nat
      BY <1>8 DEF DisturbSts, Change
    <2> QED
      BY <1>8, <2>2, <2>3 DEF DisturbSts, StsEvent, controllerVars
  <1>9. CASE Crash
    <2>1. Forget
      BY <1>9 DEF Crash
    <2> QED
      BY <1>0, <1>9, <2>1, ForgetType DEF Types, Crash, Fault
  <1> QED
    BY <1>1, <1>2, <1>3, <1>4, <1>5, <1>6, <1>7, <1>8, <1>9 DEF Environment

\* The type invariant is preserved by every step.
LEMMA NextType == TypeOK /\ [Next]_apiVars => TypeOK'
  <1> SUFFICES ASSUME TypeOK, [Next]_apiVars PROVE Types'
    BY DEF TypeOK, TypesOK, Types, Middle, Resources, StatefulSets,
           APIHashes, Endpoints
  <1>1. CASE UNCHANGED apiVars
    BY <1>1, TypeOKUnfolded DEF Types, apiVars, vars
  <1>2. CASE Next
    BY <1>2, InputStepsType, OutputStepsType, ExposureStepsType,
       SharedStepsType DEF Next, Reconcile, Start
  <1> QED
    BY <1>1, <1>2

\* The variables of the reconciler of WatcherAPI stay in their types,
\* whatever the cluster does.
THEOREM TypeCorrect == Spec => []TypeOK
  BY InitType, NextType, PTL DEF Spec

-----------------------------------------------------------------------------
(***************************************************************************)
(* The steps of a specification by what they leave alone: those within a   *)
(* reconcile, and those of everybody else.                                 *)
(***************************************************************************)

Inner == \/ Secret \/ PrometheusSecret \/ Memcached \/ ServiceConfigs
         \/ CABundle \/ APICerts \/ EnsureDeployment \/ EnsureServiceExposed
         \/ EnsureKeystoneEndpoint \/ KeystoneEndpointDeletion
         \/ ReconcileDelete

Outer == \/ /\ NotExposing
            /\ \/ SyncCache \/ StsController \/ UpdateSpec \/ DeleteCR
               \/ ChangeInput \/ DisturbSts
         \/ Cluster \/ DisturbExposure \/ UNCHANGED apiVars

\* The steps of the system, grouped by what they may write.
LEMMA StepCases ==
    [Next]_apiVars => \/ Start \/ Inner \/ (Exit /\ NotExposing)
                      \/ (Crash /\ NotExposing) \/ Outer
  BY DEF Next, Reconcile, Environment, Inner, Outer

\* What no step but the last ones of a reconcile changes of the resource it
\* works on.
Keeps == /\ inst'.obs = inst.obs /\ inst'.fin = inst.fin
         /\ inst'.cond["Ready"] = inst.cond["Ready"]

\* A step within a reconcile writes neither the resource nor the inputs, and
\* wakes the controller up if it changes anything else.
LEMMA InnerFacts ==
    ASSUME TypeOK, Inner
    PROVE  /\ UNCHANGED <<cr, cache, base, input>>
           /\ inst'.obs = inst.obs
           /\ pc \notin {"endpoint", "release"} => Keeps
           /\ pc # "release" => inst'.fin = inst.fin
           /\ pc # "idle" /\ pc # "exit" /\ pc' # "idle" /\ pc' # "delete"
           /\ pc' = "release" => pc = "delete"
           /\ queue => queue'
           /\ sts' # sts => queue'
  <1>0. Types /\ Facts
    BY TypeOKUnfolded, FactsHold
  <1>M. ASSUME NEW o \in Resources, NEW t \in APIConditions \ {"Ready"},
               NEW v \in Statuses
        PROVE  /\ Marked(o, t, v) \in Resources
               /\ Marked(o, t, v).obs = o.obs /\ Marked(o, t, v).fin = o.fin
               /\ Marked(o, t, v).cond["Ready"] = o.cond["Ready"]
    <2>1. t \in APIConditions /\ "Ready" \in APIConditions
      BY <1>0 DEF Facts
    <2>2. Marked(o, t, v).cond =
              [u \in APIConditions |-> IF u = t THEN v ELSE o.cond[u]]
      BY <2>1, MarkedFacts
    <2>3. Marked(o, t, v).cond["Ready"] = o.cond["Ready"]
      BY <2>1, <2>2
    <2> QED
      BY <2>1, <2>3, MarkedFacts
  <1>1. \A t \in APIConditions \ {"Ready"}, v \in Statuses :
            /\ Marked(inst, t, v) \in Resources
            /\ Marked(inst, t, v).obs = inst.obs
            /\ Marked(inst, t, v).fin = inst.fin
            /\ Marked(inst, t, v).cond["Ready"] = inst.cond["Ready"]
    BY <1>0, <1>M DEF Types
  <1>2. inst \in Resources
    BY <1>0 DEF Types
  <1>3. CASE Secret
    BY <1>0, <1>1, <1>2, <1>3 DEF Secret, EnsureSecret, Return, GoTo, Facts, Keeps
  <1>4. CASE PrometheusSecret
    BY <1>0, <1>1, <1>2, <1>4
       DEF PrometheusSecret, RequireSecret, Return, GoTo, Facts, Keeps
  <1>5. CASE Memcached
    BY <1>0, <1>1, <1>2, <1>5
       DEF Memcached, EnsureMemcached, Return, GoTo, Facts, Keeps
  <1>6. CASE ServiceConfigs
    <2>1. queue => queue'
      BY <1>0, <1>6 DEF ServiceConfigs, KeystoneMissing, ConfigsFail,
                        ConfigsWritten, Types
    <2>2. Keeps /\ pc' \in {"exit", "caBundle"}
      BY <1>0, <1>1, <1>2, <1>6
         DEF ServiceConfigs, KeystoneMissing, ConfigsFail, Return, GoTo, Facts,
             Keeps
    <2> QED
      BY <1>6, <2>1, <2>2 DEF ServiceConfigs, Keeps
  <1>F. ASSUME NEW i, CertificateFails(i) PROVE Keeps /\ pc' = "exit"
    <2>1. /\ pc' = "exit"
          /\ \E v \in {"Info", "Warning"} :
                inst' = Marked(inst, "TLSInputReady", v)
      BY <1>F DEF CertificateFails, Return
    <2>2. /\ {"Info", "Warning"} \subseteq Statuses
          /\ "TLSInputReady" \in APIConditions \ {"Ready"}
      BY <1>0 DEF Facts
    <2> QED
      BY <1>1, <2>1, <2>2 DEF Keeps
  <1>7. CASE CABundle
    <2>1. /\ pc = "caBundle"
          /\ UNCHANGED <<cr, cache, queue, base, input, sts>>
      BY <1>7 DEF CABundle
    <2>2. CertificateFails("caBundle") \/ GoTo("apiCerts", inst)
      BY <1>7, Zenon DEF CABundle
    <2> QED
      BY <1>F, <2>1, <2>2 DEF GoTo, Keeps
  <1>8. CASE APICerts
    <2>1. /\ pc = "apiCerts"
          /\ UNCHANGED <<cr, cache, queue, base, input, sts>>
      BY <1>8 DEF APICerts
    <2>2. CASE CertificateFails("apiCerts")
      BY <1>F, <2>1, <2>2 DEF Keeps
    <2>3. CASE \/ Return([Marked(inst, "TLSInputReady", "True")
                             EXCEPT !.hash = Hashed(seen')], "none")
               \/ GoTo("deploy", Marked(Marked(inst, "TLSInputReady", "True"),
                                        "ServiceConfigReady", "True"))
      <3> DEFINE valid == Marked(inst, "TLSInputReady", "True")
                 ready == Marked(valid, "ServiceConfigReady", "True")
      <3>1. /\ valid \in Resources /\ valid.obs = inst.obs
            /\ valid.fin = inst.fin
            /\ valid.cond["Ready"] = inst.cond["Ready"]
        BY <1>0, <1>1, <1>2 DEF Facts
      <3> HIDE DEF valid
      <3>2. /\ ready.obs = inst.obs /\ ready.fin = inst.fin
            /\ ready.cond["Ready"] = inst.cond["Ready"]
        <4>1. "ServiceConfigReady" \in APIConditions \ {"Ready"} /\ "True" \in Statuses
          BY <1>0 DEF Facts
        <4>2. /\ ready.obs = valid.obs /\ ready.fin = valid.fin
              /\ ready.cond["Ready"] = valid.cond["Ready"]
          BY <1>M, <3>1, <4>1
        <4> QED
          BY <3>1, <4>2
      <3>3. \A h : /\ [valid EXCEPT !.hash = h].obs = inst.obs
                   /\ [valid EXCEPT !.hash = h].fin = inst.fin
                   /\ [valid EXCEPT !.hash = h].cond = valid.cond
        BY <3>1 DEF Resources, CRs
      <3> HIDE DEF ready
      <3>4. \/ pc' = "exit" /\ inst' = [valid EXCEPT !.hash = Hashed(seen')]
            \/ pc' = "deploy" /\ inst' = ready
        BY <2>3 DEF Return, GoTo, valid, ready
      <3> QED
        BY <2>1, <3>1, <3>2, <3>3, <3>4 DEF Keeps
    <2> QED
      BY <1>8, <2>2, <2>3, Zenon DEF APICerts
  <1>9. CASE EnsureDeployment
    <2>1. base.spec \in Specs /\ inst.hash \in APIHashes
      BY <1>0 DEF Types, Resources, CRs, APIHashes
    <2>2. AppliedSts(base.spec, inst.hash) \in StatefulSets
      BY <1>0, <2>1, AppliedStsFacts DEF Types
    <2>3. \A s \in StatefulSets :
              /\ Deployed(inst, s).obs = inst.obs
              /\ Deployed(inst, s).fin = inst.fin
              /\ Deployed(inst, s).cond["Ready"] = inst.cond["Ready"]
      BY <1>0, DeployedFacts DEF Types
    <2>4. Keeps /\ pc' \in {"exit", "service"}
      <3>1. /\ pc' \in {"exit", "service"}
            /\ \/ \E s \in StatefulSets : inst' = Deployed(inst, s)
               \/ \E v \in {"Info", "Warning"} :
                      inst' = Marked(inst, "DeploymentReady", v)
        BY <1>9, <2>2 DEF EnsureDeployment, Return, GoTo
      <3>2. \A v \in {"Info", "Warning"} : v \in Statuses
        BY <1>0 DEF Facts
      <3>3. "DeploymentReady" \in APIConditions \ {"Ready"}
        BY <1>0 DEF Facts
      <3> QED
        BY <1>1, <2>3, <3>1, <3>2, <3>3 DEF Keeps
    <2>5. /\ UNCHANGED <<cr, cache, base, input>> /\ pc = "deploy"
      BY <1>9 DEF EnsureDeployment
    <2>6. (queue => queue') /\ (sts' # sts => queue')
      <3>1. \/ queue' = (queue \/ sts' # sts)
            \/ UNCHANGED <<queue, sts>>
        BY <1>9 DEF EnsureDeployment
      <3> QED
        BY <1>0, <3>1 DEF Types
    <2> QED
      BY <2>4, <2>5, <2>6 DEF Keeps
  <1>10. CASE EnsureServiceExposed
    <2>1. /\ pc' \in {"exit", "endpoint"}
          /\ \E v \in {"True", "Info", "Warning"} :
                inst' = Marked(inst, "CreateServiceReady", v)
      BY <1>10 DEF EnsureServiceExposed, ServicesReported, Return, GoTo
    <2>2. /\ "CreateServiceReady" \in APIConditions \ {"Ready"}
          /\ {"True", "Info", "Warning"} \subseteq Statuses
      BY <1>0 DEF Facts
    <2>3. Keeps
      BY <1>1, <2>1, <2>2 DEF Keeps
    <2>4. queue => queue'
      BY <1>0, <1>10 DEF EnsureServiceExposed, Types
    <2> QED
      BY <1>10, <2>1, <2>3, <2>4 DEF EnsureServiceExposed, Keeps
  <1>11. CASE EnsureKeystoneEndpoint
    <2>1. /\ MirrorEndpoint(inst) \in Resources
          /\ MirrorEndpoint(inst).obs = inst.obs
          /\ MirrorEndpoint(inst).fin = inst.fin
      BY <1>0, MirrorEndpointFacts DEF Types
    <2>2. /\ Finished(MirrorEndpoint(inst)).obs = inst.obs
          /\ Finished(MirrorEndpoint(inst)).fin = inst.fin
      BY <2>1, FinishedFacts
    <2>3. /\ inst'.obs = inst.obs /\ inst'.fin = inst.fin /\ pc' = "exit"
          /\ queue => queue'
      BY <1>0, <1>11, <2>1, <2>2 DEF EnsureKeystoneEndpoint, Return, Types
    <2> QED
      BY <1>11, <2>3 DEF EnsureKeystoneEndpoint
  <1>12. CASE KeystoneEndpointDeletion
    <2>1. inst' = inst /\ pc' \in {"exit", "release"} /\ (queue => queue')
      BY <1>0, <1>12 DEF KeystoneEndpointDeletion, Return, GoTo, Types
    <2> QED
      BY <1>12, <2>1 DEF KeystoneEndpointDeletion, Keeps
  <1>13. CASE ReconcileDelete
    <2>1. DropsFinalizer(inst).obs = inst.obs
      BY <1>0 DEF DropsFinalizer, Types, Resources, CRs
    <2> QED
      BY <1>13, <2>1 DEF ReconcileDelete, ReleaseMemcached, Return
  <1> QED
    BY <1>3, <1>4, <1>5, <1>6, <1>7, <1>8, <1>9, <1>10, <1>11, <1>12, <1>13
       DEF Inner

\* What is done to Services and KeystoneEndpoint wakes the controller up.
LEMMA InnerExposure ==
    ASSUME TypeOK, Inner
    PROVE  /\ pc # "service" => svc' = svc
           /\ pc \notin {"endpoint", "delete"} => ke' = ke
           /\ svc' # svc \/ ke' # ke => queue'
  <1>1. queue \in BOOLEAN
    BY TypeOKUnfolded DEF Types
  <1> QED
    BY <1>1 DEF Inner, Secret, PrometheusSecret, Memcached, ServiceConfigs, CABundle,
       APICerts, EnsureDeployment, EnsureServiceExposed,
       EnsureKeystoneEndpoint, KeystoneEndpointDeletion, ReconcileDelete,
       NotExposing

\* Whoever else takes a step leaves the reconcile alone, wakes the controller
\* up if it changes what is watched, and gives a changed resource a new
\* generation.
LEMMA OuterFacts ==
    ASSUME TypeOK, Outer
    PROVE  /\ UNCHANGED <<controllerVars, memFin>>
           /\ queue => queue'
           /\ sts' # sts \/ svc' # svc \/ ke' # ke => queue'
           /\ sts'.exists => sts.exists
           /\ cache' # cache => queue' /\ cache' = cr /\ cr' = cr
           /\ cr' # cr => /\ cr.phase = "Live" /\ cr'.gen = cr.gen + 1
                          /\ cr'.obs = cr.obs
           /\ \A i \in Watched : input'[i] # input[i] => queue'
  <1>0. Types /\ Facts
    BY TypeOKUnfolded, FactsHold
  <1>1. CASE SyncCache /\ NotExposing
    BY <1>1 DEF SyncCache, controllerVars, NotExposing
  <1>2. CASE StsController /\ NotExposing
    <2>1. /\ queue' = TRUE
          /\ UNCHANGED <<cr, cache, controllerVars, input, memFin>>
      BY <1>2 DEF StsController, ObserveSts, RollSts, ScaleSts, StsEvent
    <2>2. sts.exists
      BY <1>2 DEF StsController, ObserveSts, RollSts, ScaleSts
    <2> QED
      BY <1>2, <2>1, <2>2 DEF NotExposing
  <1>3. CASE UpdateSpec /\ NotExposing
    <2>1. PICK s \in Specs : cr' = [cr EXCEPT !.spec = s, !.gen = @ + 1]
      BY <1>3 DEF UpdateSpec
    <2>2. cr'.gen = cr.gen + 1 /\ cr'.obs = cr.obs
      <3>1. cr \in Resources
        BY <1>0 DEF Types
      <3>2. /\ [cr EXCEPT !.spec = s, !.gen = @ + 1].gen = cr.gen + 1
            /\ [cr EXCEPT !.spec = s, !.gen = @ + 1].obs = cr.obs
        BY <3>1, SpecWritten
      <3> QED
        BY <2>1, <3>2
    <2> QED
      BY <1>3, <2>2 DEF UpdateSpec, NotExposing
  <1>4. CASE DeleteCR /\ NotExposing
    <2>1. PICK p \in {"Live", "Deleting", "Gone"} :
              cr' = [cr EXCEPT !.phase = p, !.gen = @ + 1]
      BY <1>4 DEF DeleteCR
    <2>2. cr'.gen = cr.gen + 1 /\ cr'.obs = cr.obs
      <3>1. cr \in Resources
        BY <1>0 DEF Types
      <3>2. /\ [cr EXCEPT !.phase = p, !.gen = @ + 1].gen = cr.gen + 1
            /\ [cr EXCEPT !.phase = p, !.gen = @ + 1].obs = cr.obs
        BY <3>1, PhaseWritten
      <3> QED
        BY <2>1, <3>2
    <2> QED
      BY <1>4, <2>2 DEF DeleteCR, NotExposing
  <1>5. CASE ChangeInput /\ NotExposing
    <2>1. PICK i \in APIInputs, v \in InputStates :
              /\ input' = [input EXCEPT ![i] = v]
              /\ queue' = (queue \/ i \notin Unwatched)
      BY <1>0, <1>5 DEF ChangeInput, Types
    <2>2. /\ queue => queue'
          /\ \A j \in Watched : input'[j] # input[j] => queue'
      BY <1>0, <2>1 DEF Types, Facts, Unwatched, Watched, Certificates
    <2> QED
      BY <1>5, <2>2 DEF ChangeInput, NotExposing
  <1>6. CASE DisturbSts /\ NotExposing
    BY <1>6 DEF DisturbSts, StsEvent, NoSts, NotExposing
  <1>7. CASE Cluster \/ DisturbExposure
    BY <1>7 DEF Cluster, AssignAddress, RegisterEndpoint, DisturbExposure,
                ExposureEvent
  <1>8. CASE UNCHANGED apiVars
    BY <1>8 DEF apiVars, vars, controllerVars
  <1> QED
    BY <1>1, <1>2, <1>3, <1>4, <1>5, <1>6, <1>7, <1>8 DEF Outer

-----------------------------------------------------------------------------
(***************************************************************************)
(* Stale copies do no harm.                                                *)
(***************************************************************************)

\* What Exit does to the resource: the patch, or nothing.
LEMMA ExitFacts ==
    ASSUME TypeOK, Exit
    PROVE  /\ cr' \in Resources /\ cr'.spec = cr.spec /\ cr'.gen = cr.gen
           /\ cr'.obs \in {cr.obs, inst.obs}
           /\ cr'.phase = "Live" <=> cr.phase = "Live"
           /\ cr.phase = "Gone" => cr' = cr
           /\ pc' = "idle" /\ outcome' = "none"
           /\ UNCHANGED <<cache, input, memFin, sts>>
  <1>0. Types
    BY TypeOKUnfolded
  <1> DEFINE after == [inst EXCEPT !.cond = MirrorUndecided(inst.cond)]
  <1>1. after \in Resources /\ after.obs = inst.obs
    BY <1>0, MirrorFacts DEF Types
  <1>2. cr' = PatchInstance(cr, base, after) \/ cr' = cr
    BY DEF Exit
  <1> HIDE DEF after
  <1>3. CASE cr' = PatchInstance(cr, base, after)
    BY <1>0, <1>1, <1>3, PatchFacts DEF Types, Exit, Forget
  <1>4. CASE cr' = cr
    BY <1>0, <1>4 DEF Types, Exit, Forget
  <1> QED
    BY <1>2, <1>3, <1>4

\* What Start does, if it starts anything.
LEMMA StartFacts ==
    ASSUME TypeOK, Start
    PROVE  /\ UNCHANGED <<cr, cache, input, memFin, sts, seen, outcome>>
           /\ pc = "idle" /\ ~queue'
           /\ \/ cache.phase = "Gone" /\ pc' = "idle"
              \/ /\ cache.phase # "Gone" /\ base' = cache
                 /\ inst'.obs = cache.gen /\ inst'.cond = Passed({})
                 /\ inst'.hash = cache.hash
                 /\ \/ pc' = "exit" /\ ~cache.fin /\ inst'.fin
                    \/ pc' = "exit" /\ NilConditions(cache.cond)
                    \/ pc' = "delete" /\ cache.phase = "Deleting"
                    \/ pc' = "secret" /\ cache.phase = "Live"
                       /\ inst'.spec = cache.spec
  <1>0. Types
    BY TypeOKUnfolded
  <1>1. CASE cache.phase = "Gone"
    BY <1>1 DEF Start, Fetch, controllerVars
  <1>2. CASE cache.phase # "Gone"
    <2> DEFINE o == InitStatus(cache)
               f == [o EXCEPT !.fin = TRUE]
               adds == cache.phase = "Live" /\ ~cache.fin
    <2>1. /\ o.obs = cache.gen /\ o.cond = Passed({}) /\ o.hash = cache.hash
          /\ o.spec = cache.spec
          /\ f.obs = cache.gen /\ f.cond = Passed({}) /\ f.hash = cache.hash
          /\ f.fin = TRUE
      BY <1>0, InitStatusFacts DEF Types
    <2>2. /\ inst' = IF adds THEN f ELSE o
          /\ pc' = IF adds \/ NilConditions(cache.cond) THEN "exit"
                   ELSE IF cache.phase = "Deleting" THEN "delete"
                   ELSE "secret"
          /\ base' = cache
          /\ UNCHANGED <<cr, cache, input, memFin, sts, seen, outcome>>
          /\ pc = "idle" /\ queue' = FALSE
      BY <1>2 DEF Start, Fetch
    <2>3. cache.phase \in {"Live", "Deleting"}
      BY <1>0, <1>2 DEF Types, Resources, CRs
    <2> HIDE DEF o, f
    <2> QED
      BY <1>2, <2>1, <2>2, <2>3
  <1> QED
    BY <1>1, <1>2

\* Every step keeps the order of the generations: only a write of the spec makes
\* one, and the copies are never ahead.
LEMMA GenerationsKept ==
    ASSUME TypeOK, Generations, [Next]_apiVars
    PROVE  Generations'
  <1>0. Types
    BY TypeOKUnfolded
  <1>1. /\ cr.gen \in Nat /\ cr.obs \in Nat /\ cache.gen \in Nat
        /\ base.gen \in Nat /\ cache.obs \in Nat
    BY <1>0 DEF Types, Resources, CRs
  <1>2. CASE Start
    BY <1>1, <1>2, StartFacts DEF Generations
  <1>3. CASE Inner
    BY <1>3, InnerFacts DEF Generations
  <1>4. CASE Exit
    BY <1>1, <1>4, ExitFacts DEF Generations, Exit
  <1>5. CASE Crash
    BY <1>1, <1>5 DEF Generations, Crash, Forget
  <1>6. CASE Outer
    <2>1. UNCHANGED <<pc, base, inst>>
      BY <1>6, OuterFacts DEF controllerVars
    <2>2. CASE cache' = cache
      BY <1>1, <1>6, <2>1, <2>2, OuterFacts DEF Generations
    <2>3. CASE cache' # cache
      BY <1>1, <1>6, <2>1, <2>3, OuterFacts DEF Generations
    <2> QED
      BY <2>2, <2>3
  <1> QED
    BY <1>2, <1>3, <1>4, <1>5, <1>6, StepCases

\* Every step keeps the copies right about deletion, which is never taken back.
LEMMA PhasesKept ==
    ASSUME TypeOK, Phases, [Next]_apiVars
    PROVE  Phases'
  <1>2. CASE Start
    BY <1>2, StartFacts DEF Phases
  <1>3. CASE Inner
    BY <1>3, InnerFacts DEF Phases
  <1>4. CASE Exit
    BY <1>4, ExitFacts DEF Phases, Exit
  <1>5. CASE Crash
    BY <1>5 DEF Phases, Crash, Forget
  <1>6. CASE Outer
    <2>1. UNCHANGED <<pc, base, inst>>
      BY <1>6, OuterFacts DEF controllerVars
    <2> QED
      BY <1>6, <2>1, OuterFacts DEF Phases
  <1> QED
    BY <1>2, <1>3, <1>4, <1>5, <1>6, StepCases

\* A resource that was just created has been read by nobody.
LEMMA InitStale == Init => Generations /\ Phases
  <1> SUFFICES ASSUME Init PROVE Generations /\ Phases
    OBVIOUS
  <1>1. PICK s \in Specs : cr = NewCR(s, APIConditions)
    BY DEF Init, ServiceInit
  <1>2. cr.gen = 1 /\ cr.obs = 0 /\ cr.phase = "Live"
    BY <1>1 DEF NewCR
  <1> QED
    BY <1>2 DEF Init, ServiceInit, Generations, Phases

\* A stale copy never takes observedGeneration back, and no patch brings a
\* deleted resource to life.
Onward ==
    /\ cr'.obs >= cr.obs
    /\ cr.phase # "Live" => cr'.phase # "Live"
    /\ cr.phase = "Gone" => cr' = cr
StatusMonotone == [][Onward]_apiVars

\* One step of StatusMonotone.
LEMMA MonotoneStep == TypeOK /\ Generations /\ [Next]_apiVars => Onward
  <1> SUFFICES ASSUME TypeOK, Generations, [Next]_apiVars PROVE Onward
    OBVIOUS
  <1>1. cr.obs \in Nat /\ base.gen \in Nat
    BY TypeOKUnfolded DEF Types, Resources, CRs
  <1>2. CASE Start
    BY <1>1, <1>2, StartFacts DEF Onward
  <1>3. CASE Inner
    BY <1>1, <1>3, InnerFacts DEF Onward
  <1>4. CASE Exit
    <2>1. cr.obs <= base.gen /\ inst.obs = base.gen
      BY <1>4 DEF Generations, Exit
    <2> QED
      BY <1>1, <1>4, <2>1, ExitFacts DEF Onward
  <1>5. CASE Crash
    BY <1>1, <1>5 DEF Crash, Onward
  <1>6. CASE Outer
    BY <1>1, <1>6, OuterFacts DEF Onward
  <1> QED
    BY <1>2, <1>3, <1>4, <1>5, <1>6, StepCases

\* The deferred patch, computed against a stale copy and sent without a
\* resource version, never takes observedGeneration back nor undoes a
\* deletion, however many spec updates, failures and restarts come between.
THEOREM StatusIsMonotone == Spec => StatusMonotone
  <1>1. Init => TypeOK /\ Generations
    BY InitType, InitStale
  <1>2. TypeOK /\ Generations /\ [Next]_apiVars => (TypeOK /\ Generations)'
    BY NextType, GenerationsKept
  <1> QED
    BY <1>1, <1>2, MonotoneStep, PTL DEF Spec, StatusMonotone

-----------------------------------------------------------------------------
(***************************************************************************)
(* No lost wake-up.                                                        *)
(***************************************************************************)

\* Every step keeps a reconcile without a pending event on the newest copy.
LEMMA UnqueuedKept ==
    ASSUME TypeOK, Unqueued, [Next]_apiVars
    PROVE  Unqueued'
  <1>1. CASE Start
    BY <1>1, StartFacts DEF Unqueued
  <1>2. CASE Inner
    BY <1>2, InnerFacts DEF Unqueued
  <1>3. CASE Exit
    BY <1>3, ExitFacts DEF Unqueued
  <1>4. CASE Crash
    BY <1>4 DEF Unqueued, Crash, Forget
  <1>5. CASE Outer
    BY <1>5, OuterFacts DEF Unqueued, controllerVars
  <1> QED
    BY <1>1, <1>2, <1>3, <1>4, <1>5, StepCases

\* What a step hands over when the reconcile goes on: the condition it has set
\* and the hash and the spec of the resource.
LEMMA PassedOn ==
    ASSUME NEW o \in Resources, NEW t \in APIConditions,
           NEW ts \in SUBSET APIConditions, o.cond = Passed(ts)
    PROVE  /\ Marked(o, t, "True") \in Resources
           /\ Marked(o, t, "True").hash = o.hash
           /\ Marked(o, t, "True").spec = o.spec
           /\ Marked(o, t, "True").cond = Passed(ts \cup {t})
  <1>1. "True" \in Statuses
    BY DEF Statuses
  <1> QED
    BY <1>1, MarkedFacts DEF Passed

\* Each step of a reconcile hands what it has established to the next.
LEMMA ProgressKept ==
    ASSUME TypeOK, Phases, Progress, [Next]_apiVars
    PROVE  Progress'
  <1>0. Types /\ Facts
    BY TypeOKUnfolded, FactsHold
  <1>1. CASE Start
    BY <1>1, StartFacts DEF Progress, Middle
  <1>2. CASE Secret
    <2>1. /\ pc = "secret" /\ UNCHANGED base
          /\ \/ pc' = "exit" /\ outcome' \in {"after", "error"}
             \/ pc' = "prometheus" /\ UNCHANGED <<outcome, inst>>
      BY <1>2 DEF Secret, EnsureSecret, Return, GoTo
    <2> QED
      BY <2>1 DEF Progress, Middle
  <1>3. CASE PrometheusSecret
    <2>1. /\ pc = "prometheus" /\ UNCHANGED base
          /\ \/ pc' = "exit" /\ outcome' = "error"
             \/ /\ pc' = "memcached" /\ UNCHANGED outcome
                /\ inst' = Marked(inst, "InputReady", "True")
      BY <1>3 DEF PrometheusSecret, RequireSecret, Return, GoTo
    <2>2. inst.cond = Passed({}) /\ {} \cup {"InputReady"} = {"InputReady"}
      BY <2>1 DEF Progress
    <2>3. CASE pc' = "memcached"
      <3>1. /\ inst'.hash = inst.hash /\ inst'.spec = inst.spec
            /\ inst'.cond = Passed({"InputReady"})
        <4>1. /\ inst \in Resources /\ "InputReady" \in APIConditions
              /\ {} \in SUBSET APIConditions
          BY <1>0 DEF Types, Facts
        <4>2. inst' = Marked(inst, "InputReady", "True")
          BY <2>1, <2>3
        <4>3. /\ Marked(inst, "InputReady", "True").hash = inst.hash
              /\ Marked(inst, "InputReady", "True").spec = inst.spec
              /\ Marked(inst, "InputReady", "True").cond =
                    Passed({} \cup {"InputReady"})
          BY <2>2, <4>1, PassedOn
        <4> QED
          BY <2>2, <4>2, <4>3
      <3> QED
        BY <2>1, <2>3, <3>1 DEF Progress, Middle
    <2> QED
      BY <2>1, <2>3 DEF Progress, Middle
  <1>4. CASE Memcached
    <2>1. /\ pc = "memcached" /\ UNCHANGED base
          /\ \/ pc' = "exit" /\ outcome' = "error"
             \/ /\ pc' = "config" /\ UNCHANGED outcome
                /\ inst' = Marked(inst, "MemcachedReady", "True")
      BY <1>4 DEF Memcached, EnsureMemcached, Return, GoTo
    <2>2. /\ inst.cond = Passed({"InputReady"})
          /\ {"InputReady"} \cup {"MemcachedReady"} =
                {"InputReady", "MemcachedReady"}
      BY <2>1 DEF Progress
    <2>3. CASE pc' = "config"
      <3>1. /\ inst'.hash = inst.hash /\ inst'.spec = inst.spec
            /\ inst'.cond = Passed({"InputReady", "MemcachedReady"})
        <4>1. /\ inst \in Resources /\ "MemcachedReady" \in APIConditions
              /\ {"InputReady"} \in SUBSET APIConditions
          BY <1>0 DEF Types, Facts
        <4>2. inst' = Marked(inst, "MemcachedReady", "True")
          BY <2>1, <2>3
        <4> QED
          BY <2>2, <4>1, <4>2, PassedOn
      <3> QED
        BY <2>1, <2>3, <3>1 DEF Progress, Middle
    <2> QED
      BY <2>1, <2>3 DEF Progress, Middle
  <1>5. CASE ServiceConfigs
    <2>1. /\ pc = "config" /\ UNCHANGED base
          /\ \/ pc' = "exit" /\ outcome' = "error"
             \/ pc' = "caBundle" /\ UNCHANGED <<outcome, inst>>
      BY <1>5 DEF ServiceConfigs, KeystoneMissing, ConfigsFail, Return, GoTo
    <2> QED
      BY <2>1 DEF Progress, Middle
  <1>6. CASE CABundle
    <2>1. /\ pc = "caBundle" /\ UNCHANGED base
          /\ \/ pc' = "exit" /\ outcome' \in {"none", "error"}
             \/ pc' = "apiCerts" /\ UNCHANGED <<outcome, inst>>
      BY <1>6 DEF CABundle, CertificateFails, Return, GoTo
    <2> QED
      BY <2>1 DEF Progress, Middle
  <1>7. CASE APICerts
    <2> DEFINE valid == Marked(inst, "TLSInputReady", "True")
    <2>1. pc = "apiCerts" /\ UNCHANGED base
      BY <1>7 DEF APICerts
    <2>2. \/ pc' = "exit" /\ outcome' \in {"none", "error"}
          \/ /\ pc' = "deploy" /\ UNCHANGED outcome
             /\ inst' = Marked(valid, "ServiceConfigReady", "True")
             /\ inst.hash = Hashed(seen')
      BY <1>7, Zenon DEF APICerts, CertificateFails, Return, GoTo
    <2>3. CASE pc' = "deploy"
      <3>1. inst.cond = Passed({"InputReady", "MemcachedReady"})
        BY <2>1 DEF Progress
      <3>2. /\ valid \in Resources /\ valid.hash = inst.hash
            /\ valid.spec = inst.spec
            /\ valid.cond = Passed({"InputReady", "MemcachedReady"}
                                   \cup {"TLSInputReady"})
        <4>1. /\ inst \in Resources /\ "TLSInputReady" \in APIConditions
              /\ {"InputReady", "MemcachedReady"} \in SUBSET APIConditions
          BY <1>0 DEF Types, Facts
        <4> QED
          BY <3>1, <4>1, PassedOn
      <3> HIDE DEF valid
      <3> DEFINE ts == {"InputReady", "MemcachedReady"} \cup {"TLSInputReady"}
      <3>3. /\ ts \in SUBSET APIConditions
            /\ "ServiceConfigReady" \in APIConditions
            /\ ts \cup {"ServiceConfigReady"} = Configured
        BY <1>0 DEF Facts, Configured
      <3>4. /\ inst'.hash = inst.hash /\ inst'.spec = inst.spec
            /\ inst'.cond = Passed(Configured)
        <4> HIDE DEF ts
        <4>1. valid.cond = Passed(ts)
          BY <3>2 DEF ts
        <4>2. inst' = Marked(valid, "ServiceConfigReady", "True")
          BY <2>2, <2>3
        <4> QED
          BY <3>2, <3>3, <4>1, <4>2, PassedOn
      <3>5. inst.hash = [cfg |-> base.spec.cfg, in |-> seen']
        BY <2>2, <2>3 DEF Hashed
      <3> QED
        BY <2>1, <2>2, <2>3, <3>3, <3>4, <3>5 DEF Progress, Middle
    <2> QED
      BY <2>1, <2>2, <2>3 DEF Progress, Middle
  <1>8. CASE EnsureDeployment
    <2>1. /\ pc = "deploy" /\ UNCHANGED <<base, seen>>
          /\ \/ /\ pc' = "exit" /\ outcome' \in {"none", "after", "error"}
             \/ /\ pc' = "service" /\ UNCHANGED outcome
                /\ inst' = Deployed(inst, AppliedSts(base.spec, inst.hash))
                /\ inst'.cond["DeploymentReady"] = "True"
      BY <1>8 DEF EnsureDeployment, Return, GoTo
    <2>2. base.spec \in Specs /\ inst.hash \in APIHashes
      BY <1>0 DEF Types, Resources, CRs, APIHashes
    <2>3. AppliedSts(base.spec, inst.hash) \in StatefulSets
      BY <1>0, <2>2, AppliedStsFacts DEF Types
    <2>4. inst.cond = Passed(Configured) /\ Configured \subseteq APIConditions
      BY <1>0, <2>1 DEF Progress, Configured, Facts
    <2>5. CASE pc' = "service"
      <3> DEFINE a == AppliedSts(base.spec, inst.hash)
      <3>1. /\ Deployed(inst, a).hash = inst.hash
            /\ Deployed(inst, a).spec = inst.spec
            /\ Deployed(inst, a).cond["DeploymentReady"] = "True" =>
                  Deployed(inst, a).cond =
                      Passed(Configured \cup {"DeploymentReady"})
        <4>1. inst \in Resources
          BY <1>0 DEF Types
        <4> HIDE DEF a
        <4> QED
          BY <2>3, <2>4, <4>1, DeployedFacts DEF a
      <3>2. /\ inst'.hash = inst.hash /\ inst'.spec = inst.spec
            /\ inst'.cond = Passed(Running)
        BY <2>1, <2>5, <3>1 DEF Running
      <3>3. inst'.hash = [cfg |-> base'.spec.cfg, in |-> seen']
        BY <2>1, <3>2 DEF Progress
      <3> QED
        BY <2>1, <2>5, <3>2, <3>3 DEF Progress, Middle
    <2> QED
      BY <2>1, <2>5 DEF Progress, Middle
  <1>9. CASE EnsureServiceExposed
    <2>1. /\ pc = "service" /\ UNCHANGED <<base, seen>>
          /\ \/ pc' = "exit" /\ outcome' \in {"none", "error"}
             \/ /\ pc' = "endpoint" /\ UNCHANGED outcome
                /\ inst' = Marked(inst, "CreateServiceReady", "True")
      BY <1>9 DEF EnsureServiceExposed, ServicesReported, Return, GoTo
    <2>2. inst.cond = Passed(Running) /\ Running \subseteq APIConditions
      BY <1>0, <2>1 DEF Progress, Running, Configured, Facts
    <2>3. CASE pc' = "endpoint"
      <3>1. /\ inst'.hash = inst.hash /\ inst'.spec = inst.spec
            /\ inst'.cond = Passed(Running \cup {"CreateServiceReady"})
        <4>1. inst \in Resources /\ "CreateServiceReady" \in APIConditions
          BY <1>0 DEF Types, Facts
        <4>2. inst' = Marked(inst, "CreateServiceReady", "True")
          BY <2>1, <2>3
        <4> QED
          BY <2>2, <4>1, <4>2, PassedOn
      <3>2. inst'.hash = [cfg |-> base'.spec.cfg, in |-> seen']
        BY <2>1, <3>1 DEF Progress
      <3> QED
        BY <2>1, <2>3, <3>1, <3>2 DEF Progress, Middle, Exposed
    <2> QED
      BY <2>1, <2>3 DEF Progress, Middle
  <1>10. CASE EnsureKeystoneEndpoint
    <2>1. pc' = "exit" /\ outcome' \in {"none", "after", "error"}
      BY <1>10 DEF EnsureKeystoneEndpoint, Return
    <2> QED
      BY <2>1 DEF Progress, Middle
  <1>11. CASE KeystoneEndpointDeletion
    <2>1. \/ pc' = "exit" /\ outcome' = "error"
          \/ pc' = "release" /\ UNCHANGED outcome
      BY <1>11 DEF KeystoneEndpointDeletion, Return, GoTo
    <2>2. pc = "delete"
      BY <1>11 DEF KeystoneEndpointDeletion
    <2> QED
      BY <2>1, <2>2 DEF Progress, Middle
  <1>12. CASE ReconcileDelete
    <2>1. pc = "release" /\ pc' = "exit" /\ UNCHANGED base
      BY <1>12 DEF ReconcileDelete, ReleaseMemcached, Return
    <2> QED
      BY <2>1 DEF Phases, Progress, Middle
  <1>13. CASE Exit
    BY <1>13, ExitFacts DEF Progress, Middle
  <1>14. CASE Crash
    BY <1>14 DEF Progress, Middle, Crash, Forget
  <1>15. CASE Outer
    BY <1>15, OuterFacts DEF Progress, controllerVars
  <1> QED
    BY <1>1, <1>2, <1>3, <1>4, <1>5, <1>6, <1>7, <1>8, <1>9, <1>10, <1>11,
       <1>12, <1>13, <1>14, <1>15, StepCases DEF Inner

\* With no event pending, what a reconcile has read is still so.
LEMMA ReadingKept ==
    ASSUME TypeOK, Reading, [Next]_apiVars
    PROVE  Reading'
  <1>0. Types /\ Facts
    BY TypeOKUnfolded, FactsHold
  <1>W. Watched = {"secret", "prometheus", "caBundle", "apiCerts"}
    BY DEF Watched, Certificates
  <1>1. CASE Start
    BY <1>1, StartFacts DEF Reading
  <1>2. CASE Secret
    <2>1. /\ pc = "secret" /\ UNCHANGED input
          /\ \/ pc' = "exit"
             \/ /\ pc' = "prometheus"
                /\ seen' = [seen EXCEPT !["secret"] = input["secret"]]
      BY <1>2 DEF Secret, EnsureSecret, Return, GoTo
    <2> QED
      BY <1>0, <2>1 DEF Reading, Types, Facts
  <1>3. CASE PrometheusSecret
    <2>1. /\ pc = "prometheus" /\ UNCHANGED <<input, queue>>
          /\ \/ pc' = "exit"
             \/ /\ pc' = "memcached"
                /\ seen' = [seen EXCEPT !["prometheus"] = input["prometheus"]]
      BY <1>3 DEF PrometheusSecret, RequireSecret, Return, GoTo
    <2> QED
      BY <1>0, <1>W, <2>1 DEF Reading, Types, Facts, Certificates
  <1>4. CASE Memcached
    <2>1. /\ pc = "memcached" /\ UNCHANGED <<input, queue>>
          /\ \/ pc' = "exit"
             \/ /\ pc' = "config"
                /\ seen' = [seen EXCEPT !["memcached"] = input["memcached"]]
      BY <1>4 DEF Memcached, EnsureMemcached, Return, GoTo
    <2> QED
      BY <1>0, <1>W, <2>1 DEF Reading, Types, Facts, Certificates
  <1>5. CASE ServiceConfigs
    <2>1. pc = "config" /\ UNCHANGED input
      BY <1>5 DEF ServiceConfigs
    <2>2. CASE KeystoneMissing \/ ConfigsFail
      BY <2>2 DEF Reading, KeystoneMissing, ConfigsFail, Return
    <2>3. CASE ConfigsWritten /\ GoTo("caBundle", inst)
      <3>1. /\ pc' = "caBundle" /\ \A i \in Watched : seen'[i] = seen[i]
            /\ queue => queue'
        BY <1>0, <2>3, RenderedType DEF ConfigsWritten, GoTo, Types
      <3> QED
        BY <2>1, <3>1 DEF Reading
    <2> QED
      BY <1>5, <2>2, <2>3 DEF ServiceConfigs
  <1>6. CASE CABundle
    <2>1. /\ pc = "caBundle" /\ UNCHANGED <<input, queue>>
          /\ \/ pc' = "exit"
             \/ /\ pc' = "apiCerts" /\ input["caBundle"] \in Versions
                /\ seen' = [seen EXCEPT !["caBundle"] = input["caBundle"]]
      BY <1>6 DEF CABundle, CertificateFails, Return, GoTo
    <2> QED
      BY <1>0, <1>W, <2>1 DEF Reading, Types, Facts, Certificates
  <1>7. CASE APICerts
    <2>1. pc = "apiCerts" /\ UNCHANGED <<input, queue>>
      BY <1>7 DEF APICerts
    <2>2. CASE pc' = "exit"
      BY <2>2 DEF Reading
    <2>3. CASE pc' # "exit"
      <3>1. /\ input["apiCerts"] \in Versions
            /\ seen' = [seen EXCEPT !["apiCerts"] = input["apiCerts"]]
            /\ pc' = "deploy"
        BY <1>7, <2>3 DEF APICerts, CertificateFails, Return, GoTo
      <3> QED
        BY <1>0, <1>W, <2>1, <3>1
           DEF Reading, Types, Facts, Certificates, HaveCertificates
    <2> QED
      BY <2>2, <2>3
  <1>8. CASE EnsureDeployment
    <2>1. pc = "deploy" /\ pc' \in {"exit", "service"} /\ UNCHANGED <<seen, input>>
      BY <1>8 DEF EnsureDeployment, Return, GoTo
    <2>2. queue => queue'
      BY <1>8, InnerFacts DEF Inner
    <2> QED
      BY <2>1, <2>2 DEF Reading, HaveCertificates
  <1>9. CASE EnsureServiceExposed
    <2>1. pc = "service" /\ pc' \in {"exit", "endpoint"} /\ UNCHANGED <<seen, input>>
      BY <1>9 DEF EnsureServiceExposed, Return, GoTo
    <2>2. queue => queue'
      BY <1>9, InnerFacts DEF Inner
    <2> QED
      BY <2>1, <2>2 DEF Reading, HaveCertificates
  <1>10. CASE EnsureKeystoneEndpoint
    <2>1. pc' = "exit"
      BY <1>10 DEF EnsureKeystoneEndpoint, Return
    <2> QED
      BY <2>1 DEF Reading
  <1>11. CASE KeystoneEndpointDeletion
    <2>1. pc' \in {"exit", "release"}
      BY <1>11 DEF KeystoneEndpointDeletion, Return, GoTo
    <2> QED
      BY <2>1 DEF Reading
  <1>12. CASE ReconcileDelete
    <2>1. pc' = "exit"
      BY <1>12 DEF ReconcileDelete, ReleaseMemcached, Return
    <2> QED
      BY <2>1 DEF Reading
  <1>13. CASE Exit
    BY <1>13, ExitFacts DEF Reading
  <1>14. CASE Crash
    BY <1>14 DEF Reading, Crash, Forget
  <1>15. CASE Outer
    <2>1. /\ UNCHANGED <<pc, seen>>
          /\ queue => queue'
          /\ \A i \in Watched : input'[i] # input[i] => queue'
      BY <1>15, OuterFacts DEF controllerVars
    <2>2. CASE queue'
      BY <2>2 DEF Reading
    <2>3. CASE ~queue'
      <3>1. ~queue /\ \A i \in Watched : input'[i] = input[i]
        BY <2>1, <2>3
      <3>2. HaveCertificates => HaveCertificates'
        BY <1>W, <3>1 DEF HaveCertificates, Certificates
      <3> QED
        BY <1>W, <2>1, <3>1, <3>2 DEF Reading
    <2> QED
      BY <2>2, <2>3
  <1> QED
    BY <1>1, <1>2, <1>3, <1>4, <1>5, <1>6, <1>7, <1>8, <1>9, <1>10, <1>11,
       <1>12, <1>13, <1>14, <1>15, StepCases DEF Inner

\* With no event pending, a reconcile that got past the StatefulSet and the
\* Services still finds them as it left them.
LEMMA ReachedKept ==
    ASSUME TypeOK, Progress, Reached, [Next]_apiVars
    PROVE  Reached'
  <1>0. Types /\ Facts
    BY TypeOKUnfolded, FactsHold
  <1>1. CASE Start
    BY <1>1, StartFacts DEF Reached
  <1>2. CASE EnsureDeployment
    <2> DEFINE a == AppliedSts(base.spec, inst.hash)
    <2>1. /\ pc = "deploy" /\ pc' \in {"exit", "service"} /\ UNCHANGED base
          /\ pc' = "service" => /\ sts' = a /\ inst' = Deployed(inst, a)
                                /\ inst'.cond["DeploymentReady"] = "True"
                                /\ queue' = (queue \/ sts' # sts)
      BY <1>2 DEF EnsureDeployment, Return, GoTo
    <2> SUFFICES ASSUME pc' = "service", ~queue'
                 PROVE  Applied' /\ Available'
      BY <2>1 DEF Reached
    <2>2. sts' = a /\ sts' = sts /\ inst' = Deployed(inst, a)
      BY <2>1
    <2>3. base.spec \in Specs /\ inst.hash \in APIHashes
      BY <1>0 DEF Types, Resources, CRs, APIHashes
    <2>4. /\ a \in StatefulSets /\ a.exists /\ a.img = base.spec.img
          /\ a.replicas = base.spec.replicas /\ a.hash = inst.hash
      BY <1>0, <2>3, AppliedStsFacts DEF Types
    <2>5. inst \in Resources /\ inst.spec = base.spec
      BY <1>0, <2>1 DEF Progress, Middle, Types
    <2> HIDE DEF a
    <2>6. /\ inst'.hash = inst.hash
          /\ a.observed /\ a.ready = inst.spec.replicas
      BY <2>1, <2>2, <2>4, <2>5, DeployedFacts
    <2> QED
      BY <2>1, <2>2, <2>4, <2>5, <2>6 DEF Applied, Available
  <1>3. CASE EnsureServiceExposed
    <2>1. /\ pc = "service" /\ pc' \in {"exit", "endpoint"}
          /\ UNCHANGED <<base, sts>>
          /\ queue => queue'
          /\ pc' = "endpoint" =>
                /\ inst' = Marked(inst, "CreateServiceReady", "True")
                /\ svc' = "up"
      BY <1>0, <1>3 DEF EnsureServiceExposed, ServicesReported, Return, GoTo, Types
    <2>2. Marked(inst, "CreateServiceReady", "True").hash = inst.hash
      BY <1>0, MarkedFacts DEF Types, Facts
    <2>3. pc' = "endpoint" /\ Applied /\ Available => Applied' /\ Available'
      BY <2>1, <2>2 DEF Applied, Available
    <2> QED
      BY <2>1, <2>3 DEF Reached
  <1>4. CASE EnsureKeystoneEndpoint
    <2>1. pc' = "exit"
      BY <1>4 DEF EnsureKeystoneEndpoint, Return
    <2> QED
      BY <2>1 DEF Reached
  <1>5. CASE \/ Secret \/ PrometheusSecret \/ Memcached \/ ServiceConfigs
             \/ CABundle \/ APICerts \/ KeystoneEndpointDeletion
             \/ ReconcileDelete
    <2>1. pc' \notin {"service", "endpoint"}
      BY <1>5 DEF Secret, EnsureSecret, PrometheusSecret, RequireSecret,
                  Memcached, EnsureMemcached, ServiceConfigs, KeystoneMissing,
                  ConfigsFail, CABundle, CertificateFails, APICerts,
                  KeystoneEndpointDeletion, ReconcileDelete, ReleaseMemcached,
                  Return, GoTo
    <2> QED
      BY <2>1 DEF Reached
  <1>6. CASE Exit
    BY <1>6, ExitFacts DEF Reached
  <1>7. CASE Crash
    BY <1>7 DEF Reached, Crash, Forget
  <1>8. CASE Outer
    <2>1. /\ UNCHANGED <<pc, base, inst>>
          /\ queue => queue'
          /\ sts' # sts \/ svc' # svc => queue'
      BY <1>8, OuterFacts DEF controllerVars
    <2>2. ~queue' => /\ Applied => Applied'
                     /\ Available => Available'
      BY <2>1 DEF Applied, Available
    <2> QED
      BY <2>1, <2>2 DEF Reached
  <1> QED
    BY <1>1, <1>2, <1>3, <1>4, <1>5, <1>6, <1>7, <1>8, StepCases DEF Inner

\* Past the hash, a reconcile without a pending event writes a resource that
\* tells of the StatefulSet it has applied.
LEMMA AppliedIsCurrent ==
    ASSUME TypeOK, Progress, Reading, ~queue,
           pc \in {"deploy", "service", "endpoint"},
           UNCHANGED <<base, input>>, inst'.hash = inst.hash,
           sts'.exists, sts'.img = base.spec.img,
           sts'.replicas = base.spec.replicas, sts'.hash = inst.hash
    PROVE  Current(inst)'
  <1>0. Types
    BY TypeOKUnfolded
  <1>1. /\ inst.hash = [cfg |-> base.spec.cfg, in |-> seen]
        /\ \A i \in Watched : seen[i] = input[i]
    BY DEF Progress, Reading
  <1>2. inst.hash # NoHash
    <2>1. base.spec \in Specs /\ seen \in [APIInputs -> InputStates]
      BY <1>0 DEF Types, Resources, CRs
    <2>2. inst.hash \in [cfg : {s.cfg : s \in Specs},
                         in : [APIInputs -> InputStates]]
      BY <1>1, <2>1
    <2> QED
      BY <2>2, HashAssumption
  <1>3. inst.hash.cfg = base.spec.cfg /\ inst.hash.in = seen
    BY <1>1
  <1> QED
    BY <1>1, <1>2, <1>3 DEF Current

\* A reconcile only ends silently if it will write something or if what it
\* leaves in the resource is true.
LEMMA SettledKept ==
    ASSUME TypeOK, Phases, Progress, Reading, Reached, Settled, [Next]_apiVars
    PROVE  Settled'
  <1>0. Types /\ Facts
    BY TypeOKUnfolded, FactsHold
  <1>A. Absent \notin Versions
    BY InputAssumption
  <1>P. \A ts : inst.cond = Passed(ts) /\ "Ready" \notin ts =>
                    inst.cond["Ready"] = "Unknown"
    BY <1>0 DEF Passed, Facts
  <1>U. pc \in Middle => inst.cond["Ready"] = "Unknown"
    BY <1>P DEF Progress, Middle, Exposed, Running, Configured
  <1>1. CASE Start
    <2>1. Passed({})["Ready"] = "Unknown"
      BY <1>0 DEF Passed, Facts
    <2>2. pc' = "exit" => /\ base' = cache /\ inst'.cond = Passed({})
                          /\ \/ ~cache.fin /\ inst'.fin
                             \/ NilConditions(cache.cond)
      BY <1>1, StartFacts
    <2> QED
      BY <2>1, <2>2 DEF Settled
  <1>2. CASE Secret
    BY <1>2 DEF Settled, Secret, EnsureSecret, Return, GoTo
  <1>3. CASE PrometheusSecret
    BY <1>3 DEF Settled, PrometheusSecret, RequireSecret, Return, GoTo
  <1>4. CASE Memcached
    BY <1>4 DEF Settled, Memcached, EnsureMemcached, Return, GoTo
  <1>5. CASE ServiceConfigs
    <2>1. (pc' = "exit" /\ outcome' = "error") \/ pc' = "caBundle"
      BY <1>5 DEF ServiceConfigs, KeystoneMissing, ConfigsFail, Return, GoTo
    <2> QED
      BY <2>1 DEF Settled
  <1>6. CASE CABundle
    <2>1. pc = "caBundle" /\ UNCHANGED input
      BY <1>6 DEF CABundle
    <2>2. inst'.cond["Ready"] = "Unknown"
      BY <1>6, <1>U, <2>1, InnerFacts DEF Inner, Keeps, Middle
    <2>3. pc' = "exit" /\ outcome' = "none" => input["caBundle"] = Absent
      BY <1>6 DEF CABundle, CertificateFails, Return, GoTo
    <2>4. pc' = "exit" /\ outcome' = "none" => ~HaveCertificates'
      BY <1>A, <2>1, <2>3 DEF HaveCertificates, Certificates
    <2> QED
      BY <2>2, <2>4 DEF Settled, Truthful
  <1>7. CASE APICerts
    <2>1. pc = "apiCerts" /\ UNCHANGED <<input, base>>
      BY <1>7 DEF APICerts
    <2>2. CASE CertificateFails("apiCerts")
      <3>1. inst'.cond["Ready"] = "Unknown"
        BY <1>7, <1>U, <2>1, InnerFacts DEF Inner, Keeps, Middle
      <3>2. outcome' = "none" => input["apiCerts"] = Absent
        BY <2>2 DEF CertificateFails, Return
      <3>3. outcome' = "none" => ~HaveCertificates'
        BY <1>A, <2>1, <3>2 DEF HaveCertificates, Certificates
      <3> QED
        BY <3>1, <3>3 DEF Settled, Truthful
    <2>3. CASE ~CertificateFails("apiCerts")
      <3> DEFINE valid == Marked(inst, "TLSInputReady", "True")
      <3>1. \/ pc' = "deploy"
            \/ /\ inst' = [valid EXCEPT !.hash = Hashed(seen')]
               /\ inst.hash # Hashed(seen')
        BY <1>7, <2>3, Zenon DEF APICerts, Return, GoTo
      <3>2. valid \in Resources
        BY <1>0, MarkedFacts DEF Types, Facts
      <3> HIDE DEF valid
      <3>3. [valid EXCEPT !.hash = Hashed(seen')].hash = Hashed(seen')
        BY <3>2 DEF Resources, CRs
      <3>4. inst.hash = base.hash
        BY <2>1 DEF Progress, Middle
      <3> QED
        BY <2>1, <3>1, <3>3, <3>4 DEF Settled
    <2> QED
      BY <2>2, <2>3
  <1>8. CASE EnsureDeployment
    <2> SUFFICES ASSUME pc' = "exit", ~queue', outcome' = "none"
                 PROVE  Truthful(inst)'
      BY DEF Settled
    <2> DEFINE a == AppliedSts(base.spec, inst.hash)
               d == Deployed(inst, a)
    <2>1. /\ pc = "deploy" /\ UNCHANGED <<base, input>>
          /\ sts' = a /\ queue' = (queue \/ sts' # sts)
          /\ inst' = d /\ d.cond["DeploymentReady"] # "True"
      BY <1>8 DEF EnsureDeployment, Return, GoTo
    <2>2. ~queue /\ sts' = sts
      BY <1>0, <2>1 DEF Types
    <2>3. base.spec \in Specs /\ inst.hash \in APIHashes /\ inst \in Resources
      BY <1>0 DEF Types, Resources, CRs, APIHashes
    <2>4. /\ a \in StatefulSets /\ a.exists /\ a.img = base.spec.img
          /\ a.replicas = base.spec.replicas /\ a.hash = inst.hash
      BY <1>0, <2>3, AppliedStsFacts DEF Types
    <2>5. inst.spec = base.spec /\ inst.cond["Ready"] = "Unknown"
      BY <1>U, <2>1 DEF Progress, Middle
    <2> HIDE DEF a
    <2>6. /\ d.hash = inst.hash /\ d.cond["Ready"] = "Unknown"
          /\ ~(a.observed /\ a.ready = inst.spec.replicas)
      BY <2>1, <2>3, <2>4, <2>5, DeployedFacts
    <2> HIDE DEF d
    <2>7. ~Available'
      BY <2>1, <2>4, <2>5, <2>6 DEF Available
    <2>8. Current(inst)'
      BY <2>1, <2>2, <2>4, <2>6, AppliedIsCurrent
    <2>9. inst'.cond["Ready"] # "True"
      BY <2>1, <2>6
    <2> QED
      BY <2>7, <2>8, <2>9 DEF Truthful
  <1>9. CASE EnsureServiceExposed
    <2> SUFFICES ASSUME pc' = "exit", ~queue', outcome' = "none"
                 PROVE  Truthful(inst)'
      BY DEF Settled
    <2>1. /\ pc = "service" /\ UNCHANGED <<base, input, sts>>
          /\ svc' # "up" /\ ~queue
          /\ inst' = Marked(inst, "CreateServiceReady", "Info")
      BY <1>0, <1>9 DEF EnsureServiceExposed, Return, GoTo, Types
    <2>2. Applied
      BY <2>1 DEF Reached
    <2>3. inst'.hash = inst.hash
      BY <1>0, <2>1, MarkedFacts DEF Types, Facts
    <2>4. inst'.cond["Ready"] = "Unknown"
      BY <1>9, <1>U, <2>1, InnerFacts DEF Inner, Keeps, Middle
    <2>5. Current(inst)'
      BY <2>1, <2>2, <2>3, AppliedIsCurrent DEF Applied
    <2> QED
      BY <2>1, <2>4, <2>5 DEF Truthful
  <1>10. CASE EnsureKeystoneEndpoint
    <2> SUFFICES ASSUME pc' = "exit", ~queue', outcome' = "none"
                 PROVE  Truthful(inst)'
      BY DEF Settled
    <2> DEFINE m == MirrorEndpoint(inst)
    <2>1. /\ pc = "endpoint" /\ UNCHANGED <<base, input, sts, svc>>
          /\ ke' = [ke EXCEPT !.url = base.spec.url, !.fin = TRUE]
          /\ queue' = (queue \/ ke' # ke) /\ inst' = Finished(m)
      BY <1>10 DEF EnsureKeystoneEndpoint, Return
    <2>2. ~queue /\ ke' = ke
      BY <1>0, <2>1 DEF Types
    <2>3. ke'.url = base.spec.url
      BY <1>0, <2>1 DEF Types, Endpoints
    <2>4. /\ Applied /\ Available /\ svc = "up" /\ HaveCertificates
          /\ inst.cond = Passed(Exposed) /\ inst.cond["Ready"] = "Unknown"
      BY <1>U, <2>1, <2>2 DEF Reached, Reading, Progress, Middle
    <2>5. /\ m \in Resources /\ m.hash = inst.hash
          /\ m.cond["Ready"] = "Unknown"
          /\ AllSubConditionIsTrue(m.cond) <=> ke.status = "True"
      BY <1>0, <2>4, MirrorEndpointFacts DEF Types
    <2> HIDE DEF m
    <2>6. /\ inst'.hash = inst.hash
          /\ (inst'.cond["Ready"] = "True") <=> ke.status = "True"
      BY <2>1, <2>5, FinishedFacts
    <2>7. Current(inst)'
      BY <2>1, <2>2, <2>4, <2>6, AppliedIsCurrent DEF Applied
    <2>8. HaveCertificates' /\ Available'
      BY <2>1, <2>4 DEF HaveCertificates, Available
    <2> QED
      BY <2>1, <2>2, <2>3, <2>4, <2>6, <2>7, <2>8 DEF Truthful
  <1>11. CASE KeystoneEndpointDeletion
    <2>1. (pc' = "exit" /\ outcome' = "error") \/ pc' = "release"
      BY <1>11 DEF KeystoneEndpointDeletion, Return, GoTo
    <2> QED
      BY <2>1 DEF Settled
  <1>12. CASE ReconcileDelete
    <2>1. pc = "release" /\ UNCHANGED base
      BY <1>12 DEF ReconcileDelete
    <2> QED
      BY <2>1 DEF Phases, Settled
  <1>13. CASE Exit
    BY <1>13, ExitFacts DEF Settled
  <1>14. CASE Crash
    BY <1>14 DEF Settled, Crash, Forget
  <1>15. CASE Outer
    <2>1. /\ UNCHANGED <<pc, base, inst, seen, outcome>>
          /\ queue => queue'
          /\ sts' # sts \/ svc' # svc \/ ke' # ke => queue'
          /\ \A i \in Watched : input'[i] # input[i] => queue'
      BY <1>15, OuterFacts DEF controllerVars
    <2>2. ASSUME ~queue', Truthful(inst)
          PROVE  Truthful(inst)'
      <3>1. /\ UNCHANGED <<base, inst, sts, svc, ke>>
            /\ \A i \in Watched : input'[i] = input[i]
        BY <2>1, <2>2
      <3>2. /\ HaveCertificates' <=> HaveCertificates
            /\ Available' <=> Available
        BY <3>1 DEF HaveCertificates, Available, Watched
      <3>3. Current(inst) => Current(inst)'
        BY <3>1 DEF Current
      <3> QED
        BY <2>2, <3>1, <3>2, <3>3 DEF Truthful
    <2> QED
      BY <2>1, <2>2 DEF Settled, NilConditions
  <1> QED
    BY <1>1, <1>2, <1>3, <1>4, <1>5, <1>6, <1>7, <1>8, <1>9, <1>10, <1>11,
       <1>12, <1>13, <1>14, <1>15, StepCases DEF Inner

\* At rest, in the terms of the lemmas.
LEMMA RestKept ==
    ASSUME TypeOK, Generations, Phases, Unqueued, Progress, Settled,
           RestIsTruthful, [Next]_apiVars
    PROVE  RestIsTruthful'
  <1>0. Types /\ Facts
    BY TypeOKUnfolded, FactsHold
  <1>W. /\ DOMAIN input \ Unwatched = Watched
        /\ DOMAIN input' \ Unwatched = Watched
    <2>1. input' \in [APIInputs -> InputStates]
      BY NextType DEF TypeOK, TypesOK
    <2> QED
      BY <1>0, <2>1 DEF Types, Facts, Unwatched, Watched, Certificates
  <1> SUFFICES ASSUME AtRest', cr'.phase = "Live"
               PROVE  /\ cr'.obs = cr'.gen
                      /\ HaveCertificates' => UpToDate'
                      /\ (cr'.cond["Ready"] = "True") <=>
                            (/\ HaveCertificates' /\ Available' /\ svc' = "up"
                             /\ ke'.url = cr'.spec.url /\ ke'.status = "True")
    BY DEF RestIsTruthful
  <1>1. pc' = "idle" /\ ~queue' /\ cache' = cr'
    BY DEF AtRest
  <1>2. CASE Start
    BY <1>1, <1>2, StartFacts
  <1>3. CASE Inner
    BY <1>1, <1>3, InnerFacts
  <1>4. CASE Exit /\ NotExposing
    <2> DEFINE after == [inst EXCEPT !.cond = MirrorUndecided(inst.cond)]
    <2>1. /\ pc = "exit" /\ cr' = PatchInstance(cr, base, after)
          /\ ~queue /\ outcome \notin {"after", "error"}
          /\ UNCHANGED <<svc, ke>>
      BY <1>0, <1>1, <1>4 DEF Exit, Types, NotExposing
    <2>2. /\ after \in Resources
          /\ after.hash = inst.hash /\ after.obs = inst.obs
          /\ after.fin = inst.fin /\ after.readyCount = inst.readyCount
          /\ (after.cond["Ready"] = "True") <=> (inst.cond["Ready"] = "True")
          /\ inst.cond["Ready"] = "Unknown" => after.cond["Ready"] # "NotSet"
      BY <1>0, MirrorFacts DEF Types
    <2> HIDE DEF after
    <2>3. /\ cr' = base
          /\ UNCHANGED <<input, sts>>
      BY <1>1, <1>4, <2>1, ExitFacts DEF Unqueued
    <2>4. /\ inst.fin = base.fin /\ inst.hash = base.hash
          /\ inst.obs = base.obs /\ after.cond = base.cond
      <3> DEFINE p == PatchInstance(cr, base, after)
      <3>1. p = base /\ p.phase = "Live"
        BY <2>1, <2>3
      <3>2. /\ p.phase = "Live" /\ p.fin = base.fin => after.fin = base.fin
            /\ p.phase = "Live" /\ p.hash = base.hash =>
                  after.hash = base.hash
            /\ p.phase = "Live" /\ p.obs = base.obs => after.obs = base.obs
            /\ p.phase = "Live" /\ p.cond = base.cond =>
                  after.cond = base.cond
        BY <1>0, <2>2, PatchFacts DEF Types
      <3> HIDE DEF p
      <3> QED
        BY <2>2, <3>1, <3>2
    <2>5. base.phase = "Live" /\ outcome = "none"
      BY <1>0, <2>1, <2>3 DEF Progress, Types
    <2>6. ~(NilConditions(base.cond) /\ inst.cond["Ready"] = "Unknown")
      <3>1. "Ready" \in DOMAIN base.cond
        BY <1>0 DEF Types, Resources, CRs, Facts
      <3> QED
        BY <2>2, <2>4, <3>1 DEF NilConditions
    <2>7. Truthful(inst)
      BY <2>1, <2>4, <2>5, <2>6 DEF Settled
    <2>8. inst.obs = base.gen
      BY <2>1 DEF Generations
    <2>9. /\ HaveCertificates' <=> HaveCertificates
          /\ Available' <=> Available
      BY <2>3 DEF HaveCertificates, Available
    <2>10. HaveCertificates => UpToDate'
      BY <1>W, <2>3, <2>4, <2>7 DEF UpToDate, Truthful, Current
    <2>11. cr'.obs = cr'.gen
      BY <2>3, <2>4, <2>8
    <2>12. (base.cond["Ready"] = "True") <=>
              (/\ HaveCertificates /\ Available /\ svc = "up"
               /\ ke.url = base.spec.url /\ ke.status = "True")
      BY <2>2, <2>4, <2>7 DEF Truthful
    <2> QED
      BY <2>1, <2>3, <2>9, <2>10, <2>11, <2>12
  <1>5. CASE Crash
    BY <1>1, <1>5 DEF Crash
  <1>6. CASE Outer
    <2>1. /\ UNCHANGED <<pc, cache, sts, svc, ke>> /\ ~queue
          /\ \A i \in Watched : input'[i] = input[i]
          /\ cr' # cr => cr'.gen = cr.gen + 1
      BY <1>1, <1>6, OuterFacts DEF controllerVars
    <2>2. cr' = cr
      <3>1. cr.gen \in Nat /\ cache.gen \in Nat /\ cache.gen <= cr.gen
        BY <1>0 DEF Types, Resources, CRs, Generations
      <3> QED
        BY <1>1, <2>1, <3>1
    <2>3. AtRest
      BY <1>1, <2>1, <2>2 DEF AtRest
    <2>4. /\ HaveCertificates' <=> HaveCertificates
          /\ Available' <=> Available
      BY <2>1 DEF HaveCertificates, Available, Watched
    <2>5. UpToDate => UpToDate'
      BY <1>W, <2>1, <2>2 DEF UpToDate
    <2> QED
      BY <2>1, <2>2, <2>3, <2>4, <2>5 DEF RestIsTruthful
  <1> QED
    BY <1>2, <1>3, <1>4, <1>5, <1>6, StepCases

\* No wake-up is lost.  Whatever the interleaving of reconciles with changes
\* of the spec, of secrets and certificates, with the StatefulSet controller,
\* the load balancer and the Keystone operator, with failed calls and
\* restarts: when the controller has nothing left to do, it has observed the
\* current generation, the StatefulSet carries the current image, replicas and
\* hash unless a certificate is missing, and Ready is True exactly if the pods
\* are ready and the service is exposed and registered under the current URLs.
THEOREM NoWakeUpIsLost == Spec => []RestIsTruthful
  <1> DEFINE Inv == /\ TypeOK /\ Generations /\ Phases /\ Unqueued
                    /\ Progress /\ Reading /\ Reached /\ Settled
                    /\ RestIsTruthful
  <1>1. Init => Inv
    <2> SUFFICES ASSUME Init PROVE Inv
      OBVIOUS
    <2>1. pc = "idle" /\ queue = TRUE /\ outcome = "none"
      BY DEF Init, ServiceInit
    <2>2. /\ Unqueued /\ Progress /\ Reading /\ Reached /\ Settled
          /\ RestIsTruthful
      BY <2>1 DEF Unqueued, Progress, Middle, Reading, Reached, Settled,
                  RestIsTruthful, AtRest
    <2> QED
      BY <2>2, InitType, InitStale
  <1>2. Inv /\ [Next]_apiVars => Inv'
    BY NextType, GenerationsKept, PhasesKept, UnqueuedKept, ProgressKept,
       ReadingKept, ReachedKept, SettledKept, RestKept
  <1>3. Inv => RestIsTruthful
    OBVIOUS
  <1> QED
    BY <1>1, <1>2, <1>3, PTL DEF Spec

-----------------------------------------------------------------------------
(***************************************************************************)
(* The reconciler implements ServicePromise.                               *)
(***************************************************************************)

\* A generation stands for one spec, whichever copy it is read from.
SameSpec ==
    /\ cache.gen = cr.gen => cache.spec = cr.spec
    /\ pc # "idle" /\ base.gen = cr.gen => base.spec = cr.spec

\* The StatefulSet, if there is one, was told the spec s.
Tells(s) == sts.exists => /\ sts.img = s.img /\ sts.replicas = s.replicas
                          /\ sts.hash.cfg = s.cfg

\* Only the end of a reconcile decides about Ready, and says True about the
\* spec it was started for.
Reported ==
    /\ pc \notin {"idle", "exit"} => inst.cond["Ready"] # "True"
    /\ pc \in {"service", "endpoint"} => Tells(base.spec)
    /\ pc = "exit" /\ inst.cond["Ready"] = "True" => Tells(base.spec)

\* What the refinement rests on.
Honest == TypeOK /\ Generations /\ Phases /\ Progress /\ SameSpec /\ Reported

\* A new spec and a deletion are new generations, which no copy has.
LEMMA SameSpecKept ==
    ASSUME TypeOK, Generations, SameSpec, [Next]_apiVars
    PROVE  SameSpec'
  <1>1. /\ cr.gen \in Nat /\ cache.gen \in Nat /\ base.gen \in Nat
    BY TypeOKUnfolded DEF Types, Resources, CRs
  <1>2. CASE Start
    BY <1>2, StartFacts DEF SameSpec
  <1>3. CASE Inner
    BY <1>3, InnerFacts DEF SameSpec
  <1>4. CASE Exit
    BY <1>4, ExitFacts DEF SameSpec
  <1>5. CASE Crash
    BY <1>5 DEF SameSpec, Crash, Forget
  <1>6. CASE Outer
    <2>1. UNCHANGED <<pc, base>>
      BY <1>6, OuterFacts DEF controllerVars
    <2>2. CASE cr' = cr
      BY <1>6, <2>1, <2>2, OuterFacts DEF SameSpec
    <2>3. CASE cr' # cr
      BY <1>1, <1>6, <2>1, <2>3, OuterFacts DEF SameSpec, Generations
    <2> QED
      BY <2>2, <2>3
  <1> QED
    BY <1>2, <1>3, <1>4, <1>5, <1>6, StepCases

\* Who else takes a step gives the StatefulSet no other spec.
LEMMA TellsKept ==
    ASSUME TypeOK, Outer, NEW s \in Specs, Tells(s)
    PROVE  Tells(s)'
  <1>0. sts \in StatefulSets
    BY TypeOKUnfolded DEF Types
  <1> SUFFICES sts'.exists => /\ sts.exists /\ sts'.img = sts.img
                              /\ sts'.replicas = sts.replicas
                              /\ sts'.hash = sts.hash
    BY DEF Tells
  <1>1. CASE ObserveSts
    BY <1>0, <1>1 DEF ObserveSts, StatefulSets
  <1>2. CASE RollSts
    BY <1>0, <1>2 DEF RollSts, StatefulSets
  <1>3. CASE ScaleSts
    <2>1. PICK n : sts' = [sts EXCEPT !.ready = n]
      BY <1>3 DEF ScaleSts
    <2> QED
      BY <1>0, <2>1 DEF StatefulSets
  <1>4. CASE DisturbSts
    <2>1. CASE sts' = NoSts
      BY <2>1 DEF NoSts
    <2>2. CASE \E n : sts' = [sts EXCEPT !.ready = n]
      BY <1>0, <2>2 DEF StatefulSets
    <2> QED
      BY <1>4, <2>1, <2>2 DEF DisturbSts
  <1>5. CASE sts' = sts
    BY <1>5
  <1> QED
    BY <1>1, <1>2, <1>3, <1>4, <1>5
       DEF Outer, StsController, SyncCache, UpdateSpec, DeleteCR, ChangeInput,
           Cluster, AssignAddress, RegisterEndpoint, DisturbExposure,
           ExposureEvent, apiVars, vars

\* Every step keeps what a reconcile says about Ready true.
LEMMA ReportedKept ==
    ASSUME TypeOK, Progress, Reported, [Next]_apiVars
    PROVE  Reported'
  <1>0. Types /\ Facts
    BY TypeOKUnfolded, FactsHold
  <1>1. CASE Start
    <2>1. pc' # "idle" => inst'.cond["Ready"] = "Unknown"
      BY <1>0, <1>1, StartFacts DEF Passed, Facts
    <2>2. pc' \notin {"service", "endpoint"}
      BY <1>1, StartFacts
    <2> QED
      BY <2>1, <2>2 DEF Reported
  <1>2. CASE \/ Secret \/ PrometheusSecret \/ Memcached \/ ServiceConfigs
             \/ CABundle \/ APICerts \/ KeystoneEndpointDeletion
    <2>1. /\ pc \notin {"endpoint", "release", "idle", "exit"}
          /\ pc' \notin {"service", "endpoint"}
      BY <1>2 DEF Secret, EnsureSecret, PrometheusSecret, RequireSecret,
                  Memcached, EnsureMemcached, ServiceConfigs, KeystoneMissing,
                  ConfigsFail, CABundle, CertificateFails, APICerts,
                  KeystoneEndpointDeletion, Return, GoTo
    <2>2. inst'.cond["Ready"] = inst.cond["Ready"]
      BY <1>2, <2>1, InnerFacts DEF Inner, Keeps
    <2> QED
      BY <2>1, <2>2 DEF Reported
  <1>3. CASE EnsureDeployment
    <2>1. /\ pc = "deploy" /\ pc' \in {"exit", "service"} /\ base' = base
          /\ base.spec \in Specs /\ inst.hash \in APIHashes
          /\ inst.hash.cfg = base.spec.cfg
      BY <1>0, <1>3
         DEF EnsureDeployment, Return, GoTo, Progress, Types, Resources, CRs,
             APIHashes
    <2>2. inst'.cond["Ready"] = inst.cond["Ready"]
      BY <1>3, <2>1, InnerFacts DEF Inner, Keeps
    <2>3. pc' = "service" => sts' = AppliedSts(base.spec, inst.hash)
      BY <1>3 DEF EnsureDeployment, Return, GoTo
    <2>4. pc' = "service" => Tells(base.spec)'
      BY <1>0, <2>1, <2>3, AppliedStsFacts DEF Tells, Types
    <2> QED
      BY <2>1, <2>2, <2>4 DEF Reported, Tells
  <1>4. CASE EnsureServiceExposed
    <2>1. /\ pc = "service" /\ pc' \in {"exit", "endpoint"}
          /\ UNCHANGED <<base, sts>>
      BY <1>4 DEF EnsureServiceExposed, Return, GoTo
    <2>2. inst'.cond["Ready"] = inst.cond["Ready"]
      BY <1>4, <2>1, InnerFacts DEF Inner, Keeps
    <2> QED
      BY <2>1, <2>2 DEF Reported, Tells
  <1>5. CASE EnsureKeystoneEndpoint
    <2>1. /\ pc = "endpoint" /\ pc' = "exit" /\ UNCHANGED <<base, sts>>
      BY <1>5 DEF EnsureKeystoneEndpoint, Return
    <2> QED
      BY <2>1 DEF Reported, Tells
  <1>6. CASE ReconcileDelete
    <2>1. DropsFinalizer(inst).cond = inst.cond
      BY <1>0 DEF DropsFinalizer, Types, Resources, CRs
    <2>2. inst'.cond = inst.cond /\ pc = "release" /\ pc' = "exit"
      BY <1>6, <2>1 DEF ReconcileDelete, ReleaseMemcached, Return
    <2> QED
      BY <2>2 DEF Reported
  <1>7. CASE Exit
    BY <1>7, ExitFacts DEF Reported
  <1>8. CASE Crash
    BY <1>8 DEF Reported, Crash, Forget
  <1>9. CASE Outer
    <2>1. UNCHANGED <<pc, base, inst>> /\ base.spec \in Specs
      BY <1>0, <1>9, OuterFacts DEF controllerVars, Types, Resources, CRs
    <2>2. Tells(base.spec) => Tells(base.spec)'
      BY <1>9, <2>1, TellsKept DEF Tells
    <2> QED
      BY <2>1, <2>2 DEF Reported, Tells
  <1> QED
    BY <1>1, <1>2, <1>3, <1>4, <1>5, <1>6, <1>7, <1>8, <1>9, StepCases
       DEF Inner

\* The patch makes Ready True only if the reconcile did, and removes nothing but
\* a resource under deletion.
LEMMA ExitReports ==
    ASSUME TypeOK, Exit
    PROVE  /\ \/ cr'.phase = cr.phase
              \/ cr.phase = "Deleting" /\ cr'.phase = "Gone"
           /\ cr'.cond["Ready"] = "True" /\ cr.cond["Ready"] # "True" =>
                 inst.cond["Ready"] = "True"
  <1>0. Types
    BY TypeOKUnfolded
  <1> DEFINE after == [inst EXCEPT !.cond = MirrorUndecided(inst.cond)]
             p == PatchInstance(cr, base, after)
  <1>1. /\ after \in Resources
        /\ (after.cond["Ready"] = "True") <=> (inst.cond["Ready"] = "True")
    BY <1>0, MirrorFacts DEF Types
  <1>2. cr' = p \/ cr' = cr
    BY DEF Exit
  <1> HIDE DEF after
  <1>3. /\ p.cond \in {cr.cond, after.cond}
        /\ p.phase = cr.phase \/ (cr.phase = "Deleting" /\ p.phase = "Gone")
    BY <1>0, <1>1 DEF PatchInstance, Types, Resources, CRs
  <1> QED
    BY <1>1, <1>2, <1>3

-----------------------------------------------------------------------------
(***************************************************************************)
(* Each step maps to a step of ServicePromise or to none.                  *)
(***************************************************************************)

\* A new resource has promised nothing yet.
LEMMA InitRefines == Init => Promise!Init
  <1> SUFFICES ASSUME Init PROVE Promise!Init
    OBVIOUS
  <1>1. PICK s \in Specs : cr = NewCR(s, APIConditions)
    BY DEF Init, ServiceInit
  <1>2. /\ cr.phase = "Live" /\ cr.gen = 1 /\ cr.obs = 0
        /\ cr.cond["Ready"] = "NotSet"
    BY <1>1 DEF NewCR, APIConditions
  <1>3. Told = NoHash
    BY DEF Init, ServiceInit, NoSts, Told
  <1> QED
    BY <1>2, <1>3 DEF Promise!Init

\* ensureDeployment tells the StatefulSet the current spec, or, as long as the
\* generation of the spec counts as observed by nobody, an earlier one.
LEMMA DeploymentRefines ==
    ASSUME Honest, EnsureDeployment
    PROVE  Promise!Tell \/ UNCHANGED Promise!vars
  <1>0. Types
    BY TypeOKUnfolded DEF Honest
  <1>1. /\ pc = "deploy" /\ cr' = cr
        /\ sts' = AppliedSts(base.spec, inst.hash) \/ sts' = sts
    BY DEF EnsureDeployment
  <1>2. /\ base.spec \in Specs /\ inst.hash \in APIHashes
        /\ inst.hash.cfg = base.spec.cfg
    BY <1>0, <1>1
       DEF Honest, Progress, Types, Resources, CRs, APIHashes
  <1>3. Wanted' = Wanted
    BY <1>1 DEF Wanted
  <1>4. CASE sts' = sts
    BY <1>1, <1>3, <1>4 DEF Promise!vars, Told
  <1>5. CASE sts' = AppliedSts(base.spec, inst.hash)
    <2>1. Told' = [img |-> base.spec.img, replicas |-> base.spec.replicas,
                   cfg |-> base.spec.cfg]
      BY <1>0, <1>2, <1>5, AppliedStsFacts DEF Told, Types
    <2>2. cr.obs = cr.gen => base.spec = cr.spec
      <3>1. /\ cr.obs \in Nat /\ cr.gen \in Nat /\ base.gen \in Nat
            /\ cache.gen \in Nat
        BY <1>0 DEF Types, Resources, CRs
      <3> QED
        BY <1>1, <3>1 DEF Honest, Generations, SameSpec
    <2>3. cr.obs = cr.gen => Told' = Wanted'
      BY <1>3, <2>1, <2>2 DEF Wanted
    <2> QED
      BY <1>1, <1>3, <2>3 DEF Promise!Tell
  <1> QED
    BY <1>1, <1>4, <1>5

\* The patch of a stale copy does not take observing back, and a Ready that it
\* brings is about the spec whose generation it reports.
LEMMA ExitRefines ==
    ASSUME Honest, Exit
    PROVE  Promise!Report \/ Promise!Leave
  <1>0. Types
    BY TypeOKUnfolded DEF Honest
  <1>1. /\ cr.obs \in Nat /\ cr.gen \in Nat /\ base.gen \in Nat
        /\ cache.gen \in Nat
    BY <1>0 DEF Types, Resources, CRs
  <1>2. /\ cr'.spec = cr.spec /\ cr'.gen = cr.gen /\ sts' = sts
        /\ cr'.obs \in {cr.obs, inst.obs} /\ pc = "exit"
    BY ExitFacts DEF Honest, Exit
  <1>3. /\ cr.obs <= base.gen /\ base.gen <= cr.gen /\ inst.obs = base.gen
    BY <1>1, <1>2 DEF Honest, Generations
  <1>4. Wanted' = Wanted /\ Told' = Told
    BY <1>2 DEF Wanted, Told
  <1>5. cr.obs = cr.gen => cr'.obs = cr'.gen
    BY <1>1, <1>2, <1>3
  <1>6. ASSUME cr.cond["Ready"] # "True", cr'.cond["Ready"] = "True",
               cr'.obs = cr'.gen
        PROVE  Told \in {Wanted, NoHash}
    <2>1. base.spec = cr.spec
      BY <1>1, <1>2, <1>3, <1>6 DEF Honest, SameSpec
    <2>2. Tells(base.spec)
      BY <1>2, <1>6, ExitReports DEF Honest, Reported
    <2> QED
      BY <2>1, <2>2 DEF Tells, Told, Wanted
  <1>7. CASE cr'.phase = cr.phase
    BY <1>4, <1>5, <1>6, <1>7 DEF Promise!Report
  <1>8. CASE cr.phase = "Deleting" /\ cr'.phase = "Gone"
    BY <1>4, <1>5, <1>8 DEF Promise!Leave
  <1> QED
    BY <1>7, <1>8, ExitReports DEF Honest

\* Users and the cluster order, withdraw and lose, and nothing else.
LEMMA OuterRefines ==
    ASSUME Honest, Outer
    PROVE  Promise!Next \/ UNCHANGED Promise!vars
  <1>0. Types
    BY TypeOKUnfolded DEF Honest
  <1>1. /\ cr.obs \in Nat /\ cr.gen \in Nat /\ cache.gen \in Nat
        /\ cr.obs <= cr.gen
    BY <1>0 DEF Types, Resources, CRs, Honest, Generations
  <1>2. CASE UpdateSpec
    <2>1. PICK s \in Specs : cr' = [cr EXCEPT !.spec = s, !.gen = @ + 1]
      BY <1>2 DEF UpdateSpec
    <2>2. /\ cr'.gen = cr.gen + 1 /\ cr'.obs = cr.obs
          /\ cr'.phase = cr.phase /\ cr'.cond = cr.cond
      <3>1. cr'.cond = cr.cond
        BY <1>0, <2>1 DEF Types, Resources, CRs
      <3> QED
        BY <1>0, <2>1, <3>1, SpecWritten DEF Types
    <2>3. cr'.obs # cr'.gen
      BY <1>1, <2>2
    <2>4. Told' = Told /\ cr.phase = "Live"
      BY <1>2 DEF UpdateSpec, Told
    <2> QED
      BY <2>2, <2>3, <2>4 DEF Promise!Next, Promise!Order
  <1>3. CASE DeleteCR
    <2>1. PICK p \in {"Deleting", "Gone"} :
              cr' = [cr EXCEPT !.phase = p, !.gen = @ + 1]
      BY <1>3 DEF DeleteCR
    <2>2. /\ cr'.gen = cr.gen + 1 /\ cr'.obs = cr.obs /\ cr'.phase = p
          /\ cr'.cond = cr.cond /\ cr'.spec = cr.spec
      <3>1. cr'.cond = cr.cond /\ cr'.spec = cr.spec
        BY <1>0, <2>1 DEF Types, Resources, CRs
      <3>2. p \in {"Live", "Deleting", "Gone"}
        BY <2>1
      <3> DEFINE o == [cr EXCEPT !.phase = p, !.gen = @ + 1]
      <3>3. o.gen = cr.gen + 1 /\ o.phase = p /\ o.obs = cr.obs
        <4>1. cr \in Resources
          BY <1>0 DEF Types
        <4> QED
          BY <3>2, <4>1, PhaseWritten, Zenon
      <3> HIDE DEF o
      <3>4. cr' = o
        BY <2>1 DEF o
      <3> QED
        BY <3>1, <3>3, <3>4
    <2>3. cr'.obs # cr'.gen
      BY <1>1, <2>2
    <2>4. Told' = Told /\ Wanted' = Wanted /\ cr.phase = "Live"
      BY <1>3, <2>2 DEF DeleteCR, Told, Wanted
    <2> QED
      BY <2>2, <2>3, <2>4 DEF Promise!Next, Promise!Withdraw
  <1>4. CASE cr' = cr /\ (sts' = sts \/ ~sts'.exists)
    <2>1. Wanted' = Wanted
      BY <1>4 DEF Wanted
    <2>2. Told' = Told \/ Told' = NoHash
      BY <1>4 DEF Told
    <2> QED
      BY <1>4, <2>1, <2>2 DEF Promise!Next, Promise!Lose, Promise!vars
  <1>5. CASE /\ cr' = cr /\ sts'.exists /\ sts.exists /\ sts'.img = sts.img
             /\ sts'.replicas = sts.replicas /\ sts'.hash = sts.hash
    BY <1>5 DEF Promise!vars, Told, Wanted
  <1>6. CASE ObserveSts
    BY <1>0, <1>5, <1>6 DEF ObserveSts, StsEvent, Types, StatefulSets
  <1>7. CASE RollSts
    BY <1>0, <1>5, <1>7 DEF RollSts, StsEvent, Types, StatefulSets
  <1>8. CASE ScaleSts
    <2>1. PICK n : sts' = [sts EXCEPT !.ready = n]
      BY <1>8 DEF ScaleSts
    <2>2. sts.exists /\ cr' = cr
      BY <1>8 DEF ScaleSts, StsEvent
    <2> QED
      BY <1>0, <1>5, <2>1, <2>2 DEF Types, StatefulSets
  <1>9. CASE DisturbSts
    <2>1. sts.exists /\ cr' = cr
      BY <1>9 DEF DisturbSts, StsEvent
    <2>2. CASE sts' = NoSts
      BY <1>4, <2>1, <2>2 DEF NoSts
    <2>3. CASE \E n : sts' = [sts EXCEPT !.ready = n]
      BY <1>0, <1>5, <2>1, <2>3 DEF Types, StatefulSets
    <2> QED
      BY <1>9, <2>2, <2>3 DEF DisturbSts
  <1>10. CASE \/ SyncCache \/ ChangeInput \/ Cluster \/ DisturbExposure
              \/ UNCHANGED apiVars
    BY <1>4, <1>10
       DEF SyncCache, ChangeInput, Cluster, AssignAddress, RegisterEndpoint,
           DisturbExposure, ExposureEvent, apiVars, vars
  <1> QED
    BY <1>2, <1>3, <1>6, <1>7, <1>8, <1>9, <1>10 DEF Outer, StsController

\* Every step of the reconciler and of the cluster is one that a service may
\* take, or one that its owner cannot see.
LEMMA StepRefines ==
    ASSUME Honest, [Next]_apiVars
    PROVE  [Promise!Next]_(Promise!vars)
  <1>1. CASE Start
    BY <1>1, StartFacts DEF Honest, Promise!vars, Told, Wanted
  <1>2. CASE \/ Secret \/ PrometheusSecret \/ Memcached \/ ServiceConfigs
             \/ CABundle \/ APICerts \/ EnsureServiceExposed
             \/ EnsureKeystoneEndpoint \/ KeystoneEndpointDeletion
             \/ ReconcileDelete
    <2>1. UNCHANGED <<cr, sts>>
      BY <1>2 DEF Secret, EnsureSecret, PrometheusSecret, RequireSecret,
                  Memcached, EnsureMemcached, ServiceConfigs, CABundle,
                  APICerts, EnsureServiceExposed, EnsureKeystoneEndpoint,
                  KeystoneEndpointDeletion, ReconcileDelete
    <2> QED
      BY <2>1 DEF Promise!vars, Told, Wanted
  <1>3. CASE EnsureDeployment
    BY <1>3, DeploymentRefines DEF Promise!Next
  <1>4. CASE Exit
    BY <1>4, ExitRefines DEF Promise!Next
  <1>5. CASE Crash
    BY <1>5 DEF Crash, Promise!vars, Told, Wanted
  <1>6. CASE Outer
    BY <1>6, OuterRefines
  <1> QED
    BY <1>1, <1>2, <1>3, <1>4, <1>5, <1>6, StepCases DEF Inner

\* The reconciler of WatcherAPI keeps the promise that the Watcher
\* builds on, for every set of specs and inputs and any number of changes, failed
\* calls and restarts: a Ready it brings along with the generation of the spec
\* is about this spec, and the StatefulSet never goes back to an earlier one.
THEOREM KeepsThePromise == Spec => KeepsPromise
  <1>1. Init => Honest
    <2>1. Init => SameSpec /\ Reported
      BY DEF Init, ServiceInit, SameSpec, Reported
    <2>2. Init => Progress
      BY DEF Init, ServiceInit, Progress, Middle
    <2> QED
      BY <2>1, <2>2, InitType, InitStale DEF Honest
  <1>2. Honest /\ [Next]_apiVars => Honest'
    BY NextType, GenerationsKept, PhasesKept, ProgressKept, SameSpecKept,
       ReportedKept DEF Honest
  <1>3. Honest /\ [Next]_apiVars => [Promise!Next]_(Promise!vars)
    BY StepRefines
  <1> QED
    BY <1>1, <1>2, <1>3, InitRefines, PTL DEF Spec, KeepsPromise, Promise!Spec

-----------------------------------------------------------------------------
(***************************************************************************)
(* Finalizers: what is held is held by a resource that has to let go.      *)
(***************************************************************************)

\* The steps between the finalizer on Memcached and the end of a reconcile.
AfterMemcached == {"config", "caBundle", "apiCerts", "deploy", "service",
                   "endpoint"}

\* A copy that is under deletion has the spec there is: no other is written.
Final == /\ cache.phase # "Live" => cache.spec = cr.spec
         /\ pc # "idle" /\ base.phase # "Live" => base.spec = cr.spec

\* Nothing carries the finalizer of a live resource that has none itself, nor
\* of one that is gone, and no copy is read as if it had one that it lost.
Holding ==
    /\ cr.phase = "Gone" => ~cr.fin /\ cr.spec.memcached \notin memFin
    /\ cr.phase = "Deleting" => cr.fin
    /\ cr.phase = "Live" /\ ~cr.fin => memFin = {}
    /\ ~cr.fin => ~ke.fin
    /\ cache.phase = "Live" /\ cache.fin => cr.fin
    /\ cache.phase = "Deleting" => cache.fin
    /\ pc # "idle" =>
          /\ base.phase = "Live" /\ base.fin => cr.fin
          /\ base.phase # "Live" => cache.phase # "Live"
          /\ base.phase = "Deleting" => base.fin
          /\ base.phase # "Gone"
    /\ pc \in Middle \cup {"delete", "release"} => base.fin /\ inst.fin
    /\ pc = "release" => ~ke.fin
    /\ pc = "exit" /\ ~inst.fin =>
          /\ base.phase = "Deleting" /\ base.spec.memcached \notin memFin
          /\ ~ke.fin

\* The StatefulSet and a KeystoneEndpoint with URLs come after the finalizer on
\* Memcached, and no user can remove a Memcached that carries it.
Carried ==
    /\ memFin # {} => input["memcached"] # Absent
    /\ cr.phase = "Live" /\ ke.url # NoURL => ke.fin /\ memFin # {}
    /\ cr.phase = "Live" /\ sts.exists => memFin # {}
    /\ pc \in AfterMemcached => memFin # {}

\* A reconcile that starts works on a resource with its finalizer, or sets it
\* and ends.
LEMMA StartFinalizer ==
    ASSUME TypeOK, Start, pc' # "idle"
    PROVE  /\ pc = "idle" /\ cache.phase # "Gone"
           /\ base' = cache /\ pc' \in {"exit", "delete", "secret"}
           /\ inst'.fin = (cache.fin \/ cache.phase = "Live")
           /\ pc' = "secret" => cache.phase = "Live" /\ cache.fin
           /\ pc' = "delete" => cache.phase = "Deleting"
           /\ UNCHANGED <<cr, cache, memFin, ke>>
  <1>0. cache \in Resources
    BY TypeOKUnfolded DEF Types
  <1> DEFINE o == InitStatus(cache)
             f == [o EXCEPT !.fin = TRUE]
             adds == cache.phase = "Live" /\ ~cache.fin
  <1>1. o.fin = cache.fin /\ f.fin = TRUE
    BY <1>0, InitStatusFacts
  <1>2. /\ pc = "idle" /\ cache.phase # "Gone" /\ base' = cache
        /\ inst' = IF adds THEN f ELSE o
        /\ pc' = IF adds \/ NilConditions(cache.cond) THEN "exit"
                 ELSE IF cache.phase = "Deleting" THEN "delete"
                 ELSE "secret"
        /\ UNCHANGED <<cr, cache, memFin, ke>>
    BY DEF Start, Fetch, controllerVars, NotExposing
  <1>3. /\ cache.phase \in {"Live", "Deleting"}
        /\ cache.fin \in BOOLEAN
    BY <1>0, <1>2 DEF Resources, CRs
  <1> HIDE DEF o, f
  <1> QED
    BY <1>1, <1>2, <1>3

\* The patch writes the finalizer only if it differs, and the API server drops
\* a resource under deletion with it.
LEMMA PatchFinalizer ==
    ASSUME NEW server \in Resources, NEW before \in Resources,
           NEW after \in Resources, server.phase # "Gone"
    PROVE  LET p == PatchInstance(server, before, after)
               fin == IF after.fin # before.fin THEN after.fin ELSE server.fin
           IN  /\ p.fin = fin
               /\ p.phase = (IF server.phase = "Deleting" /\ ~fin THEN "Gone"
                             ELSE server.phase)
  <1> DEFINE w == [server EXCEPT
                     !.fin  = IF after.fin # before.fin THEN after.fin ELSE @,
                     !.obs  = IF after.obs # before.obs THEN after.obs ELSE @,
                     !.cond = IF after.cond # before.cond THEN after.cond ELSE @,
                     !.hash = IF after.hash # before.hash THEN after.hash ELSE @,
                     !.readyCount =
                        IF after.readyCount # before.readyCount
                        THEN after.readyCount ELSE @]
             fin == IF after.fin # before.fin THEN after.fin ELSE server.fin
  <1>1. /\ w.fin = fin /\ w.phase = server.phase
        /\ [w EXCEPT !.phase = "Gone"].fin = fin
        /\ [w EXCEPT !.phase = "Gone"].phase = "Gone"
    BY DEF Resources, CRs
  <1>2. PatchInstance(server, before, after) =
            IF w.phase = "Deleting" /\ ~w.fin
            THEN [w EXCEPT !.phase = "Gone"] ELSE w
    BY DEF PatchInstance
  <1> HIDE DEF w
  <1> QED
    BY <1>1, <1>2

\* At the end of a reconcile the finalizer is what the reconcile made of it.
LEMMA ExitFinalizer ==
    ASSUME TypeOK, Exit
    PROVE  \/ cr' = cr
           \/ /\ cr.phase # "Gone"
              /\ cr'.fin = (IF inst.fin # base.fin THEN inst.fin ELSE cr.fin)
              /\ cr'.phase = (IF cr.phase = "Deleting" /\ ~cr'.fin THEN "Gone"
                              ELSE cr.phase)
  <1>0. Types
    BY TypeOKUnfolded
  <1> DEFINE after == [inst EXCEPT !.cond = MirrorUndecided(inst.cond)]
  <1>1. after \in Resources /\ after.fin = inst.fin
    BY <1>0, MirrorFacts DEF Types
  <1>2. cr' = PatchInstance(cr, base, after) \/ cr' = cr
    BY DEF Exit
  <1> HIDE DEF after
  <1>3. cr.phase = "Gone" => PatchInstance(cr, base, after) = cr
    BY DEF PatchInstance
  <1> QED
    BY <1>0, <1>1, <1>2, <1>3, PatchFinalizer DEF Types

\* What a step within a reconcile does to the finalizers on other objects.
LEMMA InnerFinalizers ==
    ASSUME TypeOK, Inner
    PROVE  /\ pc \notin {"memcached", "release"} => memFin' = memFin
           /\ pc = "memcached" =>
                 \/ /\ memFin' # {} /\ pc' = "config"
                    /\ input["memcached"] \in Versions
                 \/ memFin' = memFin /\ pc' = "exit"
           /\ sts' # sts => pc = "deploy"
           /\ pc = "release" =>
                 /\ pc' = "exit"
                 /\ \/ memFin' = memFin /\ inst' = inst
                    \/ memFin' = memFin \ {base.spec.memcached}
           /\ pc = "endpoint" /\ ke' # ke =>
                 ke'.fin /\ ke'.url = base.spec.url
           /\ pc = "delete" =>
                 \/ pc' = "release" /\ ~ke'.fin /\ ke'.url = ke.url
                 \/ pc' = "exit" /\ ke' = ke
           /\ pc' \in AfterMemcached => pc \in AfterMemcached \cup {"memcached"}
           /\ pc \in Middle => pc' \in Middle \cup {"exit"}
  <1>0. Types
    BY TypeOKUnfolded
  <1>1. CASE \/ Secret \/ PrometheusSecret \/ ServiceConfigs
             \/ CABundle \/ APICerts \/ EnsureDeployment
             \/ EnsureServiceExposed
    BY <1>1 DEF Secret, EnsureSecret, PrometheusSecret, RequireSecret,
                ServiceConfigs, KeystoneMissing, ConfigsFail, CABundle,
                CertificateFails, APICerts, EnsureDeployment,
                EnsureServiceExposed, Return, GoTo, Middle, AfterMemcached
  <1>2. CASE Memcached
    BY <1>2 DEF Memcached, EnsureMemcached, AddFinalizer, Return, GoTo, Middle,
                AfterMemcached
  <1>3. CASE EnsureKeystoneEndpoint
    <2>1. ke \in Endpoints
      BY <1>0 DEF Types
    <2> QED
      BY <1>3, <2>1 DEF EnsureKeystoneEndpoint, Return, Middle, AfterMemcached,
                        Endpoints
  <1>4. CASE KeystoneEndpointDeletion
    <2>1. ke \in Endpoints
      BY <1>0 DEF Types
    <2> QED
      BY <1>4, <2>1 DEF KeystoneEndpointDeletion, Return, GoTo, Middle,
                        AfterMemcached, Endpoints
  <1>5. CASE ReconcileDelete
    BY <1>5 DEF ReconcileDelete, ReleaseMemcached, RemoveFinalizer, Return,
                Middle, AfterMemcached
  <1> QED
    BY <1>1, <1>2, <1>3, <1>4, <1>5 DEF Inner

\* Who else takes a step changes no finalizer, and removes nothing that has
\* one.
LEMMA OuterFinalizers ==
    ASSUME TypeOK, Outer
    PROVE  /\ UNCHANGED <<pc, base, inst, memFin>>
           /\ ke'.fin = ke.fin /\ ke'.url = ke.url
           /\ cr'.fin = cr.fin
           /\ \/ cr'.phase = cr.phase
              \/ /\ cr.phase = "Live" /\ cr'.spec = cr.spec
                 /\ cr'.phase = IF cr.fin THEN "Deleting" ELSE "Gone"
           /\ cr'.spec # cr.spec => cr.phase = "Live" /\ cr'.phase = "Live"
           /\ cache' = cache \/ (cache' = cr /\ cr' = cr)
           /\ memFin # {} /\ input["memcached"] # Absent =>
                 input'["memcached"] # Absent
  <1>0. Types /\ Facts
    BY TypeOKUnfolded, FactsHold
  <1>1. /\ UNCHANGED <<pc, base, inst, memFin>>
        /\ cache' = cache \/ (cache' = cr /\ cr' = cr)
    BY OuterFacts DEF controllerVars
  <1>2. ke'.fin = ke.fin /\ ke'.url = ke.url
    <2>1. ke \in Endpoints
      BY <1>0 DEF Types
    <2> QED
      BY <2>1 DEF Outer, Cluster, AssignAddress, RegisterEndpoint,
                  DisturbExposure, NotExposing, apiVars, Endpoints
  <1>3. CASE UpdateSpec
    <2>1. PICK s \in Specs : cr' = [cr EXCEPT !.spec = s, !.gen = @ + 1]
      BY <1>3 DEF UpdateSpec
    <2>2. cr.phase = "Live" /\ input' = input
      BY <1>3 DEF UpdateSpec
    <2>3. cr'.fin = cr.fin /\ cr'.phase = cr.phase
      BY <1>0, <2>1 DEF Types, Resources, CRs
    <2> QED
      BY <1>1, <1>2, <2>2, <2>3
  <1>4. CASE DeleteCR
    <2> DEFINE p == IF cr.fin THEN "Deleting" ELSE "Gone"
    <2>1. cr' = [cr EXCEPT !.phase = p, !.gen = @ + 1]
      BY <1>4 DEF DeleteCR
    <2>2. cr.phase = "Live" /\ input' = input
      BY <1>4 DEF DeleteCR
    <2> HIDE DEF p
    <2>3. cr'.fin = cr.fin /\ cr'.phase = p /\ cr'.spec = cr.spec
      BY <1>0, <2>1 DEF Types, Resources, CRs
    <2> QED
      BY <1>1, <1>2, <2>2, <2>3 DEF p
  <1>5. CASE ChangeInput
    <2>1. PICK i \in APIInputs, v \in InputStates :
              /\ i = "memcached" /\ v = Absent => memFin = {}
              /\ input' = [input EXCEPT ![i] = v]
      BY <1>0, <1>5 DEF ChangeInput, Types
    <2>2. memFin # {} /\ input["memcached"] # Absent =>
              input'["memcached"] # Absent
      BY <1>0, <2>1 DEF Types, Facts
    <2>3. cr' = cr
      BY <1>5 DEF ChangeInput
    <2> QED
      BY <1>1, <1>2, <2>2, <2>3
  <1>6. CASE cr' = cr /\ input' = input
    BY <1>1, <1>2, <1>6
  <1> QED
    BY <1>3, <1>4, <1>5, <1>6
       DEF Outer, StsController, ObserveSts, RollSts, ScaleSts, StsEvent,
           SyncCache, DisturbSts, Cluster, AssignAddress,
           RegisterEndpoint, DisturbExposure, ExposureEvent, apiVars, vars

\* Every step keeps the copies under deletion right about the spec.
LEMMA FinalKept ==
    ASSUME TypeOK, Phases, Final, [Next]_apiVars
    PROVE  Final'
  <1>1. CASE Start
    BY <1>1, StartFacts DEF Final
  <1>2. CASE Inner
    BY <1>2, InnerFacts DEF Final
  <1>3. CASE Exit /\ NotExposing
    BY <1>3, ExitFacts DEF Final
  <1>4. CASE Crash /\ NotExposing
    BY <1>4 DEF Final, Crash, Forget
  <1>5. CASE Outer
    BY <1>5, OuterFinalizers DEF Final, Phases
  <1> QED
    BY <1>1, <1>2, <1>3, <1>4, <1>5, StepCases

\* Every step keeps the finalizers on other objects behind the resource's own.
LEMMA HoldingKept ==
    ASSUME TypeOK, Phases, Progress, Final, Holding, [Next]_apiVars
    PROVE  Holding'
  <1>0. Types
    BY TypeOKUnfolded
  <1>T. /\ {cr.phase, cache.phase, base.phase}
              \subseteq {"Live", "Deleting", "Gone"}
        /\ {cr.fin, cache.fin, base.fin, inst.fin, ke.fin} \subseteq BOOLEAN
    BY <1>0 DEF Types, Resources, CRs, Endpoints
  <1>1. CASE Start
    <2>1. CASE pc' = "idle"
      <3>1. UNCHANGED <<cr, cache, memFin, ke>>
        BY <1>1, StartFacts DEF Start, NotExposing
      <3> QED
        BY <2>1, <3>1 DEF Holding, Middle
    <2>2. CASE pc' # "idle"
      <3>1. UNCHANGED <<cr, cache, memFin, ke>> /\ base' = cache
        BY <1>1, <2>2, StartFinalizer
      <3>2. /\ base'.fin \/ pc' = "exit"
            /\ inst'.fin /\ cache.phase # "Gone"
        BY <1>1, <1>T, <2>2, StartFinalizer DEF Holding
      <3>3. pc' \in {"exit", "delete", "secret"}
        BY <1>1, <2>2, StartFinalizer
      <3> QED
        BY <2>2, <3>1, <3>2, <3>3 DEF Holding, Middle
    <2> QED
      BY <2>1, <2>2
  <1>2. CASE Inner
    <2>1. UNCHANGED <<cr, cache, base>> /\ pc \notin {"idle", "exit"}
      BY <1>2, InnerFacts
    <2>2. CASE pc \in Middle
      <3>1. base.phase = "Live" /\ base.fin /\ inst.fin /\ cr.fin
        BY <2>1, <2>2 DEF Holding, Progress, Middle
      <3>2. inst'.fin /\ pc' \in Middle \cup {"exit"}
        BY <1>2, <2>2, <3>1, InnerFacts, InnerFinalizers DEF Middle
      <3> QED
        BY <2>1, <2>2, <3>1, <3>2 DEF Holding, Middle
    <2>3. CASE pc = "delete"
      <3>1. /\ memFin' = memFin /\ base.fin /\ inst'.fin
            /\ \/ pc' = "release" /\ ~ke'.fin
               \/ pc' = "exit" /\ ke' = ke
        BY <1>2, <2>3, InnerFacts, InnerFinalizers DEF Holding
      <3> QED
        BY <2>1, <2>3, <3>1 DEF Holding, Middle
    <2>4. CASE pc = "release"
      <3>1. /\ pc' = "exit" /\ ke' = ke /\ ~ke.fin /\ inst.fin
            /\ base.phase = "Deleting"
            /\ \/ memFin' = memFin /\ inst' = inst
               \/ memFin' = memFin \ {base.spec.memcached}
        BY <1>2, <2>4, InnerExposure, InnerFinalizers DEF Holding, Phases
      <3> QED
        BY <2>1, <2>4, <3>1 DEF Holding, Middle
    <2> QED
      BY <1>0, <2>1, <2>2, <2>3, <2>4 DEF Types
  <1>3. CASE Exit /\ NotExposing
    <2>1. /\ pc = "exit" /\ pc' = "idle" /\ cr'.spec = cr.spec
          /\ UNCHANGED <<cache, memFin, ke>>
      BY <1>3, ExitFacts DEF Exit, NotExposing
    <2>2. CASE cr' = cr
      BY <2>1, <2>2 DEF Holding, Middle
    <2>3. CASE /\ cr.phase # "Gone"
               /\ cr'.fin = (IF inst.fin # base.fin THEN inst.fin ELSE cr.fin)
               /\ cr'.phase = (IF cr.phase = "Deleting" /\ ~cr'.fin THEN "Gone"
                               ELSE cr.phase)
      <3>1. CASE cr'.fin = cr.fin
        BY <1>T, <2>1, <2>3, <3>1 DEF Holding, Middle
      <3>2. CASE cr'.fin = TRUE /\ ~cr.fin
        BY <1>T, <2>1, <2>3, <3>2 DEF Holding, Middle
      <3>3. CASE ~inst.fin /\ cr'.fin = inst.fin
        <4>1. /\ base.phase = "Deleting" /\ cr.phase = "Deleting"
              /\ cache.phase # "Live" /\ ~ke.fin
              /\ cr.spec.memcached \notin memFin
          BY <1>T, <2>1, <2>3, <3>3 DEF Holding, Phases, Final
        <4> QED
          BY <1>T, <2>1, <2>3, <3>3, <4>1 DEF Holding, Middle
      <3> QED
        BY <1>T, <2>3, <3>1, <3>2, <3>3
    <2> QED
      BY <1>3, <2>2, <2>3, ExitFinalizer
  <1>4. CASE Crash /\ NotExposing
    BY <1>T, <1>4 DEF Holding, Crash, Forget, NotExposing, Middle
  <1>5. CASE Outer
    <2>1. /\ UNCHANGED <<pc, base, inst, memFin>>
          /\ ke'.fin = ke.fin /\ cr'.fin = cr.fin
      BY <1>5, OuterFinalizers
    <2>2. /\ cr'.phase = "Gone" =>
               ~cr'.fin /\ cr'.spec.memcached \notin memFin'
          /\ cr'.phase = "Deleting" => cr'.fin
          /\ cr'.phase = "Live" /\ ~cr'.fin => memFin' = {}
          /\ ~cr'.fin => ~ke'.fin
      BY <1>5, <2>1, OuterFinalizers DEF Holding
    <2>3. CASE cache' = cache
      BY <2>1, <2>2, <2>3 DEF Holding
    <2>4. CASE cache' = cr /\ cr' = cr
      <3>1. pc # "idle" /\ base.phase # "Live" => cr.phase # "Live"
        BY DEF Phases
      <3> QED
        BY <2>1, <2>2, <2>4, <3>1 DEF Holding
    <2> QED
      BY <1>5, <2>3, <2>4, OuterFinalizers
  <1> QED
    BY <1>1, <1>2, <1>3, <1>4, <1>5, StepCases

\* Every step keeps the finalizers on as long as the resource lives.
LEMMA CarriedKept ==
    ASSUME TypeOK, Phases, Progress, Carried, [Next]_apiVars
    PROVE  Carried'
  <1>0. Types
    BY TypeOKUnfolded
  <1>1. CASE Start
    <2>1. /\ pc' \notin AfterMemcached
          /\ UNCHANGED <<cr, memFin, ke, sts, input>>
      BY <1>1, StartFacts DEF AfterMemcached, Start, NotExposing
    <2> QED
      BY <2>1 DEF Carried
  <1>2. CASE Inner
    <2>1. /\ UNCHANGED <<cr, base, input>> /\ pc \notin {"idle", "exit"}
          /\ sts' # sts => pc = "deploy"
      BY <1>2, InnerFacts, InnerFinalizers
    <2>2. CASE pc \in {"delete", "release"}
      <3>1. /\ cr.phase # "Live" /\ pc' \notin AfterMemcached
            /\ memFin' \subseteq memFin
        BY <1>2, <2>2, InnerFinalizers DEF Phases, AfterMemcached
      <3> QED
        BY <2>1, <3>1 DEF Carried
    <2>3. CASE pc = "memcached"
      <3>1. /\ ke' = ke
            /\ \/ /\ memFin' # {} /\ pc' = "config"
                  /\ input["memcached"] # Absent
               \/ memFin' = memFin /\ pc' = "exit"
        BY <1>0, <1>2, <2>3, InnerExposure, InnerFinalizers, InputAssumption
      <3> QED
        BY <2>1, <3>1 DEF Carried, AfterMemcached
    <2>4. CASE pc = "endpoint"
      <3>1. /\ memFin' = memFin /\ memFin # {}
            /\ ke' # ke => ke'.fin
        BY <1>2, <2>4, InnerFinalizers DEF Carried, AfterMemcached
      <3> QED
        BY <2>1, <3>1 DEF Carried
    <2>5. CASE pc \notin {"delete", "release", "memcached", "endpoint"}
      <3>1. /\ UNCHANGED <<memFin, ke>>
            /\ pc' \in AfterMemcached => pc \in AfterMemcached
        BY <1>2, <2>5, InnerExposure, InnerFinalizers DEF AfterMemcached
      <3>2. sts' # sts => memFin # {}
        BY <2>1 DEF Carried, AfterMemcached
      <3> QED
        BY <2>1, <3>1, <3>2 DEF Carried
    <2> QED
      BY <2>2, <2>3, <2>4, <2>5
  <1>3. CASE Exit /\ NotExposing
    BY <1>3, ExitFacts DEF Carried, AfterMemcached, NotExposing
  <1>4. CASE Crash /\ NotExposing
    BY <1>4 DEF Carried, AfterMemcached, Crash, Forget, NotExposing
  <1>5. CASE Outer
    <2>1. /\ UNCHANGED <<pc, memFin>> /\ (sts'.exists => sts.exists)
          /\ ke'.fin = ke.fin /\ ke'.url = ke.url
          /\ cr.phase # "Live" => cr'.phase # "Live"
          /\ memFin # {} /\ input["memcached"] # Absent =>
                input'["memcached"] # Absent
      BY <1>5, OuterFacts, OuterFinalizers
    <2> QED
      BY <2>1 DEF Carried
  <1> QED
    BY <1>1, <1>2, <1>3, <1>4, <1>5, StepCases

\* What the proofs about finalizers rest on.
Owned == /\ TypeOK /\ Generations /\ Phases /\ Progress
         /\ Final /\ Holding /\ Carried

\* It holds throughout.
LEMMA OwnedHolds == Spec => []Owned
  <1>1. Init => Owned
    <2> SUFFICES ASSUME Init PROVE Owned
      OBVIOUS
    <2>1. PICK s \in Specs : cr = NewCR(s, APIConditions)
      BY DEF Init, ServiceInit
    <2>2. cr.phase = "Live" /\ ~cr.fin
      BY <2>1 DEF NewCR
    <2>3. /\ pc = "idle" /\ cache = cr /\ memFin = {} /\ ke = NoEndpoint
          /\ outcome = "none" /\ sts = NoSts
      BY DEF Init, ServiceInit
    <2>4. Progress /\ Final /\ Holding
      BY <2>2, <2>3 DEF Progress, Final, Holding, Middle, NoEndpoint
    <2>5. Carried
      BY <2>3 DEF Carried, AfterMemcached, NoEndpoint, NoSts
    <2> QED
      BY <2>4, <2>5, InitType, InitStale DEF Owned
  <1>2. Owned /\ [Next]_apiVars => Owned'
    BY NextType, GenerationsKept, PhasesKept, ProgressKept, FinalKept,
       HoldingKept, CarriedKept DEF Owned
  <1> QED
    BY <1>1, <1>2, PTL DEF Spec

\* Nothing is held back.  When the resource is gone, neither the Memcached
\* instance that its spec named last nor the KeystoneEndpoint carries a
\* finalizer of it, whatever failed on the way, and both carry one as long as
\* it lives and Keystone was told of an endpoint: the finalizers are set before
\* the resources are used, and the resource's own is removed last.
THEOREM NothingIsHeldBack == Spec => []NothingHeldBack
  <1>1. Owned => NothingHeldBack
    BY DEF Owned, Holding, Carried, NothingHeldBack, MemcachedReleased
  <1> QED
    BY <1>1, OwnedHolds, PTL

\* As long as the resource is not deleted, the Memcached instance cannot
\* disappear under the pods that were configured with it: the reconciler puts
\* its finalizer on an instance before it creates the StatefulSet, and no other
\* path, restart or stale copy leads there.
THEOREM MemcachedIsProtected == Spec => []MemcachedProtected
  <1>1. Owned => MemcachedProtected
    BY DEF Owned, Carried, MemcachedProtected
  <1> QED
    BY <1>1, OwnedHolds, PTL
=============================================================================
