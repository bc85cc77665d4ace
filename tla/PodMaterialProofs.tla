------------------------- MODULE PodMaterialProofs --------------------------
(***************************************************************************)
(* Proofs about what the pods of a service work with, for any number of    *)
(* pods, changes of the secrets and restarts of the operator.              *)
(***************************************************************************)
EXTENDS PodMaterial, TLAPS

\* f stands for nothing newer than a container finds that starts now.
Backed(f) == \A m \in Materials : f[m] <= Holdings[m]

\* How far the reconcile is: it has read nothing yet, what the configuration
\* is to be rendered from, or only what the containers find, too.
Reading ==
    /\ pc \in {"idle", "inputs"} => read = NothingRead
    /\ pc = "render" => \A m \in Materials :
                            IF m \in Rendered THEN config[m] <= read[m]
                                              ELSE read[m] = 0
    /\ pc \in {"tls", "hash", "deploy"} => Backed(read)

\* The configuration is rendered from what the informer has seen, and what
\* announces it comes after it: the template, and the hash a pod has got from
\* the template.
Behind ==
    /\ \A m \in Rendered : config[m] <= seen[m]
    /\ template # None => Backed(template)
    /\ \A p \in Pods : pods[p] # None =>
          /\ Backed(pods[p].hash)
          /\ \A m \in Materials : /\ pods[p].hash[m] <= pods[p].holds[m]
                                  /\ pods[p].holds[m] <= stored[m]

\* f has the informer's version of every secret in ms.
Fresh(f, ms) == \A m \in ms : f[m] = seen[m]

\* As long as no event waits in the queue, what the reconcile has read is what
\* the informer has seen; between two reconciles this holds of the template,
\* unless a secret is missing.
Quiet ==
    ~awake =>
        /\ pc \in {"render", "tls"} => Fresh(read, Rendered)
        /\ pc \in {"hash", "deploy"} => Fresh(read, Followed)
        /\ pc = "idle" => \/ \E m \in Followed : seen[m] = 0
                          \/ Fresh(template, Followed)

\* What is preserved together.
Inv == TypeOK /\ Reading /\ Behind /\ Quiet

-----------------------------------------------------------------------------
(***************************************************************************)
(* The secrets of a resource.                                              *)
(***************************************************************************)

\* Which secrets are rendered, checked, followed and watched.
LEMMA SecretFacts ==
    ASSUME kind \in Kinds, uses \subseteq MountedBy(kind)
    PROVE  /\ Rendered \subseteq Materials /\ Mounted \subseteq Materials
           /\ Checked \subseteq Mounted /\ Checked \cap Rendered = {}
           /\ Rendered \cap Mounted = {}
           /\ Followed = Rendered \cup Checked
           /\ Followed \subseteq Watched
           /\ Relevant \subseteq Materials
  BY KindAssumption
     DEF Rendered, Mounted, MountedBy, Checked, Followed, Relevant, Watched,
         Materials

\* The end of a reconcile.
LEMMA ReturnFacts ==
    ASSUME awake \in BOOLEAN, NEW wake \in BOOLEAN, Return(wake)
    PROVE  /\ pc' = "idle" /\ read' = NothingRead
           /\ awake' \in BOOLEAN /\ (awake' <=> awake \/ wake)
  BY Zenon DEF Return

\* An event for the key.
LEMMA AwakeFacts ==
    ASSUME awake \in BOOLEAN, NEW m, Sync(m)
    PROVE  awake' \in BOOLEAN /\ (awake' <=> awake \/ m \in Watched)
  BY Zenon DEF Sync

\* Nothing read is a version of each.
LEMMA NothingFacts == /\ NothingRead \in Versions
                      /\ \A m \in Materials : NothingRead[m] = 0
  BY DEF NothingRead, Versions

\* Reading some of the secrets over what was read before.
LEMMA OverFacts ==
    ASSUME NEW f \in Versions, NEW g \in Versions, NEW ms
    PROVE  /\ Over(f, g, ms) \in Versions
           /\ \A m \in Materials : m \in ms => Over(f, g, ms)[m] = g[m]
           /\ \A m \in Materials : m \notin ms => Over(f, g, ms)[m] = f[m]
  BY DEF Over, Versions

\* A version is a number.
LEMMA VersionFacts == \A f \in Versions, m \in Materials : f[m] \in Nat
  BY DEF Versions

\* What a container finds that starts now.
LEMMA HoldingsFacts ==
    ASSUME TypeOK
    PROVE  /\ Holdings \in Versions
           /\ \A m \in Rendered : Holdings[m] = config[m]
           /\ \A m \in Mounted : Holdings[m] = stored[m]
           /\ \A m \in Materials :
                 m \notin Rendered \cup Mounted => Holdings[m] = 0
  <1>1. /\ Rendered \subseteq Materials /\ Mounted \subseteq Materials
        /\ Rendered \cap Mounted = {}
        /\ config \in Versions /\ stored \in Versions
    BY SecretFacts DEF TypeOK
  <1> QED
    BY <1>1 DEF Holdings, Versions

\* What is read at no time is newer than what is stored.
LEMMA OrderFacts ==
    ASSUME TypeOK
    PROVE  /\ stored \in Versions /\ seen \in Versions /\ read \in Versions
           /\ config \in Versions
           /\ \A m \in Materials : /\ stored[m] \in Nat /\ seen[m] \in Nat
                                   /\ read[m] \in Nat /\ config[m] \in Nat
                                   /\ read[m] <= seen[m] /\ seen[m] <= stored[m]
  BY VersionFacts DEF TypeOK

-----------------------------------------------------------------------------
(***************************************************************************)
(* The types.                                                              *)
(***************************************************************************)

\* The types hold in the beginning ...
LEMMA InitType == Init => TypeOK
  <1> SUFFICES ASSUME Init PROVE TypeOK
    OBVIOUS
  <1>1. /\ stored \in Versions
        /\ \A m \in Materials : 0 <= stored[m]
    BY DEF Init, Versions
  <1>2. kind \in Kinds /\ uses \subseteq MountedBy(kind)
    BY DEF Init
  <1>3. \A m \in Materials : read[m] <= seen[m] /\ seen[m] <= stored[m]
    BY <1>1, NothingFacts, VersionFacts DEF Init
  <1> QED
    BY <1>1, <1>2, <1>3, NothingFacts, BoundAssumption DEF Init, TypeOK

\* ... and every step preserves them.
LEMMA NextType == TypeOK /\ [Next]_vars => TypeOK'
  <1> SUFFICES ASSUME TypeOK, [Next]_vars PROVE TypeOK'
    OBVIOUS
  <1>0. /\ NothingRead \in Versions
        /\ \A m \in Materials : NothingRead[m] = 0
    BY NothingFacts
  <1>V. /\ stored \in Versions /\ seen \in Versions /\ read \in Versions
        /\ config \in Versions
        /\ \A m \in Materials : /\ stored[m] \in Nat /\ seen[m] \in Nat
                                /\ read[m] \in Nat
                                /\ read[m] <= seen[m] /\ seen[m] <= stored[m]
    BY OrderFacts
  <1>R. Relevant \subseteq Materials
    BY SecretFacts DEF TypeOK
  <1>B. awake \in BOOLEAN
    BY DEF TypeOK
  <1>1. CASE Start
    BY <1>1 DEF Start, TypeOK, resourceVars, outputVars
  <1>2. CASE EnsureSecrets
    <2>1. \/ awake' \in BOOLEAN /\ read' = NothingRead /\ pc' = "idle"
          \/ awake' = awake /\ read' = Over(read, seen, Rendered) /\ pc' = "render"
      BY <1>2, <1>B, ReturnFacts DEF EnsureSecrets
    <2>2. read' \in Versions /\ \A m \in Materials : read'[m] <= seen[m]
      BY <1>0, <1>V, <2>1, OverFacts
    <2> QED
      BY <1>2, <2>1, <2>2 DEF EnsureSecrets, TypeOK, resourceVars, outputVars
  <1>3. CASE Render
    BY <1>3 DEF Render, TypeOK, resourceVars
  <1>4. CASE ValidateTLS
    <2>1. \/ awake' \in BOOLEAN /\ read' = NothingRead /\ pc' = "idle"
          \/ awake' = awake /\ read' = Over(read, seen, Checked) /\ pc' = "hash"
      BY <1>4, <1>B, ReturnFacts DEF ValidateTLS
    <2>2. read' \in Versions /\ \A m \in Materials : read'[m] <= seen[m]
      BY <1>0, <1>V, <2>1, OverFacts
    <2> QED
      BY <1>4, <2>1, <2>2 DEF ValidateTLS, TypeOK, resourceVars, outputVars
  <1>5. CASE CheckHash
    <2>1. \/ awake' \in BOOLEAN /\ read' = NothingRead /\ pc' = "idle"
          \/ awake' = awake /\ read' = read /\ pc' = "deploy"
      BY <1>5, <1>B, ReturnFacts DEF CheckHash
    <2>2. read' \in Versions /\ \A m \in Materials : read'[m] <= seen[m]
      BY <1>0, <1>V, <2>1
    <2>3. recorded' \in Versions \cup {None}
      BY <1>V, <1>5 DEF CheckHash, TypeOK
    <2> QED
      BY <1>5, <2>1, <2>2, <2>3 DEF CheckHash, TypeOK, resourceVars
  <1>6. CASE EnsureDeployment
    <2>1. awake' \in BOOLEAN /\ read' = NothingRead /\ pc' = "idle"
      BY <1>6, <1>B, ReturnFacts DEF EnsureDeployment
    <2>2. template' \in Versions
      BY <1>6, <1>V DEF EnsureDeployment
    <2> QED
      BY <1>0, <1>V, <1>6, <2>1, <2>2 DEF EnsureDeployment, TypeOK, resourceVars
  <1>7. CASE Crash
    <2>1. awake' \in BOOLEAN /\ pc' = "idle" /\ read' = NothingRead
      BY <1>7, <1>B, ReturnFacts DEF Crash
    <2>2. changes' \in 0 .. MaxChanges
      BY <1>7, BoundAssumption DEF Crash, TypeOK
    <2> QED
      BY <1>0, <1>V, <1>7, <2>1, <2>2 DEF Crash, TypeOK, resourceVars, outputVars
  <1>8. ASSUME NEW m \in Relevant, Change(m) PROVE TypeOK'
    <2>1. /\ stored' \in Versions
          /\ \A n \in Materials : seen[n] <= stored'[n]
      BY <1>V, <1>R, <1>8 DEF Change, Versions
    <2>2. changes' \in 0 .. MaxChanges
      BY <1>8, BoundAssumption DEF Change, TypeOK
    <2> QED
      BY <1>8, <2>1, <2>2 DEF Change, TypeOK, resourceVars, reconcileVars, outputVars
  <1>9. ASSUME NEW m \in Relevant, Sync(m) PROVE TypeOK'
    <2>1. /\ seen' \in Versions
          /\ \A n \in Materials : read[n] <= seen'[n] /\ seen'[n] <= stored[n]
      BY <1>V, <1>R, <1>9 DEF Sync, Versions
    <2>2. awake' \in BOOLEAN
      BY <1>9, <1>B, AwakeFacts
    <2> QED
      BY <1>9, <2>1, <2>2 DEF Sync, TypeOK, resourceVars, outputVars
  <1>10. ASSUME NEW p \in Pods, PodStep(p) PROVE TypeOK'
    <2>1. Holdings \in Versions
      BY HoldingsFacts
    <2>2. CASE StopPod(p)
      <3>1. pods' \in [Pods -> [hash : Versions, holds : Versions] \cup {None}]
        BY <2>2 DEF StopPod, TypeOK
      <3> QED
        BY <1>10, <3>1 DEF PodStep, TypeOK, resourceVars, reconcileVars, outputVars
    <2>3. CASE StartPod(p)
      <3>1. template \in Versions
        BY <2>3 DEF StartPod, TypeOK
      <3>2. pods' \in [Pods -> [hash : Versions, holds : Versions] \cup {None}]
        BY <2>1, <2>3, <3>1 DEF StartPod, TypeOK
      <3> QED
        BY <1>10, <3>2 DEF PodStep, TypeOK, resourceVars, reconcileVars, outputVars
    <2>4. CASE RestartContainer(p)
      <3>1. pods[p] \in [hash : Versions, holds : Versions]
        BY <2>4 DEF RestartContainer, TypeOK
      <3>2. pods' \in [Pods -> [hash : Versions, holds : Versions] \cup {None}]
        BY <2>1, <2>4, <3>1 DEF RestartContainer, TypeOK
      <3> QED
        BY <1>10, <3>2 DEF PodStep, TypeOK, resourceVars, reconcileVars, outputVars
    <2> QED
      BY <1>10, <2>2, <2>3, <2>4 DEF PodStep
  <1>11. CASE UNCHANGED vars
    BY <1>11 DEF vars, TypeOK, resourceVars, reconcileVars, outputVars
  <1> QED
    BY <1>1, <1>2, <1>3, <1>4, <1>5, <1>6, <1>7, <1>8, <1>9, <1>10, <1>11
       DEF Next, Reconcile

-----------------------------------------------------------------------------
(***************************************************************************)
(* Nothing goes back.                                                      *)
(***************************************************************************)

\* The resource stays as it is, secrets and copies get newer, and only the
\* step that renders writes the configuration.
LEMMA StepFacts ==
    ASSUME TypeOK, [Next]_vars
    PROVE  /\ Rendered' = Rendered /\ Mounted' = Mounted
           /\ Checked' = Checked /\ Followed' = Followed
           /\ \A m \in Materials : stored[m] <= stored'[m] /\ seen[m] <= seen'[m]
           /\ config' = config \/ (pc = "render" /\ config' = read)
  <1>0. /\ stored \in Versions /\ seen \in Versions
        /\ \A m \in Materials : /\ stored[m] \in Nat /\ seen[m] \in Nat
                                /\ seen[m] <= stored[m]
    BY OrderFacts
  <1>1. kind' = kind /\ uses' = uses
    BY DEF Next, Reconcile, Start, EnsureSecrets, Render, ValidateTLS, CheckHash,
           EnsureDeployment, Crash, Change, Sync, PodStep, vars, resourceVars
  <1>2. /\ Rendered' = Rendered /\ Mounted' = Mounted
        /\ Checked' = Checked /\ Followed' = Followed
    BY <1>1 DEF Rendered, Mounted, Checked, Followed, Relevant
  <1>3. config' = config \/ (pc = "render" /\ config' = read)
    BY DEF Next, Reconcile, Start, EnsureSecrets, Render, ValidateTLS, CheckHash,
           EnsureDeployment, Crash, Change, Sync, PodStep, vars, outputVars
  <1>4. \/ stored' = stored
        \/ \E m \in Relevant : stored' = [stored EXCEPT ![m] = @ + 1]
    BY DEF Next, Reconcile, Start, EnsureSecrets, Render, ValidateTLS, CheckHash,
           EnsureDeployment, Crash, Change, Sync, PodStep, vars
  <1>5. \/ seen' = seen
        \/ seen' = stored
        \/ \E m \in Relevant : seen' = [seen EXCEPT ![m] = stored[m]]
    BY DEF Next, Reconcile, Start, EnsureSecrets, Render, ValidateTLS, CheckHash,
           EnsureDeployment, Crash, Change, Sync, PodStep, vars
  <1>6. \A m \in Materials : stored[m] <= stored'[m]
    BY <1>0, <1>4 DEF Versions
  <1>7. \A m \in Materials : seen[m] <= seen'[m]
    BY <1>0, <1>5 DEF Versions
  <1> QED
    BY <1>2, <1>3, <1>6, <1>7

\* What a container finds never gets older.
LEMMA HoldingsGrow ==
    ASSUME TypeOK, TypeOK', Reading, [Next]_vars
    PROVE  /\ \A m \in Materials : Holdings[m] \in Nat /\ Holdings'[m] \in Nat
           /\ \A m \in Materials : Holdings[m] <= Holdings'[m]
           /\ \A m \in Rendered : Holdings'[m] = config'[m]
           /\ \A m \in Mounted : Holdings'[m] = stored'[m]
  <1>1. /\ \A m \in Materials :
              /\ stored[m] \in Nat /\ stored'[m] \in Nat
              /\ config[m] \in Nat /\ config'[m] \in Nat
    BY VersionFacts DEF TypeOK
  <1>2. \A m \in Rendered : config[m] <= config'[m]
    <2>1. \A m \in Rendered : m \in Materials
      BY SecretFacts DEF TypeOK
    <2>2. pc = "render" => \A m \in Rendered : config[m] <= read[m]
      BY <2>1 DEF Reading
    <2> QED
      BY <1>1, <2>1, <2>2, StepFacts
  <1>3. \A m \in Materials :
           Holdings'[m] = IF m \in Rendered THEN config'[m]
                          ELSE IF m \in Mounted THEN stored'[m] ELSE 0
    BY StepFacts DEF Holdings
  <1>4. Rendered \cap Mounted = {} /\ Rendered \cup Mounted \subseteq Materials
    BY SecretFacts DEF TypeOK
  <1>5. \A m \in Materials :
           Holdings[m] = IF m \in Rendered THEN config[m]
                         ELSE IF m \in Mounted THEN stored[m] ELSE 0
    BY DEF Holdings
  <1> QED
    BY <1>1, <1>2, <1>3, <1>4, <1>5, StepFacts

\* So what a container that starts now is not behind, none is behind later.
LEMMA BackedGrows ==
    ASSUME TypeOK, TypeOK', Reading, [Next]_vars,
           NEW f \in Versions, Backed(f)
    PROVE  \A m \in Materials : f[m] <= Holdings'[m]
  BY HoldingsGrow, VersionFacts DEF Backed

-----------------------------------------------------------------------------
(***************************************************************************)
(* The parts of the invariant, step by step.                               *)
(***************************************************************************)

\* The reconcile's progress.
LEMMA NextReading ==
    ASSUME TypeOK, TypeOK', Reading, Behind, [Next]_vars
    PROVE  Reading'
  <1>0. /\ NothingRead \in Versions
        /\ \A m \in Materials : NothingRead[m] = 0
    BY NothingFacts
  <1>V. /\ stored \in Versions /\ seen \in Versions /\ read \in Versions
        /\ config \in Versions
        /\ \A m \in Materials : /\ stored[m] \in Nat /\ seen[m] \in Nat
                                /\ read[m] \in Nat /\ config[m] \in Nat
                                /\ read[m] <= seen[m] /\ seen[m] <= stored[m]
    BY OrderFacts
  <1>R. /\ Rendered \subseteq Materials /\ Checked \subseteq Mounted
        /\ Mounted \subseteq Materials
        /\ Checked \cap Rendered = {} /\ Rendered \cap Mounted = {}
    BY SecretFacts DEF TypeOK
  <1>B. awake \in BOOLEAN
    BY DEF TypeOK
  <1>S. Rendered' = Rendered
    BY StepFacts
  <1>I. pc' = "idle" /\ read' = NothingRead => Reading'
    BY DEF Reading, NothingRead
  <1>H. pc' = pc /\ read' = read /\ (pc # "render" \/ config' = config) => Reading'
    <2> SUFFICES ASSUME pc' = pc, read' = read, pc # "render" \/ config' = config
                 PROVE  Reading'
      OBVIOUS
    <2>1. pc \in {"tls", "hash", "deploy"} =>
             \A m \in Materials : read[m] <= Holdings'[m]
      BY <1>V, BackedGrows DEF Reading
    <2> QED
      BY <1>S, <2>1 DEF Reading, Backed, NothingRead
  <1>1. CASE Start
    BY <1>1 DEF Start, Reading, NothingRead
  <1>2. CASE EnsureSecrets
    <2>1. \/ read' = NothingRead /\ pc' = "idle"
          \/ read' = Over(NothingRead, seen, Rendered) /\ pc' = "render"
      BY <1>2, <1>B, ReturnFacts DEF EnsureSecrets, Reading
    <2>2. config' = config
      BY <1>2 DEF EnsureSecrets, outputVars
    <2>3. read' = Over(NothingRead, seen, Rendered) =>
             \A m \in Materials : IF m \in Rendered THEN config[m] <= read'[m]
                                                    ELSE read'[m] = 0
      BY <1>0, <1>V, OverFacts DEF Behind
    <2> QED
      BY <1>I, <1>S, <2>1, <2>2, <2>3 DEF Reading
  <1>3. CASE Render
    <2>1. pc' = "tls" /\ read' = read /\ config' = read /\ pc = "render"
      BY <1>3 DEF Render
    <2>2. \A m \in Materials : read[m] <= Holdings'[m]
      BY <1>V, <1>R, <2>1, HoldingsGrow DEF Reading
    <2> QED
      BY <2>1, <2>2 DEF Reading, Backed
  <1>4. CASE ValidateTLS
    <2>1. \/ read' = NothingRead /\ pc' = "idle"
          \/ read' = Over(read, seen, Checked) /\ pc' = "hash"
      BY <1>4, <1>B, ReturnFacts DEF ValidateTLS
    <2>2. pc = "tls" /\ Holdings' = Holdings
      BY <1>4 DEF ValidateTLS, Holdings, Rendered, Mounted, resourceVars, outputVars
    <2>3. \A m \in Materials : read[m] <= Holdings[m]
      BY <2>2 DEF Reading, Backed
    <2>4. \A m \in Checked : seen[m] <= Holdings[m]
      BY <1>R, <1>V, HoldingsFacts
    <2>5. read' = Over(read, seen, Checked) =>
             \A m \in Materials : read'[m] <= Holdings[m]
      BY <1>V, <2>3, <2>4, OverFacts
    <2> QED
      BY <1>I, <2>1, <2>2, <2>5 DEF Reading, Backed
  <1>5. CASE CheckHash
    <2>1. \/ read' = NothingRead /\ pc' = "idle"
          \/ read' = read /\ pc' = "deploy"
      BY <1>5, <1>B, ReturnFacts DEF CheckHash
    <2>2. pc = "hash" /\ Holdings' = Holdings
      BY <1>5 DEF CheckHash, Holdings, Rendered, Mounted, resourceVars
    <2> QED
      BY <1>I, <2>1, <2>2 DEF Reading, Backed
  <1>6. CASE EnsureDeployment \/ Crash
    BY <1>6, <1>B, <1>I, ReturnFacts DEF EnsureDeployment, Crash
  <1>7. ASSUME NEW m \in Relevant, Change(m) \/ Sync(m) PROVE Reading'
    BY <1>7, <1>H DEF Change, Sync, reconcileVars, outputVars
  <1>8. ASSUME NEW p \in Pods, PodStep(p) PROVE Reading'
    BY <1>8, <1>H DEF PodStep, reconcileVars, outputVars
  <1>9. CASE UNCHANGED vars
    BY <1>9, <1>H DEF vars, reconcileVars, outputVars
  <1> QED
    BY <1>1, <1>2, <1>3, <1>4, <1>5, <1>6, <1>7, <1>8, <1>9 DEF Next, Reconcile

\* The order of configuration, hash and pods.
LEMMA NextBehind ==
    ASSUME TypeOK, TypeOK', Reading, Behind, [Next]_vars
    PROVE  Behind'
  <1>V. /\ stored \in Versions /\ seen \in Versions /\ read \in Versions
        /\ config \in Versions
        /\ \A m \in Materials : /\ stored[m] \in Nat /\ seen[m] \in Nat
                                /\ read[m] \in Nat /\ config[m] \in Nat
                                /\ read[m] <= seen[m] /\ seen[m] <= stored[m]
    BY OrderFacts
  <1>W. \A m \in Materials : stored'[m] \in Nat /\ seen'[m] \in Nat
    BY VersionFacts DEF TypeOK
  <1>R. Rendered \subseteq Materials /\ Mounted \subseteq Materials
    BY SecretFacts DEF TypeOK
  <1>1. \A m \in Rendered' : config'[m] <= seen'[m]
    BY <1>V, <1>W, <1>R, StepFacts DEF Behind
  <1>2. template' # None => Backed(template)'
    <2>1. template' = template \/ (pc = "deploy" /\ template' = read)
      BY DEF Next, Reconcile, Start, EnsureSecrets, Render, ValidateTLS, CheckHash,
             EnsureDeployment, Crash, Change, Sync, PodStep, vars, outputVars
    <2>2. CASE template' = template
      <3> SUFFICES ASSUME template # None PROVE Backed(template)'
        BY <2>2
      <3>1. template \in Versions /\ Backed(template)
        BY DEF TypeOK, Behind
      <3> QED
        BY <2>2, <3>1, BackedGrows DEF Backed
    <2>3. CASE pc = "deploy" /\ template' = read
      <3>1. Backed(read)
        BY <2>3 DEF Reading
      <3> QED
        BY <1>V, <2>3, <3>1, BackedGrows DEF Backed
    <2> QED
      BY <2>1, <2>2, <2>3
  <1> DEFINE Held(pod) ==
               /\ \A m \in Materials : pod.hash[m] <= Holdings'[m]
               /\ \A m \in Materials : /\ pod.hash[m] <= pod.holds[m]
                                       /\ pod.holds[m] <= stored'[m]
  <1>H. /\ Holdings \in Versions
        /\ \A m \in Materials : Holdings[m] <= stored[m]
    <2>1. \A m \in Rendered : config[m] <= stored[m]
      BY <1>V, <1>R DEF Behind
    <2> QED
      BY <1>V, <1>R, <2>1, HoldingsFacts
  <1>G. \A m \in Materials : stored[m] <= stored'[m]
    BY StepFacts
  <1>3. ASSUME NEW p \in Pods, pods[p] # None PROVE Held(pods[p])
    <2>1. /\ pods[p].hash \in Versions /\ pods[p].holds \in Versions
      BY <1>3 DEF TypeOK
    <2>2. /\ Backed(pods[p].hash)
          /\ \A m \in Materials : /\ pods[p].hash[m] <= pods[p].holds[m]
                                  /\ pods[p].holds[m] <= stored[m]
      BY <1>3 DEF Behind
    <2>3. \A m \in Materials : pods[p].hash[m] <= Holdings'[m]
      BY <2>1, <2>2, BackedGrows
    <2> QED
      BY <1>G, <1>V, <1>W, <2>1, <2>2, <2>3, VersionFacts
  <1>4. ASSUME NEW hash \in Versions, Backed(hash)
        PROVE  Held([hash |-> hash, holds |-> Holdings])
    <2>1. \A m \in Materials : hash[m] <= Holdings'[m]
      BY <1>4, BackedGrows
    <2>2. \A m \in Materials : hash[m] <= Holdings[m]
      BY <1>4 DEF Backed
    <2> QED
      BY <1>G, <1>H, <1>V, <1>W, <2>1, <2>2, VersionFacts
  <1> HIDE DEF Held
  <1>5. ASSUME NEW p \in Pods, pods'[p] # None PROVE Held(pods'[p])
    <2>1. CASE pods' = pods
      BY <1>3, <1>5, <2>1
    <2>2. ASSUME NEW q \in Pods, PodStep(q) PROVE Held(pods'[p])
      <3>0. pods \in [Pods -> [hash : Versions, holds : Versions] \cup {None}]
        BY DEF TypeOK
      <3>1. CASE StopPod(q)
        BY <1>3, <1>5, <3>0, <3>1 DEF StopPod
      <3>2. CASE StartPod(q)
        <4>1. template \in Versions /\ Backed(template)
          BY <3>2 DEF StartPod, TypeOK, Behind
        <4>2. Held([hash |-> template, holds |-> Holdings])
          BY <1>4, <4>1
        <4> QED
          BY <1>3, <1>5, <3>0, <3>2, <4>2 DEF StartPod
      <3>3. CASE RestartContainer(q)
        <4>1. pods[q] \in [hash : Versions, holds : Versions]
          BY <3>0, <3>3 DEF RestartContainer
        <4>2. pods[q].hash \in Versions /\ Backed(pods[q].hash)
          BY <3>3, <4>1 DEF RestartContainer, Behind
        <4>3. Held([hash |-> pods[q].hash, holds |-> Holdings])
          BY <1>4, <4>2
        <4>4. [pods[q] EXCEPT !.holds = Holdings]
                 = [hash |-> pods[q].hash, holds |-> Holdings]
          BY <4>1
        <4>5. pods' = [pods EXCEPT ![q] =
                          [hash |-> pods[q].hash, holds |-> Holdings]]
          BY <3>3, <4>4 DEF RestartContainer
        <4> QED
          BY <1>3, <1>5, <3>0, <4>3, <4>5
      <3> QED
        BY <2>2, <3>1, <3>2, <3>3 DEF PodStep
    <2> QED
      BY <2>1, <2>2 DEF Next, Reconcile, Start, EnsureSecrets, Render, ValidateTLS,
             CheckHash, EnsureDeployment, Crash, Change, Sync, vars
  <1> QED
    BY <1>1, <1>2, <1>5 DEF Behind, Backed, Held

\* What waits for no event is up to date.
LEMMA NextQuiet ==
    ASSUME TypeOK, TypeOK', Reading, Quiet, [Next]_vars
    PROVE  Quiet'
  <1>V. /\ stored \in Versions /\ seen \in Versions /\ read \in Versions
        /\ config \in Versions
    BY OrderFacts
  <1>R. /\ Followed = Rendered \cup Checked /\ Checked \cap Rendered = {}
        /\ Followed \subseteq Watched /\ Relevant \subseteq Materials
        /\ Followed \subseteq Materials
    BY SecretFacts DEF TypeOK, Watched, Materials
  <1>B. awake \in BOOLEAN
    BY DEF TypeOK
  <1>S. Rendered' = Rendered /\ Followed' = Followed
    BY StepFacts
  <1>1. CASE Start
    BY <1>1 DEF Start, Quiet
  <1>2. CASE EnsureSecrets
    <2>1. \/ awake'
          \/ awake' = awake /\ read' = Over(read, seen, Rendered) /\ pc' = "render"
      BY <1>2, <1>B, ReturnFacts DEF EnsureSecrets
    <2>2. seen' = seen
      BY <1>2 DEF EnsureSecrets
    <2>3. read' = Over(read, seen, Rendered) => \A m \in Rendered : read'[m] = seen[m]
      BY <1>R, <1>V, OverFacts
    <2> QED
      BY <1>S, <2>1, <2>2, <2>3 DEF Quiet, Fresh
  <1>3. CASE Render
    BY <1>S, <1>3 DEF Render, Quiet, Fresh
  <1>4. CASE ValidateTLS
    <2>0. pc = "tls" /\ seen' = seen
      BY <1>4 DEF ValidateTLS
    <2>1. CASE \E m \in Checked : seen[m] = 0
      <3>1. pc' = "idle" /\ \E m \in Followed : seen[m] = 0
        BY <1>4, <1>B, <1>R, <2>1, ReturnFacts DEF ValidateTLS
      <3> QED
        BY <1>S, <2>0, <3>1 DEF Quiet
    <2>2. CASE ~ \E m \in Checked : seen[m] = 0
      <3>1. read' = Over(read, seen, Checked) /\ pc' = "hash" /\ awake' = awake
        BY <1>4, <2>2 DEF ValidateTLS
      <3>2. ~awake => \A m \in Rendered : read[m] = seen[m]
        BY <2>0 DEF Quiet, Fresh
      <3>3. ~awake => \A m \in Followed : read'[m] = seen[m]
        BY <1>R, <1>V, <3>1, <3>2, OverFacts
      <3> QED
        BY <1>S, <2>0, <3>1, <3>3 DEF Quiet, Fresh
    <2> QED
      BY <2>1, <2>2
  <1>5. CASE CheckHash
    <2>1. \/ awake'
          \/ awake' = awake /\ read' = read /\ pc' = "deploy"
      BY <1>5, <1>B, ReturnFacts DEF CheckHash
    <2>2. pc = "hash" /\ seen' = seen
      BY <1>5 DEF CheckHash
    <2> QED
      BY <1>S, <2>1, <2>2 DEF Quiet, Fresh
  <1>6. CASE EnsureDeployment
    <2>1. /\ pc = "deploy" /\ pc' = "idle" /\ (awake' => awake) /\ (awake => awake')
          /\ template' = read /\ seen' = seen
      BY <1>6, <1>B, ReturnFacts DEF EnsureDeployment
    <2> QED
      BY <1>S, <2>1 DEF Quiet, Fresh
  <1>7. CASE Crash
    <2>1. awake'
      BY <1>7, <1>B, ReturnFacts DEF Crash
    <2> QED
      BY <2>1 DEF Quiet
  <1>8. ASSUME NEW m \in Relevant, Sync(m) PROVE Quiet'
    <2>0. awake' <=> awake \/ m \in Watched
      BY <1>8, <1>B, AwakeFacts
    <2>1. CASE m \in Watched
      BY <2>0, <2>1 DEF Quiet
    <2>2. CASE m \notin Watched
      <3>1. \A n \in Followed : seen'[n] = seen[n]
        BY <1>8, <1>R, <1>V, <2>2 DEF Sync, Versions
      <3>2. pc' = pc /\ read' = read /\ template' = template
        BY <1>8 DEF Sync, outputVars
      <3> QED
        BY <1>R, <1>S, <2>0, <2>2, <3>1, <3>2 DEF Quiet, Fresh
    <2> QED
      BY <2>1, <2>2
  <1>9. CASE UNCHANGED <<seen, awake, pc, read, template>>
    BY <1>S, <1>9 DEF Quiet, Fresh
  <1> QED
    BY <1>1, <1>2, <1>3, <1>4, <1>5, <1>6, <1>7, <1>8, <1>9
       DEF Next, Reconcile, Change, PodStep, vars, reconcileVars, outputVars

-----------------------------------------------------------------------------
(***************************************************************************)
(* The invariant, and what follows from it.                                *)
(***************************************************************************)

\* The invariant holds before the first reconcile ...
LEMMA InitInv == Init => Inv
  <1> SUFFICES ASSUME Init PROVE Inv
    OBVIOUS
  <1>1. TypeOK
    BY InitType
  <1>2. Rendered \subseteq Materials
    BY <1>1, SecretFacts DEF TypeOK
  <1>3. Behind
    BY <1>1, <1>2, NothingFacts, OrderFacts DEF Init, Behind
  <1> QED
    BY <1>1, <1>3 DEF Init, Inv, Reading, Quiet

\* ... and every step preserves it.
LEMMA NextInv == Inv /\ [Next]_vars => Inv'
  BY NextType, NextReading, NextBehind, NextQuiet DEF Inv

\* The invariant always holds.
LEMMA Invariance == Spec => []Inv
  BY InitInv, NextInv, PTL DEF Spec

\* The variables of the reconcile and of its pods stay in their types, and what
\* was read is never newer than what the informer has seen.
THEOREM TypeCorrect == Spec => []TypeOK
  <1>1. Inv => TypeOK
    BY DEF Inv
  <1> QED
    BY <1>1, Invariance, PTL

\* No pod ever works with inputs older than those its CONFIG_HASH stands for,
\* whatever changes or stops while it is rolled out: generateServiceConfigs
\* comes before createHashOfInputHashes, and this before ensureDeployment.
THEOREM NoPodIsBehind == Spec => []NeverBehindItsHash
  <1>1. Inv => NeverBehindItsHash
    <2> SUFFICES ASSUME Inv, NEW p \in Pods, pods[p] # None,
                        NEW m \in Materials
                 PROVE  pods[p].holds[m] >= pods[p].hash[m]
      BY DEF NeverBehindItsHash
    <2>1. pods[p].hash \in Versions /\ pods[p].holds \in Versions
      BY DEF Inv, TypeOK
    <2>2. pods[p].hash[m] <= pods[p].holds[m]
      BY DEF Inv, Behind
    <2> QED
      BY <2>1, <2>2, VersionFacts
  <1> QED
    BY <1>1, Invariance, PTL

\* When nothing is left to do, every pod works with the current content of
\* every secret that findObjectsForSrc watches and CONFIG_HASH covers.
THEOREM FollowedInputsArrive == Spec => []InputsInPods
  <1>1. Inv => InputsInPods
    <2> SUFFICES ASSUME Inv, AtRest, NEW p \in Pods, NEW m \in Followed
                 PROVE  pods[p].holds[m] = stored[m]
      BY DEF InputsInPods
    <2>1. /\ m \in Materials
          /\ \A n \in Followed : n \in Relevant
      BY SecretFacts DEF Inv, TypeOK, Followed
    <2>2. Fresh(template, Followed)
      <3>1. \A n \in Followed : seen[n] # 0
        BY <2>1 DEF AtRest
      <3> QED
        BY <3>1 DEF Inv, Quiet, AtRest
    <2>3. pods[p] # None /\ pods[p].hash = template
      BY DEF AtRest
    <2>4. /\ pods[p].hash[m] = stored[m]
          /\ pods[p].hash[m] <= pods[p].holds[m]
          /\ pods[p].holds[m] <= stored[m]
      BY <2>1, <2>2, <2>3 DEF Fresh, AtRest, Inv, Behind
    <2>5. stored[m] \in Nat /\ pods[p].holds[m] \in Nat
      BY <2>1, <2>3, VersionFacts DEF Inv, TypeOK
    <2> QED
      BY <2>4, <2>5
  <1> QED
    BY <1>1, Invariance, PTL
=============================================================================
