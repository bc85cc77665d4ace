---------------------------- MODULE WatcherProofs ---------------------------
(***************************************************************************)
(* Proofs about the reconciler of Watcher, for every set of specs, inputs  *)
(* and services and any number of changes and faults.                      *)
(***************************************************************************)
EXTENDS Watcher, TLAPS

-----------------------------------------------------------------------------
(***************************************************************************)
(* What the operators of the reconciler return.                            *)
(***************************************************************************)

KSs == [exists : BOOLEAN, fin : BOOLEAN, status : Statuses]
Jobs == [config : Secrets, sync : {None} \cup Images,
         state : {"none", "running", "done", "failed"},
         purge : {None} \cup Images]
SubCRs == [exists : BOOLEAN, spec : {None} \cup SubSpecs,
           observed : BOOLEAN, ready : Statuses,
           told : {None} \cup Tellings]

\* TypeOK in the terms of the lemmas.
Types ==
    /\ cr \in CRs /\ cache \in CRs /\ base \in CRs /\ inst \in CRs
    /\ queue \in BOOLEAN /\ pc \in Steps
    /\ outcome \in {"none", "after", "error", "swallowed"}
    /\ seen \in [Inputs -> InputStates] /\ input \in [Inputs -> InputStates]
    /\ acctFin \subseteq {s.acct : s \in Specs}
    /\ promFin \subseteq {s.prom : s \in Specs}
    /\ ks \in KSs /\ jobs \in Jobs
    /\ jobs.state # "none" => jobs.sync \in Images
    /\ migrated \subseteq Images /\ subSecret \in Secrets
    /\ sub \in [Kinds -> SubCRs]
    /\ changes \in 0..MaxChanges /\ faults \in 0..MaxFaults

\* The type invariant of the model and its form in these proofs are the same.
LEMMA TypeOKUnfolded == TypeOK <=> Types
  BY DEF TypeOK, Types, KSs, Jobs, SubCRs

\* Setting a condition changes nothing else.
LEMMA MarkedFacts ==
    ASSUME NEW o \in CRs, NEW t \in WatcherConditions, NEW status \in Statuses
    PROVE  /\ Marked(o, t, status) \in CRs
           /\ Marked(o, t, status).hash = o.hash
           /\ Marked(o, t, status).fin = o.fin
           /\ Marked(o, t, status).obs = o.obs
           /\ Marked(o, t, status).cond =
                 [u \in WatcherConditions |->
                      IF u = t THEN status ELSE o.cond[u]]
  BY DEF CRs, Marked, SetCondition

Facts ==
    /\ {"Ready", "RBACReady", "DBReady", "TransportURLReady", "InputReady",
        "KeystoneServiceReady", "ServiceConfigReady", "DBSyncReady",
        "CronJobReady", "ExposeServiceReady", "MariaDBAccountReady"}
          \subseteq WatcherConditions
    /\ \A k \in Kinds : SubCondition[k] \in WatcherConditions
    /\ {"True", "Info", "Warning", "Error", "NotSet", "Unknown"} \subseteq Statuses
    /\ {"secret", "transport", "prometheus", "database", "ingress"} = Inputs
    /\ Absent \in InputStates /\ Versions \subseteq InputStates

\* The members of the enumerated sets, for the leaves that need no more.
LEMMA FactsHold == Facts
  BY DEF Facts, WatcherConditions, InitialConditions, Statuses, FalseStatuses,
         Inputs, InputStates

\* initStatus opens the conditions and observes the generation.
LEMMA InitStatusFacts ==
    ASSUME NEW o \in CRs
    PROVE  /\ InitStatus(o) \in CRs /\ InitStatus(o).hash = o.hash
           /\ InitStatus(o).fin = o.fin /\ InitStatus(o).obs = o.gen
           /\ \A t \in InitialConditions : InitStatus(o).cond[t] = "Unknown"
  BY DEF CRs, InitStatus, Statuses, WatcherConditions

\* The deferred function touches the overall condition only.
LEMMA MirrorFacts ==
    ASSUME NEW o \in CRs
    PROVE  /\ [o EXCEPT !.cond = MirrorUndecided(o.cond)] \in CRs
           /\ [o EXCEPT !.cond = MirrorUndecided(o.cond)].hash = o.hash
           /\ [o EXCEPT !.cond = MirrorUndecided(o.cond)].fin = o.fin
           /\ [o EXCEPT !.cond = MirrorUndecided(o.cond)].obs = o.obs
           /\ ([o EXCEPT !.cond = MirrorUndecided(o.cond)].cond["Ready"] = "True")
                 <=> (o.cond["Ready"] = "True")
           /\ o.cond["Ready"] = "Unknown" =>
                 [o EXCEPT !.cond = MirrorUndecided(o.cond)].cond["Ready"]
                    # "NotSet"
  <1>1. o.cond \in [WatcherConditions -> Statuses]
    BY DEF CRs
  <1>2. /\ Mirror(o.cond) \in Statuses \ {"NotSet"}
        /\ o.cond["Ready"] # "True" => Mirror(o.cond) # "True"
        /\ "Ready" \in WatcherConditions
    BY DEF Mirror, Statuses, FalseStatuses, WatcherConditions, InitialConditions
  <1>3. /\ MirrorUndecided(o.cond) \in [WatcherConditions -> Statuses]
        /\ (MirrorUndecided(o.cond)["Ready"] = "True")
              <=> (o.cond["Ready"] = "True")
        /\ o.cond["Ready"] = "Unknown" =>
              MirrorUndecided(o.cond)["Ready"] # "NotSet"
    BY <1>1, <1>2 DEF MirrorUndecided
  <1> QED
    BY <1>3 DEF CRs

\* A patch writes the fields that differ, leaves spec and generation alone,
\* and removes the resource only if it was under deletion.
LEMMA PatchFacts ==
    ASSUME NEW server \in CRs, NEW before \in CRs, NEW after \in CRs
    PROVE  /\ PatchInstance(server, before, after) \in CRs
           /\ PatchInstance(server, before, after).hash
                 \in {server.hash, after.hash}
           /\ LET p == PatchInstance(server, before, after)
              IN  /\ p.spec = server.spec /\ p.gen = server.gen
                  /\ p.obs \in {server.obs, after.obs}
                  /\ p.phase = "Live" <=> server.phase = "Live"
                  /\ server.phase = "Gone" => p = server
                  /\ p.phase = "Live" /\ p.fin = before.fin =>
                        after.fin = before.fin
                  /\ p.phase = "Live" /\ p.hash = before.hash =>
                        after.hash = before.hash
                  /\ p.phase = "Live" /\ p.obs = before.obs =>
                        after.obs = before.obs
                  /\ p.phase = "Live" /\ p.cond = before.cond =>
                        after.cond = before.cond
  <1> DEFINE w == [server EXCEPT
                   !.fin = IF after.fin # before.fin THEN after.fin ELSE @,
                   !.obs = IF after.obs # before.obs THEN after.obs ELSE @,
                   !.cond = IF after.cond # before.cond THEN after.cond ELSE @,
                   !.hash = IF after.hash # before.hash THEN after.hash ELSE @]
             g == [w EXCEPT !.phase = "Gone"]
  <1>1. /\ w \in CRs /\ w.spec = server.spec /\ w.gen = server.gen
        /\ w.phase = server.phase
        /\ w.fin = IF after.fin # before.fin THEN after.fin ELSE server.fin
        /\ w.obs = IF after.obs # before.obs THEN after.obs ELSE server.obs
        /\ w.cond = IF after.cond # before.cond THEN after.cond ELSE server.cond
        /\ w.hash = IF after.hash # before.hash THEN after.hash ELSE server.hash
    BY DEF CRs
  <1>2. PatchInstance(server, before, after) =
            IF server.phase = "Gone" THEN server
            ELSE IF w.phase = "Deleting" /\ ~w.fin THEN g ELSE w
    BY DEF PatchInstance
  <1> HIDE DEF w
  <1>3. /\ g \in CRs /\ g.spec = w.spec /\ g.gen = w.gen /\ g.phase = "Gone"
        /\ g.fin = w.fin /\ g.obs = w.obs /\ g.cond = w.cond
        /\ g.hash = w.hash
    BY <1>1 DEF CRs
  <1> HIDE DEF g
  <1> QED
    BY <1>1, <1>2, <1>3

\* Between two reconciles the copies are of their type and hold no hash.
LEMMA BlankType == Blank \in CRs /\ Blank.hash = None
  <1>1. (CHOOSE s \in Specs : TRUE) \in Specs
    BY SpecsAssumption
  <1> QED
    BY <1>1 DEF Blank, NewCR, CRs, Statuses

\* A reconcile that ends leaves its variables in their types.
LEMMA ForgetType ==
    ASSUME Forget
    PROVE  /\ pc' = "idle" /\ base' \in CRs /\ inst' \in CRs
           /\ base'.hash = None /\ inst'.hash = None
           /\ seen' \in [Inputs -> InputStates] /\ outcome' = "none"
  <1>1. NothingSeen \in [Inputs -> InputStates]
    BY FactsHold DEF NothingSeen, Facts
  <1> QED
    BY <1>1, BlankType DEF Forget

\* What the secret of the services is written with is of its type.
LEMMA CollectedType == ASSUME TypeOK PROVE Collected \in Contents
  <1>1. base.spec \in Specs /\ seen \in [Inputs -> InputStates]
    BY DEF TypeOK, CRs
  <1>2. {"secret", "transport", "database"} \subseteq Inputs
    BY DEF Inputs
  <1> QED
    BY <1>1, <1>2 DEF Collected, Contents

\* A new spec is a new generation and changes nothing else, ...
LEMMA SpecWritten ==
    ASSUME NEW o \in CRs, NEW s \in Specs
    PROVE  /\ [o EXCEPT !.spec = s, !.gen = @ + 1] \in CRs
           /\ [o EXCEPT !.spec = s, !.gen = @ + 1].hash = o.hash
           /\ [o EXCEPT !.spec = s, !.gen = @ + 1].gen = o.gen + 1
           /\ [o EXCEPT !.spec = s, !.gen = @ + 1].obs = o.obs
           /\ [o EXCEPT !.spec = s, !.gen = @ + 1].fin = o.fin
           /\ [o EXCEPT !.spec = s, !.gen = @ + 1].phase = o.phase
  <1>1. o.gen \in Nat /\ o.gen + 1 \in Nat
    BY DEF CRs
  <1>2. ASSUME NEW n \in Nat
        PROVE  /\ [o EXCEPT !.spec = s, !.gen = n] \in CRs
               /\ [o EXCEPT !.spec = s, !.gen = n].hash = o.hash
               /\ [o EXCEPT !.spec = s, !.gen = n].gen = n
               /\ [o EXCEPT !.spec = s, !.gen = n].obs = o.obs
               /\ [o EXCEPT !.spec = s, !.gen = n].fin = o.fin
               /\ [o EXCEPT !.spec = s, !.gen = n].phase = o.phase
    BY DEF CRs
  <1> QED
    BY <1>1, <1>2

\* ... and so is a deletion.
LEMMA PhaseWritten ==
    ASSUME NEW o \in CRs, NEW p \in {"Live", "Deleting", "Gone"}
    PROVE  /\ [o EXCEPT !.phase = p, !.gen = @ + 1] \in CRs
           /\ [o EXCEPT !.phase = p, !.gen = @ + 1].hash = o.hash
           /\ [o EXCEPT !.phase = p, !.gen = @ + 1].gen = o.gen + 1
           /\ [o EXCEPT !.phase = p, !.gen = @ + 1].obs = o.obs
           /\ [o EXCEPT !.phase = p, !.gen = @ + 1].fin = o.fin
           /\ [o EXCEPT !.phase = p, !.gen = @ + 1].phase = p
           /\ [o EXCEPT !.phase = p, !.gen = @ + 1].spec = o.spec
  <1>1. o.gen \in Nat /\ o.gen + 1 \in Nat
    BY DEF CRs
  <1>2. ASSUME NEW n \in Nat
        PROVE  /\ [o EXCEPT !.phase = p, !.gen = n] \in CRs
               /\ [o EXCEPT !.phase = p, !.gen = n].hash = o.hash
               /\ [o EXCEPT !.phase = p, !.gen = n].gen = n
               /\ [o EXCEPT !.phase = p, !.gen = n].obs = o.obs
               /\ [o EXCEPT !.phase = p, !.gen = n].fin = o.fin
               /\ [o EXCEPT !.phase = p, !.gen = n].phase = p
               /\ [o EXCEPT !.phase = p, !.gen = n].spec = o.spec
    BY DEF CRs
  <1> QED
    BY <1>1, <1>2

\* A report on a service resource.
LEMMA ReadyWritten ==
    ASSUME NEW f \in [Kinds -> SubCRs], NEW k \in Kinds,
           NEW observed \in BOOLEAN, NEW ready \in Statuses
    PROVE  [f EXCEPT ![k].observed = observed, ![k].ready = ready]
               \in [Kinds -> SubCRs]
  <1>1. \A c \in SubCRs : [c EXCEPT !.observed = observed, !.ready = ready] \in SubCRs
    BY DEF SubCRs
  <1>2. [f EXCEPT ![k].observed = observed, ![k].ready = ready] =
        [f EXCEPT ![k] = [f[k] EXCEPT !.observed = observed, !.ready = ready]]
    OBVIOUS
  <1>3. [f[k] EXCEPT !.observed = observed, !.ready = ready] \in SubCRs
    BY <1>1
  <1> QED
    BY <1>2, <1>3

\* A failed call stays within the bound of faults.
LEMMA FaultType ==
    ASSUME TypeOK, Fault \/ NoFault PROVE faults' \in 0..MaxFaults
  BY BoundsAssumption DEF TypeOK, Fault, NoFault

\* A change of the environment stays within the bound of changes.
LEMMA ChangeType ==
    ASSUME TypeOK, Change \/ UNCHANGED changes PROVE changes' \in 0..MaxChanges
  BY BoundsAssumption DEF TypeOK, Change

-----------------------------------------------------------------------------
(***************************************************************************)
(* Type correctness.                                                       *)
(***************************************************************************)

\* The type invariant holds in the initial states ...
LEMMA InitType == Init => TypeOK
  <1> SUFFICES ASSUME Init PROVE Types
    BY TypeOKUnfolded
  <1>1. cr \in CRs
    BY DEF Init, NewCR, CRs, Statuses
  <1>2. /\ input \in [Inputs -> InputStates]
        /\ NothingSeen \in [Inputs -> InputStates]
    BY StartAssumption DEF Init, NothingSeen, InputStates
  <1>3. /\ ks \in KSs /\ jobs \in Jobs /\ jobs.state = "none"
    BY FactsHold DEF Init, KSs, Jobs, NoJobs, Secrets, Facts
  <1>4. sub \in [Kinds -> SubCRs]
    BY FactsHold DEF Init, SubCRs, NoSub, Facts
  <1>5. /\ migrated \subseteq Images /\ subSecret \in Secrets
        /\ acctFin \subseteq {s.acct : s \in Specs}
        /\ promFin \subseteq {s.prom : s \in Specs}
        /\ changes \in 0..MaxChanges /\ faults \in 0..MaxFaults
        /\ queue \in BOOLEAN /\ pc \in Steps
        /\ outcome \in {"none", "after", "error", "swallowed"}
    BY BoundsAssumption DEF Init, Secrets, Steps
  <1>6. base \in CRs /\ inst \in CRs /\ seen = NothingSeen /\ cache = cr
    BY BlankType DEF Init
  <1> QED
    BY <1>1, <1>2, <1>3, <1>4, <1>5, <1>6 DEF Types

\* The steps of a reconcile between its first and its last.
Inner ==
    \/ EnsureRbac \/ EnsureDB \/ EnsureMQ \/ InputSecret
    \/ TransportURLSecret \/ PrometheusSecret \/ CreateSubLevelSecret
    \/ EnsureKeystoneSvc \/ ServiceConfigDBJobs \/ EnsureDBSync
    \/ EnsureDBPurgeCronJob \/ EnsureAPI \/ ExposeEndpoints
    \/ EnsureDecisionEngine \/ EnsureApplier \/ ReleaseUnusedAccounts
    \/ DeleteDBFinalizer \/ DeleteKSFinalizer \/ DeletePrometheusFinalizer

\* ... is preserved by every step of a reconcile between its first and its last,
LEMMA InnerTypes == ASSUME TypeOK, Inner PROVE Types'
  <1>0. Types /\ Facts
    BY TypeOKUnfolded, FactsHold
  <1>M. \A t \in WatcherConditions, v \in Statuses : Marked(inst, t, v) \in CRs
    BY <1>0, MarkedFacts DEF Types
  <1>S. base.spec \in Specs /\ base.spec.img \in Images
    BY <1>0 DEF Types, CRs, Images
  <1>F. Fault \/ NoFault => faults' \in 0..MaxFaults
    BY FaultType
  <1>1. CASE EnsureRbac
    <2> DEFINE o == Marked(inst, "RBACReady", "True")
               add == base.phase = "Live" /\ ~base.fin
    <2>1. /\ o \in CRs /\ (add \/ o.fin) \in BOOLEAN
          /\ Marked(inst, "RBACReady", "Warning") \in CRs
      BY <1>0, <1>M DEF Facts
    <2>2. \A b \in BOOLEAN : [o EXCEPT !.fin = b] \in CRs
      BY <2>1 DEF CRs
    <2>5. \/ FailWith("RBACReady", "Warning")
          \/ Return([o EXCEPT !.fin = (add \/ o.fin)], "none")
          \/ GoTo("deleteDB", o) \/ GoTo("db", o)
      BY <1>1 DEF EnsureRbac
    <2>3. /\ inst' \in CRs /\ pc' \in Steps
          /\ outcome' \in {outcome, "none", "error"}
      <3> HIDE DEF o, add
      <3> QED
        BY <2>1, <2>2, <2>5 DEF FailWith, Return, GoTo, Steps
    <2>4. Fault \/ NoFault
      BY <1>1 DEF EnsureRbac, FailWith
    <2> QED
      BY <1>0, <1>1, <1>F, <2>3, <2>4 DEF EnsureRbac, Types, Within, worldVars
  <1>2. CASE EnsureDB
    <2> DEFINE o == Marked(inst, "MariaDBAccountReady", "True")
    <2>1. /\ o \in CRs
          /\ \A t \in WatcherConditions, v \in Statuses : Marked(o, t, v) \in CRs
      BY <1>0, <1>M, MarkedFacts DEF Facts
    <2>2. /\ inst' \in CRs /\ pc' \in {"exit", "mq"}
          /\ outcome' \in {outcome, "after", "error"}
      <3> HIDE DEF o
      <3>1. \/ FailWith("MariaDBAccountReady", "Warning")
            \/ Return(Marked(o, "DBReady", "Warning"), "error")
            \/ Return(Marked(o, "DBReady", "Info"), "after")
            \/ GoTo("mq", Marked(o, "DBReady", "True"))
        BY <1>2 DEF EnsureDB, o
      <3> QED
        BY <1>0, <1>M, <2>1, <3>1 DEF FailWith, Return, GoTo, Facts
    <2>3. /\ acctFin' \subseteq {s.acct : s \in Specs}
          /\ seen' \in [Inputs -> InputStates]
      BY <1>0, <1>2, <1>S DEF EnsureDB, Types, Facts
    <2>4. Fault \/ NoFault
      BY <1>2 DEF EnsureDB, FailWith
    <2> QED
      BY <1>0, <1>2, <1>F, <2>2, <2>3, <2>4 DEF EnsureDB, Types, Within, Steps
  <1>3. CASE EnsureMQ
    <2>1. /\ inst' \in CRs /\ pc' \in {"exit", "secret"}
          /\ outcome' \in {outcome, "after", "error"}
      BY <1>0, <1>3, <1>M DEF EnsureMQ, FailWith, Return, GoTo, Facts
    <2>2. Fault \/ NoFault
      BY <1>3 DEF EnsureMQ, FailWith
    <2> QED
      BY <1>0, <1>3, <1>F, <2>1, <2>2
         DEF EnsureMQ, Types, Within, Steps, worldVars
  <1>4. ASSUME NEW i \in Inputs, NEW next \in Steps, EnsureSecret(i, next)
        PROVE  Types'
    <2>1. /\ inst' \in CRs /\ pc' \in {"exit", next}
          /\ outcome' \in {outcome, "error"}
      <3>1. (IF input[i] = Absent THEN "Info" ELSE "Warning") \in Statuses
        BY <1>0 DEF Facts
      <3> QED
        BY <1>0, <1>4, <1>M, <3>1
           DEF EnsureSecret, FailWith, Return, GoTo, Facts, Types
    <2>2. Fault \/ NoFault
      BY <1>4 DEF EnsureSecret, FailWith
    <2>3. seen' \in [Inputs -> InputStates]
      BY <1>0, <1>4 DEF EnsureSecret, Types, Facts
    <2> QED
      BY <1>0, <1>4, <1>F, <2>1, <2>2, <2>3
         DEF EnsureSecret, Types, Within, Steps, worldVars
  <1>5. CASE InputSecret \/ TransportURLSecret
    BY <1>0, <1>4, <1>5
       DEF InputSecret, TransportURLSecret, Facts, Steps
  <1>6. CASE PrometheusSecret
    <2>1. /\ inst' \in CRs /\ pc' \in {"exit", "subSecret"}
          /\ outcome' \in {outcome, "error"}
      BY <1>0, <1>6, <1>M
         DEF PrometheusSecret, FailWith, Return, GoTo, Facts, Types
    <2>2. Fault \/ NoFault
      BY <1>6 DEF PrometheusSecret, FailWith
    <2>3. promFin' \subseteq {s.prom : s \in Specs}
      BY <1>0, <1>6, <1>S DEF PrometheusSecret, PrometheusHeld, Types
    <2> QED
      BY <1>0, <1>6, <1>F, <2>1, <2>2, <2>3
         DEF PrometheusSecret, Types, Within, Steps
  <1>7. CASE CreateSubLevelSecret
    <2>1. /\ inst' \in CRs /\ pc' \in {"exit", "keystone"}
          /\ outcome' \in {outcome, "swallowed"}
      BY <1>0, <1>7, <1>M
         DEF CreateSubLevelSecret, Return, GoTo, Facts, Types
    <2>2. Fault \/ NoFault
      BY <1>7 DEF CreateSubLevelSecret
    <2>3. subSecret' \in Secrets /\ queue' \in BOOLEAN
      BY <1>0, <1>7, CollectedType DEF CreateSubLevelSecret, Types, Secrets
    <2> QED
      BY <1>0, <1>7, <1>F, <2>1, <2>2, <2>3
         DEF CreateSubLevelSecret, Types, Within, Steps
  <1>8. CASE EnsureKeystoneSvc
    <2>1. MirrorKeystone(inst) \in CRs
      BY <1>0, <1>M DEF MirrorKeystone, Facts, Types, KSs
    <2>2. /\ inst' \in CRs /\ pc' \in {"exit", "config"}
          /\ outcome' \in {outcome, "error"}
      BY <1>0, <1>8, <1>M, <2>1
         DEF EnsureKeystoneSvc, FailWith, Return, GoTo, Facts
    <2>3. Fault \/ NoFault
      BY <1>8 DEF EnsureKeystoneSvc, FailWith
    <2>4. [ks EXCEPT !.exists = TRUE, !.fin = TRUE] \in KSs
      BY <1>0 DEF Types, KSs
    <2>5. ks' \in KSs /\ queue' \in BOOLEAN
      BY <1>0, <1>8, <2>4 DEF EnsureKeystoneSvc, Types
    <2> QED
      BY <1>0, <1>8, <1>F, <2>2, <2>3, <2>5
         DEF EnsureKeystoneSvc, Types, Within, Steps
  <1>9. CASE ServiceConfigDBJobs
    <2>1. /\ inst' \in CRs /\ pc' \in {"exit", "dbsync"}
          /\ outcome' \in {outcome, "error"}
      BY <1>0, <1>9, <1>M
         DEF ServiceConfigDBJobs, FailWith, Return, GoTo, Facts
    <2>2. Fault \/ NoFault
      BY <1>9 DEF ServiceConfigDBJobs, FailWith
    <2>3. [jobs EXCEPT !.config = Collected] \in Jobs
      BY <1>0, CollectedType DEF Types, Jobs, Secrets
    <2>5. /\ [jobs EXCEPT !.config = Collected].state = jobs.state
          /\ [jobs EXCEPT !.config = Collected].sync = jobs.sync
      BY <1>0 DEF Types, Jobs
    <2>4. /\ jobs' \in Jobs /\ queue' \in BOOLEAN
          /\ jobs'.state # "none" => jobs'.sync \in Images
      BY <1>0, <1>9, <2>3, <2>5 DEF ServiceConfigDBJobs, Types
    <2> QED
      BY <1>0, <1>9, <1>F, <2>1, <2>2, <2>4
         DEF ServiceConfigDBJobs, Types, Within, Steps
  <1>10. CASE EnsureDBSync
    <2>1. /\ SyncRunning(inst) \in CRs
          /\ [Marked(inst, "DBSyncReady", "True") EXCEPT !.hash = base.spec.img]
                 \in CRs
      <3>1. /\ Marked(inst, "DBSyncReady", "True") \in CRs
            /\ Marked(inst, "DBSyncReady", "Info") \in CRs
        BY <1>0, <1>M DEF Facts
      <3> QED
        BY <1>S, <3>1 DEF SyncRunning, CRs, Images
    <2>2. /\ inst' \in CRs /\ pc' \in {"exit", "cronjob"}
          /\ outcome' \in {outcome, "after", "error"}
      <3>1. \/ FailWith("DBSyncReady", "Warning")
            \/ Return(SyncRunning(inst), "after")
            \/ Return(Marked(inst, "DBSyncReady", "Warning"), "error")
            \/ GoTo("cronjob", [Marked(inst, "DBSyncReady", "True")
                                   EXCEPT !.hash = base.spec.img])
        BY <1>10 DEF EnsureDBSync
      <3> QED
        BY <1>0, <1>M, <2>1, <3>1 DEF FailWith, Return, GoTo, Facts
    <2>3. Fault \/ NoFault
      BY <1>10 DEF EnsureDBSync, FailWith
    <2>4. /\ [jobs EXCEPT !.sync = base.spec.img, !.state = "running"] \in Jobs
          /\ [jobs EXCEPT !.sync = base.spec.img, !.state = "running"].sync
                \in Images
      BY <1>0, <1>S DEF Types, Jobs
    <2>5. /\ jobs' \in Jobs /\ queue' \in BOOLEAN
          /\ jobs'.state # "none" => jobs'.sync \in Images
      BY <1>0, <1>10, <2>4 DEF EnsureDBSync, Types
    <2> QED
      BY <1>0, <1>10, <1>F, <2>2, <2>3, <2>5
         DEF EnsureDBSync, Types, Within, Steps
  <1>11. CASE EnsureDBPurgeCronJob
    <2>1. /\ inst' \in CRs /\ pc' \in {"exit", "api"}
          /\ outcome' \in {outcome, "error"}
      BY <1>0, <1>11, <1>M
         DEF EnsureDBPurgeCronJob, FailWith, Return, GoTo, Facts
    <2>2. Fault \/ NoFault
      BY <1>11 DEF EnsureDBPurgeCronJob, FailWith
    <2>3. [jobs EXCEPT !.purge = base.spec.img] \in Jobs
      BY <1>0, <1>S DEF Types, Jobs
    <2>5. /\ [jobs EXCEPT !.purge = base.spec.img].state = jobs.state
          /\ [jobs EXCEPT !.purge = base.spec.img].sync = jobs.sync
      BY <1>0 DEF Types, Jobs
    <2>4. /\ jobs' \in Jobs /\ queue' \in BOOLEAN
          /\ jobs'.state # "none" => jobs'.sync \in Images
      BY <1>0, <1>11, <2>3, <2>5 DEF EnsureDBPurgeCronJob, Types
    <2> QED
      BY <1>0, <1>11, <1>F, <2>1, <2>2, <2>4
         DEF EnsureDBPurgeCronJob, Types, Within, Steps
  <1>12. ASSUME NEW k, NEW next \in Steps, EnsureSub(k, next)
         PROVE  Types'
    <2> DEFINE s == SubWritten(k, SubSpec(base.spec))
    <2>1. k \in Kinds => s \in SubCRs
      BY <1>0, <1>S DEF Types, SubCRs, SubSpecs, SubWritten
    <2>2. k \in Kinds => MirrorSub(inst, k, s) \in CRs
      <3>1. k \in Kinds => s.ready \in Statuses
        BY <2>1 DEF SubCRs
      <3> HIDE DEF s
      <3> QED
        BY <1>0, <1>M, <3>1 DEF MirrorSub, Facts, Types
    <2>3. \/ /\ GoTo(next, inst) /\ UNCHANGED <<sub, queue>> /\ NoFault
          \/ /\ k \in Kinds /\ FailWith(SubCondition[k], "Error")
             /\ UNCHANGED <<sub, queue>>
          \/ /\ k \in Kinds /\ sub' = [sub EXCEPT ![k] = s]
             /\ queue' = (queue \/ sub' # sub) /\ NoFault
             /\ GoTo(next, MirrorSub(inst, k, s))
      BY <1>12 DEF EnsureSub
    <2> HIDE DEF s
    <2>4. /\ inst' \in CRs /\ pc' \in {"exit", next}
          /\ outcome' \in {outcome, "error"}
      BY <1>0, <1>M, <2>2, <2>3 DEF FailWith, Return, GoTo, Facts, Types
    <2>5. sub' \in [Kinds -> SubCRs] /\ queue' \in BOOLEAN
      BY <1>0, <2>1, <2>3 DEF Types
    <2>6. Fault \/ NoFault
      BY <2>3 DEF FailWith
    <2> QED
      BY <1>0, <1>12, <1>F, <2>4, <2>5, <2>6
         DEF EnsureSub, Types, Within, Steps
  <1>13. CASE EnsureAPI \/ EnsureDecisionEngine \/ EnsureApplier
    BY <1>12, <1>13 DEF EnsureAPI, EnsureDecisionEngine, EnsureApplier, Steps
  <1>14. CASE ExposeEndpoints
    <2>1. /\ inst' \in CRs /\ pc' \in {"exit", "decisionengine"}
          /\ outcome' \in {outcome, "after", "error"}
      BY <1>0, <1>14, <1>M
         DEF ExposeEndpoints, ExposureReported, FailWith, Return, GoTo, Facts
    <2>2. Fault \/ NoFault
      BY <1>14 DEF ExposeEndpoints, FailWith
    <2> QED
      BY <1>0, <1>14, <1>F, <2>1, <2>2
         DEF ExposeEndpoints, Types, Within, Steps, worldVars
  <1>15. CASE ReleaseUnusedAccounts
    <2>1. Finished(inst) \in CRs
      BY <1>0, <1>M DEF Finished, Facts, Types
    <2>2. /\ inst' \in CRs /\ pc' = "exit" /\ outcome' \in {"none", "error"}
          /\ acctFin' \subseteq acctFin
      BY <1>0, <1>15, <2>1 DEF ReleaseUnusedAccounts, Return, Types
    <2>3. Fault \/ NoFault
      BY <1>15 DEF ReleaseUnusedAccounts
    <2> QED
      BY <1>0, <1>15, <1>F, <2>2, <2>3
         DEF ReleaseUnusedAccounts, Types, Within, Steps
  <1>16. CASE DeleteDBFinalizer
    <2>1. /\ inst' = inst /\ pc' \in {"exit", "deleteKS"}
          /\ outcome' \in {outcome, "error"} /\ acctFin' \subseteq acctFin
      BY <1>16 DEF DeleteDBFinalizer, Return, GoTo
    <2>2. Fault \/ NoFault
      BY <1>16 DEF DeleteDBFinalizer
    <2> QED
      BY <1>0, <1>16, <1>F, <2>1, <2>2
         DEF DeleteDBFinalizer, Types, Within, Steps
  <1>17. CASE DeleteKSFinalizer
    <2>1. KeystoneReleased \in KSs
      BY <1>0 DEF KeystoneReleased, Types, KSs
    <2>2. /\ inst' = inst /\ pc' \in {"exit", "deletePrometheus"}
          /\ outcome' \in {outcome, "error"}
      BY <1>17 DEF DeleteKSFinalizer, Return, GoTo
    <2>3. ks' \in KSs /\ queue' \in BOOLEAN
      BY <1>0, <1>17, <2>1 DEF DeleteKSFinalizer, Types
    <2>4. Fault \/ NoFault
      BY <1>17 DEF DeleteKSFinalizer
    <2> QED
      BY <1>0, <1>17, <1>F, <2>2, <2>3, <2>4
         DEF DeleteKSFinalizer, Types, Within, Steps
  <1>18. CASE DeletePrometheusFinalizer
    <2>1. DropsFinalizer(inst) \in CRs
      BY <1>0 DEF DropsFinalizer, Types, CRs
    <2>2. /\ inst' \in CRs /\ pc' = "exit" /\ promFin' \subseteq promFin
          /\ outcome' \in {"none", "error", "swallowed"}
      BY <1>0, <1>18, <2>1 DEF DeletePrometheusFinalizer, Return, Types
    <2>3. Fault \/ NoFault
      BY <1>18 DEF DeletePrometheusFinalizer
    <2> QED
      BY <1>0, <1>18, <1>F, <2>2, <2>3
         DEF DeletePrometheusFinalizer, Types, Within, Steps
  <1> QED
    BY <1>1, <1>2, <1>3, <1>5, <1>6, <1>7, <1>8, <1>9, <1>10, <1>11, <1>13,
       <1>14, <1>15, <1>16, <1>17, <1>18 DEF Inner

\* The steps of everybody but the controller.
Outer == \/ SyncCache \/ KeystoneStep \/ JobStep \/ Services \/ UpdateSpec
         \/ DeleteCR \/ ChangeInput \/ (\E k \in Kinds : SubDisturb(k))
         \/ UNCHANGED vars

\* (the steps of the system, grouped by what they may write)
LEMMA StepCases == [Next]_vars => Start \/ Inner \/ Exit \/ Crash \/ Outer
  BY DEF Next, Reconcile, Environment, Inner, Outer

\* by every step of the environment and of the other controllers,
LEMMA OuterTypes == ASSUME TypeOK, Outer PROVE Types'
  <1>0. Types /\ Facts
    BY TypeOKUnfolded, FactsHold
  <1>C. Change \/ UNCHANGED changes => changes' \in 0..MaxChanges
    BY ChangeType
  <1>1. CASE SyncCache
    BY <1>0, <1>1 DEF SyncCache, Types, controllerVars, worldVars
  <1>2. CASE KeystoneStep
    <2>1. \A v \in Statuses : [ks EXCEPT !.status = v] \in KSs
      BY <1>0 DEF Types, KSs
    <2>2. ks' \in KSs
      BY <1>0, <1>2, <2>1 DEF KeystoneStep, Facts
    <2>3. /\ Change \/ UNCHANGED changes
          /\ OwnedEvent /\ UNCHANGED <<jobs, migrated, sub>>
      BY <1>2 DEF KeystoneStep
    <2> QED
      BY <1>0, <1>C, <2>2, <2>3 DEF Types, OwnedEvent, controllerVars
  <1>3. CASE JobStep
    <2>1. \A v \in {"done", "failed"} : [jobs EXCEPT !.state = v] \in Jobs
      BY <1>0 DEF Types, Jobs
    <2>2. jobs.state = "running" => jobs.sync \in Images
      BY <1>0 DEF Types
    <2>3. \A v \in {"done", "failed"} : [jobs EXCEPT !.state = v].sync = jobs.sync
      BY <1>0 DEF Types, Jobs
    <2>4. /\ Change \/ UNCHANGED changes
          /\ OwnedEvent /\ UNCHANGED <<ks, sub>>
          /\ \E v \in {"done", "failed"} : jobs' = [jobs EXCEPT !.state = v]
          /\ migrated' \in {migrated, migrated \cup {jobs.sync}}
          /\ jobs.state = "running"
      BY <1>3 DEF JobStep
    <2> QED
      BY <1>0, <1>C, <2>1, <2>2, <2>3, <2>4
         DEF Types, OwnedEvent, controllerVars
  <1>4. ASSUME sub' \in [Kinds -> SubCRs],
               UNCHANGED <<cr, cache, controllerVars, input, faults, acctFin,
                           promFin, subSecret, ks, jobs, migrated>>,
               queue' \in BOOLEAN,
               Change \/ UNCHANGED changes
        PROVE  Types'
    BY <1>0, <1>4, <1>C DEF Types, controllerVars
  <1>5. CASE Services
    <2>1. PICK k \in Kinds : SubTell(k) \/ SubReport(k) \/ SubReady(k)
      BY <1>5 DEF Services
    <2>2. sub[k] \in SubCRs /\ Current(k) \in Tellings
      BY <1>0 DEF Types, SubCRs, Current, Tellings
    <2>3. sub' \in [Kinds -> SubCRs]
      <3>1. CASE SubTell(k)
        BY <1>0, <2>2, <3>1 DEF SubTell, Types, SubCRs
      <3>2. CASE SubReady(k)
        <4>1. sub' = [sub EXCEPT ![k].observed = TRUE, ![k].ready = "True"]
          BY <3>2 DEF SubReady
        <4>2. "True" \in Statuses
          BY <1>0 DEF Facts
        <4> QED
          BY <1>0, <2>2, <4>1, <4>2, ReadyWritten DEF Types
      <3>3. CASE SubReport(k)
        <4>1. PICK observed \in {sub[k].observed, TRUE},
                   ready \in {"Info", "True", sub[k].ready} :
                 sub' = [sub EXCEPT ![k].observed = observed,
                                    ![k].ready = ready]
          BY <3>3 DEF SubReport
        <4>2. observed \in BOOLEAN /\ ready \in Statuses
          BY <1>0, <2>2 DEF SubCRs, Facts
        <4> QED
          BY <1>0, <2>2, <4>1, <4>2, ReadyWritten DEF Types
      <3> QED
        BY <2>1, <3>1, <3>2, <3>3
    <2>4. /\ UNCHANGED <<cr, cache, controllerVars, input, faults, acctFin,
                         promFin, subSecret, ks, jobs, migrated, changes>>
          /\ queue' \in BOOLEAN
      BY <1>0, <2>1 DEF SubTell, SubReport, SubReady, OwnedEvent, Types
    <2> QED
      BY <1>4, <2>3, <2>4
  <1>6. CASE UpdateSpec
    <2>1. cr' \in CRs
      <3>1. PICK s \in Specs : cr' = [cr EXCEPT !.spec = s, !.gen = @ + 1]
        BY <1>6 DEF UpdateSpec
      <3>2. cr \in CRs
        BY <1>0 DEF Types
      <3>3. [cr EXCEPT !.spec = s, !.gen = @ + 1] \in CRs
        BY <3>2, SpecWritten
      <3> QED
        BY <3>1, <3>3
    <2>2. /\ Change
          /\ UNCHANGED <<cache, queue, controllerVars, input, worldVars, faults>>
      BY <1>6 DEF UpdateSpec
    <2> QED
      BY <1>0, <1>C, <2>1, <2>2 DEF Types, controllerVars, worldVars
  <1>7. CASE DeleteCR
    <2>1. cr' \in CRs
      <3> DEFINE p == IF cr.fin THEN "Deleting" ELSE "Gone"
      <3>1. cr' = [cr EXCEPT !.phase = p, !.gen = @ + 1]
        BY <1>7 DEF DeleteCR
      <3>2. p \in {"Live", "Deleting", "Gone"} /\ cr \in CRs
        BY <1>0 DEF Types
      <3> HIDE DEF p
      <3>3. [cr EXCEPT !.phase = p, !.gen = @ + 1] \in CRs
        BY <3>2, PhaseWritten
      <3> QED
        BY <3>1, <3>3
    <2>2. /\ Change
          /\ UNCHANGED <<cache, queue, controllerVars, input, worldVars, faults>>
      BY <1>7 DEF DeleteCR
    <2> QED
      BY <1>0, <1>C, <2>1, <2>2 DEF Types, controllerVars, worldVars
  <1>8. CASE ChangeInput
    <2>1. input' \in [Inputs -> InputStates] /\ queue' \in BOOLEAN
      BY <1>0, <1>8 DEF ChangeInput, Types
    <2>2. Change /\ UNCHANGED <<cr, cache, controllerVars, worldVars, faults>>
      BY <1>8 DEF ChangeInput
    <2> QED
      BY <1>0, <1>C, <2>1, <2>2 DEF Types, controllerVars, worldVars
  <1>9. ASSUME NEW k \in Kinds, SubDisturb(k)
        PROVE  Types'
    <2>1. sub' \in [Kinds -> SubCRs]
      BY <1>0, <1>9 DEF SubDisturb, Types, SubCRs, Facts
    <2>2. /\ UNCHANGED <<cr, cache, controllerVars, input, faults, acctFin,
                         promFin, subSecret, ks, jobs, migrated>>
          /\ queue' \in BOOLEAN /\ Change
      BY <1>9 DEF SubDisturb, OwnedEvent
    <2> QED
      BY <1>4, <2>1, <2>2
  <1>10. CASE UNCHANGED vars
    BY <1>0, <1>10 DEF Types, vars, controllerVars, worldVars
  <1> QED
    BY <1>1, <1>2, <1>3, <1>5, <1>6, <1>7, <1>8, <1>9, <1>10 DEF Outer

\* and so by every step.
LEMMA NextType == TypeOK /\ [Next]_vars => TypeOK'
  <1> SUFFICES ASSUME TypeOK, [Next]_vars PROVE Types'
    BY DEF TypeOK, Types, KSs, Jobs, SubCRs
  <1>0. Types
    BY TypeOKUnfolded
  <1>1. CASE Start
    <2>1. CASE cache.phase = "Gone"
      BY <1>0, <1>1, <2>1 DEF Start, Types, controllerVars, worldVars, GoTo
    <2>2. CASE cache.phase # "Gone"
      <3>1. InitStatus(cache) \in CRs
        BY <1>0, InitStatusFacts DEF Types
      <3>2. /\ base' = cache /\ inst' = InitStatus(cache) /\ pc' = "rbac"
            /\ queue' = FALSE
            /\ UNCHANGED <<seen, outcome, cr, cache, input, worldVars, changes,
                           faults>>
        BY <1>1, <2>2 DEF Start, GoTo
      <3> QED
        BY <1>0, <3>1, <3>2 DEF Types, Steps, worldVars
    <2> QED
      BY <2>1, <2>2
  <1>2. CASE Inner
    BY <1>2, InnerTypes
  <1>3. CASE Exit
    <2> DEFINE after == [inst EXCEPT !.cond = MirrorUndecided(inst.cond)]
    <2>1. after \in CRs
      BY <1>0, MirrorFacts DEF Types
    <2>2. PatchInstance(cr, base, after) \in CRs
      BY <1>0, <2>1, PatchFacts DEF Types
    <2>3. cr' \in CRs /\ queue' \in BOOLEAN
      BY <1>0, <1>3, <2>2, Zenon DEF Exit, PatchFails, Types
    <2>4. /\ Forget
          /\ (Fault \/ NoFault)
          /\ UNCHANGED <<cache, input, worldVars, changes>>
      BY <1>3 DEF Exit, PatchFails
    <2> QED
      BY <1>0, <2>3, <2>4, ForgetType, FaultType DEF Types, worldVars, Steps
  <1>4. CASE Crash
    <2>1. /\ Forget /\ Fault /\ cache' = cr /\ queue' = TRUE
          /\ UNCHANGED <<cr, input, worldVars, changes>>
      BY <1>4 DEF Crash
    <2> QED
      BY <1>0, <2>1, ForgetType, FaultType DEF Types, worldVars, Steps
  <1>5. CASE Outer
    BY <1>5, OuterTypes
  <1> QED
    BY <1>1, <1>2, <1>3, <1>4, <1>5, StepCases

\* The variables of the reconciler of Watcher stay in their types, whatever
\* users, other operators and restarts do.
THEOREM TypeCorrect == Spec => []TypeOK
  BY InitType, NextType, PTL DEF Spec

-----------------------------------------------------------------------------
(***************************************************************************)
(* The database is migrated before any service runs on it.                 *)
(***************************************************************************)

AfterSync == {"cronjob", "api", "expose", "decisionengine", "applier",
              "accounts"}

\* A hash that is stored anywhere is the image of a completed dbsync, and a
\* reconcile only comes past ensureDBSync with such an image.
SyncRecorded ==
    /\ jobs.state = "done" => jobs.sync \in migrated
    /\ \A o \in {cr, cache, base, inst} : o.hash \in {None} \cup migrated
    /\ pc \in AfterSync => base.spec.img \in migrated

\* At the start no hash is stored and no service resource exists.
LEMMA InitRecorded == Init => SyncRecorded /\ MigratedFirst
  <1> SUFFICES ASSUME Init PROVE SyncRecorded /\ MigratedFirst
    OBVIOUS
  <1>1. cr.hash = None /\ cache = cr
    BY DEF Init, NewCR
  <1>2. base.hash = None /\ inst.hash = None
    BY BlankType DEF Init
  <1>3. SyncRecorded
    BY <1>1, <1>2 DEF Init, NoJobs, SyncRecorded, AfterSync
  <1>4. MigratedFirst
    BY DEF Init, NoSub, MigratedFirst
  <1> QED
    BY <1>3, <1>4

\* What a reconcile does to a service resource: nothing, or it writes its spec.
SubKept(k) == sub'[k] = sub[k]
SubAnew(k) == /\ sub'[k].spec = SubSpec(base.spec)
              /\ sub'[k].told = sub[k].told

\* Only ensureDBSync records an image, and only its successors write the
\* service resources.
LEMMA InnerRecords ==
    ASSUME TypeOK, SyncRecorded, Inner
    PROVE  /\ UNCHANGED <<cr, cache, base, migrated>>
           /\ inst'.hash \in {None} \cup migrated
           /\ pc' \in AfterSync => base.spec.img \in migrated
           /\ jobs'.state = "done" => jobs'.sync \in migrated
           /\ sub' # sub =>
                 /\ base.spec.img \in migrated
                 /\ \A k \in Kinds : SubKept(k) \/ SubAnew(k)
  <1>0. Types /\ Facts
    BY TypeOKUnfolded, FactsHold
  <1>M. \A t \in WatcherConditions, v \in Statuses :
            /\ Marked(inst, t, v) \in CRs
            /\ Marked(inst, t, v).hash = inst.hash
    BY <1>0, MarkedFacts DEF Types
  <1>H. /\ inst.hash \in {None} \cup migrated
        /\ jobs.state = "done" => jobs.sync \in migrated
        /\ pc \in AfterSync => base.spec.img \in migrated
    BY DEF SyncRecorded
  <1>1. ASSUME UNCHANGED <<cr, cache, base, migrated, jobs, sub>>,
               inst'.hash = inst.hash, pc' \notin AfterSync \/ pc \in AfterSync
        PROVE  /\ UNCHANGED <<cr, cache, base, migrated>>
               /\ inst'.hash \in {None} \cup migrated
               /\ pc' \in AfterSync => base.spec.img \in migrated
               /\ jobs'.state = "done" => jobs'.sync \in migrated
               /\ sub' # sub =>
                     /\ base.spec.img \in migrated
                     /\ \A k \in Kinds : SubKept(k) \/ SubAnew(k)
    BY <1>1, <1>H
  <1>2. CASE EnsureRbac
    <2> DEFINE o == Marked(inst, "RBACReady", "True")
               add == base.phase = "Live" /\ ~base.fin
    <2>1. \/ FailWith("RBACReady", "Warning")
          \/ Return([o EXCEPT !.fin = (add \/ o.fin)], "none")
          \/ GoTo("deleteDB", o) \/ GoTo("db", o)
      BY <1>2 DEF EnsureRbac
    <2>2. /\ o \in CRs /\ o.hash = inst.hash
          /\ Marked(inst, "RBACReady", "Warning").hash = inst.hash
      BY <1>0, <1>M DEF Facts
    <2>3. \A b : [o EXCEPT !.fin = b].hash = o.hash
      BY <2>2 DEF CRs
    <2>4. /\ inst'.hash = inst.hash /\ pc' \notin AfterSync
      <3> HIDE DEF o, add
      <3> QED
        BY <2>1, <2>2, <2>3 DEF FailWith, Return, GoTo, AfterSync
    <2> QED
      BY <1>1, <1>2, <2>4 DEF EnsureRbac, Within, worldVars
  <1>3. CASE EnsureDB
    <2> DEFINE o == Marked(inst, "MariaDBAccountReady", "True")
    <2>1. \/ FailWith("MariaDBAccountReady", "Warning")
          \/ Return(Marked(o, "DBReady", "Warning"), "error")
          \/ Return(Marked(o, "DBReady", "Info"), "after")
          \/ GoTo("mq", Marked(o, "DBReady", "True"))
      BY <1>3 DEF EnsureDB
    <2>2. o \in CRs /\ o.hash = inst.hash
      BY <1>0, <1>M DEF Facts
    <2>4. \A t \in WatcherConditions, v \in Statuses :
              Marked(o, t, v).hash = inst.hash
      <3> HIDE DEF o
      <3>1. \A t \in WatcherConditions, v \in Statuses :
                Marked(o, t, v).hash = o.hash
        BY <2>2, MarkedFacts
      <3> QED
        BY <2>2, <3>1
    <2>3. inst'.hash = inst.hash /\ pc' \notin AfterSync
      <3> HIDE DEF o
      <3> QED
        BY <1>0, <1>M, <2>1, <2>4 DEF FailWith, Return, GoTo, AfterSync, Facts
    <2> QED
      BY <1>1, <1>3, <2>3 DEF EnsureDB, Within
  <1>4. CASE EnsureMQ
    <2>1. inst'.hash = inst.hash /\ pc' \notin AfterSync
      BY <1>0, <1>4, <1>M DEF EnsureMQ, FailWith, Return, GoTo, AfterSync, Facts
    <2> QED
      BY <1>1, <1>4, <2>1 DEF EnsureMQ, Within, worldVars
  <1>5. ASSUME NEW i, NEW next, next \notin AfterSync, EnsureSecret(i, next)
        PROVE  inst'.hash = inst.hash /\ pc' \notin AfterSync
    <2>1. (IF input[i] = Absent THEN "Info" ELSE "Warning") \in Statuses
      BY <1>0 DEF Facts
    <2> QED
      BY <1>0, <1>5, <1>M, <2>1
         DEF EnsureSecret, FailWith, Return, GoTo, AfterSync, Facts
  <1>6. CASE InputSecret \/ TransportURLSecret
    <2>1. inst'.hash = inst.hash /\ pc' \notin AfterSync
      BY <1>5, <1>6 DEF InputSecret, TransportURLSecret, AfterSync
    <2> QED
      BY <1>1, <1>6, <2>1
         DEF InputSecret, TransportURLSecret, EnsureSecret, Within, worldVars
  <1>7. CASE PrometheusSecret
    <2>1. inst'.hash = inst.hash /\ pc' \notin AfterSync
      BY <1>0, <1>7, <1>M
         DEF PrometheusSecret, FailWith, Return, GoTo, AfterSync, Facts
    <2> QED
      BY <1>1, <1>7, <2>1 DEF PrometheusSecret, Within
  <1>8. CASE CreateSubLevelSecret
    <2>1. inst'.hash = inst.hash /\ pc' \notin AfterSync
      BY <1>0, <1>8, <1>M
         DEF CreateSubLevelSecret, Return, GoTo, AfterSync, Facts
    <2> QED
      BY <1>1, <1>8, <2>1 DEF CreateSubLevelSecret, Within
  <1>9. CASE EnsureKeystoneSvc
    <2>1. MirrorKeystone(inst).hash = inst.hash
      BY <1>0, <1>M DEF MirrorKeystone, Facts, Types, KSs
    <2>2. inst'.hash = inst.hash /\ pc' \notin AfterSync
      BY <1>0, <1>9, <1>M, <2>1
         DEF EnsureKeystoneSvc, FailWith, Return, GoTo, AfterSync, Facts
    <2> QED
      BY <1>1, <1>9, <2>2 DEF EnsureKeystoneSvc, Within
  <1>10. CASE ServiceConfigDBJobs
    <2>1. inst'.hash = inst.hash /\ pc' \notin AfterSync
      BY <1>0, <1>10, <1>M
         DEF ServiceConfigDBJobs, FailWith, Return, GoTo, AfterSync, Facts
    <2>2. jobs'.state = jobs.state /\ jobs'.sync = jobs.sync
      BY <1>0, <1>10 DEF ServiceConfigDBJobs, Types, Jobs
    <2> QED
      BY <1>10, <1>H, <2>1, <2>2 DEF ServiceConfigDBJobs, Within
  <1>11. CASE EnsureDBSync
    <2> DEFINE done == [Marked(inst, "DBSyncReady", "True")
                            EXCEPT !.hash = base.spec.img]
    <2>1. /\ SyncRunning(inst).hash = inst.hash
          /\ Marked(inst, "DBSyncReady", "Warning").hash = inst.hash
          /\ done.hash = base.spec.img
      <3>1. /\ Marked(inst, "DBSyncReady", "True") \in CRs
            /\ Marked(inst, "DBSyncReady", "Info").hash = inst.hash
            /\ Marked(inst, "DBSyncReady", "Warning").hash = inst.hash
        BY <1>0, <1>M DEF Facts
      <3> QED
        BY <3>1 DEF SyncRunning, CRs
    <2>2. SyncDone(base.spec.img) => base.spec.img \in migrated
      <3>1. base.spec.img # None
        BY <1>0, SpecsAssumption DEF Types, CRs
      <3> QED
        BY <1>H, <3>1 DEF SyncDone
    <2>3. \/ /\ pc' = "exit" /\ inst'.hash = inst.hash
          \/ /\ SyncDone(base.spec.img) /\ inst' = done
      BY <1>11, <2>1 DEF EnsureDBSync, FailWith, Return, GoTo
    <2>4. \/ jobs' = jobs
          \/ jobs' = [jobs EXCEPT !.sync = base.spec.img, !.state = "running"]
      BY <1>11 DEF EnsureDBSync
    <2>5. [jobs EXCEPT !.sync = base.spec.img, !.state = "running"].state
              = "running"
      BY <1>0 DEF Types, Jobs
    <2>6. /\ inst'.hash \in {None} \cup migrated
          /\ pc' \in AfterSync => base.spec.img \in migrated
      <3> HIDE DEF done
      <3> QED
        BY <1>H, <2>1, <2>2, <2>3 DEF AfterSync
    <2> QED
      BY <1>11, <1>H, <2>4, <2>5, <2>6 DEF EnsureDBSync, Within
  <1>12. CASE EnsureDBPurgeCronJob
    <2>1. inst'.hash = inst.hash /\ pc \in AfterSync
      BY <1>0, <1>12, <1>M
         DEF EnsureDBPurgeCronJob, FailWith, Return, GoTo, AfterSync, Facts
    <2>2. jobs'.state = jobs.state /\ jobs'.sync = jobs.sync
      BY <1>0, <1>12 DEF EnsureDBPurgeCronJob, Types, Jobs
    <2> QED
      BY <1>12, <1>H, <2>1, <2>2 DEF EnsureDBPurgeCronJob, Within
  <1>13. ASSUME NEW k \in AfterSync, NEW next, EnsureSub(k, next)
         PROVE  /\ inst'.hash = inst.hash /\ pc = k
                /\ UNCHANGED <<cr, cache, base, migrated, jobs>>
                /\ \A j \in Kinds : SubKept(j) \/ SubAnew(j)
    <2> DEFINE s == SubWritten(k, SubSpec(base.spec))
    <2>1. k \in Kinds => /\ s.spec = SubSpec(base.spec)
                         /\ s.ready \in Statuses /\ s.told = sub[k].told
      BY <1>0 DEF Types, SubCRs, SubWritten
    <2>2. \/ GoTo(next, inst) /\ sub' = sub
          \/ k \in Kinds /\ FailWith(SubCondition[k], "Error") /\ sub' = sub
          \/ /\ k \in Kinds /\ sub' = [sub EXCEPT ![k] = s]
             /\ GoTo(next, MirrorSub(inst, k, s))
      BY <1>13 DEF EnsureSub
    <2>3. pc = k /\ UNCHANGED <<cr, cache, base, migrated, jobs>>
      BY <1>13 DEF EnsureSub, Within
    <2> HIDE DEF s
    <2>4. k \in Kinds => MirrorSub(inst, k, s).hash = inst.hash
      BY <1>0, <1>M, <2>1 DEF MirrorSub, Facts
    <2>5. inst'.hash = inst.hash
      BY <1>0, <1>M, <2>2, <2>4 DEF GoTo, FailWith, Return, Facts
    <2>6. \A j \in Kinds : SubKept(j) \/ SubAnew(j)
      BY <1>0, <2>1, <2>2 DEF Types, SubKept, SubAnew
    <2> QED
      BY <2>3, <2>5, <2>6
  <1>14. CASE EnsureAPI \/ EnsureDecisionEngine \/ EnsureApplier
    <2>1. PICK k \in AfterSync : \E next : EnsureSub(k, next)
      BY <1>14 DEF EnsureAPI, EnsureDecisionEngine, EnsureApplier, AfterSync
    <2> QED
      BY <1>13, <1>H, <2>1
  <1>15. CASE ExposeEndpoints
    <2>1. inst'.hash = inst.hash /\ pc \in AfterSync
      BY <1>0, <1>15, <1>M
         DEF ExposeEndpoints, ExposureReported, FailWith, Return, GoTo,
             AfterSync, Facts
    <2> QED
      BY <1>1, <1>15, <2>1 DEF ExposeEndpoints, Within, worldVars
  <1>16. CASE ReleaseUnusedAccounts
    <2>1. Finished(inst).hash = inst.hash
      BY <1>0, <1>M DEF Finished, Facts
    <2>2. inst'.hash = inst.hash /\ pc \in AfterSync
      BY <1>16, <2>1 DEF ReleaseUnusedAccounts, Return, AfterSync
    <2> QED
      BY <1>1, <1>16, <2>2 DEF ReleaseUnusedAccounts, Within
  <1>17. CASE DeleteDBFinalizer
    BY <1>1, <1>17 DEF DeleteDBFinalizer, Return, GoTo, Within, AfterSync
  <1>18. CASE DeleteKSFinalizer
    BY <1>1, <1>18 DEF DeleteKSFinalizer, Return, GoTo, Within, AfterSync
  <1>19. CASE DeletePrometheusFinalizer
    <2>1. DropsFinalizer(inst).hash = inst.hash
      BY <1>0 DEF DropsFinalizer, Types, CRs
    <2> QED
      BY <1>1, <1>19, <2>1
         DEF DeletePrometheusFinalizer, Return, Within, AfterSync
  <1> QED
    BY <1>2, <1>3, <1>4, <1>6, <1>7, <1>8, <1>9, <1>10, <1>11, <1>12, <1>14,
       <1>15, <1>16, <1>17, <1>18, <1>19 DEF Inner

\* What everybody else does to it: its StatefulSet is told its spec.
ToldOnly(k) == /\ sub'[k].spec = sub[k].spec
               /\ sub'[k].exists = sub[k].exists
               /\ \/ sub'[k].told = sub[k].told
                  \/ sub[k].exists /\ sub'[k].told.spec = sub[k].spec

\* Nobody else forgets a migration or changes the image of a service.
LEMMA OuterRecords ==
    ASSUME TypeOK, SyncRecorded, Outer
    PROVE  /\ UNCHANGED <<pc, base, inst>>
           /\ cr'.hash = cr.hash /\ cache'.hash \in {cache.hash, cr.hash}
           /\ migrated \subseteq migrated'
           /\ jobs'.state = "done" => jobs'.sync \in migrated'
           /\ \A k \in Kinds : ToldOnly(k)
  <1>0. Types
    BY TypeOKUnfolded
  <1>H. jobs.state = "done" => jobs.sync \in migrated
    BY DEF SyncRecorded
  <1>1. ASSUME UNCHANGED <<pc, base, inst, cr, cache, jobs, migrated, sub>>
        PROVE  /\ UNCHANGED <<pc, base, inst>>
               /\ cr'.hash = cr.hash /\ cache'.hash \in {cache.hash, cr.hash}
               /\ migrated \subseteq migrated'
               /\ jobs'.state = "done" => jobs'.sync \in migrated'
               /\ \A k \in Kinds : ToldOnly(k)
    BY <1>1, <1>H DEF ToldOnly
  <1>2. CASE SyncCache
    BY <1>2, <1>H DEF SyncCache, controllerVars, worldVars, ToldOnly
  <1>3. CASE KeystoneStep
    BY <1>1, <1>3 DEF KeystoneStep, OwnedEvent, controllerVars
  <1>4. CASE JobStep
    <2>1. /\ OwnedEvent /\ sub' = sub
          /\ \/ /\ jobs' = [jobs EXCEPT !.state = "done"]
                /\ migrated' = migrated \cup {jobs.sync}
             \/ /\ jobs' = [jobs EXCEPT !.state = "failed"]
                /\ migrated' = migrated
      BY <1>4 DEF JobStep
    <2>2. /\ [jobs EXCEPT !.state = "done"].sync = jobs.sync
          /\ [jobs EXCEPT !.state = "failed"].state = "failed"
      BY <1>0 DEF Types, Jobs
    <2> QED
      BY <2>1, <2>2 DEF OwnedEvent, controllerVars, ToldOnly
  <1>5. CASE Services \/ \E k \in Kinds : SubDisturb(k)
    <2>1. PICK k \in Kinds : \/ SubTell(k) \/ SubReport(k) \/ SubReady(k)
                             \/ SubDisturb(k)
      BY <1>5 DEF Services
    <2>2. \A j \in Kinds : ToldOnly(j)
      <3>1. CASE SubTell(k)
        <4>1. /\ sub' = [sub EXCEPT ![k].told = Current(k)]
              /\ sub[k].exists /\ Current(k).spec = sub[k].spec
          BY <3>1 DEF SubTell, Current
        <4> QED
          BY <1>0, <4>1 DEF Types, SubCRs, ToldOnly
      <3>2. CASE SubReport(k) \/ SubReady(k) \/ SubDisturb(k)
        BY <1>0, <3>2
           DEF SubReport, SubReady, SubDisturb, Types, SubCRs, ToldOnly
      <3> QED
        BY <2>1, <3>1, <3>2
    <2>3. UNCHANGED <<cr, cache, controllerVars, jobs, migrated>>
      BY <2>1 DEF SubTell, SubReport, SubReady, SubDisturb, OwnedEvent
    <2> QED
      BY <1>H, <2>2, <2>3 DEF controllerVars
  <1>6. CASE UpdateSpec
    <2>1. PICK s \in Specs : cr' = [cr EXCEPT !.spec = s, !.gen = @ + 1]
      BY <1>6 DEF UpdateSpec
    <2>2. cr \in CRs
      BY <1>0 DEF Types
    <2>3. cr'.hash = cr.hash
      <3>1. [cr EXCEPT !.spec = s, !.gen = @ + 1].hash = cr.hash
        BY <2>2, SpecWritten
      <3> QED
        BY <2>1, <3>1
    <2> QED
      BY <1>6, <1>H, <2>3 DEF UpdateSpec, controllerVars, worldVars, ToldOnly
  <1>7. CASE DeleteCR
    <2> DEFINE p == IF cr.fin THEN "Deleting" ELSE "Gone"
               o == [cr EXCEPT !.phase = p, !.gen = @ + 1]
    <2>1. cr' = o /\ cr \in CRs /\ cr.spec \in Specs
      BY <1>0, <1>7 DEF DeleteCR, Types, CRs
    <2>2. p \in {"Live", "Deleting", "Gone"}
      OBVIOUS
    <2>4. o.hash = cr.hash
      <3> HIDE DEF p
      <3> QED
        BY <2>1, <2>2, PhaseWritten, Zenon
    <2>3. cr'.hash = cr.hash
      BY <2>1, <2>4
    <2> QED
      BY <1>7, <1>H, <2>3 DEF DeleteCR, controllerVars, worldVars, ToldOnly
  <1>8. CASE ChangeInput
    BY <1>1, <1>8 DEF ChangeInput, controllerVars, worldVars
  <1>9. CASE UNCHANGED vars
    BY <1>1, <1>9 DEF vars, controllerVars, worldVars
  <1> QED
    BY <1>2, <1>3, <1>4, <1>5, <1>6, <1>7, <1>8, <1>9 DEF Outer

\* Every step keeps hashes and service resources to migrated images.
LEMMA RecordedKept ==
    ASSUME TypeOK, SyncRecorded, MigratedFirst, [Next]_vars
    PROVE  SyncRecorded' /\ MigratedFirst'
  <1>0. Types
    BY TypeOKUnfolded
  <1>1. CASE Start
    <2>1. /\ UNCHANGED <<cr, cache, jobs, migrated, sub>>
          /\ \/ UNCHANGED <<pc, base, inst>>
             \/ base' = cache /\ inst' = InitStatus(cache) /\ pc' = "rbac"
      BY <1>1 DEF Start, GoTo, worldVars, controllerVars
    <2>2. InitStatus(cache).hash = cache.hash
      BY <1>0, InitStatusFacts DEF Types
    <2> QED
      BY <2>1, <2>2 DEF SyncRecorded, MigratedFirst, AfterSync
  <1>2. CASE Inner
    <2>1. SyncRecorded'
      BY <1>2, InnerRecords DEF SyncRecorded
    <2>2. ASSUME NEW k \in Kinds
          PROVE  /\ sub'[k].exists => sub'[k].spec.img \in migrated'
                 /\ sub'[k].told # None => sub'[k].told.spec.img \in migrated'
      <3>1. migrated' = migrated
        BY <1>2, InnerRecords
      <3>2. CASE sub'[k] = sub[k]
        BY <3>1, <3>2 DEF MigratedFirst
      <3>3. CASE sub'[k] # sub[k]
        <4>1. SubAnew(k) /\ base.spec.img \in migrated
          BY <1>2, <3>3, InnerRecords DEF SubKept
        <4> QED
          BY <3>1, <4>1 DEF SubAnew, SubSpec, MigratedFirst
      <3> QED
        BY <3>2, <3>3
    <2> QED
      BY <2>1, <2>2 DEF MigratedFirst
  <1>3. CASE Exit
    <2> DEFINE after == [inst EXCEPT !.cond = MirrorUndecided(inst.cond)]
    <2>1. after \in CRs /\ after.hash = inst.hash
      BY <1>0, MirrorFacts DEF Types
    <2>2. PatchInstance(cr, base, after).hash \in {cr.hash, after.hash}
      BY <1>0, <2>1, PatchFacts DEF Types
    <2>3. /\ cr' = PatchInstance(cr, base, after) \/ cr' = cr
          /\ Forget /\ UNCHANGED <<cache, jobs, migrated, sub>>
      BY <1>3 DEF Exit, PatchFails, worldVars
    <2> HIDE DEF after
    <2> QED
      BY <2>1, <2>2, <2>3, ForgetType
         DEF SyncRecorded, MigratedFirst, AfterSync
  <1>4. CASE Crash
    <2>1. Forget /\ cache' = cr /\ UNCHANGED <<cr, jobs, migrated, sub>>
      BY <1>4 DEF Crash, worldVars
    <2> QED
      BY <2>1, ForgetType DEF SyncRecorded, MigratedFirst, AfterSync
  <1>5. CASE Outer
    <2>1. SyncRecorded'
      BY <1>5, OuterRecords DEF SyncRecorded
    <2>2. ASSUME NEW k \in Kinds
          PROVE  /\ sub'[k].exists => sub'[k].spec.img \in migrated'
                 /\ sub'[k].told # None => sub'[k].told.spec.img \in migrated'
      <3>1. ToldOnly(k) /\ migrated \subseteq migrated'
        BY <1>5, OuterRecords
      <3> QED
        BY <3>1 DEF ToldOnly, MigratedFirst
    <2> QED
      BY <2>1, <2>2 DEF MigratedFirst
  <1> QED
    BY <1>1, <1>2, <1>3, <1>4, <1>5, StepCases

\* No service resource, and no StatefulSet, names an image before a dbsync with
\* that image has completed: not when a reconcile works from a stale copy, not
\* when the image changes or is rolled back while a Job runs, not when the
\* operator restarts between the end of a Job and the write of its hash.
THEOREM MigrationComesFirst == Spec => []MigratedFirst
  <1> DEFINE Inv == TypeOK /\ SyncRecorded /\ MigratedFirst
  <1>1. Init => Inv
    BY InitType, InitRecorded
  <1>2. Inv /\ [Next]_vars => Inv'
    BY NextType, RecordedKept
  <1>3. Inv => MigratedFirst
    OBVIOUS
  <1> QED
    BY <1>1, <1>2, <1>3, PTL DEF Spec

-----------------------------------------------------------------------------
(***************************************************************************)
(* The order of the steps, and what a service finds when it starts.        *)
(***************************************************************************)

\* The steps of a reconcile that builds up, each with those that follow it.
AfterApplier == {"accounts"}
AfterDecisionEngine == {"applier"} \cup AfterApplier
AfterExpose == {"decisionengine"} \cup AfterDecisionEngine
AfterAPI == {"expose"} \cup AfterExpose
AfterCronJob == {"api"} \cup AfterAPI
AfterConfig == {"dbsync"} \cup AfterSync
AfterKeystone == {"config"} \cup AfterConfig
AfterSecret == {"keystone"} \cup AfterKeystone
AfterPrometheus == {"subSecret"} \cup AfterSecret
AfterTransport == {"prometheus"} \cup AfterPrometheus
AfterInput == {"transport"} \cup AfterTransport
AfterMQ == {"secret"} \cup AfterInput
AfterDB == {"mq"} \cup AfterMQ
Creation == {"db"} \cup AfterDB

\* The steps of reconcileDelete.
Deletion == {"deleteDB", "deleteKS", "deletePrometheus"}

\* A step, and the one a reconcile goes on with.
Moves ==
    {<<"rbac", "db">>, <<"rbac", "deleteDB">>, <<"db", "mq">>,
     <<"mq", "secret">>, <<"secret", "transport">>,
     <<"transport", "prometheus">>, <<"prometheus", "subSecret">>,
     <<"subSecret", "keystone">>, <<"keystone", "config">>,
     <<"config", "dbsync">>, <<"dbsync", "cronjob">>, <<"cronjob", "api">>,
     <<"api", "expose">>, <<"expose", "decisionengine">>,
     <<"decisionengine", "applier">>, <<"applier", "accounts">>,
     <<"deleteDB", "deleteKS">>, <<"deleteKS", "deletePrometheus">>}

\* A copy that is under deletion is right about it, and reconcileDelete only
\* works on such a copy.
Phases ==
    /\ cache.phase # "Live" => cr.phase # "Live"
    /\ pc # "idle" => base.phase # "Gone"
    /\ pc # "idle" /\ base.phase # "Live" => cr.phase # "Live"
    /\ pc \in Deletion => base.phase = "Deleting"
    /\ pc \in Creation => base.phase = "Live"

\* A Prometheus secret that carries the finalizer is there, and the steps
\* after the one that sets it find it set, those after createSubLevelSecret
\* the secret of the services.
Prepared ==
    /\ promFin # {} => input["prometheus"] # Absent
    /\ pc \in AfterPrometheus => promFin # {}
    /\ pc \in AfterSecret => subSecret # None
    /\ \A k \in Kinds : cr.phase = "Live" /\ sub[k].exists =>
          subSecret # None /\ promFin # {}

\* A step of a reconcile goes on or ends it, and takes no event back.
LEMMA InnerMoves ==
    ASSUME Inner
    PROVE  /\ UNCHANGED <<cr, cache, base, input, changes>>
           /\ pc' # "exit" => <<pc, pc'>> \in Moves /\ NoFault
           /\ pc \notin {"idle", "exit"} /\ pc' # "idle"
           /\ queue => queue'
  <1>1. CASE EnsureRbac \/ EnsureDB \/ EnsureMQ
    BY <1>1 DEF EnsureRbac, EnsureDB, EnsureMQ, FailWith, Return, GoTo, Within,
                Moves
  <1>2. CASE InputSecret \/ TransportURLSecret \/ PrometheusSecret
    BY <1>2 DEF InputSecret, TransportURLSecret, EnsureSecret, PrometheusSecret,
                FailWith, Return, GoTo, Within, Moves
  <1>3. CASE CreateSubLevelSecret
    <2>1. \/ Return(inst, "swallowed") /\ UNCHANGED queue
          \/ /\ GoTo("keystone", Marked(inst, "InputReady", "True"))
             /\ NoFault /\ queue' = (queue \/ subSecret # Collected)
      BY <1>3 DEF CreateSubLevelSecret
    <2>2. pc = "subSecret" /\ Within
      BY <1>3 DEF CreateSubLevelSecret
    <2>3. queue => queue'
      BY <2>1, Zenon
    <2> QED
      BY <2>1, <2>2, <2>3 DEF Return, GoTo, Within, Moves
  <1>4. CASE EnsureKeystoneSvc
    <2>1. \/ FailWith("KeystoneServiceReady", "Error") /\ UNCHANGED queue
          \/ /\ GoTo("config", MirrorKeystone(inst))
             /\ NoFault /\ queue' = (queue \/ ks' # ks)
      BY <1>4 DEF EnsureKeystoneSvc
    <2>2. pc = "keystone" /\ Within
      BY <1>4 DEF EnsureKeystoneSvc
    <2>3. queue => queue'
      BY <2>1, Zenon
    <2> QED
      BY <2>1, <2>2, <2>3 DEF FailWith, Return, GoTo, Within, Moves
  <1>5. CASE ServiceConfigDBJobs
    <2>1. \/ FailWith("ServiceConfigReady", "Warning") /\ UNCHANGED queue
          \/ /\ GoTo("dbsync", Marked(inst, "ServiceConfigReady", "True"))
             /\ NoFault /\ queue' = (queue \/ jobs' # jobs)
      BY <1>5 DEF ServiceConfigDBJobs
    <2>2. pc = "config" /\ Within
      BY <1>5 DEF ServiceConfigDBJobs
    <2>3. queue => queue'
      BY <2>1, Zenon
    <2> QED
      BY <2>1, <2>2, <2>3 DEF FailWith, Return, GoTo, Within, Moves
  <1>6. CASE EnsureDBPurgeCronJob
    <2>1. \/ FailWith("CronJobReady", "Warning") /\ UNCHANGED queue
          \/ /\ GoTo("api", Marked(inst, "CronJobReady", "True"))
             /\ NoFault /\ queue' = (queue \/ jobs' # jobs)
      BY <1>6 DEF EnsureDBPurgeCronJob
    <2>2. pc = "cronjob" /\ Within
      BY <1>6 DEF EnsureDBPurgeCronJob
    <2>3. queue => queue'
      BY <2>1, Zenon
    <2> QED
      BY <2>1, <2>2, <2>3 DEF FailWith, Return, GoTo, Within, Moves
  <1>7. CASE EnsureDBSync
    BY <1>7 DEF EnsureDBSync, FailWith, Return, GoTo, Within, Moves
  <1>8. ASSUME NEW k, NEW next, EnsureSub(k, next)
        PROVE  /\ UNCHANGED <<cr, cache, base, input, changes>>
               /\ pc' # "exit" => pc' = next /\ NoFault
               /\ pc = k /\ pc' \in {"exit", next}
               /\ queue => queue'
    <2> DEFINE s == SubWritten(k, SubSpec(base.spec))
    <2>1. \/ GoTo(next, inst) /\ UNCHANGED queue /\ NoFault
          \/ FailWith(SubCondition[k], "Error") /\ UNCHANGED queue
          \/ /\ queue' = (queue \/ sub' # sub) /\ NoFault
             /\ GoTo(next, MirrorSub(inst, k, s))
      BY <1>8 DEF EnsureSub
    <2>2. pc = k /\ Within
      BY <1>8 DEF EnsureSub
    <2> HIDE DEF s
    <2>3. queue => queue'
      BY <2>1, Zenon
    <2> QED
      BY <2>1, <2>2, <2>3 DEF FailWith, Return, GoTo, Within
  <1>9. CASE EnsureAPI \/ EnsureDecisionEngine \/ EnsureApplier
    BY <1>8, <1>9 DEF EnsureAPI, EnsureDecisionEngine, EnsureApplier, Moves
  <1>10. CASE ExposeEndpoints \/ ReleaseUnusedAccounts
    BY <1>10 DEF ExposeEndpoints, ReleaseUnusedAccounts, FailWith, Return, GoTo,
                 Within, Moves
  <1>11. CASE DeleteDBFinalizer
    BY <1>11 DEF DeleteDBFinalizer, Return, GoTo, Within, Moves
  <1>12. CASE DeleteKSFinalizer
    <2>1. \/ Return(inst, "error") /\ UNCHANGED queue
          \/ /\ GoTo("deletePrometheus", inst)
             /\ NoFault /\ queue' = (queue \/ ks' # ks)
      BY <1>12 DEF DeleteKSFinalizer
    <2>2. pc = "deleteKS" /\ Within
      BY <1>12 DEF DeleteKSFinalizer
    <2>3. queue => queue'
      BY <2>1, Zenon
    <2> QED
      BY <2>1, <2>2, <2>3 DEF Return, GoTo, Within, Moves
  <1>13. CASE DeletePrometheusFinalizer
    BY <1>13 DEF DeletePrometheusFinalizer, Return, Within
  <1> QED
    BY <1>1, <1>2, <1>3, <1>4, <1>5, <1>6, <1>7, <1>9, <1>10, <1>11, <1>12,
       <1>13 DEF Inner

\* The first two steps, and the branch to reconcileDelete.
LEMMA RbacMoves ==
    ASSUME TypeOK, EnsureRbac
    PROVE  /\ pc = "rbac"
           /\ pc' = "db" => base.phase # "Deleting"
           /\ pc' = "deleteDB" => base.phase = "Deleting"
           /\ pc' # "exit" => /\ base.phase = "Live" => base.fin
                              /\ inst'.fin = inst.fin
                              /\ ~NilConditions(base.cond)
                              /\ inst' = Marked(inst, "RBACReady", "True")
           /\ pc' = "exit" =>
                 \/ outcome' = "error" /\ inst'.fin = inst.fin
                 \/ /\ outcome' = "none"
                    /\ inst'.cond = Marked(inst, "RBACReady", "True").cond
                    /\ inst'.fin = ((base.phase = "Live" /\ ~base.fin) \/ inst.fin)
                    /\ \/ base.phase = "Live" /\ ~base.fin
                       \/ NilConditions(base.cond)
  <1>0. Types /\ Facts
    BY TypeOKUnfolded, FactsHold
  <1> DEFINE o == Marked(inst, "RBACReady", "True")
             w == Marked(inst, "RBACReady", "Warning")
             add == base.phase = "Live" /\ ~base.fin
             f == [o EXCEPT !.fin = (add \/ o.fin)]
  <1>1. o \in CRs /\ o.fin = inst.fin /\ w.fin = inst.fin
    <2>1. \A t \in WatcherConditions, v \in Statuses :
              Marked(inst, t, v) \in CRs /\ Marked(inst, t, v).fin = inst.fin
      BY <1>0, MarkedFacts DEF Types
    <2> QED
      BY <1>0, <2>1 DEF Facts
  <1>2. f.fin = (add \/ o.fin) /\ f.cond = o.cond
    <2> HIDE DEF o, add
    <2> QED
      BY <1>1 DEF CRs
  <1>3. \/ /\ pc' = "exit" /\ inst' = w /\ outcome' = "error"
        \/ /\ add \/ NilConditions(base.cond)
           /\ pc' = "exit" /\ inst' = f /\ outcome' = "none"
        \/ /\ ~(add \/ NilConditions(base.cond)) /\ inst' = o
           /\ pc' = (IF base.phase = "Deleting" THEN "deleteDB" ELSE "db")
    BY DEF EnsureRbac, FailWith, Return, GoTo
  <1>4. pc = "rbac"
    BY DEF EnsureRbac
  <1> HIDE DEF o, w, f
  <1> QED
    BY <1>1, <1>2, <1>3, <1>4 DEF o

\* What a step of a reconcile does to finalizers, KeystoneService and secret.
Effects ==
    /\ pc \notin {"prometheus", "deletePrometheus"} => promFin' = promFin
    /\ pc = "prometheus" =>
          \/ promFin' = promFin /\ pc' = "exit"
          \/ /\ promFin' = promFin \cup {base.spec.prom}
             /\ input["prometheus"] \in Versions
    /\ pc = "deletePrometheus" =>
          \/ /\ promFin' = promFin \ {base.spec.prom} /\ pc' = "exit"
          \/ /\ promFin' = promFin /\ pc' = "exit"
             /\ Fault \/ inst' = inst
    /\ pc # "subSecret" => subSecret' = subSecret
    /\ pc = "subSecret" =>
          \/ subSecret' = subSecret /\ pc' = "exit" /\ outcome' = "swallowed"
          \/ /\ subSecret' = Collected /\ NoFault
             /\ subSecret' # subSecret => queue'
    /\ pc \notin {"keystone", "deleteKS"} => ks' = ks
    /\ pc = "keystone" =>
          \/ ks' = ks /\ pc' = "exit"
          \/ /\ ks' = [ks EXCEPT !.exists = TRUE, !.fin = TRUE]
             /\ ks' # ks => queue'
    /\ pc = "deleteKS" =>
          \/ ks' = ks /\ pc' = "exit"
          \/ /\ ks' = KeystoneReleased
             /\ ks' # ks => queue'
    /\ pc \notin {"db", "accounts", "deleteDB"} => acctFin' = acctFin
    /\ pc = "db" =>
          \/ acctFin' = acctFin /\ pc' = "exit"
          \/ acctFin' = acctFin \cup {base.spec.acct}
    /\ pc = "deleteDB" =>
          \/ acctFin' = acctFin /\ pc' = "exit"
          \/ acctFin' = acctFin \ {base.spec.acct}
    /\ pc = "accounts" =>
          \/ acctFin' = acctFin /\ outcome' = "error"
          \/ acctFin' = acctFin \cap {base.spec.acct}
    /\ pc \notin Kinds => sub' = sub
    /\ sub' # sub => queue'

\* Only the step named writes them.
LEMMA InnerEffects == ASSUME TypeOK, Inner PROVE Effects
  <1>0. queue \in BOOLEAN
    BY DEF TypeOK
  <1>1. CASE EnsureRbac \/ EnsureMQ \/ ExposeEndpoints
    BY <1>1 DEF EnsureRbac, EnsureMQ, ExposeEndpoints, worldVars, Effects
  <1>2. CASE EnsureDB
    BY <1>2 DEF EnsureDB, FailWith, Return, Effects
  <1>3. CASE InputSecret \/ TransportURLSecret
    BY <1>3 DEF InputSecret, TransportURLSecret, EnsureSecret, worldVars, Effects
  <1>4. CASE PrometheusSecret
    BY <1>4 DEF PrometheusSecret, PrometheusHeld, FailWith, Return, Effects
  <1>5. CASE CreateSubLevelSecret
    <2>1. \/ /\ Return(inst, "swallowed") /\ subSecret' = subSecret
          \/ /\ subSecret' = Collected /\ NoFault
             /\ queue' = (queue \/ subSecret # Collected)
      BY <1>5 DEF CreateSubLevelSecret
    <2>2. \/ /\ Return(inst, "swallowed") /\ subSecret' = subSecret
          \/ /\ subSecret' = Collected /\ NoFault
             /\ subSecret' # subSecret => queue'
      BY <2>1, Zenon
    <2>3. /\ pc = "subSecret"
          /\ UNCHANGED <<seen, acctFin, promFin, ks, jobs, migrated, sub>>
      BY <1>5 DEF CreateSubLevelSecret
    <2> QED
      BY <2>2, <2>3 DEF Return, Effects
  <1>6. CASE EnsureKeystoneSvc
    <2>1. \/ /\ FailWith("KeystoneServiceReady", "Error") /\ ks' = ks
          \/ /\ ks' = [ks EXCEPT !.exists = TRUE, !.fin = TRUE]
             /\ queue' = (queue \/ ks' # ks)
      BY <1>6 DEF EnsureKeystoneSvc
    <2>2. \/ /\ FailWith("KeystoneServiceReady", "Error") /\ ks' = ks
          \/ /\ ks' = [ks EXCEPT !.exists = TRUE, !.fin = TRUE]
             /\ ks' # ks => queue'
      BY <2>1, Zenon
    <2>3. /\ pc = "keystone"
          /\ UNCHANGED <<acctFin, promFin, subSecret, sub>>
      BY <1>6 DEF EnsureKeystoneSvc
    <2> QED
      BY <2>2, <2>3 DEF FailWith, Return, Effects
  <1>7. CASE ServiceConfigDBJobs \/ EnsureDBPurgeCronJob
    BY <1>7 DEF ServiceConfigDBJobs, EnsureDBPurgeCronJob, Effects
  <1>8. CASE EnsureDBSync
    BY <1>8 DEF EnsureDBSync, Effects
  <1>9. CASE EnsureAPI \/ EnsureDecisionEngine \/ EnsureApplier
    <2>1. PICK k \in {"api", "decisionengine", "applier"} :
              \E next : EnsureSub(k, next)
      BY <1>9 DEF EnsureAPI, EnsureDecisionEngine, EnsureApplier
    <2>2. \/ sub' = sub
          \/ k \in Kinds /\ queue' = (queue \/ sub' # sub)
      BY <2>1 DEF EnsureSub
    <2>3. \/ sub' = sub
          \/ k \in Kinds /\ (sub' # sub => queue')
      BY <2>2, Zenon
    <2>4. /\ pc = k
          /\ UNCHANGED <<acctFin, promFin, ks, subSecret>>
      BY <2>1 DEF EnsureSub
    <2> QED
      BY <2>3, <2>4 DEF Effects
  <1>10. CASE ReleaseUnusedAccounts
    BY <1>10 DEF ReleaseUnusedAccounts, Return, Effects
  <1>11. CASE DeleteDBFinalizer
    BY <1>11 DEF DeleteDBFinalizer, Return, Effects
  <1>12. CASE DeleteKSFinalizer
    <2>1. \/ /\ Return(inst, "error") /\ ks' = ks
          \/ /\ ks' = KeystoneReleased
             /\ queue' = (queue \/ ks' # ks)
      BY <1>12 DEF DeleteKSFinalizer
    <2>2. \/ /\ Return(inst, "error") /\ ks' = ks
          \/ /\ ks' = KeystoneReleased
             /\ ks' # ks => queue'
      BY <2>1, Zenon
    <2>3. /\ pc = "deleteKS"
          /\ UNCHANGED <<acctFin, promFin, subSecret, sub>>
      BY <1>12 DEF DeleteKSFinalizer
    <2> QED
      BY <2>2, <2>3 DEF Return, Effects
  <1>13. CASE DeletePrometheusFinalizer
    BY <1>13 DEF DeletePrometheusFinalizer, Return, Effects
  <1> QED
    BY <1>1, <1>2, <1>3, <1>4, <1>5, <1>6, <1>7, <1>8, <1>9, <1>10, <1>11,
       <1>12, <1>13 DEF Inner

\* At the end of a reconcile the resource keeps spec, generation and, unless
\* it is under deletion, its phase.
LEMMA ExitFacts ==
    ASSUME TypeOK, Exit
    PROVE  /\ pc = "exit" /\ Forget
           /\ UNCHANGED <<cache, input, worldVars, changes>>
           /\ cr'.spec = cr.spec /\ cr'.gen = cr.gen
           /\ cr'.obs \in {cr.obs, inst.obs}
           /\ cr'.phase = "Live" <=> cr.phase = "Live"
           /\ queue => queue'
  <1>0. Types
    BY TypeOKUnfolded
  <1> DEFINE after == [inst EXCEPT !.cond = MirrorUndecided(inst.cond)]
             p == PatchInstance(cr, base, after)
  <1>1. after \in CRs /\ after.obs = inst.obs
    BY <1>0, MirrorFacts DEF Types
  <1>2. /\ cr' = p \/ cr' = cr
        /\ pc = "exit" /\ Forget
        /\ UNCHANGED <<cache, input, worldVars, changes>>
    BY DEF Exit, PatchFails
  <1>3. \/ queue' = (queue \/ outcome \in {"after", "error"})
        \/ queue' = TRUE
    BY DEF Exit, PatchFails
  <1>4. queue => queue'
    BY <1>3, Zenon
  <1>5. /\ p.spec = cr.spec /\ p.gen = cr.gen
        /\ p.obs \in {cr.obs, after.obs}
        /\ p.phase = "Live" <=> cr.phase = "Live"
    <2> HIDE DEF after
    <2> QED
      BY <1>0, <1>1, PatchFacts DEF Types
  <1> HIDE DEF after, p
  <1> QED
    BY <1>1, <1>2, <1>4, <1>5

\* What is new to the controller is an event, and a resource that is written
\* is a new generation.
Noticed ==
    /\ queue => queue'
    /\ ~queue' => /\ ks' = ks
                  /\ \A i \in Inputs \ Unwatched : input'[i] = input[i]
                  /\ \A k \in Kinds : /\ sub'[k].observed = sub[k].observed
                                      /\ sub'[k].ready = sub[k].ready
    /\ \/ cr' = cr /\ cache' = cache
       \/ cr' = cr /\ cache' = cr /\ queue'
       \/ /\ cache' = cache /\ cr.phase = "Live"
          /\ cr'.gen = cr.gen + 1 /\ cr'.obs = cr.obs /\ cr'.fin = cr.fin
          /\ cr'.phase \in {"Live", IF cr.fin THEN "Deleting" ELSE "Gone"}
          /\ cr'.phase = "Live" \/ cr'.spec = cr.spec
    /\ promFin # {} /\ input["prometheus"] # Absent =>
          input'["prometheus"] # Absent

\* Who else takes a step.
LEMMA OuterFacts ==
    ASSUME TypeOK, Outer
    PROVE  /\ UNCHANGED <<controllerVars, acctFin, promFin, subSecret, faults>>
           /\ ks'.fin = ks.fin /\ Noticed
           /\ \A k \in Kinds : /\ sub'[k].spec = sub[k].spec
                               /\ sub'[k].exists = sub[k].exists
  <1>0. Types /\ Facts
    BY TypeOKUnfolded, FactsHold
  <1>1. CASE SyncCache
    BY <1>1 DEF SyncCache, worldVars, Noticed
  <1>2. CASE KeystoneStep
    <2>1. ks'.fin = ks.fin
      BY <1>0, <1>2 DEF KeystoneStep, Types, KSs
    <2>2. OwnedEvent /\ sub' = sub
      BY <1>2 DEF KeystoneStep
    <2> QED
      BY <2>1, <2>2 DEF OwnedEvent, Noticed
  <1>3. CASE JobStep
    BY <1>3 DEF JobStep, OwnedEvent, Noticed
  <1>4. CASE Services \/ \E k \in Kinds : SubDisturb(k)
    <2>1. PICK k \in Kinds : \/ SubTell(k) \/ SubReport(k) \/ SubReady(k)
                             \/ SubDisturb(k)
      BY <1>4 DEF Services
    <2>2. \A j \in Kinds : /\ sub'[j].spec = sub[j].spec
                           /\ sub'[j].exists = sub[j].exists
      BY <1>0, <2>1
         DEF SubTell, SubReport, SubReady, SubDisturb, Types, SubCRs
    <2>3. SubTell(k) => \A j \in Kinds : /\ sub'[j].observed = sub[j].observed
                                         /\ sub'[j].ready = sub[j].ready
      BY <1>0 DEF SubTell, Types, SubCRs
    <2>4. /\ UNCHANGED <<cr, cache, controllerVars, acctFin, promFin, subSecret,
                         ks, input, faults>>
          /\ \/ SubTell(k) /\ UNCHANGED queue
             \/ queue' = TRUE
      BY <2>1 DEF SubTell, SubReport, SubReady, SubDisturb, OwnedEvent
    <2> QED
      BY <2>2, <2>3, <2>4 DEF Noticed
  <1>5. CASE UpdateSpec
    <2>1. PICK s \in Specs : cr' = [cr EXCEPT !.spec = s, !.gen = @ + 1]
      BY <1>5 DEF UpdateSpec
    <2>2. cr \in CRs
      BY <1>0 DEF Types
    <2>3. /\ cr'.gen = cr.gen + 1 /\ cr'.obs = cr.obs /\ cr'.fin = cr.fin
          /\ cr'.phase = cr.phase
      <3> DEFINE o == [cr EXCEPT !.spec = s, !.gen = @ + 1]
      <3>1. /\ o.gen = cr.gen + 1 /\ o.obs = cr.obs /\ o.fin = cr.fin
            /\ o.phase = cr.phase
        BY <2>2, SpecWritten
      <3>2. cr' = o
        BY <2>1
      <3> HIDE DEF o
      <3> QED
        BY <3>1, <3>2
    <2>4. /\ UNCHANGED <<cache, queue, controllerVars, input, worldVars, faults>>
          /\ cr.phase = "Live"
      BY <1>5 DEF UpdateSpec
    <2> QED
      BY <2>3, <2>4 DEF Noticed, worldVars
  <1>6. CASE DeleteCR
    <2> DEFINE p == IF cr.fin THEN "Deleting" ELSE "Gone"
    <2>1. cr' = [cr EXCEPT !.phase = p, !.gen = @ + 1]
      BY <1>6 DEF DeleteCR
    <2>2. /\ p \in {"Live", "Deleting", "Gone"}
          /\ cr \in CRs /\ cr.spec \in Specs
      BY <1>0 DEF Types, CRs
    <2>3. /\ UNCHANGED <<cache, queue, controllerVars, input, worldVars, faults>>
          /\ cr.phase = "Live"
      BY <1>6 DEF DeleteCR
    <2>4. /\ cr'.gen = cr.gen + 1 /\ cr'.obs = cr.obs /\ cr'.fin = cr.fin
          /\ cr'.phase = p /\ cr'.spec = cr.spec
      <3> HIDE DEF p
      <3> DEFINE o == [cr EXCEPT !.phase = p, !.gen = @ + 1]
      <3>1. /\ o.gen = cr.gen + 1 /\ o.obs = cr.obs /\ o.fin = cr.fin
            /\ o.phase = p /\ o.spec = cr.spec
        BY <2>2, PhaseWritten
      <3>2. cr' = o
        BY <2>1
      <3> HIDE DEF o
      <3> QED
        BY <3>1, <3>2
    <2> QED
      BY <2>3, <2>4 DEF Noticed, worldVars
  <1>7. CASE ChangeInput
    <2>1. PICK i \in Volatile \cap Inputs, v \in InputStates :
              /\ i = "prometheus" /\ v = Absent => promFin = {}
              /\ input' = [input EXCEPT ![i] = v]
              /\ queue' = (queue \/ i \notin Unwatched)
      BY <1>7 DEF ChangeInput
    <2>2. /\ queue => queue'
          /\ ~queue' => i \in Unwatched
      BY <2>1, Zenon
    <2>3. /\ \A j \in Inputs \ {i} : input'[j] = input[j]
          /\ promFin # {} /\ input["prometheus"] # Absent =>
                input'["prometheus"] # Absent
      BY <1>0, <2>1 DEF Types, Facts
    <2>4. UNCHANGED <<cr, cache, controllerVars, worldVars, faults>>
      BY <1>7 DEF ChangeInput
    <2> QED
      BY <2>2, <2>3, <2>4 DEF Noticed, worldVars
  <1>8. CASE UNCHANGED vars
    BY <1>8 DEF vars, worldVars, Noticed
  <1> QED
    BY <1>1, <1>2, <1>3, <1>4, <1>5, <1>6, <1>7, <1>8 DEF Outer

\* Every step keeps what copies say about deletion right.
LEMMA PhasesKept == ASSUME TypeOK, Phases, [Next]_vars PROVE Phases'
  <1>0. Types
    BY TypeOKUnfolded
  <1>1. CASE Start
    <2>1. /\ UNCHANGED <<cr, cache>>
          /\ \/ UNCHANGED <<pc, base>>
             \/ cache.phase # "Gone" /\ base' = cache /\ pc' = "rbac"
      BY <1>1 DEF Start, GoTo, controllerVars
    <2> QED
      BY <2>1 DEF Phases, Creation, AfterDB, AfterMQ, AfterInput,
                  AfterTransport, AfterPrometheus, AfterSecret, AfterKeystone,
                  AfterConfig, AfterSync, Deletion
  <1>2. CASE Inner
    <2>1. UNCHANGED <<cr, cache, base>> /\ pc # "idle"
      BY <1>2, InnerMoves
    <2>2. pc = "rbac" =>
             /\ pc' = "db" => base.phase # "Deleting"
             /\ pc' = "deleteDB" => base.phase = "Deleting"
      <3>1. pc = "rbac" => EnsureRbac
        BY <1>2, Zenon DEF Inner, EnsureDB, EnsureMQ, InputSecret,
           TransportURLSecret, EnsureSecret, PrometheusSecret,
           CreateSubLevelSecret, EnsureKeystoneSvc, ServiceConfigDBJobs,
           EnsureDBSync, EnsureDBPurgeCronJob, EnsureAPI, ExposeEndpoints,
           EnsureDecisionEngine, EnsureApplier, EnsureSub,
           ReleaseUnusedAccounts, DeleteDBFinalizer, DeleteKSFinalizer,
           DeletePrometheusFinalizer
      <3> QED
        BY <3>1, RbacMoves
    <2>3. base.phase \in {"Live", "Deleting"}
      BY <1>0, <2>1 DEF Types, CRs, Phases
    <2>4. pc' # "exit" => <<pc, pc'>> \in Moves
      BY <1>2, InnerMoves
    <2>5. /\ pc' \in Deletion => base.phase = "Deleting"
          /\ pc' \in Creation => base.phase = "Live"
      <3>1. CASE pc' = "exit"
        BY <3>1 DEF Creation, AfterDB, AfterMQ, AfterInput, AfterTransport,
                    AfterPrometheus, AfterSecret, AfterKeystone, AfterConfig,
                    AfterSync, Deletion
      <3>2. CASE pc' # "exit"
        BY <2>2, <2>3, <2>4, <3>2
           DEF Phases, Moves, Creation, AfterDB, AfterMQ, AfterInput,
               AfterTransport, AfterPrometheus, AfterSecret, AfterKeystone,
               AfterConfig, AfterSync, Deletion
      <3> QED
        BY <3>1, <3>2
    <2> QED
      BY <2>1, <2>5 DEF Phases
  <1>3. CASE Exit
    <2>1. /\ cache' = cache /\ pc' = "idle"
          /\ cr'.phase = "Live" <=> cr.phase = "Live"
      BY <1>3, ExitFacts DEF Forget
    <2> QED
      BY <2>1 DEF Phases, Creation, AfterDB, AfterMQ, AfterInput,
                  AfterTransport, AfterPrometheus, AfterSecret, AfterKeystone,
                  AfterConfig, AfterSync, Deletion
  <1>4. CASE Crash
    <2>1. cr' = cr /\ cache' = cr /\ pc' = "idle"
      BY <1>4 DEF Crash, Forget
    <2> QED
      BY <2>1 DEF Phases, Creation, AfterDB, AfterMQ, AfterInput,
                  AfterTransport, AfterPrometheus, AfterSecret, AfterKeystone,
                  AfterConfig, AfterSync, Deletion
  <1>5. CASE Outer
    <2>1. UNCHANGED <<pc, base>>
      BY <1>5, OuterFacts DEF controllerVars
    <2>2. /\ cr.phase # "Live" => cr'.phase # "Live"
          /\ cache' = cache \/ (cache' = cr /\ cr' = cr)
      BY <1>5, OuterFacts DEF Noticed
    <2> QED
      BY <2>1, <2>2 DEF Phases
  <1> QED
    BY <1>1, <1>2, <1>3, <1>4, <1>5, StepCases

\* Every step finds prepared what a service needs before it exists.
LEMMA PreparedKept ==
    ASSUME TypeOK, Phases, Prepared, [Next]_vars
    PROVE  Prepared'
  <1>0. Types
    BY TypeOKUnfolded
  <1>1. CASE Start
    <2>1. /\ UNCHANGED <<cr, input, promFin, subSecret, sub>>
          /\ pc' \in {pc, "rbac"}
      BY <1>1 DEF Start, GoTo, controllerVars, worldVars
    <2> QED
      BY <2>1 DEF Prepared, AfterPrometheus, AfterSecret, AfterKeystone,
                  AfterConfig, AfterSync
  <1>2. CASE Inner
    <2>1. /\ UNCHANGED <<cr, base, input>> /\ Effects
          /\ pc' # "exit" => <<pc, pc'>> \in Moves
      BY <1>2, InnerMoves, InnerEffects
    <2>2. CASE pc = "prometheus"
      <3>1. /\ subSecret' = subSecret /\ sub' = sub
            /\ \/ promFin' = promFin /\ pc' = "exit"
               \/ promFin' # {} /\ input["prometheus"] \in Versions
        BY <2>1, <2>2, KindsAssumption DEF Effects
      <3>2. pc' \in {"exit", "subSecret"}
        BY <2>1, <2>2 DEF Moves
      <3> QED
        BY <2>1, <3>1, <3>2, InputAssumption
           DEF Prepared, AfterPrometheus, AfterSecret, AfterKeystone,
               AfterConfig, AfterSync
    <2>3. CASE pc = "deletePrometheus"
      <3>1. /\ subSecret' = subSecret /\ sub' = sub
            /\ promFin' \subseteq promFin /\ pc' = "exit"
        BY <2>1, <2>3, KindsAssumption DEF Effects
      <3>2. cr.phase # "Live"
        BY <2>3 DEF Phases, Deletion
      <3> QED
        BY <2>1, <3>1, <3>2
           DEF Prepared, AfterPrometheus, AfterSecret, AfterKeystone,
               AfterConfig, AfterSync
    <2>4. CASE pc = "subSecret"
      <3>1. /\ promFin' = promFin /\ sub' = sub /\ promFin # {}
            /\ \/ subSecret' = subSecret /\ pc' = "exit"
               \/ subSecret' = Collected
        BY <2>1, <2>4, KindsAssumption DEF Effects, Prepared, AfterPrometheus
      <3>2. Collected # None
        BY CollectedType, NoneAssumption
      <3> QED
        BY <2>1, <3>1, <3>2
           DEF Prepared, AfterPrometheus, AfterSecret, AfterKeystone,
               AfterConfig, AfterSync
    <2>5. CASE pc \notin {"prometheus", "deletePrometheus", "subSecret"}
      <3>1. /\ promFin' = promFin /\ subSecret' = subSecret
            /\ sub' = sub \/ pc \in {"api", "decisionengine", "applier"}
        BY <2>1, <2>5, KindsAssumption DEF Effects
      <3>2. /\ pc' \in AfterPrometheus => pc \in AfterPrometheus
            /\ pc' \in AfterSecret => pc \in AfterSecret
        BY <2>1, <2>5
           DEF Moves, AfterPrometheus, AfterSecret, AfterKeystone,
               AfterConfig, AfterSync
      <3>3. pc \in {"api", "decisionengine", "applier"} =>
               promFin # {} /\ subSecret # None
        BY DEF Prepared, AfterPrometheus, AfterSecret, AfterKeystone,
               AfterConfig, AfterSync
      <3> QED
        BY <2>1, <3>1, <3>2, <3>3 DEF Prepared
    <2> QED
      BY <2>2, <2>3, <2>4, <2>5
  <1>3. CASE Exit
    <2>1. /\ UNCHANGED <<input, promFin, subSecret, sub>> /\ pc' = "idle"
          /\ cr'.phase = "Live" <=> cr.phase = "Live"
      BY <1>3, ExitFacts DEF Forget, worldVars
    <2> QED
      BY <2>1 DEF Prepared, AfterPrometheus, AfterSecret, AfterKeystone,
                  AfterConfig, AfterSync
  <1>4. CASE Crash
    <2>1. UNCHANGED <<cr, input, promFin, subSecret, sub>> /\ pc' = "idle"
      BY <1>4 DEF Crash, Forget, worldVars
    <2> QED
      BY <2>1 DEF Prepared, AfterPrometheus, AfterSecret, AfterKeystone,
                  AfterConfig, AfterSync
  <1>5. CASE Outer
    <2>1. /\ UNCHANGED <<pc, promFin, subSecret>>
          /\ \A k \in Kinds : sub'[k].exists = sub[k].exists
          /\ promFin # {} /\ input["prometheus"] # Absent =>
                input'["prometheus"] # Absent
          /\ cr'.phase = "Live" => cr.phase = "Live"
      BY <1>5, OuterFacts DEF Noticed, controllerVars
    <2> QED
      BY <2>1 DEF Prepared
  <1> QED
    BY <1>1, <1>2, <1>3, <1>4, <1>5, StepCases

\* At the start there is no service and no finalizer.
LEMMA InitPrepared == Init => Phases /\ Prepared
  <1> SUFFICES ASSUME Init PROVE Phases /\ Prepared
    OBVIOUS
  <1>1. cr.phase = "Live" /\ cache = cr /\ pc = "idle" /\ promFin = {}
    BY DEF Init, NewCR
  <1>2. \A k \in Kinds : ~sub[k].exists
    BY DEF Init, NoSub
  <1> QED
    BY <1>1, <1>2
       DEF Phases, Prepared, Creation, AfterDB, AfterMQ, AfterInput,
           AfterTransport, AfterPrometheus, AfterSecret, AfterKeystone,
           AfterConfig, AfterSync, Deletion

\* The steps after ensureDB find the account of their spec held, those after
\* createSubLevelSecret the secret about it, and the account in that secret is
\* held.
Accounted ==
    /\ pc \in AfterDB => base.spec.acct \in acctFin
    /\ pc \in AfterSecret => subSecret.acct = base.spec.acct
    /\ cr.phase = "Live" /\ subSecret # None => subSecret.acct \in acctFin

\* (where a reconcile comes from)
LEMMA Behind ==
    ASSUME <<pc, pc'>> \in Moves
    PROVE  /\ pc' \in AfterDB => pc \in AfterDB \cup {"db"}
           /\ pc' \in AfterSecret => pc \in AfterSecret \cup {"subSecret"}
           /\ pc' \in AfterDB => pc' # "exit"
  BY DEF Moves, AfterDB, AfterMQ, AfterInput, AfterTransport,
         AfterPrometheus, AfterSecret, AfterKeystone, AfterConfig, AfterSync

\* (what is not one of the steps after ensureDB)
LEMMA Apart ==
    /\ {"idle", "rbac", "db", "exit"} \cap AfterDB = {}
    /\ {"idle", "rbac", "db", "exit", "subSecret"} \cap AfterSecret = {}
    /\ AfterSecret \subseteq AfterDB /\ Deletion \cap AfterDB = {}
    /\ "accounts" \in AfterSecret /\ "subSecret" \in AfterDB
  BY DEF AfterDB, AfterMQ, AfterInput, AfterTransport, AfterPrometheus,
         AfterSecret, AfterKeystone, AfterConfig, AfterSync, Deletion

\* Every step keeps the account in the secret held: another one is held before
\* it gets there, and an account is released by the reconcile that has just
\* written another one.
LEMMA AccountedKept ==
    ASSUME TypeOK, Phases, Accounted, [Next]_vars
    PROVE  Accounted'
  <1>1. CASE Start
    <2>1. /\ UNCHANGED <<cr, acctFin, subSecret>>
          /\ UNCHANGED <<pc, base>> \/ pc' = "rbac"
      BY <1>1 DEF Start, GoTo, controllerVars, worldVars
    <2> QED
      BY <2>1, Apart DEF Accounted
  <1>2. CASE Inner
    <2>1. /\ UNCHANGED <<cr, base>> /\ Effects
          /\ pc' # "exit" => <<pc, pc'>> \in Moves
      BY <1>2, InnerMoves, InnerEffects
    <2>2. /\ pc' \in AfterDB => pc \in AfterDB \cup {"db"}
          /\ pc' \in AfterSecret => pc \in AfterSecret \cup {"subSecret"}
      BY <2>1, Apart, Behind
    <2>3. CASE pc = "db"
      <3>1. /\ subSecret' = subSecret /\ acctFin \subseteq acctFin'
            /\ pc' \in AfterDB => base.spec.acct \in acctFin'
        BY <2>1, <2>3, Apart DEF Effects
      <3> QED
        BY <2>1, <2>2, <2>3, <3>1, Apart DEF Accounted
    <2>4. CASE pc = "subSecret"
      <3>1. /\ acctFin' = acctFin /\ base.spec.acct \in acctFin
            /\ \/ subSecret' = subSecret /\ pc' = "exit"
               \/ subSecret' = Collected
        BY <2>1, <2>4, Apart DEF Effects, Accounted
      <3>2. Collected.acct = base.spec.acct
        BY DEF Collected
      <3> QED
        BY <2>1, <2>2, <2>4, <3>1, <3>2, Apart DEF Accounted
    <2>5. CASE pc = "accounts"
      <3>1. /\ subSecret' = subSecret /\ subSecret.acct = base.spec.acct
            /\ \/ acctFin' = acctFin
               \/ acctFin' = acctFin \cap {base.spec.acct}
            /\ base.spec.acct \in acctFin
        BY <2>1, <2>5, Apart DEF Effects, Accounted
      <3>2. base.spec.acct \in acctFin'
        BY <3>1
      <3> QED
        BY <2>1, <3>1, <3>2 DEF Accounted
    <2>6. CASE pc = "deleteDB"
      <3>1. subSecret' = subSecret /\ cr.phase # "Live"
        BY <2>1, <2>6 DEF Effects, Phases, Deletion
      <3>2. pc' \notin AfterDB \cup AfterSecret
        BY <2>2, <2>6, Apart DEF Deletion
      <3> QED
        BY <2>1, <3>1, <3>2 DEF Accounted
    <2>7. CASE pc \notin {"db", "subSecret", "accounts", "deleteDB"}
      <3>1. UNCHANGED <<acctFin, subSecret>>
        BY <2>1, <2>7 DEF Effects
      <3> QED
        BY <2>1, <2>2, <2>7, <3>1 DEF Accounted
    <2> QED
      BY <2>3, <2>4, <2>5, <2>6, <2>7
  <1>3. CASE Exit
    <2>1. /\ UNCHANGED <<acctFin, subSecret>> /\ pc' = "idle"
          /\ cr'.phase = "Live" <=> cr.phase = "Live"
      BY <1>3, ExitFacts DEF Forget, worldVars
    <2> QED
      BY <2>1, Apart DEF Accounted
  <1>4. CASE Crash
    <2>1. UNCHANGED <<cr, acctFin, subSecret>> /\ pc' = "idle"
      BY <1>4 DEF Crash, Forget, worldVars
    <2> QED
      BY <2>1, Apart DEF Accounted
  <1>5. CASE Outer
    <2>1. /\ UNCHANGED <<pc, base, acctFin, subSecret>>
          /\ cr'.phase = "Live" => cr.phase = "Live"
      BY <1>5, OuterFacts DEF Noticed, controllerVars
    <2> QED
      BY <2>1 DEF Accounted
  <1> QED
    BY <1>1, <1>2, <1>3, <1>4, <1>5, StepCases

\* As long as the Watcher lives, a service resource exists only beside the
\* secret it is configured from, the database account in that secret is held,
\* whichever account the spec names by now, and the Prometheus secret it refers
\* to is there: both got their finalizers before any service was written, an
\* account loses it to the reconcile that has put another one into the secret,
\* and only a reconcileDelete, which never works on a live resource, takes the
\* other one off.
THEOREM PrerequisitesComeFirst == Spec => []PrerequisitesFirst
  <1> DEFINE Inv == TypeOK /\ Phases /\ Prepared /\ Accounted
  <1>1. Init => Inv
    <2>1. Init => Accounted
      BY Apart DEF Init, Accounted
    <2> QED
      BY <2>1, InitType, InitPrepared
  <1>2. Inv /\ [Next]_vars => Inv'
    BY NextType, PhasesKept, PreparedKept, AccountedKept
  <1>3. Inv => PrerequisitesFirst
    BY DEF Prepared, Accounted, PrerequisitesFirst
  <1> QED
    BY <1>1, <1>2, <1>3, PTL DEF Spec

-----------------------------------------------------------------------------
(***************************************************************************)
(* Finalizers: what is held is held by a resource that has to let go.      *)
(***************************************************************************)

\* A copy that is under deletion has the spec there is: no other is written.
Final == /\ cache.phase # "Live" => cache.spec = cr.spec
         /\ pc # "idle" /\ base.phase # "Live" => base.spec = cr.spec

\* Neither the KeystoneService, nor the account that the spec s names, nor,
\* unless its lookup failed, the Prometheus secret carries a finalizer.
Released(s) == /\ ~ks.fin /\ s.acct \notin acctFin
               /\ faults = 0 => s.prom \notin promFin

\* Nothing is held by a resource that is gone or has yet to get its finalizer,
\* no copy is read as if it had one that it lost, and a reconcile that drops it
\* has released the rest.
Holding ==
    /\ cr.phase = "Gone" => ~cr.fin /\ Released(cr.spec)
    /\ cr.phase = "Deleting" => cr.fin
    /\ cr.phase = "Live" /\ ~cr.fin =>
          ~ks.fin /\ acctFin = {} /\ promFin = {}
    /\ cache.phase = "Live" /\ cache.fin => cr.fin
    /\ cache.phase = "Deleting" => cache.fin
    /\ pc # "idle" =>
          /\ base.phase = "Live" /\ base.fin => cr.fin
          /\ base.phase # "Live" => cache.phase # "Live"
          /\ base.phase = "Deleting" => base.fin
    /\ pc = "rbac" => inst.fin = base.fin
    /\ pc \in Creation \cup Deletion => base.fin /\ inst.fin
    /\ pc \in {"deleteKS", "deletePrometheus"} =>
          base.spec.acct \notin acctFin
    /\ pc = "deletePrometheus" => ~ks.fin
    /\ pc = "exit" /\ ~inst.fin =>
          \/ base.phase = "Deleting" /\ Released(base.spec)
          \/ base.phase = "Live" /\ ~base.fin

\* A step of a reconcile observes no other generation; only the first and the
\* last of a deletion touch the finalizer.
LEMMA InnerKeeps ==
    ASSUME TypeOK, Inner
    PROVE  /\ inst'.obs = inst.obs
           /\ pc \notin {"rbac", "deletePrometheus"} => inst'.fin = inst.fin
           /\ pc = "deletePrometheus" => inst' = inst \/ ~inst'.fin
  <1>0. Types /\ Facts
    BY TypeOKUnfolded, FactsHold
  <1>M. \A t \in WatcherConditions, v \in Statuses :
            /\ Marked(inst, t, v) \in CRs
            /\ Marked(inst, t, v).fin = inst.fin
            /\ Marked(inst, t, v).obs = inst.obs
    BY <1>0, MarkedFacts DEF Types
  <1>1. CASE EnsureRbac
    <2> DEFINE o == Marked(inst, "RBACReady", "True")
               add == base.phase = "Live" /\ ~base.fin
               f == [o EXCEPT !.fin = (add \/ o.fin)]
    <2>1. /\ o \in CRs /\ o.obs = inst.obs
          /\ Marked(inst, "RBACReady", "Warning").obs = inst.obs
      BY <1>0, <1>M DEF Facts
    <2>2. f.obs = o.obs
      <3> HIDE DEF o, add
      <3> QED
        BY <2>1 DEF CRs
    <2>3. inst' \in {o, f, Marked(inst, "RBACReady", "Warning")} /\ pc = "rbac"
      BY <1>1 DEF EnsureRbac, FailWith, Return, GoTo
    <2> HIDE DEF o, f
    <2> QED
      BY <2>1, <2>2, <2>3
  <1>2. CASE EnsureDB
    <2> DEFINE o == Marked(inst, "MariaDBAccountReady", "True")
    <2>1. o \in CRs /\ o.fin = inst.fin /\ o.obs = inst.obs
      BY <1>0, <1>M DEF Facts
    <2>2. /\ pc = "db"
          /\ \/ inst' = Marked(inst, "MariaDBAccountReady", "Warning")
             \/ \E v \in {"Warning", "Info", "True"} :
                   inst' = Marked(o, "DBReady", v)
      BY <1>2 DEF EnsureDB, FailWith, Return, GoTo
    <2>3. \A v \in {"Warning", "Info", "True"} :
              /\ Marked(o, "DBReady", v).fin = o.fin
              /\ Marked(o, "DBReady", v).obs = o.obs
      <3>1. /\ "DBReady" \in WatcherConditions
            /\ {"Warning", "Info", "True"} \subseteq Statuses
        BY <1>0 DEF Facts
      <3> HIDE DEF o
      <3> QED
        BY <2>1, <3>1, MarkedFacts
    <2> QED
      BY <1>0, <1>M, <2>1, <2>2, <2>3 DEF Facts
  <1>3. CASE EnsureMQ
    BY <1>0, <1>3, <1>M DEF EnsureMQ, FailWith, Return, GoTo, Facts
  <1>4. CASE InputSecret \/ TransportURLSecret
    <2>1. (pc = "secret" \/ pc = "transport") /\
          inst' \in {inst, Marked(inst, "InputReady", "Warning"),
                     Marked(inst, "InputReady", "Info")}
      BY <1>4 DEF InputSecret, TransportURLSecret, EnsureSecret, FailWith,
                  Return, GoTo
    <2> QED
      BY <1>0, <1>M, <2>1 DEF Facts
  <1>5. CASE PrometheusSecret
    BY <1>0, <1>5, <1>M DEF PrometheusSecret, FailWith, Return, GoTo, Facts
  <1>6. CASE CreateSubLevelSecret
    BY <1>0, <1>6, <1>M DEF CreateSubLevelSecret, Return, GoTo, Facts
  <1>7. CASE EnsureKeystoneSvc
    <2>1. /\ MirrorKeystone(inst).fin = inst.fin
          /\ MirrorKeystone(inst).obs = inst.obs
      BY <1>0, <1>M DEF MirrorKeystone, Facts, Types, KSs
    <2> QED
      BY <1>0, <1>7, <1>M, <2>1
         DEF EnsureKeystoneSvc, FailWith, Return, GoTo, Facts
  <1>8. CASE ServiceConfigDBJobs
    BY <1>0, <1>8, <1>M DEF ServiceConfigDBJobs, FailWith, Return, GoTo, Facts
  <1>9. CASE EnsureDBPurgeCronJob
    BY <1>0, <1>9, <1>M DEF EnsureDBPurgeCronJob, FailWith, Return, GoTo, Facts
  <1>10. CASE EnsureDBSync
    <2> DEFINE m == Marked(inst, "DBSyncReady", "True")
               done == [m EXCEPT !.hash = base.spec.img]
    <2>1. m \in CRs /\ m.fin = inst.fin /\ m.obs = inst.obs
      BY <1>0, <1>M DEF Facts
    <2>2. done.fin = m.fin /\ done.obs = m.obs
      <3> HIDE DEF m
      <3> QED
        BY <2>1 DEF CRs
    <2>3. pc = "dbsync" /\
          inst' \in {done, Marked(inst, "DBSyncReady", "Warning"),
                     Marked(inst, "DBSyncReady", "Info")}
      BY <1>10 DEF EnsureDBSync, SyncRunning, FailWith, Return, GoTo
    <2> HIDE DEF done, m
    <2> QED
      BY <1>0, <1>M, <2>1, <2>2, <2>3 DEF Facts
  <1>11. ASSUME NEW k \in {"api", "decisionengine", "applier"}, NEW next,
                EnsureSub(k, next)
         PROVE  pc = k /\ inst'.fin = inst.fin /\ inst'.obs = inst.obs
    <2> DEFINE s == SubWritten(k, SubSpec(base.spec))
    <2>1. k \in Kinds => s.ready \in Statuses
      BY <1>0 DEF Types, SubCRs, SubWritten
    <2>2. \/ GoTo(next, inst)
          \/ k \in Kinds /\ FailWith(SubCondition[k], "Error")
          \/ k \in Kinds /\ GoTo(next, MirrorSub(inst, k, s))
      BY <1>11 DEF EnsureSub
    <2>3. pc = k
      BY <1>11 DEF EnsureSub
    <2> HIDE DEF s
    <2>4. k \in Kinds => /\ MirrorSub(inst, k, s).fin = inst.fin
                         /\ MirrorSub(inst, k, s).obs = inst.obs
      BY <1>0, <1>M, <2>1 DEF MirrorSub, Facts
    <2> QED
      BY <1>0, <1>M, <2>2, <2>3, <2>4 DEF GoTo, FailWith, Return, Facts
  <1>12. CASE EnsureAPI \/ EnsureDecisionEngine \/ EnsureApplier
    BY <1>11, <1>12 DEF EnsureAPI, EnsureDecisionEngine, EnsureApplier
  <1>13. CASE ExposeEndpoints
    BY <1>0, <1>13, <1>M
       DEF ExposeEndpoints, ExposureReported, FailWith, Return, GoTo, Facts
  <1>14. CASE ReleaseUnusedAccounts
    <2>1. Finished(inst).fin = inst.fin /\ Finished(inst).obs = inst.obs
      BY <1>0, <1>M DEF Finished, Facts
    <2> QED
      BY <1>14, <2>1 DEF ReleaseUnusedAccounts, Return
  <1>15. CASE DeleteDBFinalizer \/ DeleteKSFinalizer
    BY <1>15 DEF DeleteDBFinalizer, DeleteKSFinalizer, Return, GoTo
  <1>16. CASE DeletePrometheusFinalizer
    <2>1. /\ DropsFinalizer(inst).fin = FALSE
          /\ DropsFinalizer(inst).obs = inst.obs
      BY <1>0 DEF DropsFinalizer, Types, CRs
    <2> QED
      BY <1>16, <2>1 DEF DeletePrometheusFinalizer, Return
  <1> QED
    BY <1>1, <1>2, <1>3, <1>4, <1>5, <1>6, <1>7, <1>8, <1>9, <1>10, <1>12,
       <1>13, <1>14, <1>15, <1>16 DEF Inner

\* The patch writes the finalizer only if it differs, and the API server drops
\* a resource under deletion with it.
LEMMA PatchFinalizer ==
    ASSUME NEW server \in CRs, NEW before \in CRs, NEW after \in CRs,
           server.phase # "Gone"
    PROVE  LET p == PatchInstance(server, before, after)
               fin == IF after.fin # before.fin THEN after.fin ELSE server.fin
           IN  /\ p.fin = fin
               /\ p.phase = (IF server.phase = "Deleting" /\ ~fin THEN "Gone"
                             ELSE server.phase)
  <1> DEFINE w == [server EXCEPT
                     !.fin  = IF after.fin # before.fin THEN after.fin ELSE @,
                     !.obs  = IF after.obs # before.obs THEN after.obs ELSE @,
                     !.cond = IF after.cond # before.cond THEN after.cond ELSE @,
                     !.hash = IF after.hash # before.hash THEN after.hash ELSE @]
             fin == IF after.fin # before.fin THEN after.fin ELSE server.fin
  <1>1. /\ w.fin = fin /\ w.phase = server.phase
        /\ [w EXCEPT !.phase = "Gone"].fin = fin
        /\ [w EXCEPT !.phase = "Gone"].phase = "Gone"
    BY DEF CRs
  <1>2. PatchInstance(server, before, after) =
            IF w.phase = "Deleting" /\ ~w.fin
            THEN [w EXCEPT !.phase = "Gone"] ELSE w
    BY DEF PatchInstance
  <1> HIDE DEF w
  <1> QED
    BY <1>1, <1>2

\* At the end of a reconcile the finalizer is what the reconcile made of it.
LEMMA ExitFinalizer ==
    ASSUME TypeOK, Exit
    PROVE  \/ cr' = cr
           \/ /\ cr.phase # "Gone" /\ NoFault
              /\ cr'.fin = (IF inst.fin # base.fin THEN inst.fin ELSE cr.fin)
              /\ cr'.phase = (IF cr.phase = "Deleting" /\ ~cr'.fin THEN "Gone"
                              ELSE cr.phase)
  <1>0. Types
    BY TypeOKUnfolded
  <1> DEFINE after == [inst EXCEPT !.cond = MirrorUndecided(inst.cond)]
  <1>1. after \in CRs /\ after.fin = inst.fin
    BY <1>0, MirrorFacts DEF Types
  <1>2. \/ cr' = PatchInstance(cr, base, after) /\ NoFault
        \/ cr' = cr
    BY DEF Exit, PatchFails
  <1> HIDE DEF after
  <1>3. cr.phase = "Gone" => PatchInstance(cr, base, after) = cr
    BY DEF PatchInstance
  <1> QED
    BY <1>0, <1>1, <1>2, <1>3, PatchFinalizer DEF Types

\* (a call succeeds or is counted as a fault)
LEMMA InnerFaults == ASSUME Inner PROVE Fault \/ NoFault
  <1>1. ASSUME NEW k, NEW next, EnsureSub(k, next) PROVE Fault \/ NoFault
    BY <1>1 DEF EnsureSub, FailWith
  <1>2. CASE EnsureAPI \/ EnsureDecisionEngine \/ EnsureApplier
    BY <1>1, <1>2 DEF EnsureAPI, EnsureDecisionEngine, EnsureApplier
  <1>3. CASE EnsureRbac \/ EnsureDB \/ EnsureMQ
    BY <1>3 DEF EnsureRbac, EnsureDB, EnsureMQ, FailWith
  <1>4. CASE InputSecret \/ TransportURLSecret \/ PrometheusSecret
    BY <1>4 DEF InputSecret, TransportURLSecret, EnsureSecret, PrometheusSecret,
                FailWith
  <1>5. CASE \/ CreateSubLevelSecret \/ EnsureKeystoneSvc
             \/ ServiceConfigDBJobs \/ EnsureDBSync \/ EnsureDBPurgeCronJob
    BY <1>5 DEF CreateSubLevelSecret, EnsureKeystoneSvc, ServiceConfigDBJobs,
                EnsureDBSync, EnsureDBPurgeCronJob, FailWith
  <1>6. CASE \/ ExposeEndpoints \/ ReleaseUnusedAccounts \/ DeleteDBFinalizer
             \/ DeleteKSFinalizer \/ DeletePrometheusFinalizer
    BY <1>6 DEF ExposeEndpoints, ReleaseUnusedAccounts, DeleteDBFinalizer,
                DeleteKSFinalizer, DeletePrometheusFinalizer, FailWith
  <1> QED
    BY <1>2, <1>3, <1>4, <1>5, <1>6 DEF Inner

\* (the step at "rbac" is the first one)
LEMMA RbacOnly == ASSUME Inner, pc = "rbac" PROVE EnsureRbac
  BY Zenon DEF Inner, EnsureDB, EnsureMQ, InputSecret,
     TransportURLSecret, EnsureSecret, PrometheusSecret,
     CreateSubLevelSecret, EnsureKeystoneSvc, ServiceConfigDBJobs,
     EnsureDBSync, EnsureDBPurgeCronJob, EnsureAPI, ExposeEndpoints,
     EnsureDecisionEngine, EnsureApplier, EnsureSub,
     ReleaseUnusedAccounts, DeleteDBFinalizer, DeleteKSFinalizer,
     DeletePrometheusFinalizer

\* (the first and the last steps are neither creation nor deletion)
LEMMA Alone == {"idle", "rbac", "exit"} \cap (Creation \cup Deletion) = {}
  BY DEF Creation, AfterDB, AfterMQ, AfterInput, AfterTransport,
         AfterPrometheus, AfterSecret, AfterKeystone, AfterConfig,
         AfterSync, Deletion

\* Every step keeps the copies under deletion right about the spec.
LEMMA FinalKept ==
    ASSUME TypeOK, Phases, Final, [Next]_vars
    PROVE  Final'
  <1>1. CASE Start
    <2>1. /\ UNCHANGED <<cr, cache>>
          /\ UNCHANGED <<pc, base>> \/ base' = cache
      BY <1>1 DEF Start, controllerVars
    <2> QED
      BY <2>1 DEF Final
  <1>2. CASE Inner
    <2>1. UNCHANGED <<cr, cache, base>> /\ pc # "idle"
      BY <1>2, InnerMoves
    <2> QED
      BY <2>1 DEF Final
  <1>3. CASE Exit
    <2>1. cache' = cache /\ pc' = "idle" /\ cr'.spec = cr.spec
      BY <1>3, ExitFacts DEF Forget
    <2> QED
      BY <2>1 DEF Final
  <1>4. CASE Crash
    <2>1. cr' = cr /\ cache' = cr /\ pc' = "idle"
      BY <1>4 DEF Crash, Forget
    <2> QED
      BY <2>1 DEF Final
  <1>5. CASE Outer
    <2>1. /\ UNCHANGED <<pc, base>>
          /\ \/ cr' = cr /\ cache' = cache
             \/ cr' = cr /\ cache' = cr
             \/ cache' = cache /\ cr.phase = "Live"
      BY <1>5, OuterFacts DEF Noticed, controllerVars
    <2> QED
      BY <2>1 DEF Final, Phases
  <1> QED
    BY <1>1, <1>2, <1>3, <1>4, <1>5, StepCases

\* Every step keeps what is held behind the resource's own finalizer.
LEMMA HoldingKept ==
    ASSUME TypeOK, Phases, Final, Holding, [Next]_vars
    PROVE  Holding'
  <1>0. Types
    BY TypeOKUnfolded
  <1>T. /\ {cr.phase, cache.phase, base.phase}
              \subseteq {"Live", "Deleting", "Gone"}
        /\ {cr.fin, cache.fin, base.fin, inst.fin, ks.fin} \subseteq BOOLEAN
        /\ faults \in Nat
    BY <1>0 DEF Types, CRs, KSs
  <1>R. ASSUME NEW s, ~ks.fin => ~ks'.fin, acctFin' \subseteq acctFin,
               promFin' \subseteq promFin, Fault \/ NoFault
        PROVE  Released(s) => Released(s)'
    BY <1>R, <1>T DEF Released, Fault, NoFault
  <1>1. CASE Start
    <2>1. /\ UNCHANGED <<cr, cache, ks, acctFin, promFin, faults>>
          /\ \/ UNCHANGED <<pc, base, inst>>
             \/ /\ cache.phase # "Gone" /\ base' = cache
                /\ inst' = InitStatus(cache) /\ pc' = "rbac"
      BY <1>1 DEF Start, GoTo, worldVars, controllerVars
    <2>2. InitStatus(cache).fin = cache.fin
      BY <1>0, InitStatusFacts DEF Types
    <2> QED
      BY <2>1, <2>2, Alone DEF Holding, Released
  <1>2. CASE Inner
    <2>1. /\ UNCHANGED <<cr, cache, base>> /\ pc \notin {"idle", "exit"}
          /\ pc' # "exit" => <<pc, pc'>> \in Moves
          /\ Effects /\ (Fault \/ NoFault) /\ pc' # "idle"
      BY <1>2, InnerMoves, InnerEffects, InnerFaults
    <2>2. CASE pc \in Creation
      <3>1. /\ base.phase = "Live" /\ base.fin /\ inst.fin /\ cr.fin
            /\ pc \notin {"rbac", "deletePrometheus"}
        BY <2>1, <2>2
           DEF Holding, Phases, Creation, AfterDB, AfterMQ, AfterInput,
               AfterTransport, AfterPrometheus, AfterSecret, AfterKeystone,
               AfterConfig, AfterSync
      <3>2. inst'.fin /\ pc' \in Creation \cup {"exit"}
        <4>1. inst'.fin
          BY <1>2, <3>1, InnerKeeps
        <4>2. pc' \in Creation \cup {"exit"}
          BY <2>1, <2>2
             DEF Moves, Creation, AfterDB, AfterMQ, AfterInput,
                 AfterTransport, AfterPrometheus, AfterSecret, AfterKeystone,
                 AfterConfig, AfterSync
        <4> QED
          BY <4>1, <4>2
      <3>3. pc' \notin {"idle", "rbac", "deleteKS", "deletePrometheus"}
        BY <3>2 DEF Creation, AfterDB, AfterMQ, AfterInput, AfterTransport,
                    AfterPrometheus, AfterSecret, AfterKeystone, AfterConfig,
                    AfterSync
      <3>4. cr.phase # "Gone"
        BY <3>1 DEF Holding
      <3> QED
        BY <2>1, <3>1, <3>2, <3>3, <3>4 DEF Holding
    <2>3. CASE pc = "rbac"
      <3>1. /\ UNCHANGED <<ks, acctFin, promFin>>
            /\ Released(cr.spec) => Released(cr.spec)'
        BY <1>R, <2>1, <2>3 DEF Effects
      <3>2. pc' \in {"db", "deleteDB", "exit"}
        BY <2>1, <2>3 DEF Moves
      <3>3. /\ inst.fin = base.fin
            /\ base.phase = "Live" /\ base.fin => cr.fin
            /\ base.phase = "Deleting" => base.fin
            /\ base.phase # "Gone"
        BY <2>3 DEF Holding, Phases
      <3>4. pc' # "exit" => base.fin /\ inst'.fin
        BY <1>2, <1>T, <2>3, <3>3, RbacOnly, RbacMoves
      <3>5. pc' = "exit" /\ ~inst'.fin => base.phase = "Live" /\ ~base.fin
        BY <1>2, <1>T, <2>3, <3>3, RbacOnly, RbacMoves
      <3> QED
        BY Alone, <2>1, <2>3, <3>1, <3>2, <3>3, <3>4, <3>5 DEF Holding
    <2>4. CASE pc \in Deletion
      <3>1. /\ base.phase = "Deleting" /\ base.fin /\ inst.fin
            /\ cr.phase # "Live" /\ cache.phase # "Live"
        BY <2>1, <2>4 DEF Holding, Phases
      <3>2. CASE pc = "deleteDB"
        <4>1. /\ ks' = ks /\ promFin' = promFin
              /\ acctFin' \subseteq acctFin
              /\ pc' = "deleteKS" => base.spec.acct \notin acctFin'
              /\ inst'.fin /\ pc' \in {"deleteKS", "exit"}
          BY <1>2, <2>1, <3>1, <3>2, InnerKeeps DEF Effects, Moves
        <4>2. Released(cr.spec) => Released(cr.spec)'
          BY <1>R, <2>1, <4>1
        <4> QED
          BY Alone, <2>1, <3>1, <3>2, <4>1, <4>2 DEF Holding
      <3>3. CASE pc = "deleteKS"
        <4>1. ~KeystoneReleased.fin
          BY <1>0 DEF KeystoneReleased, Types, KSs
        <4>2. /\ UNCHANGED <<acctFin, promFin>>
              /\ inst'.fin /\ base.spec.acct \notin acctFin
              /\ \/ pc' = "deletePrometheus" /\ ~ks'.fin
                 \/ pc' = "exit" /\ (ks' = ks \/ ~ks'.fin)
          BY <1>2, <2>1, <3>1, <3>3, <4>1, InnerKeeps
             DEF Effects, Moves, Holding
        <4>3. Released(cr.spec) => Released(cr.spec)'
          BY <1>R, <2>1, <4>2
        <4> QED
          BY Alone, <2>1, <3>1, <3>3, <4>2, <4>3 DEF Holding, Deletion
      <3>4. CASE pc = "deletePrometheus"
        <4>1. /\ UNCHANGED <<ks, acctFin>> /\ ~ks.fin /\ pc' = "exit"
              /\ base.spec.acct \notin acctFin
              /\ \/ promFin' = promFin \ {base.spec.prom}
                 \/ promFin' = promFin /\ (Fault \/ inst' = inst)
          BY <2>1, <3>4 DEF Effects, Holding
        <4>2. ~inst'.fin => Released(base.spec)'
          BY <1>T, <2>1, <3>1, <4>1 DEF Released, Fault
        <4>3. Released(cr.spec) => Released(cr.spec)'
          BY <1>R, <2>1, <4>1
        <4> QED
          BY Alone, <2>1, <3>1, <3>4, <4>1, <4>2, <4>3 DEF Holding
      <3> QED
        BY <2>4, <3>2, <3>3, <3>4 DEF Deletion
    <2>5. pc \in {"rbac"} \cup Creation \cup Deletion
      BY <1>0, <2>1 DEF Types, Steps, Creation, AfterDB, AfterMQ, AfterInput,
         AfterTransport, AfterPrometheus, AfterSecret, AfterKeystone,
         AfterConfig, AfterSync, Deletion
    <2> QED
      BY <2>2, <2>3, <2>4, <2>5
  <1>3. CASE Exit
    <2>1. /\ pc = "exit" /\ pc' = "idle" /\ cr'.spec = cr.spec
          /\ UNCHANGED <<cache, ks, acctFin, promFin>>
      BY <1>3, ExitFacts DEF Forget, worldVars
    <2>2. Fault \/ NoFault
      BY <1>3 DEF Exit, PatchFails
    <2>3. Released(cr.spec) => Released(cr.spec)'
      BY <1>R, <2>1, <2>2
    <2>4. CASE cr' = cr
      BY Alone, <2>1, <2>3, <2>4 DEF Holding
    <2>5. CASE /\ cr.phase # "Gone"
               /\ cr'.fin = (IF inst.fin # base.fin THEN inst.fin ELSE cr.fin)
               /\ cr'.phase = (IF cr.phase = "Deleting" /\ ~cr'.fin THEN "Gone"
                               ELSE cr.phase)
      <3>1. CASE cr'.fin = cr.fin
        BY <1>T, Alone, <2>1, <2>5, <3>1 DEF Holding
      <3>2. CASE cr'.fin = TRUE /\ ~cr.fin
        BY <1>T, Alone, <2>1, <2>5, <3>2 DEF Holding
      <3>3. CASE ~inst.fin /\ base.fin /\ ~cr'.fin /\ cr.fin
        <4>1. base.phase = "Deleting" /\ Released(base.spec)
          BY <1>T, <2>1, <3>3 DEF Holding
        <4>2. /\ cr.phase = "Deleting" /\ cache.phase # "Live"
              /\ base.spec = cr.spec
          BY <1>T, <2>1, <2>5, <4>1 DEF Holding, Phases, Final
        <4>3. Released(cr.spec)'
          BY <2>3, <4>1, <4>2
        <4> QED
          BY <1>T, Alone, <2>1, <2>5, <3>3, <4>2, <4>3 DEF Holding
      <3> QED
        BY <1>T, <2>5, <3>1, <3>2, <3>3
    <2> QED
      BY <1>3, <2>4, <2>5, ExitFinalizer
  <1>4. CASE Crash
    <2>1. /\ UNCHANGED <<cr, ks, acctFin, promFin>> /\ cache' = cr
          /\ pc' = "idle" /\ Fault
      BY <1>4 DEF Crash, Forget, worldVars
    <2>2. Released(cr.spec) => Released(cr.spec)'
      BY <1>R, <2>1
    <2> QED
      BY <1>T, Alone, <2>1, <2>2 DEF Holding
  <1>5. CASE Outer
    <2>1. /\ UNCHANGED <<pc, base, inst, acctFin, promFin, faults>>
          /\ ks'.fin = ks.fin
      BY <1>5, OuterFacts DEF controllerVars
    <2>2. /\ \/ cr' = cr /\ cache' = cache
             \/ cr' = cr /\ cache' = cr
             \/ /\ cache' = cache /\ cr.phase = "Live" /\ cr'.fin = cr.fin
                /\ cr'.phase \in {"Live", IF cr.fin THEN "Deleting" ELSE "Gone"}
                /\ cr'.phase = "Live" \/ cr'.spec = cr.spec
      BY <1>5, OuterFacts DEF Noticed
    <2>3. \A s : Released(s)' = Released(s)
      BY <2>1 DEF Released
    <2>4. CASE cr' = cr
      <3>1. pc # "idle" /\ base.phase # "Live" => cr.phase # "Live"
        BY DEF Phases
      <3> QED
        BY <2>1, <2>2, <2>4, <3>1 DEF Holding, Released
    <2>5. CASE /\ cache' = cache /\ cr.phase = "Live" /\ cr'.fin = cr.fin
               /\ cr'.phase \in {"Live", IF cr.fin THEN "Deleting" ELSE "Gone"}
               /\ cr'.phase = "Live" \/ cr'.spec = cr.spec
      <3>1. cr'.phase = "Gone" => ~cr'.fin /\ Released(cr.spec)'
        BY <1>T, <2>1, <2>5 DEF Holding, Released
      <3> QED
        BY <1>T, <2>1, <2>5, <3>1 DEF Holding, Released
    <2> QED
      BY <2>2, <2>4, <2>5
  <1> QED
    BY <1>1, <1>2, <1>3, <1>4, <1>5, StepCases

\* A Watcher that is gone has let go of the KeystoneService, of the database
\* account and, unless a call failed, of the Prometheus secret that its spec
\* named last, whatever copies its reconciles worked from, whatever failed, and
\* wherever the operator was restarted: its own finalizer is set before theirs
\* and removed after them.  A lookup of the secret that fails is taken for a
\* secret that does not exist; a secret that the spec named earlier is not
\* released.
THEOREM NothingStaysHeld == Spec => []NoFinalizerLeft
  <1> DEFINE Inv == TypeOK /\ Phases /\ Final /\ Holding
  <1>1. Init => Inv
    <2> SUFFICES ASSUME Init PROVE Inv
      OBVIOUS
    <2>1. /\ cr.phase = "Live" /\ ~cr.fin /\ cache = cr /\ pc = "idle"
          /\ promFin = {} /\ acctFin = {} /\ ~ks.fin
      BY DEF Init, NewCR
    <2>2. Final /\ Holding
      BY <2>1, Alone DEF Final, Holding
    <2> QED
      BY <2>2, InitType, InitPrepared
  <1>2. Inv /\ [Next]_vars => Inv'
    BY NextType, PhasesKept, FinalKept, HoldingKept
  <1>3. Inv => NoFinalizerLeft
    BY DEF Holding, Released, NoFinalizerLeft
  <1> QED
    BY <1>1, <1>2, <1>3, PTL DEF Spec

-----------------------------------------------------------------------------
(***************************************************************************)
(* The service resources keep the promise that their reconcilers are shown *)
(* to keep.                                                                *)
(***************************************************************************)

\* The steps of a service and of the controller that writes its spec.
LEMMA ServicePromised ==
    ASSUME TypeOK, NEW k \in Kinds,
           \/ SubTell(k) \/ SubReport(k) \/ SubReady(k) \/ SubDisturb(k)
           \/ sub' = [sub EXCEPT ![k] = SubWritten(k, SubSpec(base.spec))]
    PROVE  \A j \in Kinds : UNCHANGED <<sub[j]>> \/ Promise(j)!Next
  <1>0. /\ sub \in [Kinds -> SubCRs] /\ sub[k] \in SubCRs
        /\ Current(k) \in Tellings /\ Current(k) # None
        /\ Current(k).spec = sub[k].spec
    <2>1. Types
      BY TypeOKUnfolded
    <2>2. Current(k) \in Tellings /\ Current(k).spec = sub[k].spec
      BY <2>1 DEF Types, SubCRs, Current, Tellings
    <2> QED
      BY <2>1, <2>2, NoneAssumption DEF Types
  <1> DEFINE c == Current(k)
             w == SubWritten(k, SubSpec(base.spec))
  <1>1. \A j \in Kinds \ {k} : UNCHANGED <<sub[j]>>
    BY <1>0 DEF SubTell, SubReport, SubReady, SubDisturb
  <1>2. CASE SubTell(k)
    <2>1. /\ sub'[k] = [sub[k] EXCEPT !.told = c]
          /\ c # None /\ c.spec = sub[k].spec
      BY <1>0, <1>2 DEF SubTell
    <2> HIDE DEF c
    <2>2. /\ sub'[k].told = c /\ sub'[k].spec = sub[k].spec
          /\ sub'[k].observed = sub[k].observed /\ sub'[k].ready = sub[k].ready
      BY <1>0, <2>1 DEF SubCRs
    <2>3. Promise(k)!Tell
      BY <2>1, <2>2 DEF Promise!Tell
    <2> QED
      BY <1>1, <2>3 DEF Promise!Next
  <1>3. CASE SubReport(k)
    <2>1. PICK observed \in {sub[k].observed, TRUE},
               ready \in {"Info", "True", sub[k].ready} :
              /\ ready = "True" /\ sub[k].ready # "True" /\ observed =>
                    sub[k].told # None /\ sub[k].told.spec = sub[k].spec
              /\ sub' = [sub EXCEPT ![k].observed = observed,
                                    ![k].ready = ready]
      BY <1>3 DEF SubReport
    <2>2. /\ sub'[k].told = sub[k].told /\ sub'[k].spec = sub[k].spec
          /\ sub'[k].observed = observed /\ sub'[k].ready = ready
      BY <1>0, <2>1 DEF SubCRs
    <2>3. Promise(k)!Report
      BY <1>0, <2>1, <2>2 DEF Promise!Report, SubCRs
    <2> QED
      BY <1>1, <2>3 DEF Promise!Next
  <1>4. CASE SubReady(k)
    <2>1. /\ sub[k].told = c /\ c # None /\ c.spec = sub[k].spec
          /\ sub' = [sub EXCEPT ![k].observed = TRUE, ![k].ready = "True"]
      BY <1>0, <1>4 DEF SubReady
    <2> HIDE DEF c
    <2>2. /\ sub'[k].told = sub[k].told /\ sub'[k].spec = sub[k].spec
          /\ sub'[k].observed = TRUE /\ sub'[k].ready = "True"
      BY <1>0, <2>1 DEF SubCRs
    <2>3. Promise(k)!Report
      BY <2>1, <2>2 DEF Promise!Report
    <2> QED
      BY <1>1, <2>3 DEF Promise!Next
  <1>5. CASE SubDisturb(k)
    <2>1. sub' = [sub EXCEPT ![k].ready = "Warning"]
      BY <1>5 DEF SubDisturb
    <2>2. /\ sub'[k].told = sub[k].told /\ sub'[k].spec = sub[k].spec
          /\ sub'[k].observed = sub[k].observed /\ sub'[k].ready = "Warning"
      BY <1>0, <2>1 DEF SubCRs
    <2>3. Promise(k)!Report
      BY <2>2 DEF Promise!Report
    <2> QED
      BY <1>1, <2>3 DEF Promise!Next
  <1>6. CASE sub' = [sub EXCEPT ![k] = w]
    <2>1. \/ w = sub[k]
          \/ /\ ~w.observed /\ w.ready = sub[k].ready /\ w.told = sub[k].told
      BY <1>0 DEF SubWritten, SubCRs
    <2> HIDE DEF w
    <2>2. sub'[k] = w
      BY <1>0, <1>6
    <2>3. CASE w = sub[k]
      BY <1>1, <2>2, <2>3
    <2>4. CASE ~w.observed /\ w.ready = sub[k].ready /\ w.told = sub[k].told
      <3>1. Promise(k)!Order
        BY <2>2, <2>4 DEF Promise!Order
      <3> QED
        BY <1>1, <3>1 DEF Promise!Next
    <2> QED
      BY <2>1, <2>3, <2>4
  <1> QED
    BY <1>2, <1>3, <1>4, <1>5, <1>6

\* The other steps of the reconcile leave the service resources alone.
LEMMA StepPromised ==
    ASSUME TypeOK, [Next]_vars
    PROVE  \A j \in Kinds : UNCHANGED <<sub[j]>> \/ Promise(j)!Next
  <1>1. CASE sub' = sub
    BY <1>1
  <1>2. CASE Inner
    <2>1. CASE EnsureAPI \/ EnsureDecisionEngine \/ EnsureApplier
      <3>1. PICK k \in {"api", "decisionengine", "applier"} :
                \E next : EnsureSub(k, next)
        BY <2>1 DEF EnsureAPI, EnsureDecisionEngine, EnsureApplier
      <3>2. \/ sub' = sub
            \/ /\ k \in Kinds
               /\ sub' = [sub EXCEPT ![k] = SubWritten(k, SubSpec(base.spec))]
        BY <3>1 DEF EnsureSub
      <3> QED
        BY <1>1, <3>2, ServicePromised
    <2>2. CASE ~(EnsureAPI \/ EnsureDecisionEngine \/ EnsureApplier)
      <3>1. pc \notin Kinds
        BY <1>2, <2>2, KindsAssumption
           DEF Inner, EnsureRbac, EnsureDB, EnsureMQ, InputSecret,
               TransportURLSecret, EnsureSecret, PrometheusSecret,
               CreateSubLevelSecret, EnsureKeystoneSvc, ServiceConfigDBJobs,
               EnsureDBSync, EnsureDBPurgeCronJob, ExposeEndpoints,
               ReleaseUnusedAccounts, DeleteDBFinalizer, DeleteKSFinalizer,
               DeletePrometheusFinalizer
      <3> QED
        BY <1>1, <1>2, <3>1, InnerEffects DEF Effects
    <2> QED
      BY <2>1, <2>2
  <1>3. CASE Start \/ Exit \/ Crash
    BY <1>1, <1>3 DEF Start, Exit, Crash, worldVars
  <1>4. CASE Outer
    <2>1. CASE Services \/ \E k \in Kinds : SubDisturb(k)
      BY <2>1, ServicePromised DEF Services
    <2>2. CASE ~(Services \/ \E k \in Kinds : SubDisturb(k))
      BY <1>1, <1>4, <2>2
         DEF Outer, SyncCache, KeystoneStep, JobStep, UpdateSpec, DeleteCR,
             ChangeInput, worldVars, vars
    <2> QED
      BY <2>1, <2>2
  <1> QED
    BY <1>2, <1>3, <1>4, StepCases

\* In the module Watcher every service resource behaves as ServicePromise
\* says: its owner's writes start a new generation that has to be observed
\* anew, and it reports Ready about an observed spec only if its StatefulSet
\* carries that spec.  It is the contract that WatcherAPI,
\* WatcherDecisionEngine and WatcherApplier are proved to keep
\* (KeepsThePromise in their modules).
THEOREM ServicesKeepThePromise == Spec => ServicesKeepPromise
  <1> DEFINE Step == \A k \in Kinds : UNCHANGED <<sub[k]>> \/ Promise(k)!Next
  <1>1. Init => \A k \in Kinds : Promise(k)!Init
    BY DEF Init, NoSub, Promise!Init
  <1>2. TypeOK /\ [Next]_vars => [Step]_sub
    BY StepPromised
  <1>3. Spec => [][Step]_sub
    <2> HIDE DEF Step
    <2> QED
      BY <1>2, InitType, NextType, PTL DEF Spec
  <1>4. Spec => \A k \in Kinds : Promise(k)!Init
    BY <1>1, PTL DEF Spec
  <1> QED
    BY <1>3, <1>4, PTL DEF ServicesKeepPromise

-----------------------------------------------------------------------------
(***************************************************************************)
(* No lost wake-up.                                                        *)
(***************************************************************************)

\* What no resource has observed cannot be newer than what it is.
Generations ==
    /\ cache.gen <= cr.gen
    /\ pc # "idle" => inst.obs = base.gen

\* With no event pending, the reconcile works on what the informer has.
Unqueued == pc # "idle" /\ ~queue => base = cache

\* The steps after the one that looks at a service.
AfterStep(k) == IF k = "api" THEN AfterAPI
                ELSE IF k = "decisionengine" THEN AfterDecisionEngine
                ELSE AfterApplier

\* What the reconcile says once it has looked at a condition of another
\* resource.
Told(status) == IF status = "NotSet" THEN "Unknown" ELSE status

\* What a reconcile says when it is at a step: the conditions set by the steps
\* before, and those that are still open.
Reported ==
    /\ pc \in {"rbac"} \cup Creation => inst.cond["Ready"] = "Unknown"
    /\ pc \in Creation => inst.cond["RBACReady"] = "True"
    /\ pc \in AfterDB => /\ inst.cond["MariaDBAccountReady"] = "True"
                         /\ inst.cond["DBReady"] = "True"
    /\ pc \in AfterMQ => inst.cond["TransportURLReady"] = "True"
    /\ pc \in AfterSecret => inst.cond["InputReady"] = "True"
    /\ pc \in AfterConfig => inst.cond["ServiceConfigReady"] = "True"
    /\ pc \in AfterSync => /\ inst.cond["DBSyncReady"] = "True"
                           /\ inst.hash = base.spec.img
    /\ pc \in AfterCronJob => inst.cond["CronJobReady"] = "True"
    /\ pc \in AfterExpose => inst.cond["ExposeServiceReady"] = "True"

\* (the conditions that copy those of another resource are open until then)
Open ==
    /\ pc \in {"rbac"} \cup (Creation \ AfterKeystone) =>
          inst.cond["KeystoneServiceReady"] = "Unknown"
    /\ \A k \in Kinds : pc \in {"rbac"} \cup (Creation \ AfterStep(k)) =>
          inst.cond[SubCondition[k]] = "Unknown"

\* What it has done, ...
Provided ==
    /\ pc \in AfterDB => base.spec.acct \in acctFin
    /\ pc \in AfterPrometheus => base.spec.prom \in promFin
    /\ pc \in AfterSecret => subSecret = Collected

\* ... and, with no event pending, what it has found to be so.
Found ==
    ~queue =>
    /\ pc \in AfterDB => seen["database"] = input["database"]
    /\ pc \in AfterInput => seen["secret"] = input["secret"]
    /\ pc \in AfterKeystone =>
          inst.cond["KeystoneServiceReady"] = Told(ks.status)
    /\ \A k \in Kinds : pc \in AfterStep(k) =>
          /\ sub[k].exists /\ sub[k].spec = SubSpec(base.spec)
          /\ inst.cond[SubCondition[k]]
                = IF sub[k].observed THEN Told(sub[k].ready) ELSE "Unknown"

\* What the status o, once written, says is so.
Truthful(o) ==
    /\ o.hash = base.spec.img
    /\ subSecret # None
    /\ subSecret.acct = base.spec.acct /\ subSecret.cfg = base.spec.cfg
    /\ \A i \in {"secret", "database"} : subSecret.in[i] = input[i]
    /\ \A k \in Kinds : sub[k].exists /\ sub[k].spec = SubSpec(base.spec)
    /\ base.spec.acct \in acctFin /\ base.spec.prom \in promFin
    /\ (o.cond["Ready"] = "True") <=>
          /\ ks.status = "True"
          /\ \A k \in Kinds : sub[k].observed /\ sub[k].ready = "True"

\* A reconcile that ends without asking for another one either writes
\* something that brings the controller back, or has done its work.
Settled ==
    pc = "exit" /\ ~queue /\ outcome = "none" /\ base.phase = "Live" =>
        \/ inst.fin # base.fin
        \/ NilConditions(base.cond) /\ inst.cond["Ready"] = "Unknown"
        \/ Truthful(inst)

\* createSubLevelSecret does not fail.  Reconcile drops its error,
\* watcher_controller.go:571, and nothing is left to bring the controller back.
Unswallowed == outcome = "swallowed" => base.phase # "Live"

\* What a step does to the conditions of the resource it reports on.
Sets(t, status) ==
    inst'.cond = [u \in WatcherConditions |->
                     IF u = t THEN status ELSE inst.cond[u]]

\* What a reconcile says and has seen when it goes on from a step.
Goes ==
    /\ pc # "dbsync" => inst'.hash = inst.hash
    /\ pc \notin {"db", "secret", "transport"} => seen' = seen
    /\ pc = "rbac" => Sets("RBACReady", "True")
    /\ pc = "db" =>
          /\ inst'.cond = [u \in WatcherConditions |->
                              IF u \in {"MariaDBAccountReady", "DBReady"}
                              THEN "True" ELSE inst.cond[u]]
          /\ seen' = [seen EXCEPT !["database"] = input["database"]]
    /\ pc = "mq" => Sets("TransportURLReady", "True")
    /\ pc \in {"secret", "transport"} =>
          inst' = inst /\ seen' = [seen EXCEPT ![pc] = input[pc]]
    /\ pc = "prometheus" => inst' = inst
    /\ pc = "subSecret" => Sets("InputReady", "True")
    /\ pc = "keystone" =>
          Sets("KeystoneServiceReady",
               IF ks.status = "NotSet" THEN inst.cond["KeystoneServiceReady"]
               ELSE ks.status)
    /\ pc = "config" => Sets("ServiceConfigReady", "True")
    /\ pc = "dbsync" => /\ Sets("DBSyncReady", "True")
                        /\ inst'.hash = base.spec.img
    /\ pc = "cronjob" => Sets("CronJobReady", "True")
    /\ pc = "expose" => Sets("ExposeServiceReady", "True")
    /\ pc \in {"api", "decisionengine", "applier"} =>
          \/ pc \notin Kinds /\ inst' = inst
          \/ /\ pc \in Kinds
             /\ Sets(SubCondition[pc],
                     IF sub'[pc].observed /\ sub'[pc].ready # "NotSet"
                     THEN sub'[pc].ready ELSE inst.cond[SubCondition[pc]])
             /\ sub' = sub =>
                   sub[pc].exists /\ sub[pc].spec = SubSpec(base.spec)

\* Every step that goes on does what is said of it.
LEMMA GoesOn == ASSUME TypeOK, Inner, pc' # "exit" PROVE Goes
  <1>0. Types /\ Facts
    BY TypeOKUnfolded, FactsHold
  <1>M. \A t \in WatcherConditions, v \in Statuses :
            /\ Marked(inst, t, v) \in CRs
            /\ Marked(inst, t, v).hash = inst.hash
            /\ Marked(inst, t, v).cond =
                  [u \in WatcherConditions |->
                       IF u = t THEN v ELSE inst.cond[u]]
    BY <1>0, MarkedFacts DEF Types
  <1>C. inst.cond \in [WatcherConditions -> Statuses]
    BY <1>0 DEF Types, CRs
  <1>1. CASE EnsureRbac
    <2>1. /\ pc = "rbac" /\ seen' = seen
          /\ inst' = Marked(inst, "RBACReady", "True")
      BY <1>1, RbacMoves DEF EnsureRbac
    <2> QED
      BY <1>0, <1>M, <2>1 DEF Goes, Sets, Facts
  <1>2. CASE EnsureDB
    <2> DEFINE o == Marked(inst, "MariaDBAccountReady", "True")
               p == Marked(o, "DBReady", "True")
    <2>1. /\ o \in CRs /\ o.hash = inst.hash
          /\ o.cond = [u \in WatcherConditions |->
                           IF u = "MariaDBAccountReady" THEN "True"
                           ELSE inst.cond[u]]
      BY <1>0, <1>M DEF Facts
    <2>2. /\ p.hash = o.hash
          /\ p.cond = [u \in WatcherConditions |->
                           IF u = "DBReady" THEN "True" ELSE o.cond[u]]
      <3>1. "DBReady" \in WatcherConditions /\ "True" \in Statuses
        BY <1>0 DEF Facts
      <3> HIDE DEF o
      <3> QED
        BY <2>1, <3>1, MarkedFacts
    <2>3. /\ pc = "db" /\ inst' = p
          /\ seen' = [seen EXCEPT !["database"] = input["database"]]
      BY <1>2 DEF EnsureDB, FailWith, Return, GoTo
    <2> HIDE DEF o, p
    <2>4. p.cond = [u \in WatcherConditions |->
                        IF u \in {"MariaDBAccountReady", "DBReady"}
                        THEN "True" ELSE inst.cond[u]]
      BY <2>1, <2>2
    <2> QED
      BY <2>1, <2>2, <2>3, <2>4 DEF Goes
  <1>3. CASE EnsureMQ
    <2>1. /\ pc = "mq" /\ seen' = seen
          /\ inst' = Marked(inst, "TransportURLReady", "True")
      BY <1>3 DEF EnsureMQ, FailWith, Return, GoTo
    <2> QED
      BY <1>0, <1>M, <2>1 DEF Goes, Sets, Facts
  <1>4. CASE InputSecret \/ TransportURLSecret
    <2>1. /\ pc \in {"secret", "transport"} /\ inst' = inst
          /\ seen' = [seen EXCEPT ![pc] = input[pc]]
      BY <1>4 DEF InputSecret, TransportURLSecret, EnsureSecret, FailWith,
                  Return, GoTo
    <2> QED
      BY <2>1 DEF Goes
  <1>5. CASE PrometheusSecret
    BY <1>5 DEF PrometheusSecret, FailWith, Return, GoTo, Goes
  <1>6. CASE CreateSubLevelSecret
    <2>1. /\ pc = "subSecret" /\ seen' = seen
          /\ inst' = Marked(inst, "InputReady", "True")
      BY <1>6 DEF CreateSubLevelSecret, Return, GoTo
    <2> QED
      BY <1>0, <1>M, <2>1 DEF Goes, Sets, Facts
  <1>7. CASE EnsureKeystoneSvc
    <2>1. pc = "keystone" /\ seen' = seen /\ inst' = MirrorKeystone(inst)
      BY <1>7 DEF EnsureKeystoneSvc, FailWith, Return, GoTo
    <2>2. CASE ks.status = "NotSet"
      <3>1. inst' = inst
        BY <2>1, <2>2 DEF MirrorKeystone
      <3>2. inst.cond = [u \in WatcherConditions |->
                             IF u = "KeystoneServiceReady"
                             THEN inst.cond["KeystoneServiceReady"]
                             ELSE inst.cond[u]]
        BY <1>C
      <3> QED
        BY <2>1, <2>2, <3>1, <3>2 DEF Goes, Sets
    <2>3. CASE ks.status # "NotSet"
      <3>1. /\ inst' = Marked(inst, "KeystoneServiceReady", ks.status)
            /\ ks.status \in Statuses
        BY <1>0, <2>1, <2>3 DEF MirrorKeystone, Types, KSs
      <3> QED
        BY <1>0, <1>M, <2>1, <2>3, <3>1 DEF Goes, Sets, Facts
    <2> QED
      BY <2>2, <2>3
  <1>8. CASE ServiceConfigDBJobs
    <2>1. /\ pc = "config" /\ seen' = seen
          /\ inst' = Marked(inst, "ServiceConfigReady", "True")
      BY <1>8 DEF ServiceConfigDBJobs, FailWith, Return, GoTo
    <2> QED
      BY <1>0, <1>M, <2>1 DEF Goes, Sets, Facts
  <1>9. CASE EnsureDBSync
    <2> DEFINE m == Marked(inst, "DBSyncReady", "True")
               done == [m EXCEPT !.hash = base.spec.img]
    <2>1. /\ m \in CRs
          /\ m.cond = [u \in WatcherConditions |->
                           IF u = "DBSyncReady" THEN "True" ELSE inst.cond[u]]
      BY <1>0, <1>M DEF Facts
    <2>2. done.cond = m.cond /\ done.hash = base.spec.img
      <3> HIDE DEF m
      <3> QED
        BY <2>1 DEF CRs
    <2>3. pc = "dbsync" /\ seen' = seen /\ inst' = done
      BY <1>9 DEF EnsureDBSync, FailWith, Return, GoTo
    <2> HIDE DEF done, m
    <2> QED
      BY <2>1, <2>2, <2>3 DEF Goes, Sets
  <1>10. CASE EnsureDBPurgeCronJob
    <2>1. /\ pc = "cronjob" /\ seen' = seen
          /\ inst' = Marked(inst, "CronJobReady", "True")
      BY <1>10 DEF EnsureDBPurgeCronJob, FailWith, Return, GoTo
    <2> QED
      BY <1>0, <1>M, <2>1 DEF Goes, Sets, Facts
  <1>11. ASSUME NEW k \in {"api", "decisionengine", "applier"}, NEW next,
                EnsureSub(k, next)
         PROVE  Goes
    <2> DEFINE s == SubWritten(k, SubSpec(base.spec))
               status == IF s.observed /\ s.ready # "NotSet" THEN s.ready
                         ELSE inst.cond[SubCondition[k]]
    <2>1. pc = k /\ seen' = seen
      BY <1>11 DEF EnsureSub
    <2>2. \/ k \notin Kinds /\ inst' = inst
          \/ /\ k \in Kinds /\ sub' = [sub EXCEPT ![k] = s]
             /\ inst' = MirrorSub(inst, k, s)
      BY <1>11 DEF EnsureSub, GoTo, FailWith, Return
    <2>3. k \in Kinds => /\ s.ready \in Statuses
                         /\ s.exists /\ s.spec = SubSpec(base.spec)
      BY <1>0 DEF Types, SubCRs, SubWritten
    <2> HIDE DEF s
    <2>4. CASE k \in Kinds
      <3>1. inst'.hash = inst.hash /\ Sets(SubCondition[k], status)
        <4>1. CASE s.observed /\ s.ready # "NotSet"
          <5>1. inst' = Marked(inst, SubCondition[k], s.ready)
            BY <2>2, <2>4, <4>1 DEF MirrorSub
          <5> QED
            BY <1>0, <1>M, <2>3, <2>4, <4>1, <5>1 DEF Sets, Facts
        <4>2. CASE ~(s.observed /\ s.ready # "NotSet")
          <5>1. inst' = inst /\ status = inst.cond[SubCondition[k]]
            BY <2>2, <2>4, <4>2 DEF MirrorSub
          <5>2. inst.cond = [u \in WatcherConditions |->
                                 IF u = SubCondition[k]
                                 THEN inst.cond[SubCondition[k]]
                                 ELSE inst.cond[u]]
            BY <1>C
          <5> HIDE DEF status
          <5> QED
            BY <5>1, <5>2 DEF Sets
        <4> QED
          BY <4>1, <4>2
      <3>2. sub'[k] = s
        BY <1>0, <2>2, <2>4 DEF Types
      <3>3. sub' = sub => sub[k].exists /\ sub[k].spec = SubSpec(base.spec)
        BY <2>3, <2>4, <3>2
      <3>4. pc \in {"api", "decisionengine", "applier"}
        BY <2>1
      <3>5. Sets(SubCondition[pc],
                 IF sub'[pc].observed /\ sub'[pc].ready # "NotSet"
                 THEN sub'[pc].ready ELSE inst.cond[SubCondition[pc]])
        BY <2>1, <3>1, <3>2
      <3> HIDE DEF status
      <3> QED
        BY <2>1, <2>4, <3>1, <3>3, <3>4, <3>5 DEF Goes
    <2>5. CASE k \notin Kinds
      BY <2>1, <2>2, <2>5 DEF Goes
    <2> QED
      BY <2>4, <2>5
  <1>12. CASE EnsureAPI \/ EnsureDecisionEngine \/ EnsureApplier
    BY <1>11, <1>12 DEF EnsureAPI, EnsureDecisionEngine, EnsureApplier
  <1>13. CASE ExposeEndpoints
    <2>1. /\ pc = "expose" /\ seen' = seen
          /\ inst' = Marked(inst, "ExposeServiceReady", "True")
      BY <1>13 DEF ExposeEndpoints, ExposureReported, FailWith, Return, GoTo
    <2> QED
      BY <1>0, <1>M, <2>1 DEF Goes, Sets, Facts
  <1>14. CASE DeleteDBFinalizer \/ DeleteKSFinalizer
    BY <1>14 DEF DeleteDBFinalizer, DeleteKSFinalizer, Return, GoTo, Goes
  <1>15. CASE ReleaseUnusedAccounts \/ DeletePrometheusFinalizer
    BY <1>15 DEF ReleaseUnusedAccounts, DeletePrometheusFinalizer, Return
  <1> QED
    BY <1>1, <1>2, <1>3, <1>4, <1>5, <1>6, <1>7, <1>8, <1>9, <1>10, <1>12,
       <1>13, <1>14, <1>15 DEF Inner

\* Every step keeps the copies behind the resource.
LEMMA GenerationsKept ==
    ASSUME TypeOK, Generations, [Next]_vars PROVE Generations'
  <1>0. Types /\ cr.gen \in Nat /\ cache.gen \in Nat
    BY TypeOKUnfolded DEF Types, CRs
  <1>1. CASE Start
    <2>1. /\ UNCHANGED <<cr, cache>>
          /\ \/ UNCHANGED <<pc, base, inst>>
             \/ base' = cache /\ inst' = InitStatus(cache)
      BY <1>1 DEF Start, GoTo, controllerVars
    <2>2. InitStatus(cache).obs = cache.gen
      BY <1>0, InitStatusFacts DEF Types
    <2> QED
      BY <2>1, <2>2 DEF Generations
  <1>2. CASE Inner
    BY <1>2, InnerMoves, InnerKeeps DEF Generations
  <1>3. CASE Exit
    BY <1>3, ExitFacts DEF Generations, Forget
  <1>4. CASE Crash
    BY <1>0, <1>4 DEF Generations, Crash, Forget
  <1>5. CASE Outer
    <2>1. UNCHANGED <<pc, base, inst>> /\ Noticed
      BY <1>5, OuterFacts DEF controllerVars
    <2> QED
      BY <1>0, <2>1 DEF Generations, Noticed
  <1> QED
    BY <1>1, <1>2, <1>3, <1>4, <1>5, StepCases

\* A copy that is no longer the informer's comes with an event.
LEMMA UnqueuedKept == ASSUME TypeOK, Unqueued, [Next]_vars PROVE Unqueued'
  <1>1. CASE Start
    <2>1. /\ cache' = cache /\ pc = "idle"
          /\ \/ UNCHANGED pc
             \/ base' = cache
      BY <1>1 DEF Start, GoTo, controllerVars
    <2> QED
      BY <2>1 DEF Unqueued
  <1>2. CASE Inner
    BY <1>2, InnerMoves DEF Unqueued
  <1>3. CASE Exit
    BY <1>3, ExitFacts DEF Unqueued, Forget
  <1>4. CASE Crash
    BY <1>4 DEF Unqueued, Crash, Forget
  <1>5. CASE Outer
    <2>1. UNCHANGED <<pc, base>> /\ Noticed
      BY <1>5, OuterFacts DEF controllerVars
    <2> QED
      BY <2>1 DEF Unqueued, Noticed
  <1> QED
    BY <1>1, <1>2, <1>3, <1>4, <1>5, StepCases

\* (a reconcile starts with every condition open)
LEMMA StartOpens ==
    ASSUME TypeOK, Start
    PROVE  /\ pc = "idle" /\ ~queue' /\ UNCHANGED <<cr, cache, input, worldVars>>
           /\ \/ UNCHANGED controllerVars
              \/ /\ pc' = "rbac" /\ base' = cache /\ cache.phase # "Gone"
                 /\ \A t \in InitialConditions : inst'.cond[t] = "Unknown"
  <1>1. Types
    BY TypeOKUnfolded
  <1> QED
    BY <1>1, InitStatusFacts DEF Start, GoTo, Types

\* (the conditions of the steps are pairwise different)
LEMMA Different ==
    \A k \in Kinds :
        /\ SubCondition[k] \in
              {"WatcherAPIReady", "WatcherDecisionEngineReady",
               "WatcherApplierReady"}
        /\ \A j \in Kinds : SubCondition[j] = SubCondition[k] => j = k
        /\ SubCondition[k] \in InitialConditions
  BY KindsAssumption DEF SubCondition, InitialConditions

\* Every step says what it has done.
LEMMA ReportedKept ==
    ASSUME TypeOK, Reported, [Next]_vars PROVE Reported'
  <1> USE DEF Creation, AfterDB, AfterMQ, AfterInput, AfterTransport,
              AfterPrometheus, AfterSecret, AfterKeystone, AfterConfig,
              AfterSync, AfterCronJob, AfterAPI, AfterExpose,
              AfterDecisionEngine, AfterApplier
  <1>1. CASE Start
    <2>1. {"Ready"} \subseteq InitialConditions
      BY DEF InitialConditions
    <2> QED
      BY <1>1, <2>1, StartOpens DEF Reported, controllerVars
  <1>2. CASE Inner
    <2>1. CASE pc' = "exit"
      BY <2>1 DEF Reported
    <2>2. CASE pc' # "exit"
      <3>1. Goes /\ <<pc, pc'>> \in Moves /\ base' = base
        BY <1>2, <2>2, GoesOn, InnerMoves
      <3>2. Facts /\ \A k \in Kinds : SubCondition[k] \in
              {"WatcherAPIReady", "WatcherDecisionEngineReady",
               "WatcherApplierReady"}
        BY FactsHold, Different
      <3>3. CASE pc \in {"rbac", "db", "mq", "secret", "transport",
                         "prometheus", "subSecret", "keystone"}
        BY <3>1, <3>2, <3>3 DEF Reported, Goes, Sets, Moves, Facts
      <3>4. CASE pc \in {"config", "dbsync", "cronjob", "expose"}
        BY <3>1, <3>2, <3>4 DEF Reported, Goes, Sets, Moves, Facts
      <3>5. CASE pc \in {"api", "decisionengine", "applier"}
        BY <3>1, <3>2, <3>5 DEF Reported, Goes, Sets, Moves, Facts
      <3>6. CASE pc \in {"deleteDB", "deleteKS"}
        BY <3>1, <3>6 DEF Reported, Moves
      <3> QED
        BY <3>1, <3>3, <3>4, <3>5, <3>6 DEF Moves
    <2> QED
      BY <2>1, <2>2
  <1>3. CASE Exit
    BY <1>3, ExitFacts DEF Reported, Forget
  <1>4. CASE Crash
    BY <1>4 DEF Reported, Crash, Forget
  <1>5. CASE Outer
    <2>1. UNCHANGED <<pc, base, inst>>
      BY <1>5, OuterFacts DEF controllerVars
    <2> QED
      BY <2>1 DEF Reported
  <1> QED
    BY <1>1, <1>2, <1>3, <1>4, <1>5, StepCases

\* Nothing is said of other resources before they are looked at.
LEMMA OpenKept == ASSUME TypeOK, Open, [Next]_vars PROVE Open'
  <1> USE DEF Creation, AfterDB, AfterMQ, AfterInput, AfterTransport,
              AfterPrometheus, AfterSecret, AfterKeystone, AfterConfig,
              AfterSync, AfterCronJob, AfterAPI, AfterExpose,
              AfterDecisionEngine, AfterApplier, AfterStep
  <1>D. Facts /\ \A k \in Kinds :
           /\ SubCondition[k] \in
                 {"WatcherAPIReady", "WatcherDecisionEngineReady",
                  "WatcherApplierReady"}
           /\ \A j \in Kinds : SubCondition[j] = SubCondition[k] => j = k
           /\ SubCondition[k] \in InitialConditions
           /\ k \in {"api", "decisionengine", "applier"}
    BY FactsHold, Different, KindsAssumption
  <1>1. CASE Start
    <2>1. "KeystoneServiceReady" \in InitialConditions
      BY DEF InitialConditions
    <2> QED
      BY <1>1, <1>D, <2>1, StartOpens DEF Open, controllerVars
  <1>2. CASE Inner
    <2>1. CASE pc' = "exit"
      BY <2>1, <1>D DEF Open
    <2>2. CASE pc' # "exit"
      <3>1. Goes /\ <<pc, pc'>> \in Moves
        BY <1>2, <2>2, GoesOn, InnerMoves
      <3>2. pc' \in {"rbac"} \cup (Creation \ AfterKeystone) =>
               inst'.cond["KeystoneServiceReady"] = "Unknown"
        BY <3>1, <1>D DEF Open, Goes, Sets, Moves, Facts
      <3>3. ASSUME NEW k \in Kinds,
                   pc' \in {"rbac"} \cup (Creation \ AfterStep(k))
            PROVE  inst'.cond[SubCondition[k]] = "Unknown"
        <4>1. /\ pc \in {"rbac"} \cup (Creation \ AfterStep(k))
              /\ pc # k
          BY <3>1, <3>3, <1>D DEF Moves
        <4>2. inst.cond[SubCondition[k]] = "Unknown"
          BY <4>1 DEF Open
        <4>3. pc \in Kinds => SubCondition[pc] # SubCondition[k]
          BY <4>1, <1>D
        <4>4. inst'.cond[SubCondition[k]] = inst.cond[SubCondition[k]]
          <5>1. SubCondition[k] \in WatcherConditions
            BY <1>D DEF Facts
          <5> HIDE DEF AfterStep
          <5> QED
            BY <3>1, <4>1, <4>3, <5>1, <1>D DEF Goes, Sets, Moves, Facts
        <4> QED
          BY <4>2, <4>4
      <3> QED
        BY <3>2, <3>3 DEF Open
    <2> QED
      BY <2>1, <2>2
  <1>3. CASE Exit
    BY <1>3, <1>D, ExitFacts DEF Open, Forget
  <1>4. CASE Crash
    BY <1>4, <1>D DEF Open, Crash, Forget
  <1>5. CASE Outer
    <2>1. UNCHANGED <<pc, inst>>
      BY <1>5, OuterFacts DEF controllerVars
    <2> QED
      BY <2>1 DEF Open
  <1> QED
    BY <1>1, <1>2, <1>3, <1>4, <1>5, StepCases

\* Every step keeps what was done done.
LEMMA ProvidedKept == ASSUME TypeOK, Provided, [Next]_vars PROVE Provided'
  <1> USE DEF Creation, AfterDB, AfterMQ, AfterInput, AfterTransport,
              AfterPrometheus, AfterSecret, AfterKeystone, AfterConfig,
              AfterSync, AfterCronJob, AfterAPI, AfterExpose,
              AfterDecisionEngine, AfterApplier
  <1>1. CASE Start
    BY <1>1, StartOpens DEF Provided, Collected, controllerVars, worldVars
  <1>2. CASE Inner
    <2>1. CASE pc' = "exit"
      BY <2>1 DEF Provided
    <2>2. CASE pc' # "exit"
      <3>1. Goes /\ <<pc, pc'>> \in Moves /\ Effects /\ base' = base
        BY <1>2, <2>2, GoesOn, InnerMoves, InnerEffects
      <3>2. pc' \in AfterDB => base.spec.acct \in acctFin'
        BY <2>2, <3>1 DEF Provided, Effects, Moves
      <3>3. pc' \in AfterPrometheus => base.spec.prom \in promFin'
        BY <2>2, <3>1 DEF Provided, Effects, Moves
      <3>4. pc' \in AfterSecret => subSecret' = Collected /\ seen' = seen
        <4>1. CASE pc = "subSecret"
          BY <2>2, <3>1, <4>1 DEF Effects, Goes
        <4>2. CASE pc # "subSecret"
          BY <2>2, <3>1, <4>2 DEF Provided, Effects, Moves, Goes
        <4> QED
          BY <4>1, <4>2
      <3> QED
        BY <3>1, <3>2, <3>3, <3>4 DEF Provided, Collected
    <2> QED
      BY <2>1, <2>2
  <1>3. CASE Exit
    BY <1>3, ExitFacts DEF Provided, Forget
  <1>4. CASE Crash
    BY <1>4 DEF Provided, Crash, Forget
  <1>5. CASE Outer
    <2>1. UNCHANGED <<pc, base, seen, acctFin, promFin, subSecret>>
      BY <1>5, OuterFacts DEF controllerVars
    <2> QED
      BY <2>1 DEF Provided, Collected
  <1> QED
    BY <1>1, <1>2, <1>3, <1>4, <1>5, StepCases

\* With no event pending, every step keeps what was found right.
LEMMA FoundKept == ASSUME TypeOK, Open, Found, [Next]_vars PROVE Found'
  <1> USE DEF Creation, AfterDB, AfterMQ, AfterInput, AfterTransport,
              AfterPrometheus, AfterSecret, AfterKeystone, AfterConfig,
              AfterSync, AfterCronJob, AfterAPI, AfterExpose,
              AfterDecisionEngine, AfterApplier, AfterStep
  <1>0. Types
    BY TypeOKUnfolded
  <1>D. Facts /\ \A k \in Kinds :
           /\ SubCondition[k] \in
                 {"WatcherAPIReady", "WatcherDecisionEngineReady",
                  "WatcherApplierReady"}
           /\ \A j \in Kinds : SubCondition[j] = SubCondition[k] => j = k
           /\ k \in {"api", "decisionengine", "applier"}
    BY FactsHold, Different, KindsAssumption
  <1>1. CASE Start
    BY <1>1, <1>D, StartOpens DEF Found, controllerVars, worldVars
  <1>2. CASE Inner
    <2>1. CASE pc' = "exit" \/ queue'
      BY <1>D, <2>1 DEF Found
    <2>2. CASE pc' # "exit" /\ ~queue'
      <3>1. /\ Goes /\ <<pc, pc'>> \in Moves /\ Effects
            /\ base' = base /\ input' = input /\ ~queue
        BY <1>2, <2>2, GoesOn, InnerMoves, InnerEffects
      <3>2. sub' = sub /\ ks'.status = ks.status
        <4>1. sub' = sub
          BY <2>2, <3>1 DEF Effects
        <4>2. CASE pc = "deleteKS"
          BY <1>0, <2>2, <3>1, <4>2
             DEF Effects, KeystoneReleased, Types, KSs
        <4>3. CASE pc # "deleteKS"
          BY <2>2, <3>1, <4>3 DEF Effects
        <4> QED
          BY <4>1, <4>2, <4>3
      <3>3. pc' \in AfterDB => seen'["database"] = input["database"]
        BY <1>0, <1>D, <3>1 DEF Found, Goes, Moves, Types, Facts
      <3>4. pc' \in AfterInput => seen'["secret"] = input["secret"]
        BY <1>0, <1>D, <3>1 DEF Found, Goes, Moves, Types, Facts
      <3>5. pc' \in AfterKeystone =>
                inst'.cond["KeystoneServiceReady"] = Told(ks.status)
        <4>1. CASE pc = "keystone"
          <5>1. inst.cond["KeystoneServiceReady"] = "Unknown"
            BY <4>1 DEF Open
          <5>2. "KeystoneServiceReady" \in WatcherConditions
            BY <1>D DEF Facts
          <5> QED
            BY <3>1, <4>1, <5>1, <5>2 DEF Goes, Sets, Told
        <4>2. CASE pc # "keystone"
          <5>1. "KeystoneServiceReady" \in WatcherConditions
            BY <1>D DEF Facts
          <5>2. pc' \in AfterKeystone =>
                    /\ pc \in AfterKeystone
                    /\ inst.cond["KeystoneServiceReady"] = Told(ks.status)
            BY <3>1, <4>2 DEF Found, Moves
          <5>3. CASE pc \in {"config", "dbsync", "cronjob", "expose"}
            BY <3>1, <5>1, <5>2, <5>3 DEF Goes, Sets
          <5>4. CASE pc \in {"api", "decisionengine", "applier"}
            <6>1. pc \in Kinds => SubCondition[pc] # "KeystoneServiceReady"
              BY <1>D
            <6> QED
              BY <3>1, <5>1, <5>2, <5>4, <6>1 DEF Goes, Sets
          <5>5. CASE pc = "accounts"
            BY <3>1, <5>5 DEF Moves
          <5> QED
            BY <5>2, <5>3, <5>4, <5>5
        <4> QED
          BY <4>1, <4>2
      <3>6. ASSUME NEW k \in Kinds, pc' \in AfterStep(k)
            PROVE  /\ sub[k].exists /\ sub[k].spec = SubSpec(base.spec)
                   /\ inst'.cond[SubCondition[k]] =
                         IF sub[k].observed THEN Told(sub[k].ready)
                         ELSE "Unknown"
        <4>0. SubCondition[k] \in WatcherConditions
          BY <1>D DEF Facts
        <4>1. CASE pc = k
          <5>1. inst.cond[SubCondition[k]] = "Unknown"
            BY <1>D, <4>1 DEF Open
          <5>2. /\ Sets(SubCondition[k],
                        IF sub[k].observed /\ sub[k].ready # "NotSet"
                        THEN sub[k].ready ELSE inst.cond[SubCondition[k]])
                /\ sub[k].exists /\ sub[k].spec = SubSpec(base.spec)
            <6>1. pc \in {"api", "decisionengine", "applier"} /\ pc \in Kinds
              BY <1>D, <4>1
            <6> QED
              BY <3>1, <3>2, <4>1, <6>1 DEF Goes
          <5> QED
            BY <4>0, <5>1, <5>2 DEF Sets, Told
        <4>2. CASE pc # k
          <5>1. pc \in AfterStep(k)
            BY <1>D, <3>1, <3>6, <4>2 DEF Moves
          <5>2. /\ sub[k].exists /\ sub[k].spec = SubSpec(base.spec)
                /\ inst.cond[SubCondition[k]] =
                      IF sub[k].observed THEN Told(sub[k].ready)
                      ELSE "Unknown"
            BY <3>1, <5>1 DEF Found
          <5>3. pc \in Kinds => SubCondition[pc] # SubCondition[k]
            BY <1>D, <4>2
          <5>4. inst'.cond[SubCondition[k]] = inst.cond[SubCondition[k]]
            <6>1. pc \in AfterSync
              BY <1>D, <5>1
            <6> HIDE DEF AfterStep
            <6> QED
              BY <3>1, <4>0, <5>3, <6>1, <1>D DEF Goes, Sets, Moves
          <5> QED
            BY <5>2, <5>4
        <4> QED
          BY <4>1, <4>2
      <3> QED
        BY <3>1, <3>2, <3>3, <3>4, <3>5, <3>6 DEF Found
    <2> QED
      BY <2>1, <2>2
  <1>3. CASE Exit
    BY <1>3, <1>D, ExitFacts DEF Found, Forget
  <1>4. CASE Crash
    BY <1>4, <1>D DEF Found, Crash, Forget
  <1>5. CASE Outer
    <2>1. /\ UNCHANGED <<pc, base, inst, seen>> /\ Noticed
          /\ \A k \in Kinds : /\ sub'[k].spec = sub[k].spec
                              /\ sub'[k].exists = sub[k].exists
      BY <1>5, OuterFacts DEF controllerVars
    <2>2. CASE queue'
      BY <2>2 DEF Found
    <2>3. CASE ~queue'
      <3>1. /\ ~queue /\ ks' = ks
            /\ input'["database"] = input["database"]
            /\ input'["secret"] = input["secret"]
            /\ \A k \in Kinds : /\ sub'[k].observed = sub[k].observed
                                /\ sub'[k].ready = sub[k].ready
        BY <2>1, <2>3 DEF Noticed, Inputs, Unwatched
      <3> HIDE DEF AfterStep
      <3> QED
        BY <2>1, <3>1 DEF Found
    <2> QED
      BY <2>2, <2>3
  <1> QED
    BY <1>1, <1>2, <1>3, <1>4, <1>5, StepCases

\* A reconcile ends without an error and without a wait at its early returns
\* and after its last step.
LEMMA EndsWell ==
    ASSUME TypeOK, Inner, pc' = "exit", outcome' = "none"
    PROVE  \/ EnsureRbac
           \/ pc = "deletePrometheus"
           \/ /\ pc = "accounts" /\ inst' = Finished(inst) /\ queue' = queue
              /\ acctFin' = acctFin \cap {base.spec.acct}
              /\ UNCHANGED <<promFin, ks, subSecret, sub>>
  <1>1. ASSUME NEW k \in {"api", "decisionengine", "applier"}, NEW next,
               next # "exit", EnsureSub(k, next)
        PROVE  FALSE
    BY <1>1 DEF EnsureSub, FailWith, Return, GoTo
  <1>2. CASE EnsureAPI \/ EnsureDecisionEngine \/ EnsureApplier
    BY <1>1, <1>2 DEF EnsureAPI, EnsureDecisionEngine, EnsureApplier
  <1>3. CASE EnsureDB \/ EnsureMQ \/ InputSecret \/ TransportURLSecret
    BY <1>3 DEF EnsureDB, EnsureMQ, InputSecret, TransportURLSecret,
                EnsureSecret, FailWith, Return, GoTo
  <1>4. CASE PrometheusSecret \/ CreateSubLevelSecret \/ EnsureKeystoneSvc
    BY <1>4 DEF PrometheusSecret, CreateSubLevelSecret, EnsureKeystoneSvc,
                FailWith, Return, GoTo
  <1>5. CASE ServiceConfigDBJobs \/ EnsureDBSync \/ EnsureDBPurgeCronJob
    BY <1>5 DEF ServiceConfigDBJobs, EnsureDBSync, EnsureDBPurgeCronJob,
                FailWith, Return, GoTo
  <1>6. CASE ExposeEndpoints \/ DeleteDBFinalizer \/ DeleteKSFinalizer
    BY <1>6 DEF ExposeEndpoints, DeleteDBFinalizer, DeleteKSFinalizer,
                FailWith, Return, GoTo
  <1>7. CASE ReleaseUnusedAccounts
    BY <1>7 DEF ReleaseUnusedAccounts, Return
  <1>8. CASE DeletePrometheusFinalizer
    BY <1>8 DEF DeletePrometheusFinalizer
  <1> QED
    BY <1>2, <1>3, <1>4, <1>5, <1>6, <1>7, <1>8 DEF Inner

\* At the end Ready is True exactly if KeystoneService and services are ready.
LEMMA FinishedTells ==
    ASSUME TypeOK, Reported, Found, pc = "accounts", ~queue
    PROVE  /\ Finished(inst).hash = inst.hash
           /\ (Finished(inst).cond["Ready"] = "True") <=>
                 /\ ks.status = "True"
                 /\ \A k \in Kinds : sub[k].observed /\ sub[k].ready = "True"
  <1>0. Types /\ Facts
    BY TypeOKUnfolded, FactsHold
  <1>1. /\ Marked(inst, "Ready", "True").hash = inst.hash
        /\ Marked(inst, "Ready", "True").cond["Ready"] = "True"
    <2>1. "Ready" \in WatcherConditions /\ "True" \in Statuses
      BY <1>0 DEF Facts
    <2> QED
      BY <1>0, <2>1, MarkedFacts DEF Types
  <1>2. /\ inst.cond["Ready"] = "Unknown"
        /\ inst.cond["KeystoneServiceReady"] = Told(ks.status)
        /\ \A t \in {"RBACReady", "DBReady", "TransportURLReady", "InputReady",
                     "ServiceConfigReady", "DBSyncReady", "CronJobReady",
                     "ExposeServiceReady", "MariaDBAccountReady"} :
              inst.cond[t] = "True"
        /\ \A k \in Kinds :
              inst.cond[SubCondition[k]] =
                  IF sub[k].observed THEN Told(sub[k].ready) ELSE "Unknown"
    BY KindsAssumption
       DEF Reported, Found, Creation, AfterDB, AfterMQ, AfterInput,
           AfterTransport, AfterPrometheus, AfterSecret, AfterKeystone,
           AfterConfig, AfterSync, AfterCronJob, AfterAPI, AfterExpose,
           AfterDecisionEngine, AfterApplier, AfterStep
  <1>3. DOMAIN inst.cond = WatcherConditions
    BY <1>0 DEF Types, CRs
  <1>4. WatcherConditions \ {"Ready"} =
            {"RBACReady", "DBReady", "TransportURLReady", "InputReady",
             "ServiceConfigReady", "DBSyncReady", "CronJobReady",
             "ExposeServiceReady", "MariaDBAccountReady"}
               \cup {"KeystoneServiceReady"} \cup {SubCondition[k] : k \in Kinds}
    <2>1. \A k \in Kinds : SubCondition[k] # "Ready"
      BY Different
    <2> QED
      BY <2>1 DEF WatcherConditions, InitialConditions
  <1>5. AllSubConditionIsTrue(inst.cond) <=>
            /\ Told(ks.status) \in {"True", "NotSet"}
            /\ \A k \in Kinds :
                  (IF sub[k].observed THEN Told(sub[k].ready) ELSE "Unknown")
                      \in {"True", "NotSet"}
    BY <1>2, <1>3, <1>4 DEF AllSubConditionIsTrue
  <1>6. AllSubConditionIsTrue(inst.cond) <=>
            /\ ks.status = "True"
            /\ \A k \in Kinds : sub[k].observed /\ sub[k].ready = "True"
    BY <1>5 DEF Told
  <1> QED
    BY <1>1, <1>2, <1>6 DEF Finished

\* Every step keeps a reconcile that ends well one that tells the truth.
LEMMA SettledKept ==
    ASSUME TypeOK, Phases, Reported, Provided, Found, Settled, [Next]_vars
    PROVE  Settled'
  <1>0. Types /\ Facts
    BY TypeOKUnfolded, FactsHold
  <1>1. CASE Start
    <2>1. pc' # "exit"
      BY <1>1, StartOpens DEF controllerVars
    <2> QED
      BY <2>1 DEF Settled
  <1>2. CASE Inner
    <2> SUFFICES ASSUME pc' = "exit", ~queue', outcome' = "none",
                        base'.phase = "Live"
                 PROVE  Settled'
      BY DEF Settled
    <2>1. base' = base /\ input' = input /\ ~queue
      BY <1>2, InnerMoves
    <2>2. CASE EnsureRbac
      <3>1. \/ base.phase = "Live" /\ ~base.fin /\ inst'.fin
            \/ /\ NilConditions(base.cond)
               /\ inst'.cond = Marked(inst, "RBACReady", "True").cond
        BY <2>1, <2>2, RbacMoves DEF Phases
      <3>2. Marked(inst, "RBACReady", "True").cond["Ready"] = inst.cond["Ready"]
        <4>1. /\ {"Ready", "RBACReady"} \subseteq WatcherConditions
              /\ "True" \in Statuses
          BY <1>0 DEF Facts
        <4>2. Marked(inst, "RBACReady", "True").cond =
                  [u \in WatcherConditions |->
                       IF u = "RBACReady" THEN "True" ELSE inst.cond[u]]
          BY <1>0, <4>1, MarkedFacts DEF Types
        <4> QED
          BY <4>1, <4>2
      <3>3. inst.cond["Ready"] = "Unknown"
        BY <2>2, RbacMoves DEF Reported
      <3> QED
        BY <2>1, <3>1, <3>2, <3>3 DEF Settled
    <2>3. CASE pc = "deletePrometheus"
      BY <2>1, <2>3 DEF Phases, Deletion
    <2>4. CASE /\ pc = "accounts" /\ inst' = Finished(inst)
               /\ acctFin' = acctFin \cap {base.spec.acct}
               /\ UNCHANGED <<promFin, ks, subSecret, sub>>
      <3> DEFINE o == Finished(inst)
      <3>1. /\ o.hash = inst.hash
            /\ (o.cond["Ready"] = "True") <=>
                 /\ ks.status = "True"
                 /\ \A k \in Kinds : sub[k].observed /\ sub[k].ready = "True"
        BY <2>1, <2>4, FinishedTells
      <3>2. /\ inst.hash = base.spec.img
            /\ base.spec.acct \in acctFin /\ base.spec.prom \in promFin
            /\ subSecret = Collected
            /\ seen["database"] = input["database"]
            /\ seen["secret"] = input["secret"]
            /\ \A k \in Kinds : /\ sub[k].exists
                                /\ sub[k].spec = SubSpec(base.spec)
        BY <2>1, <2>4, KindsAssumption
           DEF Reported, Provided, Found, AfterDB, AfterMQ, AfterInput,
               AfterTransport, AfterPrometheus, AfterSecret, AfterKeystone,
               AfterConfig, AfterSync, AfterCronJob, AfterAPI, AfterExpose,
               AfterDecisionEngine, AfterApplier, AfterStep
      <3>3. /\ Collected # None /\ Collected.acct = base.spec.acct
            /\ Collected.cfg = base.spec.cfg
            /\ Collected.in["secret"] = seen["secret"]
            /\ Collected.in["database"] = seen["database"]
        <4>1. Collected # None
          BY CollectedType, NoneAssumption
        <4> QED
          BY <4>1 DEF Collected
      <3> HIDE DEF o
      <3>4. Truthful(inst)'
        BY <2>1, <2>4, <3>1, <3>2, <3>3 DEF Truthful, o
      <3> QED
        BY <3>4 DEF Settled
    <2> QED
      BY <1>2, <2>2, <2>3, <2>4, EndsWell
  <1>3. CASE Exit
    BY <1>3, ExitFacts DEF Settled, Forget
  <1>4. CASE Crash
    BY <1>4 DEF Settled, Crash, Forget
  <1>5. CASE Outer
    <2>1. /\ UNCHANGED <<pc, base, inst, outcome, acctFin, promFin, subSecret>>
          /\ \A k \in Kinds : /\ sub'[k].spec = sub[k].spec
                              /\ sub'[k].exists = sub[k].exists
          /\ Noticed
      BY <1>5, OuterFacts DEF controllerVars
    <2>2. CASE queue'
      BY <2>2 DEF Settled
    <2>3. CASE ~queue'
      <3>1. /\ ~queue /\ ks' = ks
            /\ input'["database"] = input["database"]
            /\ input'["secret"] = input["secret"]
            /\ \A k \in Kinds : /\ sub'[k].observed = sub[k].observed
                                /\ sub'[k].ready = sub[k].ready
        BY <2>1, <2>3 DEF Noticed, Inputs, Unwatched
      <3>2. Truthful(inst) => Truthful(inst)'
        BY <2>1, <3>1 DEF Truthful
      <3> QED
        BY <2>1, <3>1, <3>2 DEF Settled
    <2> QED
      BY <2>2, <2>3
  <1> QED
    BY <1>1, <1>2, <1>3, <1>4, <1>5, StepCases

\* Every step keeps a controller that rests one that may.
LEMMA RestKept ==
    ASSUME TypeOK, Generations, Phases, Unqueued, Settled, RestIsTruthful,
           Unswallowed, [Next]_vars
    PROVE  RestIsTruthful'
  <1>0. Types
    BY TypeOKUnfolded
  <1> SUFFICES ASSUME pc' = "idle", ~queue', cache' = cr', cr'.phase = "Live"
               PROVE  RestIsTruthful'
    BY DEF RestIsTruthful, AtRest
  <1>1. CASE Start
    BY <1>1 DEF Start, GoTo
  <1>2. CASE Inner
    BY <1>2, InnerMoves
  <1>3. CASE Exit
    <2> DEFINE after == [inst EXCEPT !.cond = MirrorUndecided(inst.cond)]
               p == PatchInstance(cr, base, after)
    <2>1. /\ pc = "exit" /\ ~queue
          /\ UNCHANGED <<cache, input, worldVars>>
      BY <1>3, ExitFacts
    <2>2. outcome \notin {"after", "error"} /\ cr' = p
      BY <1>3 DEF Exit, PatchFails
    <2>3. base = cache /\ cr' = base
      BY <2>1 DEF Unqueued
    <2>4. outcome = "none"
      BY <1>0, <2>2, <2>3 DEF Types, Unswallowed
    <2>5. /\ after \in CRs /\ after.hash = inst.hash /\ after.fin = inst.fin
          /\ after.obs = inst.obs
          /\ (after.cond["Ready"] = "True") <=> (inst.cond["Ready"] = "True")
          /\ inst.cond["Ready"] = "Unknown" => after.cond["Ready"] # "NotSet"
      BY <1>0, MirrorFacts DEF Types
    <2>6. /\ after.fin = base.fin /\ after.hash = base.hash
          /\ after.obs = base.obs /\ after.cond = base.cond
      <3> HIDE DEF after
      <3>1. base \in CRs /\ cr \in CRs
        BY <1>0 DEF Types
      <3>2. /\ p.phase = "Live" /\ p.fin = base.fin =>
                  after.fin = base.fin
            /\ p.phase = "Live" /\ p.hash = base.hash =>
                  after.hash = base.hash
            /\ p.phase = "Live" /\ p.obs = base.obs =>
                  after.obs = base.obs
            /\ p.phase = "Live" /\ p.cond = base.cond =>
                  after.cond = base.cond
        BY <2>5, <3>1, PatchFacts
      <3> HIDE DEF p
      <3> QED
        BY <2>2, <2>3, <3>2
    <2> HIDE DEF after, p
    <2>7. Truthful(inst)
      <3>1. NilConditions(base.cond) => base.cond["Ready"] = "NotSet"
        BY <1>0 DEF Types, CRs, NilConditions, WatcherConditions,
                    InitialConditions
      <3> QED
        BY <2>1, <2>3, <2>4, <2>5, <2>6, <3>1 DEF Settled
    <2>8. base.obs = base.gen
      BY <2>1, <2>5, <2>6 DEF Generations
    <2>9. /\ cr'.spec = base.spec /\ cr'.hash = inst.hash
          /\ cr'.obs = cr'.gen
          /\ (cr'.cond["Ready"] = "True") <=> (inst.cond["Ready"] = "True")
      BY <2>3, <2>5, <2>6, <2>8
    <2> QED
      BY <2>1, <2>7, <2>9
         DEF RestIsTruthful, AtRest, SecretCurrent, Follows, Truthful, worldVars
  <1>4. CASE Crash
    BY <1>4 DEF Crash
  <1>5. CASE Outer
    <2>1. /\ UNCHANGED <<pc, acctFin, promFin, subSecret>>
          /\ \A k \in Kinds : /\ sub'[k].spec = sub[k].spec
                              /\ sub'[k].exists = sub[k].exists
          /\ Noticed
      BY <1>5, OuterFacts DEF controllerVars
    <2>2. /\ ~queue /\ ks' = ks
          /\ input'["database"] = input["database"]
          /\ input'["secret"] = input["secret"]
          /\ \A k \in Kinds : /\ sub'[k].observed = sub[k].observed
                              /\ sub'[k].ready = sub[k].ready
      BY <2>1 DEF Noticed, Inputs, Unwatched
    <2>3. cr' = cr /\ cache' = cache
      <3>1. cr.gen \in Nat /\ cache.gen \in Nat
        BY <1>0 DEF Types, CRs
      <3> QED
        BY <2>1, <3>1 DEF Noticed, Generations
    <2> QED
      BY <2>1, <2>2, <2>3 DEF RestIsTruthful, AtRest, SecretCurrent, Follows
  <1> QED
    BY <1>1, <1>2, <1>3, <1>4, <1>5, StepCases

\* No lost wake-up, but for one: whenever the controller comes to rest with a
\* live Watcher, what it created is what spec and inputs ask for and what its
\* status says.  Every way a reconcile has to end early either asks for another
\* one or writes something that brings one about, as does everything that
\* happens during a reconcile, except for the dropped error of
\* createSubLevelSecret.
THEOREM NoWakeUpIsLost == Spec /\ []Unswallowed => []RestIsTruthful
  <1> DEFINE Inv == /\ TypeOK /\ Generations /\ Phases /\ Unqueued
                    /\ Reported /\ Open /\ Provided /\ Found /\ Settled
                    /\ RestIsTruthful
  <1>1. Init => Inv
    <2> SUFFICES ASSUME Init PROVE Inv
      OBVIOUS
    <2>1. pc = "idle" /\ queue /\ cache = cr
      BY DEF Init
    <2>2. cr \in CRs
      BY InitType DEF TypeOK
    <2>3. Generations /\ Unqueued /\ Settled /\ RestIsTruthful
      BY <2>1, <2>2 DEF Generations, Unqueued, Settled, RestIsTruthful, AtRest,
                        CRs
    <2>4. Reported /\ Open /\ Provided /\ Found
      BY <2>1, KindsAssumption
         DEF Reported, Open, Provided, Found, Creation, AfterDB, AfterMQ,
             AfterInput, AfterTransport, AfterPrometheus, AfterSecret,
             AfterKeystone, AfterConfig, AfterSync, AfterCronJob, AfterAPI,
             AfterExpose, AfterDecisionEngine, AfterApplier, AfterStep
    <2> QED
      BY <2>3, <2>4, InitType, InitPrepared
  <1>2. Inv /\ Unswallowed /\ [Next]_vars => Inv'
    BY NextType, GenerationsKept, PhasesKept, UnqueuedKept, ReportedKept,
       OpenKept, ProvidedKept, FoundKept, SettledKept, RestKept
  <1>3. Inv => RestIsTruthful
    OBVIOUS
  <1> QED
    BY <1>1, <1>2, <1>3, PTL DEF Spec
=============================================================================
