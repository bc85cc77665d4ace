------------------------ MODULE RouteExposureProofs -------------------------
(***************************************************************************)
(* Proofs about the two reconcilers that expose the API, for every set of  *)
(* specs and certificates and any number of changes and faults.            *)
(***************************************************************************)
EXTENDS RouteExposure, TLAPS

\* The part of a Watcher's spec that its WatcherAPI gets.
Part(s) == [type |-> s.type, podTLS |-> s.podTLS]

\* The certificate of a route that is being written with TLS has been read,
\* and the Service that is written is that of a WatcherAPI with a spec.
Prepared == /\ pc \in {"destination", "tls"} => work.cert \in Versions
            /\ apiPc = "service" => apiBase.spec # None

-----------------------------------------------------------------------------
(***************************************************************************)
(* The API's reconciler.                                                   *)
(***************************************************************************)

\* The WatcherAPI and its copies: a generation has one spec, and none is
\* observed before the copy has it.
Generations ==
    /\ apiCache.gen <= api.gen /\ api.obs <= apiCache.gen
    /\ apiCache.obs <= api.obs
    /\ apiCache.gen = api.gen => apiCache.spec = api.spec
    /\ apiPc # "idle" =>
          /\ apiBase.gen <= apiCache.gen /\ api.obs <= apiBase.gen
          /\ apiBase.gen = apiCache.gen => apiBase.spec = apiCache.spec
          /\ apiBase.spec # None
          /\ apiBase.obs <= api.obs

\* What the reconcile has got so far.
APIProgress ==
    /\ apiPc # "idle" => apiWork.obs = apiBase.gen
    /\ apiPc = "exit" =>
          \/ apiBase.created = "NotSet" /\ apiWork.created = "Unknown"
          \/ apiWork.created = "True" /\ svc = AskForRoute(apiBase.spec.type)
    /\ apiPc = "failed" => apiWork.created = "Warning"

\* The status says that the Service is the one of the current spec.
Announced == api.created = "True" /\ api.obs = api.gen

\* ... and then it is.
SaysTheTruth == Announced => svc = AskForRoute(api.spec.type)

\* With nothing in the queue, the reconcile works with the current copy, and
\* one that has ended has said so, to the informer or to the copy as well.
APIQuiet ==
    ~apiQueue =>
        /\ apiPc # "idle" => apiBase = apiCache
        /\ apiPc = "idle" =>
              \/ apiCache.spec = None
              \/ apiCache # api
              \/ api.created = "True" /\ api.obs = apiCache.gen

-----------------------------------------------------------------------------
(***************************************************************************)
(* The Watcher's reconciler.                                               *)
(***************************************************************************)

\* The steps between the listing of the Services and the end, and those of
\* them that write a route.
Listed == {"validate", "route", "plain", "certificate", "destination", "tls"}
Writing == {"plain", "certificate", "destination", "tls"}

\* What a reconcile has found on its way to a step.
Progress ==
    /\ pc \in Listed => /\ work.svc # None
                        /\ base.spec.podTLS => base.spec.ingressTLS
    /\ pc \in Writing => work.svc.type = "ClusterIP"
    /\ pc \in {"certificate", "destination", "tls"} => base.spec.ingressTLS
    /\ pc = "destination" => base.spec.podTLS
    /\ pc \notin {"tls", "exit"} => work.ca = None
    /\ pc = "tls" => (work.ca # None <=> base.spec.podTLS)
    /\ pc = "exit" => (outcome = "none" <=> work.exposed = "True")

\* The reconcile has come to its end without an error, or is over.
Done == pc = "idle" \/ (pc = "exit" /\ outcome = "none")

\* The route that the spec s asks for.
RightRoute(s) ==
    /\ route # None <=> s.type = "ClusterIP"
    /\ route # None =>
          /\ route.cert = IF s.ingressTLS THEN input["ingress"] ELSE None
          /\ route.ca # None <=> s.podTLS

\* With nothing in the queue, nothing has changed since the reconcile began
\* but the Service, and this only as long as it is not announced.
Quiet ==
    ~queue =>
        /\ pc # "idle" => base = cache
        /\ pc \in Listed \cup {"list"} \/ Done => api.spec = Part(cache.spec)
        /\ pc \in Listed => (Announced => work.svc = svc)
        /\ pc \in {"destination", "tls"} => work.cert = input["ingress"]
        /\ Done => (Announced /\ route = routeCache => RightRoute(cache.spec))
        /\ pc = "idle" => cache.exposed = "True" \/ watcher.exposed = "True"

\* What is preserved together.
APIInv == Generations /\ APIProgress /\ SaysTheTruth /\ APIQuiet
Inv == TypeOK /\ Prepared
RestInv == Inv /\ APIInv /\ Progress /\ Quiet

-----------------------------------------------------------------------------
(***************************************************************************)
(* The types.                                                              *)
(***************************************************************************)

Works == [exposed : Statuses5, svc : {None} \cup Services,
          cert : {None} \cup Versions, ca : {None} \cup Versions]

\* TypeOK in three parts.
TypesW ==
    /\ watcher \in Watchers /\ cache \in Watchers /\ base \in Watchers
    /\ queue \in BOOLEAN
    /\ pc \in Listed \cup {"idle", "api", "list", "exit"}
    /\ work \in Works /\ outcome \in {"none", "after", "error"}
TypesA ==
    /\ api \in APIs /\ apiCache \in APIs /\ apiBase \in APIs
    /\ apiWork \in APIs /\ apiQueue \in BOOLEAN
    /\ apiPc \in {"idle", "service", "failed", "exit"}
    /\ svc \in {None} \cup Services
TypesE ==
    /\ route \in {None} \cup Routes /\ routeCache \in {None} \cup Routes
    /\ input \in [Secrets -> InputStates]
    /\ changes \in Nat /\ faults \in Nat

\* The type invariant of the model and its form in these proofs are the same.
LEMMA TypeOKUnfolded == TypeOK <=> TypesW /\ TypesA /\ TypesE
  BY DEF TypeOK, TypesW, TypesA, TypesE, Works, Listed

\* The end of a reconcile of the Watcher.
LEMMA ReturnFacts ==
    ASSUME work \in Works, NEW status \in Statuses5,
           NEW result \in {"none", "after", "error"}, Return(status, result)
    PROVE  /\ pc' = "exit" /\ work' \in Works /\ outcome' = result
           /\ work'.exposed = status /\ work'.svc = work.svc
           /\ work'.cert = work.cert /\ work'.ca = work.ca
  BY DEF Return, Works

\* The enumerated values.
LEMMA NewFacts == NewAPI \in APIs /\ NoWork \in Works
  BY DEF NewAPI, NoWork, APIs, Works, Statuses5

\* The counter of faults.
LEMMA FaultFacts ==
    ASSUME faults \in Nat, Fault \/ NoFault PROVE faults' \in Nat
  BY DEF Fault, NoFault

\* The annotation.
LEMMA AskFacts ==
    ASSUME NEW type \in {"ClusterIP", "LoadBalancer"}
    PROVE  /\ AskForRoute(type) \in Services /\ AskForRoute(type) # None
           /\ AskForRoute(type).type = type
           /\ AskForRoute(type).ingress <=> type = "ClusterIP"
  <1> DEFINE asks == type = "ClusterIP"
  <1>1. asks \in BOOLEAN
    OBVIOUS
  <1>2. AskForRoute(type) = [type |-> type, ingress |-> asks]
    BY DEF AskForRoute
  <1> HIDE DEF asks
  <1>3. /\ AskForRoute(type) \in Services /\ AskForRoute(type).type = type
        /\ AskForRoute(type).ingress = asks
    BY <1>1, <1>2 DEF Services
  <1>4. AskForRoute(type).ingress <=> asks
    BY <1>3, Zenon
  <1> QED
    BY <1>3, <1>4, NoneAssumption DEF asks

\* A spec's part is a spec of the WatcherAPI.
LEMMA PartFacts ==
    ASSUME NEW s \in Specs
    PROVE  /\ Part(s) \in APISpecs /\ Part(s) # None
           /\ Part(s).type \in {"ClusterIP", "LoadBalancer"}
           /\ Part(s).type = s.type
  BY NoneAssumption, SpecsAssumption DEF APISpecs, Part

\* A new generation of the WatcherAPI.
LEMMA WrittenFacts ==
    ASSUME NEW o \in APIs, NEW s \in APISpecs
    PROVE  /\ [o EXCEPT !.spec = s, !.gen = @ + 1] \in APIs
           /\ [o EXCEPT !.spec = s, !.gen = @ + 1].spec = s
           /\ [o EXCEPT !.spec = s, !.gen = @ + 1].gen = o.gen + 1
           /\ [o EXCEPT !.spec = s, !.gen = @ + 1].obs = o.obs
           /\ [o EXCEPT !.spec = s, !.gen = @ + 1].created = o.created
  <1> DEFINE next == o.gen + 1
  <1>1. next \in Nat
    BY DEF APIs
  <1>2. [o EXCEPT !.spec = s, !.gen = @ + 1] = [o EXCEPT !.spec = s, !.gen = next]
    OBVIOUS
  <1>3. next = o.gen + 1
    OBVIOUS
  <1> HIDE DEF next
  <1> QED
    BY <1>1, <1>2, <1>3 DEF APIs

\* A spec of the WatcherAPI has a type.
LEMMA APISpecFacts ==
    \A s \in APISpecs : s.type \in {"ClusterIP", "LoadBalancer"} /\ s # None
  BY NoneAssumption, SpecsAssumption DEF APISpecs

\* The patch of a route that is there: its fields, one by one.
Merged(wanted, copy, old) ==
    [f \in DOMAIN wanted |-> IF wanted[f] # copy[f] THEN wanted[f] ELSE old[f]]

LEMMA MergedFacts ==
    ASSUME NEW wanted \in Routes, NEW copy \in Routes, NEW old \in Routes
    PROVE  /\ Merged(wanted, copy, old) \in Routes
           /\ Merged(wanted, copy, old) = copy => copy = wanted
           /\ wanted.cert # None /\ old.cert # None
                 => Merged(wanted, copy, old).cert # None
  <1> DEFINE m == Merged(wanted, copy, old)
  <1>1. \A r \in Routes : /\ DOMAIN r = {"cert", "ca"}
                          /\ r = [cert |-> r.cert, ca |-> r.ca]
                          /\ r.cert \in {None} \cup Versions
                          /\ r.ca \in {None} \cup Versions
    BY DEF Routes
  <1>2. /\ DOMAIN m = {"cert", "ca"}
        /\ m.cert = IF wanted.cert # copy.cert THEN wanted.cert ELSE old.cert
        /\ m.ca = IF wanted.ca # copy.ca THEN wanted.ca ELSE old.ca
    BY <1>1 DEF Merged
  <1>3. m = [f \in {"cert", "ca"} |-> m[f]]
    BY <1>2 DEF Merged
  <1> HIDE DEF m
  <1>4. m = [cert |-> m.cert, ca |-> m.ca]
    BY <1>3
  <1>5. m.cert \in {None} \cup Versions /\ m.ca \in {None} \cup Versions
    BY <1>1, <1>2
  <1>6. m \in Routes
    BY <1>4, <1>5 DEF Routes
  <1>7. m = copy => copy = wanted
    <2> SUFFICES ASSUME m = copy PROVE copy = wanted
      OBVIOUS
    <2>1. copy.cert = wanted.cert /\ copy.ca = wanted.ca
      BY <1>2
    <2> QED
      BY <1>1, <2>1
  <1> QED
    BY <1>2, <1>6, <1>7 DEF m

\* What CreateOrPatch does to the route, and how it ends.
LEMMA WriteRouteFacts ==
    ASSUME TypesE, NEW wanted \in Routes, NEW ACTION next, WriteRoute(wanted, next)
    PROVE  /\ faults' \in Nat
           /\ route' \in {None} \cup Routes
           /\ \/ /\ Return("Warning", "error") \/ Return("Info", "after")
                 /\ route' = route
              \/ /\ next
                 /\ route' = route /\ route = None /\ routeCache # None
              \/ /\ next
                 /\ routeCache = None <=> route = None
                 /\ route' # None
                 /\ routeCache = None \/ route' = routeCache => route' = wanted
                 /\ wanted.cert # None /\ route # None /\ route.cert # None
                       => route'.cert # None
  <1>1. faults' \in Nat
    BY FaultFacts DEF TypesE, WriteRoute
  <1>2. /\ route \in {None} \cup Routes /\ routeCache \in {None} \cup Routes
        /\ wanted # None /\ None \notin Routes
    BY NoneAssumption DEF TypesE
  <1>3. \/ Return("Warning", "error") /\ route' = route
        \/ Return("Info", "after") /\ route' = route
        \/ next /\ route' = route /\ route = None /\ routeCache # None
        \/ /\ next /\ (routeCache = None <=> route = None)
           /\ route' = IF routeCache = None THEN wanted
                       ELSE Merged(wanted, routeCache, route)
    BY DEF WriteRoute, Merged
  <1>4. CASE /\ next /\ (routeCache = None <=> route = None)
             /\ route' = IF routeCache = None THEN wanted
                         ELSE Merged(wanted, routeCache, route)
    <2>1. CASE routeCache = None
      BY <1>1, <1>2, <1>4, <2>1
    <2>2. CASE routeCache # None
      <3>1. routeCache \in Routes /\ route \in Routes
        BY <1>2, <1>4, <2>2
      <3>2. route' = Merged(wanted, routeCache, route)
        BY <1>4, <2>2
      <3> QED
        BY <1>1, <1>2, <1>4, <2>2, <3>1, <3>2, MergedFacts
    <2> QED
      BY <2>1, <2>2
  <1> QED
    BY <1>1, <1>2, <1>3, <1>4

\* The queues stay Boolean.
LEMMA QueueTypes ==
    ASSUME TypeOK, [Next]_vars
    PROVE  queue' \in BOOLEAN /\ apiQueue' \in BOOLEAN
  <1>0. queue \in BOOLEAN /\ apiQueue \in BOOLEAN
    BY DEF TypeOK
  <1>1. CASE Reconcile
    <2>1. apiQueue' = apiQueue
      BY <1>1 DEF Reconcile, Start, EnsureAPI, ListServices, ValidateCerts,
             EnsureRoute, CreatePlainRoute, ReadCertificate, ReadDestinationCA,
             PatchRoute, Exit, Reading
    <2>2. CASE EnsureAPI
      BY <1>0, <2>1, <2>2, Zenon DEF EnsureAPI
    <2>3. CASE Exit
      BY <1>0, <2>1, <2>3, Zenon DEF Exit
    <2>4. CASE Start
      BY <1>0, <2>1, <2>4 DEF Start
    <2> QED
      BY <1>0, <1>1, <2>1, <2>2, <2>3, <2>4
         DEF Reconcile, ListServices, ValidateCerts, EnsureRoute, CreatePlainRoute,
             ReadCertificate, ReadDestinationCA, PatchRoute, Reading
  <1>2. CASE APIStart
    BY <1>0, <1>2 DEF APIStart
  <1>3. CASE EnsureServiceExposed
    BY <1>0, <1>3, Zenon DEF EnsureServiceExposed
  <1>4. CASE APIExit
    BY <1>0, <1>4, Zenon DEF APIExit
  <1>5. CASE Sync
    BY <1>0, <1>5 DEF Sync, SyncWatcher, SyncAPI, SyncRoute, watcherVars
  <1>6. CASE UpdateSpec \/ Crash
    BY <1>0, <1>6 DEF UpdateSpec, Crash
  <1>7. CASE ChangeSecret
    BY <1>0, <1>7, Zenon DEF ChangeSecret
  <1>8. CASE DeleteRoute
    BY <1>0, <1>8, Zenon DEF DeleteRoute
  <1>9. CASE UNCHANGED vars
    BY <1>0, <1>9 DEF vars, watcherVars
  <1> QED
    BY <1>1, <1>2, <1>3, <1>4, <1>5, <1>6, <1>7, <1>8, <1>9
       DEF Next, APIReconcile, Environment

\* The types hold in the beginning ...
LEMMA InitType == Init => TypeOK
  <1> SUFFICES ASSUME Init PROVE TypesW /\ TypesA /\ TypesE
    BY TypeOKUnfolded
  <1>1. TypesW
    BY NewFacts DEF Init, TypesW, Watchers, Statuses5
  <1>2. TypesA
    BY NewFacts DEF Init, TypesA
  <1>3. input \in [Secrets -> InputStates]
    BY StartAssumption DEF Init, InputStates
  <1> QED
    BY <1>1, <1>2, <1>3 DEF Init, TypesE

\* ... the Watcher's reconciler ...
LEMMA ReconcileType ==
    ASSUME TypeOK, Prepared, Reconcile, queue' \in BOOLEAN
    PROVE  TypesW' /\ TypesA' /\ TypesE'
  <1>0. TypesW /\ TypesA /\ TypesE
    BY TypeOKUnfolded
  <1>W. work \in Works
    BY <1>0 DEF TypesW
  <1>F. \A t \in {"NotSet", "Unknown", "Info", "Warning", "True"} : t \in Statuses5
    BY DEF Statuses5
  <1>B. base.spec \in Specs /\ base.exposed \in Statuses5
    BY <1>0 DEF TypesW, Watchers
  <1>1. CASE Start
    BY <1>0, <1>1, FaultFacts, NewFacts
       DEF Start, GoTo, apiVars, TypesW, TypesA, TypesE
  <1>2. CASE EnsureAPI
    <2>2. /\ faults' \in Nat
          /\ api' \in APIs
          /\ pc' \in {"exit", "list"} /\ work' \in Works
          /\ outcome' \in {"none", "after", "error"}
      <3>1. CASE Fault /\ Return("Unknown", "error") /\ UNCHANGED <<api, queue>>
        BY <1>0, <1>F, <1>W, <3>1, ReturnFacts, FaultFacts DEF TypesA, TypesE
      <3>2. CASE NoFault /\ GoTo("list") /\ UNCHANGED work
        <4>0. api' = IF api.spec = Part(base.spec) THEN api
                     ELSE [api EXCEPT !.spec = Part(base.spec), !.gen = @ + 1]
          BY <1>2, <3>2 DEF EnsureAPI, Return, GoTo, Part
        <4>1. api' \in APIs
          <5>1. api \in APIs /\ Part(base.spec) \in APISpecs
            BY <1>0, <1>B, PartFacts DEF TypesA
          <5> QED
            BY <4>0, <5>1, WrittenFacts
        <4> QED
          BY <1>0, <1>W, <3>2, <4>1, FaultFacts DEF GoTo, TypesW, TypesE
      <3> QED
        BY <1>2, <3>1, <3>2 DEF EnsureAPI
    <2> QED
      BY <1>0, <1>2, <2>2 DEF EnsureAPI, Within, apiVars, TypesW, TypesA, TypesE
  <1>3. CASE ListServices \/ ValidateCerts \/ ReadCertificate \/ ReadDestinationCA
    <2>1. faults' \in Nat
      BY <1>0, <1>3, FaultFacts
         DEF TypesE, ListServices, ValidateCerts, ReadCertificate, ReadDestinationCA
    <2>2. /\ pc' \in Listed \cup {"exit"} /\ work' \in Works
          /\ outcome' \in {"none", "after", "error"}
      <3>0. outcome \in {"none", "after", "error"} /\ svc \in {None} \cup Services
        BY <1>0 DEF TypesW, TypesA
      <3> QED
        BY <1>3, <1>W, <1>F, <3>0, ReturnFacts
           DEF ListServices, ValidateCerts, ReadCertificate, ReadDestinationCA,
               GoTo, Works, Listed
    <2> QED
      BY <1>0, <1>3, <2>1, <2>2
         DEF ListServices, ValidateCerts, ReadCertificate, ReadDestinationCA,
             Reading, Within, apiVars, TypesW, TypesA, TypesE
  <1>4. CASE EnsureRoute
    <2>1. /\ faults' \in Nat /\ route' \in {None} \cup Routes
          /\ pc' \in {"exit", "plain"} /\ work' \in Works
          /\ outcome' \in {"none", "after", "error"}
      BY <1>0, <1>4, <1>F, <1>W, ReturnFacts, FaultFacts
         DEF EnsureRoute, RouteDropped, GoTo, TypesW, TypesE
    <2> QED
      BY <1>0, <1>4, <2>1
         DEF EnsureRoute, Within, apiVars, TypesW, TypesA, TypesE, Listed
  <1>5. CASE CreatePlainRoute
    <2> DEFINE next == IF base.spec.ingressTLS
                       THEN GoTo("certificate") /\ UNCHANGED work
                       ELSE Return("True", "none")
    <2>1. next => /\ pc' \in {"exit", "certificate"} /\ work' \in Works
                  /\ outcome' \in {"none", "after", "error"}
      BY <1>0, <1>F, <1>W, ReturnFacts DEF GoTo, TypesW
    <2>2. Plain \in Routes
      BY DEF Plain, Routes
    <2>3. \/ WriteRoute(Plain, next)
          \/ NoFault /\ next /\ UNCHANGED route
          \/ Fault /\ Return("Warning", "error") /\ UNCHANGED route
      BY <1>5 DEF CreatePlainRoute
    <2> HIDE DEF next
    <2>4. /\ faults' \in Nat /\ route' \in {None} \cup Routes
          /\ pc' \in {"exit", "certificate"} /\ work' \in Works
          /\ outcome' \in {"none", "after", "error"}
      <3>1. CASE WriteRoute(Plain, next)
        <4>1. /\ faults' \in Nat /\ route' \in {None} \cup Routes
              /\ next \/ Return("Warning", "error") \/ Return("Info", "after")
          BY <1>0, <2>2, <3>1, WriteRouteFacts
        <4> QED
          BY <1>F, <1>W, <2>1, <4>1, ReturnFacts
      <3>2. CASE NoFault /\ next /\ UNCHANGED route
        BY <1>0, <2>1, <3>2, FaultFacts DEF TypesE
      <3>3. CASE Fault /\ Return("Warning", "error") /\ UNCHANGED route
        BY <1>0, <1>F, <1>W, <3>3, FaultFacts, ReturnFacts DEF TypesE
      <3> QED
        BY <2>3, <3>1, <3>2, <3>3
    <2> QED
      BY <1>0, <1>5, <2>4
         DEF CreatePlainRoute, Within, apiVars, TypesW, TypesA, TypesE, Listed
  <1>6. CASE PatchRoute
    <2>1. WithTLS \in Routes
      BY <1>W DEF WithTLS, Routes, Works
    <2>2. /\ faults' \in Nat /\ route' \in {None} \cup Routes
          /\ \/ Return("True", "none") \/ Return("Warning", "error")
             \/ Return("Info", "after")
      BY <1>0, <1>6, <2>1, WriteRouteFacts DEF PatchRoute
    <2>3. /\ pc' = "exit" /\ work' \in Works
          /\ outcome' \in {"none", "after", "error"}
      BY <1>F, <1>W, <2>2, ReturnFacts
    <2> QED
      BY <1>0, <1>6, <2>2, <2>3
         DEF PatchRoute, Within, apiVars, TypesW, TypesA, TypesE
  <1>7. CASE Exit
    <2>1. watcher' \in Watchers /\ faults' \in Nat
      <3>1. work.exposed \in Statuses5 /\ watcher \in Watchers /\ faults \in Nat
        BY <1>0 DEF TypesW, TypesE, Works
      <3> QED
        BY <1>7, <3>1, FaultFacts DEF Exit, Watchers
    <2> QED
      BY <1>0, <1>7, <2>1, NewFacts DEF Exit, apiVars, TypesW, TypesA, TypesE
  <1> QED
    BY <1>1, <1>2, <1>3, <1>4, <1>5, <1>6, <1>7 DEF Reconcile
\* ... the API's reconciler ...
LEMMA APIReconcileType ==
    ASSUME TypeOK, Prepared, APIReconcile, queue' \in BOOLEAN, apiQueue' \in BOOLEAN
    PROVE  TypesW' /\ TypesA' /\ TypesE'
  <1>0. TypesW /\ TypesA /\ TypesE
    BY TypeOKUnfolded
  <1>1. CASE APIStart
    <2>1. /\ apiCache \in APIs
          /\ [apiCache EXCEPT !.created = "Unknown", !.obs = apiCache.gen] \in APIs
      BY <1>0 DEF TypesA, APIs, Statuses5
    <2>2. apiWork' \in APIs /\ apiBase' \in APIs
      BY <1>1, <2>1 DEF APIStart
    <2>3. apiPc' \in {"idle", "service", "failed", "exit"}
      BY <1>1 DEF APIStart
    <2> QED
      BY <1>0, <1>1, <2>2, <2>3, FaultFacts
         DEF APIStart, APIWithin, TypesW, TypesA, TypesE
  <1>2. CASE EnsureServiceExposed
    <2>1. /\ \A status \in Statuses5 : [apiWork EXCEPT !.created = status] \in APIs
          /\ {"Warning", "True"} \subseteq Statuses5
      BY <1>0 DEF TypesA, APIs, Statuses5
    <2>2. apiWork' \in APIs /\ apiPc' \in {"failed", "exit"} /\ faults' \in Nat
      BY <1>0, <1>2, <2>1, FaultFacts DEF EnsureServiceExposed, TypesE
    <2>3. svc' \in {None} \cup Services
      <3>1. apiBase.spec \in APISpecs
        BY <1>0, <1>2 DEF EnsureServiceExposed, Prepared, TypesA, APIs
      <3> QED
        BY <1>0, <1>2, <3>1, APISpecFacts, AskFacts DEF EnsureServiceExposed, TypesA
    <2> QED
      BY <1>0, <1>2, <2>2, <2>3
         DEF EnsureServiceExposed, APIWithin, TypesW, TypesA, TypesE
  <1>3. CASE APIExit
    <2>1. APIPatch \in APIs
      BY <1>0 DEF APIPatch, TypesA, APIs
    <2> QED
      BY <1>0, <1>3, <2>1, FaultFacts, NewFacts
         DEF APIExit, APIWithin, TypesW, TypesA, TypesE
  <1> QED
    BY <1>1, <1>2, <1>3 DEF APIReconcile

\* ... the informers, the users and the secrets.
LEMMA EnvironmentType ==
    ASSUME TypeOK, Sync \/ Environment, queue' \in BOOLEAN, apiQueue' \in BOOLEAN
    PROVE  TypesW' /\ TypesA' /\ TypesE'
  <1>0. TypesW /\ TypesA /\ TypesE
    BY TypeOKUnfolded
  <1>1. CASE UpdateSpec
    <2>1. watcher' \in Watchers /\ changes' \in Nat
      BY <1>0, <1>1 DEF UpdateSpec, Change, TypesW, TypesE, Watchers
    <2> QED
      BY <1>0, <1>1, <2>1, FaultFacts DEF UpdateSpec, apiVars, TypesW, TypesA, TypesE
  <1>2. CASE ChangeSecret
    <2>1. input' \in [Secrets -> InputStates] /\ changes' \in Nat
      BY <1>0, <1>2 DEF ChangeSecret, Change, TypesE
    <2> QED
      BY <1>0, <1>2, <2>1, FaultFacts DEF ChangeSecret, apiVars, TypesW, TypesA, TypesE
  <1>3. CASE DeleteRoute
    <2>1. changes' \in Nat
      BY <1>0, <1>3 DEF DeleteRoute, Change, TypesE
    <2> QED
      BY <1>0, <1>3, <2>1, FaultFacts DEF DeleteRoute, apiVars, TypesW, TypesA, TypesE
  <1>4. CASE Crash
    BY <1>0, <1>4, FaultFacts, NewFacts DEF Crash, TypesW, TypesA, TypesE
  <1>5. CASE Sync
    BY <1>0, <1>5, FaultFacts
       DEF Sync, SyncWatcher, SyncAPI, SyncRoute, watcherVars, apiVars,
           TypesW, TypesA, TypesE
  <1> QED
    BY <1>1, <1>2, <1>3, <1>4, <1>5 DEF Environment

\* Every step preserves the types.
LEMMA NextType == TypeOK /\ Prepared /\ [Next]_vars => TypeOK'
  <1> SUFFICES ASSUME TypeOK, Prepared, [Next]_vars
               PROVE  TypesW' /\ TypesA' /\ TypesE'
    BY TypeOKUnfolded DEF TypeOK, TypesW, TypesA, TypesE, Works, Listed
  <1>1. queue' \in BOOLEAN /\ apiQueue' \in BOOLEAN
    BY QueueTypes
  <1>2. CASE UNCHANGED vars
    BY <1>2, TypeOKUnfolded DEF vars, watcherVars, apiVars, TypesW, TypesA, TypesE
  <1> QED
    BY <1>1, <1>2, ReconcileType, APIReconcileType, EnvironmentType DEF Next

\* Only the step that has read the certificate leads to those that need it.
LEMMA NextPrepared ==
    ASSUME TypeOK, Prepared, [Next]_vars PROVE Prepared'
  <1>W. work \in Works
    BY TypeOKUnfolded DEF TypesW
  <1> DEFINE Certificate == pc \in {"destination", "tls"} => work.cert \in Versions
             Asked == apiPc = "service" => apiBase.spec # None
  <1>A. CASE Reconcile
    <2>0. UNCHANGED <<apiPc, apiBase>>
      BY <1>A DEF Reconcile, Start, EnsureAPI, ListServices, ValidateCerts,
             EnsureRoute, CreatePlainRoute, ReadCertificate, ReadDestinationCA,
             PatchRoute, Exit, Reading, Within, apiVars
    <2>1. CASE ReadCertificate
      <3>1. \/ pc' = "exit"
            \/ /\ input["ingress"] \in Versions
               /\ work' = [work EXCEPT !.cert = input["ingress"]]
        BY <2>1 DEF ReadCertificate, Return
      <3> QED
        BY <1>W, <2>0, <3>1 DEF Prepared, Works
    <2>2. CASE ReadDestinationCA
      <3>1. \/ pc' = "exit"
            \/ pc = "destination" /\ work'.cert = work.cert
        BY <2>2, <1>W DEF ReadDestinationCA, Return, Works
      <3> QED
        BY <2>0, <3>1 DEF Prepared
    <2>3. CASE EnsureAPI \/ ListServices \/ ValidateCerts \/ EnsureRoute
      BY <2>0, <2>3 DEF EnsureAPI, ListServices, ValidateCerts, EnsureRoute, GoTo,
             Return, Prepared
    <2>4. CASE CreatePlainRoute \/ PatchRoute
      BY <2>0, <2>4 DEF CreatePlainRoute, PatchRoute, WriteRoute, GoTo, Return, Prepared
    <2>5. CASE Start \/ Exit
      BY <2>0, <2>5 DEF Start, Exit, GoTo, Prepared
    <2> QED
      BY <1>A, <2>1, <2>2, <2>3, <2>4, <2>5 DEF Reconcile
  <1>B. CASE APIReconcile \/ Crash
    <2>1. Certificate'
      BY <1>B DEF Prepared, APIReconcile, APIStart, EnsureServiceExposed, APIExit,
             APIWithin, Crash
    <2>2. Asked'
      BY <1>B DEF Prepared, APIReconcile, APIStart, EnsureServiceExposed, APIExit, Crash
    <2> QED
      BY <2>1, <2>2 DEF Prepared
  <1>C. CASE UNCHANGED <<pc, work, apiPc, apiBase>>
    BY <1>C DEF Prepared
  <1> QED
    BY <1>A, <1>B, <1>C
       DEF Next, Sync, SyncWatcher, SyncAPI, SyncRoute, Environment, UpdateSpec,
           ChangeSecret, DeleteRoute, vars, watcherVars, apiVars

\* The first invariant always holds.
LEMMA Invariance == Spec => []Inv
  <1>1. Init => Inv
    BY InitType DEF Init, Inv, Prepared
  <1>2. Inv /\ [Next]_vars => Inv'
    BY NextType, NextPrepared DEF Inv
  <1> QED
    BY <1>1, <1>2, PTL DEF Spec

\* The variables of both reconcilers stay in their types.
THEOREM TypeCorrect == Spec => []TypeOK
  <1>1. Inv => TypeOK
    BY DEF Inv
  <1> QED
    BY <1>1, Invariance, PTL

\* No route is written with a certificate or a CA that did not exist or was
\* incomplete when the reconcile read it, whatever happened between its two
\* looks at the secret and in whichever way its patches met newer routes.
THEOREM RoutesAreUsable == Spec => []CertificatesAreUsable
  <1>1. Inv => CertificatesAreUsable
    BY NoneAssumption DEF Inv, TypeOK, Routes, CertificatesAreUsable
  <1> QED
    BY <1>1, Invariance, PTL

-----------------------------------------------------------------------------
(***************************************************************************)
(* The route.                                                              *)
(***************************************************************************)

\* A reconcile that wants TLS never takes the certificate from a route that
\* has one, whatever the copies it works with miss and wherever an earlier
\* one has failed: CreateRoute writes the plain route only if the copy has
\* none, and then a route that exists refuses to be created.
THEOREM NoRouteFallsBack == Spec => NeverPlainAgain
  <1>1. Inv /\ [Next]_vars =>
          [route # None /\ route' # None /\ route.cert # None
             /\ route'.cert = None => ~base.spec.ingressTLS]_vars
    <2> SUFFICES ASSUME Inv, Next, route # None, route' # None,
                        route.cert # None, base.spec.ingressTLS
                 PROVE  route'.cert # None
      BY DEF vars
    <2>0. TypesE /\ work \in Works
      BY TypeOKUnfolded DEF Inv, TypesW
    <2>1. CASE CreatePlainRoute
      <3>1. Plain \in Routes
        BY DEF Plain, Routes
      <3> DEFINE next == IF base.spec.ingressTLS
                         THEN GoTo("certificate") /\ UNCHANGED work
                         ELSE Return("True", "none")
      <3>2. \/ routeCache = None /\ WriteRoute(Plain, next)
            \/ UNCHANGED route
        BY <2>1 DEF CreatePlainRoute, PlainFirst
      <3> HIDE DEF next
      <3>3. route' = route
        BY <2>0, <3>1, <3>2, WriteRouteFacts
      <3> QED
        BY <3>3
    <2>2. CASE PatchRoute
      <3>1. work.cert \in Versions
        BY <2>2 DEF Inv, Prepared, PatchRoute
      <3>2. WithTLS \in Routes /\ WithTLS.cert # None
        BY <2>0, <3>1, InputAssumption DEF WithTLS, Routes, Works
      <3> QED
        BY <2>0, <2>2, <3>2, WriteRouteFacts DEF PatchRoute
    <2>3. CASE EnsureRoute
      BY <2>3 DEF EnsureRoute, RouteDropped
    <2> QED
      BY <2>1, <2>2, <2>3
         DEF Next, Reconcile, Start, EnsureAPI, ListServices, ValidateCerts,
             ReadCertificate, ReadDestinationCA, Exit, Reading, APIReconcile,
             APIStart, EnsureServiceExposed, APIExit, APIWithin, Sync, SyncWatcher,
             SyncAPI, SyncRoute, Environment, UpdateSpec, ChangeSecret, DeleteRoute,
             Crash
  <1> QED
    BY <1>1, Invariance, PTL DEF Spec, NeverPlainAgain
-----------------------------------------------------------------------------
(***************************************************************************)
(* The API's reconciler, whose patch is compared with a stale copy.        *)
(***************************************************************************)

\* The steps that do not concern it.
LEMMA APIFrame ==
    ASSUME [Next]_vars, ~APIReconcile, ~EnsureAPI, ~SyncAPI, ~Crash
    PROVE  UNCHANGED <<api, apiQueue, apiVars, svc>>
  BY DEF Next, Reconcile, Start, ListServices, ValidateCerts, EnsureRoute,
         CreatePlainRoute, ReadCertificate, ReadDestinationCA, PatchRoute, Exit,
         Reading, Within, Sync, SyncWatcher, SyncRoute, Environment, UpdateSpec,
         ChangeSecret, DeleteRoute, vars, apiVars

\* ensureAPI leaves the WatcherAPI as it is or starts a new generation.
LEMMA EnsureAPIFacts ==
    ASSUME TypeOK, EnsureAPI
    PROVE  /\ UNCHANGED <<apiQueue, apiVars, svc>>
           /\ \/ api' = api
              \/ /\ api'.gen = api.gen + 1
                 /\ api'.obs = api.obs /\ api'.created = api.created
           /\ pc' = "list" => api'.spec = Part(base.spec) /\ UNCHANGED work
           /\ pc' = "list" \/ (Return("Unknown", "error") /\ api' = api)
  <1>1. TypesW /\ TypesA
    BY TypeOKUnfolded
  <1>2. api \in APIs /\ Part(base.spec) \in APISpecs
    BY <1>1, PartFacts DEF TypesA, TypesW, Watchers
  <1>3. \/ Return("Unknown", "error") /\ api' = api
        \/ /\ pc' = "list" /\ UNCHANGED work
           /\ api' = IF api.spec = Part(base.spec) THEN api
                     ELSE [api EXCEPT !.spec = Part(base.spec), !.gen = @ + 1]
    BY DEF EnsureAPI, Part, GoTo
  <1>4. UNCHANGED <<apiQueue, apiVars, svc>>
    BY DEF EnsureAPI, Within
  <1>5. CASE Return("Unknown", "error") /\ api' = api
    BY <1>4, <1>5 DEF Return
  <1>6. CASE pc' = "list" /\ api' = api /\ api.spec = Part(base.spec) /\ UNCHANGED work
    BY <1>4, <1>6
  <1>7. CASE /\ pc' = "list" /\ UNCHANGED work
             /\ api' = [api EXCEPT !.spec = Part(base.spec), !.gen = @ + 1]
    BY <1>2, <1>4, <1>7, WrittenFacts
  <1> QED
    BY <1>3, <1>5, <1>6, <1>7

\* Generations are numbers.
LEMMA GenerationFacts ==
    ASSUME TypeOK
    PROVE  /\ api.gen \in Nat /\ apiCache.gen \in Nat /\ apiBase.gen \in Nat
           /\ api.obs \in Nat /\ apiCache.obs \in Nat /\ apiBase.obs \in Nat
  BY DEF TypeOK, APIs

\* The patch at the end writes the generation that the reconcile is about, and
\* the condition if that differs from the copy's.
LEMMA PatchFacts ==
    ASSUME TypeOK, Generations, APIProgress, apiPc # "idle"
    PROVE  /\ APIPatch.spec = api.spec /\ APIPatch.gen = api.gen
           /\ APIPatch.obs = apiBase.gen
           /\ APIPatch.created = IF apiWork.created # apiBase.created
                                 THEN apiWork.created ELSE api.created
  <1>1. api \in APIs /\ apiWork.obs = apiBase.gen
    BY DEF TypeOK, APIProgress
  <1>2. apiBase.gen = apiBase.obs => api.obs = apiBase.gen
    BY GenerationFacts DEF Generations
  <1> QED
    BY <1>1, <1>2 DEF APIPatch, APIs

\* A Service that the status has announced is not changed: only one of another
\* generation would be.
LEMMA AnnouncedStays ==
    ASSUME TypeOK, Prepared, Generations, SaysTheTruth, EnsureServiceExposed, Announced
    PROVE  svc' = svc
  <1>1. apiBase.gen = api.gen /\ apiBase.spec = api.spec
    BY GenerationFacts DEF Generations, Announced, EnsureServiceExposed
  <1> QED
    BY <1>1 DEF EnsureServiceExposed, SaysTheTruth

LEMMA NextGenerations ==
    ASSUME TypeOK, Prepared, Generations, APIProgress, [Next]_vars
    PROVE  Generations'
  <1>0. /\ api.gen \in Nat /\ apiCache.gen \in Nat /\ apiBase.gen \in Nat
        /\ api.obs \in Nat /\ apiCache.obs \in Nat /\ apiBase.obs \in Nat
    BY GenerationFacts
  <1>1. CASE EnsureAPI
    BY <1>0, <1>1, EnsureAPIFacts DEF Generations, apiVars
  <1>2. CASE APIStart
    <2>1. UNCHANGED <<api, apiCache>>
      BY <1>2 DEF APIStart
    <2>2. /\ apiBase' = apiCache /\ (apiPc' # "idle" => apiCache.spec # None)
      BY <1>2 DEF APIStart
    <2> QED
      BY <1>0, <2>1, <2>2 DEF Generations
  <1>3. CASE EnsureServiceExposed
    BY <1>3 DEF EnsureServiceExposed, Generations
  <1>4. CASE APIExit
    <2>1. /\ api' = APIPatch \/ api' = api
          /\ apiPc' = "idle" /\ apiCache' = apiCache /\ apiPc # "idle"
      BY <1>4 DEF APIExit
    <2>2. CASE api' = APIPatch
      BY <1>0, <2>1, <2>2, PatchFacts DEF Generations
    <2>3. CASE api' = api
      BY <2>1, <2>3 DEF Generations
    <2> QED
      BY <2>1, <2>2, <2>3
  <1>5. CASE SyncAPI
    <2>1. apiCache' = api /\ UNCHANGED <<api, apiPc, apiBase>>
      BY <1>5 DEF SyncAPI
    <2> QED
      BY <1>0, <2>1 DEF Generations
  <1>6. CASE Crash
    <2>1. apiCache' = api /\ api' = api /\ apiPc' = "idle"
      BY <1>6 DEF Crash
    <2> QED
      BY <1>0, <2>1 DEF Generations
  <1>7. CASE UNCHANGED <<api, apiVars>>
    BY <1>7 DEF Generations, apiVars
  <1> QED
    BY <1>1, <1>2, <1>3, <1>4, <1>5, <1>6, <1>7, APIFrame DEF APIReconcile

LEMMA NextAPIProgress ==
    ASSUME TypeOK, APIProgress, [Next]_vars
    PROVE  APIProgress'
  <1>0. apiWork \in APIs /\ apiCache \in APIs
    BY DEF TypeOK
  <1>1. CASE EnsureAPI
    BY <1>1, EnsureAPIFacts DEF APIProgress, apiVars
  <1>2. CASE APIStart
    <2>1. /\ apiBase' = apiCache
          /\ apiWork'.obs = apiCache.gen /\ apiWork'.created = "Unknown"
          /\ apiPc' = "exit" => apiCache.created = "NotSet"
          /\ apiPc' # "failed"
      BY <1>0, <1>2 DEF APIStart, APIs
    <2> QED
      BY <2>1 DEF APIProgress
  <1>3. CASE EnsureServiceExposed
    <2>1. /\ apiBase' = apiBase /\ apiWork'.obs = apiWork.obs /\ apiPc = "service"
          /\ \/ apiPc' = "failed" /\ apiWork'.created = "Warning"
             \/ /\ apiPc' = "exit" /\ apiWork'.created = "True"
                /\ svc' = AskForRoute(apiBase.spec.type)
      BY <1>0, <1>3 DEF EnsureServiceExposed, APIs
    <2> QED
      BY <2>1 DEF APIProgress
  <1>4. CASE APIExit \/ Crash
    BY <1>4 DEF APIExit, Crash, APIProgress
  <1>5. CASE SyncAPI
    BY <1>5 DEF SyncAPI, APIProgress
  <1>6. CASE UNCHANGED <<apiVars, svc>>
    BY <1>6 DEF APIProgress, apiVars
  <1> QED
    BY <1>1, <1>2, <1>3, <1>4, <1>5, <1>6, APIFrame DEF APIReconcile

\* The status is not made to say what is not so, but by a failure that is
\* not reported.
LEMMA NextSaysTheTruth ==
    ASSUME TypeOK, Prepared, Generations, APIProgress, SaysTheTruth,
           ~Misreported, [Next]_vars
    PROVE  SaysTheTruth'
  <1>0. /\ api.gen \in Nat /\ apiCache.gen \in Nat /\ apiBase.gen \in Nat
        /\ api.obs \in Nat
    BY GenerationFacts
  <1>1. CASE EnsureAPI
    <2>1. api'.gen = api.gen + 1 /\ api'.obs = api.obs => ~Announced'
      BY <1>0 DEF Announced, Generations
    <2> QED
      BY <1>1, <2>1, EnsureAPIFacts DEF SaysTheTruth, Announced
  <1>2. CASE EnsureServiceExposed
    <2>1. api' = api
      BY <1>2 DEF EnsureServiceExposed
    <2>2. Announced => svc' = svc
      BY <1>2, AnnouncedStays
    <2> QED
      BY <2>1, <2>2 DEF SaysTheTruth, Announced
  <1>3. CASE APIExit
    <2>0. /\ svc' = svc /\ apiPc \in {"exit", "failed"}
          /\ api' = APIPatch \/ api' = api
      BY <1>3 DEF APIExit
    <2>1. CASE api' = APIPatch
      <3> SUFFICES ASSUME Announced' PROVE svc = AskForRoute(api'.spec.type)
        BY <2>0 DEF SaysTheTruth
      <3>1. /\ apiBase.gen = api.gen /\ api'.spec = api.spec
            /\ IF apiWork.created # apiBase.created
               THEN apiWork.created = "True" ELSE api.created = "True"
        BY <2>0, <2>1, PatchFacts DEF Announced
      <3>2. apiBase.spec = api.spec
        BY <1>0, <2>0, <3>1 DEF Generations
      <3>3. CASE apiPc = "exit"
        <4>1. svc = AskForRoute(apiBase.spec.type)
          BY <3>1, <3>3 DEF APIProgress
        <4> QED
          BY <3>1, <3>2, <4>1
      <3>4. CASE apiPc = "failed"
        <4>1. apiBase.created = "Warning" /\ api.created = "True"
          BY <3>1, <3>4 DEF APIProgress
        <4>2. apiBase.obs = apiBase.gen
          BY <3>4, <4>1 DEF Misreported
        <4>3. api.obs = api.gen
          BY <1>0, <2>0, <3>1, <4>2 DEF Generations
        <4> QED
          BY <3>1, <4>1, <4>3 DEF SaysTheTruth, Announced
      <3> QED
        BY <2>0, <3>3, <3>4
    <2>2. CASE api' = api
      BY <2>0, <2>2 DEF SaysTheTruth, Announced
    <2> QED
      BY <2>0, <2>1, <2>2
  <1>4. CASE UNCHANGED <<api, svc>>
    BY <1>4 DEF SaysTheTruth, Announced
  <1> QED
    BY <1>1, <1>2, <1>3, <1>4, APIFrame
       DEF APIReconcile, APIStart, SyncAPI, Crash

LEMMA NextAPIQuiet ==
    ASSUME TypeOK, Generations, APIProgress, APIQuiet, [Next]_vars
    PROVE  APIQuiet'
  <1>0. apiQueue \in BOOLEAN
    BY DEF TypeOK
  <1>1. CASE EnsureAPI
    <2>1. CASE api' = api
      BY <1>1, <2>1, EnsureAPIFacts DEF APIQuiet, apiVars
    <2>2. CASE api'.gen = api.gen + 1
      <3>1. apiCache # api'
        BY <2>2, GenerationFacts DEF Generations
      <3> QED
        BY <1>1, <3>1, EnsureAPIFacts DEF APIQuiet, apiVars
    <2> QED
      BY <1>1, <2>1, <2>2, EnsureAPIFacts
  <1>2. CASE APIStart
    BY <1>2 DEF APIStart, APIQuiet
  <1>3. CASE EnsureServiceExposed
    <2>1. ~apiQueue' => ~apiQueue
      BY <1>0, <1>3, Zenon DEF EnsureServiceExposed
    <2>2. apiPc # "idle" /\ apiPc' # "idle" /\ UNCHANGED <<apiBase, apiCache>>
      BY <1>3 DEF EnsureServiceExposed
    <2> QED
      BY <2>1, <2>2 DEF APIQuiet
  <1>4. CASE APIExit
    <2> SUFFICES ASSUME ~apiQueue' PROVE APIQuiet'
      BY DEF APIQuiet
    <2>1. ~apiQueue /\ apiPc = "exit" /\ api' = APIPatch
      BY <1>0, <1>4, Zenon DEF APIExit
    <2>2. apiPc' = "idle" /\ apiCache' = apiCache /\ apiBase = apiCache
      BY <1>4, <2>1 DEF APIExit, APIQuiet
    <2>3. /\ api'.obs = apiCache.gen
          /\ api'.created = IF apiWork.created # apiCache.created
                            THEN apiWork.created ELSE api.created
      BY <2>1, <2>2, PatchFacts
    <2>4. apiCache # api' \/ api'.created = "True"
      BY <2>1, <2>2, <2>3 DEF APIProgress
    <2> QED
      BY <2>2, <2>3, <2>4 DEF APIQuiet
  <1>5. CASE SyncAPI \/ Crash
    BY <1>5 DEF SyncAPI, Crash, APIQuiet
  <1>6. CASE UNCHANGED <<api, apiQueue, apiVars>>
    BY <1>6 DEF APIQuiet, apiVars
  <1> QED
    BY <1>1, <1>2, <1>3, <1>4, <1>5, <1>6, APIFrame DEF APIReconcile
-----------------------------------------------------------------------------
(***************************************************************************)
(* The Watcher's reconciler.                                               *)
(***************************************************************************)

\* A step of the Watcher's reconciler leaves the rest of the world alone.
LEMMA ReconcileFrame ==
    ASSUME Reconcile
    PROVE  /\ UNCHANGED <<cache, svc, routeCache, input>>
           /\ Start \/ UNCHANGED base
           /\ EnsureAPI \/ UNCHANGED api
           /\ Exit \/ UNCHANGED watcher
           /\ EnsureAPI \/ Exit \/ Start \/ UNCHANGED queue
           /\ EnsureRoute \/ CreatePlainRoute \/ PatchRoute \/ UNCHANGED route
  BY DEF Reconcile, Start, EnsureAPI, ListServices, ValidateCerts, EnsureRoute,
         CreatePlainRoute, ReadCertificate, ReadDestinationCA, PatchRoute, Exit,
         Reading, Within, apiVars

\* Any other step that does not wake it up.
LEMMA OtherFrame ==
    ASSUME TypeOK, [Next]_vars, ~Reconcile, ~queue'
    PROVE  /\ ~queue /\ UNCHANGED <<pc, base, work, outcome, cache, routeCache, api>>
           /\ watcher'.exposed = watcher.exposed
           /\ cache.spec.ingressTLS => input'["ingress"] = input["ingress"]
           /\ route' = route \/ (route' = None /\ routeCache # None)
           /\ EnsureServiceExposed \/ svc' = svc
  <1>0. /\ queue \in BOOLEAN /\ watcher \in Watchers
        /\ input \in [Secrets -> InputStates]
        /\ cache.spec.ingressTLS \in BOOLEAN
    BY SpecsAssumption DEF TypeOK, Watchers
  <1>1. CASE APIReconcile
    <2>1. UNCHANGED <<watcher, cache, pc, base, work, outcome, route, routeCache, input>>
      BY <1>1 DEF APIReconcile, APIStart, EnsureServiceExposed, APIExit, APIWithin
    <2>2. CASE APIStart \/ EnsureServiceExposed
      BY <2>1, <2>2 DEF APIStart, EnsureServiceExposed
    <2>3. CASE APIExit
      <3>1. ~queue /\ api' = api
        BY <1>0, <2>3, Zenon DEF APIExit
      <3>2. svc' = svc
        BY <2>3 DEF APIExit
      <3> QED
        BY <2>1, <3>1, <3>2
    <2> QED
      BY <1>1, <2>2, <2>3 DEF APIReconcile
  <1>2. CASE Sync \/ Crash
    BY <1>2 DEF Sync, SyncWatcher, SyncAPI, SyncRoute, Crash, watcherVars
  <1>3. CASE UpdateSpec
    <2>1. \E s \in Specs : watcher' = [watcher EXCEPT !.spec = s]
      BY <1>3 DEF UpdateSpec
    <2>2. watcher'.exposed = watcher.exposed
      BY <1>0, <2>1 DEF Watchers
    <2> QED
      BY <1>3, <2>2 DEF UpdateSpec
  <1>4. CASE ChangeSecret
    <2>1. PICK i \in Secrets, v \in InputStates :
             /\ input' = [input EXCEPT ![i] = v]
             /\ queue' = (queue \/ (i = "ingress" /\ cache.spec.ingressTLS))
      BY <1>4 DEF ChangeSecret
    <2>2. ~queue /\ ~(i = "ingress" /\ cache.spec.ingressTLS)
      BY <1>0, <2>1, Zenon
    <2>3. cache.spec.ingressTLS => input'["ingress"] = input["ingress"]
      BY <1>0, <2>1, <2>2
    <2> QED
      BY <1>4, <2>2, <2>3 DEF ChangeSecret, apiVars
  <1>5. CASE DeleteRoute
    <2>1. ~queue /\ routeCache # None
      BY <1>0, <1>5, Zenon DEF DeleteRoute
    <2> QED
      BY <1>5, <2>1 DEF DeleteRoute, apiVars
  <1>6. CASE UNCHANGED vars
    BY <1>6 DEF vars, watcherVars
  <1> QED
    BY <1>1, <1>2, <1>3, <1>4, <1>5, <1>6 DEF Next, Environment

LEMMA NextProgress ==
    ASSUME TypeOK, Prepared, Progress, [Next]_vars PROVE Progress'
  <1>W. /\ work \in Works /\ None \notin Versions
        /\ \A t \in {"Unknown", "Info", "Warning", "True"} : t \in Statuses5
        /\ base.spec.ingressTLS \in BOOLEAN /\ base.spec.podTLS \in BOOLEAN
    BY SpecsAssumption, InputAssumption, TypeOKUnfolded
       DEF TypesW, Statuses5, Watchers
  <1>E. ASSUME NEW status \in Statuses5 \ {"True"}, NEW result \in {"after", "error"},
               Return(status, result)
        PROVE  Progress'
    <2>1. pc' = "exit" /\ outcome' = result /\ work'.exposed = status
      BY <1>W, <1>E, ReturnFacts
    <2> QED
      BY <2>1 DEF Progress, Listed, Writing
  <1>N. Return("True", "none") => Progress'
    <2> SUFFICES ASSUME Return("True", "none") PROVE Progress'
      OBVIOUS
    <2>1. pc' = "exit" /\ outcome' = "none" /\ work'.exposed = "True"
      BY <1>W, ReturnFacts
    <2> QED
      BY <2>1 DEF Progress, Listed, Writing
  <1>R. /\ Return("Warning", "error") => Progress'
        /\ Return("Info", "after") => Progress'
        /\ Return("Unknown", "error") => Progress'
    BY <1>E, <1>W
  <1>1. CASE Start \/ Exit \/ Crash
    BY <1>1 DEF Start, Exit, Crash, GoTo, Progress, Listed, Writing, NoWork
  <1>2. CASE EnsureAPI
    <2>1. pc = "api" /\ base' = base
      BY <1>2 DEF EnsureAPI, Within
    <2> QED
      BY <1>2, <1>R, <2>1, EnsureAPIFacts DEF Progress, Listed, Writing
  <1>3. CASE ListServices
    <2>1. \/ Return("Warning", "error") \/ Return("True", "none")
          \/ /\ base.spec.podTLS => base.spec.ingressTLS
             /\ svc # None /\ work' = [work EXCEPT !.svc = svc]
             /\ pc = "list" /\ pc' = "validate" /\ base' = base
      BY <1>3 DEF ListServices, GoTo, Reading, Within
    <2> QED
      BY <1>N, <1>R, <1>W, <2>1 DEF Progress, Listed, Writing, Works
  <1>4. CASE ValidateCerts
    <2>1. \/ Return("Warning", "error") \/ Return("Info", "after")
          \/ pc = "validate" /\ pc' = "route" /\ UNCHANGED <<work, base>>
      BY <1>4 DEF ValidateCerts, GoTo, Reading, Within
    <2> QED
      BY <1>R, <2>1 DEF Progress, Listed, Writing
  <1>5. CASE EnsureRoute
    <2>1. \/ Return("Warning", "error") \/ Return("True", "none")
          \/ /\ pc = "route" /\ pc' = "plain" /\ UNCHANGED <<work, base>>
             /\ work.svc.type = "ClusterIP"
      BY <1>5 DEF EnsureRoute, GoTo, Within
    <2> QED
      BY <1>N, <1>R, <2>1 DEF Progress, Listed, Writing
  <1>6. CASE CreatePlainRoute
    <2>1. \/ Return("Warning", "error") \/ Return("Info", "after")
          \/ Return("True", "none")
          \/ /\ pc = "plain" /\ pc' = "certificate" /\ UNCHANGED <<work, base>>
             /\ base.spec.ingressTLS
      BY <1>6 DEF CreatePlainRoute, WriteRoute, GoTo, Within
    <2> QED
      BY <1>N, <1>R, <2>1 DEF Progress, Listed, Writing
  <1>7. CASE ReadCertificate
    <2>1. \/ Return("Warning", "error")
          \/ /\ pc = "certificate" /\ base' = base
             /\ work' = [work EXCEPT !.cert = input["ingress"]]
             /\ pc' = IF base.spec.podTLS THEN "destination" ELSE "tls"
      BY <1>7 DEF ReadCertificate, GoTo, Reading, Within
    <2> QED
      BY <1>R, <1>W, <2>1 DEF Progress, Listed, Writing, Works
  <1>8. CASE ReadDestinationCA
    <2>1. \/ Return("Warning", "error") \/ Return("Info", "after")
          \/ /\ pc = "destination" /\ base' = base /\ pc' = "tls"
             /\ input["bundle"] \in Versions
             /\ work' = [work EXCEPT !.ca = input["bundle"]]
      BY <1>8 DEF ReadDestinationCA, GoTo, Reading, Within
    <2> QED
      BY <1>R, <1>W, <2>1 DEF Progress, Listed, Writing, Works
  <1>9. CASE PatchRoute
    <2>1. \/ Return("Warning", "error") \/ Return("Info", "after")
          \/ Return("True", "none")
      BY <1>9 DEF PatchRoute, WriteRoute
    <2> QED
      BY <1>N, <1>R, <2>1
  <1>10. CASE UNCHANGED <<pc, base, work, outcome>>
    BY <1>10 DEF Progress
  <1> QED
    BY <1>1, <1>2, <1>3, <1>4, <1>5, <1>6, <1>7, <1>8, <1>9, <1>10
       DEF Next, Reconcile, APIReconcile, APIStart, EnsureServiceExposed, APIExit,
           APIWithin, Sync, SyncWatcher, SyncAPI, SyncRoute, Environment, UpdateSpec,
           ChangeSecret, DeleteRoute, vars, watcherVars

\* An announced Service is that of the spec the reconcile works with, once the
\* WatcherAPI has its part of it.
LEMMA AnnouncedFacts ==
    ASSUME TypeOK, SaysTheTruth, Announced, api.spec = Part(cache.spec)
    PROVE  /\ svc # None /\ svc.type = cache.spec.type
           /\ svc.ingress <=> cache.spec.type = "ClusterIP"
           /\ svc = AskForRoute(cache.spec.type)
  <1>1. cache.spec \in Specs /\ cache.spec.type \in {"ClusterIP", "LoadBalancer"}
    BY SpecsAssumption DEF TypeOK, Watchers
  <1>2. svc = AskForRoute(cache.spec.type)
    BY <1>1, PartFacts DEF SaysTheTruth
  <1> QED
    BY <1>1, <1>2, AskFacts

\* The Watcher's reconciler keeps the promise that nothing has changed ...
LEMMA ReconcileQuiet ==
    ASSUME TypeOK, Prepared, SaysTheTruth, Progress, Quiet, Reconcile
    PROVE  Quiet'
  <1> SUFFICES ASSUME ~queue' PROVE Quiet'
    BY DEF Quiet
  <1>W. /\ work \in Works /\ queue \in BOOLEAN
        /\ route \in {None} \cup Routes /\ routeCache \in {None} \cup Routes
        /\ None \notin Versions /\ None \notin Routes
    BY InputAssumption, NoneAssumption, TypeOKUnfolded DEF TypesW, TypesE
  <1>T. TypesE
    BY TypeOKUnfolded
  <1>1. CASE Start
    BY <1>1 DEF Start, GoTo, Quiet, Listed, Done
  <1>2. CASE EnsureAPI
    <2>1. ~queue /\ api' = api
      <3>1. \/ UNCHANGED <<api, queue>>
            \/ queue' = (queue \/ api' # api)
        BY <1>2 DEF EnsureAPI
      <3> QED
        BY <1>W, <3>1, Zenon
    <2>2. base = cache /\ base' = base /\ cache' = cache /\ pc # "idle"
      BY <1>2, <2>1 DEF EnsureAPI, Quiet, Within
    <2>3. CASE pc' = "list"
      <3>1. api'.spec = Part(base.spec)
        BY <1>2, <2>3, EnsureAPIFacts
      <3> QED
        BY <2>2, <2>3, <3>1 DEF Quiet, Listed, Done
    <2>4. CASE Return("Unknown", "error")
      BY <2>2, <2>4 DEF Return, Quiet, Listed, Done
    <2> QED
      BY <1>2, <2>3, <2>4, EnsureAPIFacts
  <1>3. CASE Exit
    <2>1. /\ ~queue /\ outcome = "none"
          /\ watcher' = IF work.exposed = base.exposed THEN watcher
                        ELSE [watcher EXCEPT !.exposed = work.exposed]
      <3>1. \/ queue' = TRUE
            \/ /\ queue' = (queue \/ outcome # "none")
               /\ watcher' = IF work.exposed = base.exposed THEN watcher
                             ELSE [watcher EXCEPT !.exposed = work.exposed]
        BY <1>3 DEF Exit
      <3> QED
        BY <1>W, <3>1, Zenon
    <2>2. /\ pc = "exit" /\ pc' = "idle"
          /\ UNCHANGED <<cache, api, svc, route, routeCache, input>>
      BY <1>3 DEF Exit, apiVars
    <2>3. work.exposed = "True" /\ base = cache
      BY <2>1, <2>2 DEF Progress, Quiet
    <2>4. cache.exposed = "True" \/ watcher'.exposed = "True"
      <3>1. watcher \in Watchers
        BY DEF TypeOK
      <3> QED
        BY <2>1, <2>3, <3>1 DEF Watchers
    <2>5. Done /\ Done'
      BY <2>1, <2>2 DEF Done
    <2> QED
      BY <2>1, <2>2, <2>4, <2>5 DEF Quiet, Listed, RightRoute, Announced
  <1> SUFFICES ASSUME ~Start, ~EnsureAPI, ~Exit PROVE Quiet'
    BY <1>1, <1>2, <1>3
  <1>S. /\ ~queue /\ base = cache
        /\ UNCHANGED <<base, cache, api, svc, routeCache, input, watcher>>
        /\ pc \in Listed \cup {"list"} /\ api.spec = Part(cache.spec)
    <2>1. /\ ~queue
          /\ UNCHANGED <<base, cache, api, svc, routeCache, input, watcher>>
      BY ReconcileFrame
    <2>2. pc \in Listed \cup {"list"}
      BY DEF Reconcile, ListServices, ValidateCerts, EnsureRoute, CreatePlainRoute,
             ReadCertificate, ReadDestinationCA, PatchRoute, Listed
    <2> QED
      BY <2>1, <2>2 DEF Quiet, Listed
  <1>E. Return("Warning", "error") \/ Return("Info", "after") => Quiet'
    BY <1>S DEF Return, Quiet, Listed, Done
  <1>D. ASSUME Return("True", "none"),
               Announced /\ route' = routeCache => RightRoute(cache.spec)'
        PROVE  Quiet'
    BY <1>S, <1>D DEF Return, Quiet, Listed, Announced
  <1>4. CASE ListServices
    <2>1. CASE Return("Warning", "error")
      BY <1>E, <2>1
    <2>2. CASE svc = None /\ Return("True", "none")
      BY <1>D, <1>S, <2>2, AnnouncedFacts
    <2>3. CASE work' = [work EXCEPT !.svc = svc] /\ pc' = "validate"
      BY <1>S, <1>W, <2>3 DEF Quiet, Listed, Done, Works
    <2> QED
      BY <1>4, <2>1, <2>2, <2>3 DEF ListServices, GoTo
  <1>5. CASE ValidateCerts
    <2>1. \/ Return("Warning", "error") \/ Return("Info", "after")
          \/ pc' = "route" /\ pc = "validate" /\ UNCHANGED work
      BY <1>5 DEF ValidateCerts, GoTo
    <2> QED
      BY <1>E, <1>S, <2>1 DEF Quiet, Listed, Done, Announced
  <1>F. pc \in Listed /\ Announced =>
           /\ work.svc.type = cache.spec.type
           /\ work.svc.ingress <=> cache.spec.type = "ClusterIP"
    BY <1>S, AnnouncedFacts DEF Quiet
  <1>6. CASE EnsureRoute
    <2>0. pc = "route"
      BY <1>6 DEF EnsureRoute
    <2>1. CASE Return("Warning", "error")
      BY <1>E, <2>1
    <2>2. CASE /\ ~(work.svc.ingress /\ work.svc.type = "ClusterIP")
               /\ Return("True", "none")
      <3>1. Announced => cache.spec.type # "ClusterIP" /\ ~work.svc.ingress
        BY <1>F, <2>0, <2>2 DEF Listed
      <3>2. ~work.svc.ingress /\ route' = routeCache => route' = None
        BY <1>6, <2>2 DEF EnsureRoute, RouteDropped, Return
      <3> QED
        BY <1>D, <1>S, <2>2, <3>1, <3>2 DEF RightRoute
    <2>3. CASE pc' = "plain" /\ UNCHANGED work
      BY <1>S, <2>0, <2>3 DEF Quiet, Listed, Done, Announced
    <2> QED
      BY <1>6, <2>1, <2>2, <2>3 DEF EnsureRoute, GoTo
  <1>7. CASE CreatePlainRoute
    <2> DEFINE next == IF base.spec.ingressTLS
                       THEN GoTo("certificate") /\ UNCHANGED work
                       ELSE Return("True", "none")
    <2>0. /\ pc = "plain" /\ Plain \in Routes /\ Plain # None
          /\ work.svc.type = "ClusterIP"
          /\ base.spec.podTLS => base.spec.ingressTLS
      BY <1>7, <1>W DEF CreatePlainRoute, Plain, Routes, Progress, Listed, Writing
    <2>1. \/ PlainFirst /\ WriteRoute(Plain, next)
          \/ ~PlainFirst /\ next
          \/ Return("Warning", "error")
      BY <1>7 DEF CreatePlainRoute
    <2>2. CASE GoTo("certificate") /\ UNCHANGED work
      BY <1>S, <2>0, <2>2 DEF GoTo, Quiet, Listed, Done, Announced
    <2>3. CASE WriteRoute(Plain, next) /\ ~base.spec.ingressTLS
      <3>1. next <=> Return("True", "none")
        BY <2>3
      <3> HIDE DEF next
      <3>2. \/ Return("Warning", "error") \/ Return("Info", "after")
            \/ /\ next
               /\ route' = routeCache => route' = Plain
        BY <1>T, <2>0, <2>3, WriteRouteFacts
      <3>3. Announced /\ route' = Plain => RightRoute(cache.spec)'
        BY <1>F, <1>S, <2>0, <2>3 DEF RightRoute, Plain, Listed
      <3> QED
        BY <1>D, <1>E, <3>1, <3>2, <3>3
    <2>4. CASE WriteRoute(Plain, next) /\ base.spec.ingressTLS
      <3>1. next => GoTo("certificate") /\ UNCHANGED work
        BY <2>4
      <3> HIDE DEF next
      <3>2. next \/ Return("Warning", "error") \/ Return("Info", "after")
        BY <1>T, <2>0, <2>4, WriteRouteFacts
      <3> QED
        BY <1>E, <2>2, <3>1, <3>2
    <2> QED
      BY <1>E, <2>1, <2>2, <2>3, <2>4 DEF PlainFirst
  <1>8. CASE ReadCertificate
    <2>1. \/ Return("Warning", "error")
          \/ /\ work' = [work EXCEPT !.cert = input["ingress"]]
             /\ pc = "certificate" /\ pc' \in {"destination", "tls"}
      BY <1>8 DEF ReadCertificate, GoTo
    <2>2. CASE /\ work' = [work EXCEPT !.cert = input["ingress"]]
               /\ pc = "certificate" /\ pc' \in {"destination", "tls"}
      <3>1. work'.cert = input["ingress"] /\ work'.svc = work.svc
        BY <1>W, <2>2 DEF Works
      <3> QED
        BY <1>S, <2>2, <3>1 DEF Quiet, Listed, Done, Announced
    <2> QED
      BY <1>E, <2>1, <2>2
  <1>9. CASE ReadDestinationCA
    <2>1. \/ Return("Warning", "error") \/ Return("Info", "after")
          \/ /\ work' = [work EXCEPT !.ca = input["bundle"]]
             /\ pc = "destination" /\ pc' = "tls"
      BY <1>9 DEF ReadDestinationCA, GoTo
    <2>2. CASE /\ work' = [work EXCEPT !.ca = input["bundle"]]
               /\ pc = "destination" /\ pc' = "tls"
      <3>1. work'.cert = work.cert /\ work'.svc = work.svc
        BY <1>W, <2>2 DEF Works
      <3> QED
        BY <1>S, <2>2, <3>1 DEF Quiet, Listed, Done, Announced
    <2> QED
      BY <1>E, <2>1, <2>2
  <1>10. CASE PatchRoute
    <2>0. /\ pc = "tls" /\ WithTLS \in Routes /\ base.spec.ingressTLS
          /\ WithTLS.cert = input["ingress"] /\ WithTLS # None
          /\ WithTLS.ca # None <=> base.spec.podTLS
          /\ work.svc.type = "ClusterIP"
      BY <1>10, <1>S, <1>W
         DEF PatchRoute, WithTLS, Routes, Works, Progress, Quiet, Listed, Writing
    <2>1. \/ Return("Warning", "error") \/ Return("Info", "after")
          \/ Return("True", "none") /\ (route' = routeCache => route' = WithTLS)
      BY <1>10, <1>T, <2>0, WriteRouteFacts DEF PatchRoute
    <2>2. Announced /\ route' = WithTLS => RightRoute(cache.spec)'
      BY <1>F, <1>S, <2>0 DEF RightRoute, Listed
    <2> QED
      BY <1>D, <1>E, <2>1, <2>2
  <1> QED
    BY <1>4, <1>5, <1>6, <1>7, <1>8, <1>9, <1>10 DEF Reconcile

\* ... and so does everything else that does not wake it up.
LEMMA OtherQuiet ==
    ASSUME TypeOK, Prepared, Generations, SaysTheTruth, Progress, Quiet,
           [Next]_vars, ~Reconcile
    PROVE  Quiet'
  <1> SUFFICES ASSUME ~queue' PROVE Quiet'
    BY DEF Quiet
  <1>1. /\ ~queue /\ UNCHANGED <<pc, base, work, outcome, cache, routeCache, api>>
        /\ watcher'.exposed = watcher.exposed
        /\ cache.spec.ingressTLS => input'["ingress"] = input["ingress"]
        /\ route' = route \/ (route' = None /\ routeCache # None)
        /\ EnsureServiceExposed \/ svc' = svc
    BY OtherFrame
  <1>2. Announced => svc' = svc
    BY <1>1, AnnouncedStays
  <1>3. route' = routeCache /\ RightRoute(cache.spec) => RightRoute(cache.spec)'
    BY <1>1 DEF RightRoute
  <1>4. pc \in {"destination", "tls"} => work.cert = input'["ingress"]
    BY <1>1 DEF Quiet, Progress
  <1> QED
    BY <1>1, <1>2, <1>3, <1>4 DEF Quiet, Done, Announced, Listed

-----------------------------------------------------------------------------
(***************************************************************************)
(* Both at rest.                                                           *)
(***************************************************************************)

\* The second invariant holds at the start ...
LEMMA RestInit == Init => RestInv
  <1> SUFFICES ASSUME Init PROVE RestInv
    OBVIOUS
  <1>1. APIInv /\ Progress /\ Quiet
    BY DEF Init, NewAPI, NoWork, APIInv, Generations, APIProgress, SaysTheTruth,
           Announced, APIQuiet, Progress, Quiet, Listed, Writing
  <1> QED
    BY <1>1, InitType DEF Init, RestInv, Inv, Prepared

\* ... is kept by every step that does not report a failure wrongly ...
LEMMA RestNext == RestInv /\ ~Misreported /\ [Next]_vars => RestInv'
  <1> SUFFICES ASSUME RestInv, ~Misreported, [Next]_vars PROVE RestInv'
    OBVIOUS
  <1>1. Inv'
    BY NextType, NextPrepared DEF RestInv, Inv
  <1>2. APIInv'
    BY NextGenerations, NextAPIProgress, NextSaysTheTruth, NextAPIQuiet
       DEF RestInv, Inv, APIInv
  <1>3. Progress'
    BY NextProgress DEF RestInv, Inv
  <1>4. Quiet'
    BY ReconcileQuiet, OtherQuiet DEF RestInv, Inv, APIInv
  <1> QED
    BY <1>1, <1>2, <1>3, <1>4 DEF RestInv

\* ... and is enough.
LEMMA RestEnough == RestInv => RestIsExposed
  <1> SUFFICES ASSUME RestInv, AtRest PROVE watcher.exposed = "True" /\ Exposed
    BY DEF RestIsExposed
  <1>1. api.spec = Part(cache.spec) /\ watcher.exposed = "True"
    BY DEF RestInv, Quiet, AtRest, Done
  <1>2. Part(cache.spec) # None
    BY PartFacts DEF RestInv, Inv, TypeOK, Watchers
  <1>3. Announced
    BY <1>1, <1>2 DEF RestInv, APIInv, APIQuiet, AtRest, Announced
  <1>4. svc = AskForRoute(watcher.spec.type)
    BY <1>1, <1>3, AnnouncedFacts DEF RestInv, Inv, APIInv, AtRest
  <1>5. RightRoute(watcher.spec)
    BY <1>3 DEF RestInv, Quiet, AtRest, Done
  <1> QED
    BY <1>1, <1>4, <1>5 DEF Exposed, RightRoute

\* No wake-up is lost between the two reconcilers but for a failure that is
\* not reported, although the Watcher does not watch the Services it lists,
\* however far the informers are behind and however often either reconciler
\* fails or stops: when both rest, the route is the one that spec, Service and
\* certificate ask for and ExposeServiceReady says so.  What it rests on: a
\* Service that changes is followed by a change of the WatcherAPI's status.
THEOREM NoWakeUpIsLost == Spec /\ []~Misreported => []RestIsExposed
  BY RestInit, RestNext, RestEnough, PTL DEF Spec

\* The failures that the status and its copies have on record have happened,
\* and one that meets an older one has, too.
Counted ==
    /\ \/ api.created = "Warning" \/ apiCache.created = "Warning"
       \/ apiBase.created = "Warning" \/ apiWork.created = "Warning"
       => faults >= 1
    /\ apiPc = "failed" /\ apiBase.created = "Warning" => faults >= 2

\* A step counts a fault or it does not.
LEMMA FaultsGrow ==
    ASSUME TypeOK, [Next]_vars
    PROVE  /\ faults \in Nat
           /\ faults' = faults \/ faults' = faults + 1
  BY DEF TypeOK, Next, Reconcile, Start, EnsureAPI, ListServices, ValidateCerts,
         EnsureRoute, CreatePlainRoute, ReadCertificate, ReadDestinationCA,
         PatchRoute, WriteRoute, Exit, APIReconcile, APIStart,
         EnsureServiceExposed, APIExit, Sync, SyncWatcher, SyncAPI, SyncRoute,
         Environment, UpdateSpec, ChangeSecret, DeleteRoute, Crash, Fault,
         NoFault, vars

LEMMA NextCounted ==
    ASSUME TypeOK, Counted, [Next]_vars PROVE Counted'
  <1>0. /\ faults \in Nat /\ (faults' = faults \/ faults' = faults + 1)
        /\ api \in APIs /\ apiCache \in APIs /\ apiWork \in APIs
    BY FaultsGrow DEF TypeOK
  <1>1. CASE EnsureAPI
    <2>1. api'.created = api.created /\ UNCHANGED apiVars
      BY <1>1, EnsureAPIFacts
    <2> QED
      BY <1>0, <2>1 DEF Counted, apiVars
  <1>2. CASE APIStart
    <2>1. /\ UNCHANGED <<api, apiCache>> /\ apiBase' = apiCache
          /\ apiWork'.created = "Unknown" /\ apiPc' # "failed"
      BY <1>0, <1>2 DEF APIStart, APIs
    <2> QED
      BY <1>0, <2>1 DEF Counted
  <1>3. CASE EnsureServiceExposed
    <2>1. /\ UNCHANGED <<api, apiCache, apiBase>>
          /\ \/ Fault /\ faults' = faults + 1
             \/ apiPc' = "exit" /\ apiWork'.created = "True"
      BY <1>0, <1>3 DEF EnsureServiceExposed, Fault, APIs
    <2> QED
      BY <1>0, <2>1 DEF Counted
  <1>4. CASE APIExit
    <2>1. /\ apiPc' = "idle" /\ apiWork' = NewAPI /\ apiBase' = NewAPI
          /\ apiCache' = apiCache
          /\ api' = api \/ api' = APIPatch
      BY <1>4 DEF APIExit
    <2>2. api'.created \in {api.created, apiWork.created}
      BY <1>0, <2>1 DEF APIPatch, APIs
    <2> QED
      BY <1>0, <2>1, <2>2 DEF Counted, NewAPI
  <1>5. CASE SyncAPI
    BY <1>0, <1>5 DEF SyncAPI, Counted
  <1>6. CASE Crash
    BY <1>0, <1>6 DEF Crash, Counted, NewAPI
  <1>7. CASE UNCHANGED <<api, apiVars>>
    BY <1>0, <1>7 DEF Counted, apiVars
  <1> QED
    BY <1>1, <1>2, <1>3, <1>4, <1>5, <1>6, <1>7, APIFrame DEF APIReconcile

\* A single failure or restart loses no wake-up, whatever it hits and however
\* often users change what they ask for: it takes a second one to report a
\* failure wrongly.
THEOREM OneFaultLosesNothing == Spec => [](faults <= 1 => RestIsExposed)
  <1> DEFINE OneInv == Inv /\ Counted /\ (faults <= 1 => RestInv)
  <1>1. Init => OneInv
    <2>1. Init => Counted
      BY DEF Init, NewAPI, Counted
    <2> QED
      BY <2>1, RestInit DEF RestInv
  <1>2. OneInv /\ [Next]_vars => OneInv'
    <2> SUFFICES ASSUME OneInv, [Next]_vars PROVE OneInv'
      OBVIOUS
    <2>1. Inv' /\ Counted'
      BY NextType, NextPrepared, NextCounted DEF Inv
    <2>2. ASSUME faults' <= 1 PROVE RestInv'
      <3>1. faults \in Nat /\ faults <= 1
        BY <2>2, FaultsGrow DEF Inv
      <3>2. ~Misreported
        BY <3>1 DEF Counted, Misreported
      <3> QED
        BY <3>1, <3>2, RestNext
    <2> QED
      BY <2>1, <2>2
  <1>3. OneInv => (faults <= 1 => RestIsExposed)
    BY RestEnough
  <1> QED
    BY <1>1, <1>2, <1>3, PTL DEF Spec
=============================================================================
