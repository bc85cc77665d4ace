--------------------------- MODULE RouteExposure ----------------------------
(***************************************************************************)
(* How the API becomes reachable from outside: the WatcherAPI's reconciler *)
(* writes the public Service and says in an annotation whether it wants a  *)
(* route, the Watcher's reconciler lists the Services and keeps the route, *)
(* with the certificate of the ingress and the CA the router needs to      *)
(* trust the pods.  Both are cut down to these steps; they interleave, and *)
(* the Watcher does not watch Services.  controllers/watcher_controller.go *)
(* (exposeEndpoints, ensureRoute, CreateRoute) and                         *)
(* controllers/watcherapi_controller.go (ensureServiceExposed).            *)
(***************************************************************************)
EXTENDS Naturals, Conditions

CONSTANTS
    Specs,       \* the specs a user may write: records with the fields type
                 \* (of the public Service), ingressTLS and podTLS (whether a
                 \* certificate is named for the route, for the pods)
    Versions, Absent, Broken,  \* states of a secret, as in ServiceCR
    StartInputs, \* the states secrets may be in at the start
    None,        \* no object, no certificate
    MaxChanges,  \* bound on the changes of the environment
    MaxFaults    \* bound on failed API calls and crashes

VARIABLES
    watcher, cache, queue,  \* the Watcher, the informer's copy, its queue
    pc, base, work, outcome,  \* its reconcile in progress
    api, apiCache, apiQueue,  \* the WatcherAPI, the copy, its queue
    apiPc, apiBase, apiWork,  \* its reconcile in progress
    svc,                    \* the public Service
    route, routeCache,      \* the Route, the informer's copy
    input,                  \* the secrets: ingress, pod and bundle
    changes, faults

watcherVars == <<watcher, cache, queue, pc, base, work, outcome>>
apiVars == <<apiCache, apiPc, apiBase, apiWork>>
vars == <<watcherVars, api, apiQueue, apiVars, svc, route, routeCache, input,
          changes, faults>>

ASSUME SpecsAssumption ==
    /\ Specs # {}
    /\ \A s \in Specs : /\ s.type \in {"ClusterIP", "LoadBalancer"}
                        /\ s.ingressTLS \in BOOLEAN /\ s.podTLS \in BOOLEAN
ASSUME InputAssumption ==
    /\ Absent \notin Versions /\ Broken \notin Versions /\ Absent # Broken
    /\ None \notin Versions /\ Versions # {}
ASSUME StartAssumption == StartInputs \subseteq Versions \cup {Absent, Broken}
ASSUME BoundsAssumption == MaxChanges \in Nat /\ MaxFaults \in Nat

\* The certificate of the ingress (apiOverride.tls), the certificate of the
\* public endpoint's pods (apiServiceTemplate.tls.api.public), and the
\* operator's CA bundle, combined-ca-bundle.
Secrets == {"ingress", "pod", "bundle"}
InputStates == Versions \cup {Absent, Broken}

NoWork == [exposed |-> "Unknown", svc |-> None, cert |-> None, ca |-> None]
NewAPI == [spec |-> None, gen |-> 0, obs |-> 0, created |-> "NotSet"]

Fault == faults < MaxFaults /\ faults' = faults + 1
NoFault == UNCHANGED faults

-----------------------------------------------------------------------------
(***************************************************************************)
(* The Watcher's reconciler, from ensureAPI to ExposeServiceReady.         *)
(***************************************************************************)

GoTo(step) == pc' = step /\ UNCHANGED outcome

\* The reconcile ends with a status of ExposeServiceReady.
Return(status, result) ==
    /\ pc' = "exit" /\ work' = [work EXCEPT !.exposed = status]
    /\ outcome' = result

\* What the steps of this reconciler leave alone, and those of them that do
\* not write a Route either.
Within == UNCHANGED <<watcher, cache, base, apiVars, svc, routeCache, input,
                      changes>>
Reading == Within /\ UNCHANGED <<queue, api, apiQueue, route>>

Start ==
    /\ pc = "idle" /\ queue
    /\ queue' = FALSE /\ base' = cache /\ work' = NoWork
    /\ GoTo("api") /\ NoFault
    /\ UNCHANGED <<watcher, cache, api, apiQueue, apiVars, svc, route,
                   routeCache, input, changes>>

\* ensureAPI: the WatcherAPI gets its part of the spec.
EnsureAPI ==
    LET wanted == [type |-> base.spec.type, podTLS |-> base.spec.podTLS]
    IN  /\ pc = "api"
        /\ \/ Fault /\ Return("Unknown", "error")
              /\ UNCHANGED <<api, queue>>
           \/ /\ NoFault
              /\ api' = IF api.spec = wanted THEN api
                        ELSE [api EXCEPT !.spec = wanted, !.gen = @ + 1]
              /\ queue' = (queue \/ api' # api)
              /\ GoTo("list") /\ UNCHANGED work
        /\ Within /\ UNCHANGED <<apiQueue, route>>

\* exposeEndpoints lists the Services.  TLS for the pods without TLS for the
\* route is refused, and without a public Service there is nothing to do.
ListServices ==
    /\ pc = "list"
    /\ \/ Fault /\ Return("Warning", "error")
       \/ /\ NoFault /\ base.spec.podTLS /\ ~base.spec.ingressTLS
          /\ Return("Warning", "error")
       \/ /\ NoFault /\ (base.spec.podTLS => base.spec.ingressTLS)
          /\ \/ svc = None /\ Return("True", "none")
             \/ svc # None /\ work' = [work EXCEPT !.svc = svc]
                /\ GoTo("validate")
    /\ Reading

\* ValidateCertSecret for the route's and for the pods' certificate.
Wanted == {i \in {"ingress", "pod"} :
              IF i = "ingress" THEN base.spec.ingressTLS ELSE base.spec.podTLS}

ValidateCerts ==
    /\ pc = "validate"
    /\ \/ Fault /\ Return("Warning", "error")
       \/ /\ NoFault /\ \E i \in Wanted : input[i] = Absent
          /\ ~(input["ingress"] = Broken /\ "ingress" \in Wanted)
          /\ Return("Info", "after")
       \/ /\ NoFault /\ \E i \in Wanted : input[i] = Broken
          /\ ~(input["ingress"] = Absent /\ "ingress" \in Wanted)
          /\ Return("Warning", "error")
       \/ /\ NoFault /\ \A i \in Wanted : input[i] \in Versions
          /\ GoTo("route") /\ UNCHANGED work
    /\ Reading

\* Mutant: a route is deleted in no case.
RouteKept == route
\* The route of a Service that does not ask for one goes.  It is looked up
\* in the informer's copy.
RouteDropped == IF work.svc.ingress \/ routeCache = None THEN route ELSE None

\* ensureRoute up to CreateRoute.
EnsureRoute ==
    LET create == work.svc.ingress /\ work.svc.type = "ClusterIP"
    IN  /\ pc = "route"
        /\ \/ Fault /\ Return("Warning", "error") /\ UNCHANGED route
           \/ /\ NoFault
              /\ route' = RouteDropped
              /\ IF create THEN GoTo("plain") /\ UNCHANGED work
                 ELSE Return("True", "none")
        /\ Within /\ UNCHANGED <<queue, api, apiQueue>>

\* CreateOrPatch compares with the informer's copy: a Route that is in the
\* copy only is not found, one that is missing from it exists already.
WriteRoute(wanted, next) ==
    \/ Fault /\ Return("Warning", "error") /\ UNCHANGED route
    \/ /\ NoFault /\ routeCache = None /\ route # None
       /\ Return("Warning", "error") /\ UNCHANGED route
    \/ /\ NoFault /\ routeCache # None /\ route = None
       /\ IF wanted = routeCache THEN next ELSE Return("Info", "after")
       /\ UNCHANGED route
    \/ /\ NoFault /\ (routeCache = None <=> route = None)
       /\ route' = IF routeCache = None THEN wanted
                   ELSE [f \in DOMAIN wanted |->
                            IF wanted[f] # routeCache[f] THEN wanted[f]
                            ELSE route[f]]
       /\ next

Plain == [cert |-> None, ca |-> None]

\* CreateRoute begins with a route without TLS, unless TLS is wanted and the
\* route is there.  Mutant: in any case.
AnyRoute == TRUE
PlainFirst == ~base.spec.ingressTLS \/ routeCache = None

CreatePlainRoute ==
    LET next == IF base.spec.ingressTLS
                THEN GoTo("certificate") /\ UNCHANGED work
                ELSE Return("True", "none")
    IN  /\ pc = "plain"
        /\ \/ PlainFirst /\ WriteRoute(Plain, next)
           \/ ~PlainFirst /\ NoFault /\ next /\ UNCHANGED route
           \/ ~PlainFirst /\ Fault /\ Return("Warning", "error")
              /\ UNCHANGED route
        /\ Within /\ UNCHANGED <<queue, api, apiQueue>>

\* The certificate is read once more; now it must exist and be complete.
\* Mutant: the second look is taken for granted.
ReadCertificateUnchecked ==
    /\ pc = "certificate" /\ NoFault
    /\ work' = [work EXCEPT !.cert = input["ingress"]]
    /\ GoTo(IF base.spec.podTLS THEN "destination" ELSE "tls")
    /\ Reading
ReadCertificate ==
    /\ pc = "certificate"
    /\ \/ ((input["ingress"] \notin Versions /\ NoFault) \/ Fault)
          /\ Return("Warning", "error")
       \/ /\ NoFault /\ input["ingress"] \in Versions
          /\ work' = [work EXCEPT !.cert = input["ingress"]]
          /\ GoTo(IF base.spec.podTLS THEN "destination" ELSE "tls")
    /\ Reading

\* TLS up to the pods: the router must trust them.
ReadDestinationCA ==
    /\ pc = "destination"
    /\ \/ Fault /\ Return("Warning", "error")
       \/ NoFault /\ input["bundle"] = Absent /\ Return("Info", "after")
       \/ NoFault /\ input["bundle"] = Broken /\ Return("Warning", "error")
       \/ /\ NoFault /\ input["bundle"] \in Versions
          /\ work' = [work EXCEPT !.ca = input["bundle"]]
          /\ GoTo("tls")
    /\ Reading

WithTLS == [cert |-> work.cert, ca |-> work.ca]

\* Edge termination, or reencrypt when there is a CA for the pods.
PatchRoute ==
    /\ pc = "tls"
    /\ WriteRoute(WithTLS, Return("True", "none"))
    /\ Within /\ UNCHANGED <<queue, api, apiQueue>>

\* The rest of Reconcile and the deferred patch of what has changed.
Exit ==
    /\ pc = "exit"
    /\ \/ /\ NoFault
          /\ watcher' = IF work.exposed = base.exposed THEN watcher
                        ELSE [watcher EXCEPT !.exposed = work.exposed]
          /\ queue' = (queue \/ outcome # "none")
       \/ Fault /\ UNCHANGED watcher /\ queue' = TRUE
    /\ pc' = "idle" /\ work' = NoWork /\ outcome' = "none"
    /\ UNCHANGED <<cache, base, api, apiQueue, apiVars, svc, route, routeCache,
                   input, changes>>

Reconcile == \/ Start \/ EnsureAPI \/ ListServices \/ ValidateCerts
             \/ EnsureRoute \/ CreatePlainRoute \/ ReadCertificate
             \/ ReadDestinationCA \/ PatchRoute \/ Exit

-----------------------------------------------------------------------------
(***************************************************************************)
(* The WatcherAPI's reconciler: ensureServiceExposed, with what comes      *)
(* before it reduced to a step that may fail.                              *)
(***************************************************************************)

APIWithin == UNCHANGED <<watcher, cache, pc, base, work, outcome, route,
                         routeCache, input, changes>>

APIStart ==
    /\ apiPc = "idle" /\ apiQueue
    /\ apiQueue' = FALSE
    /\ apiBase' = apiCache
    /\ apiWork' = [apiCache EXCEPT !.created = "Unknown", !.obs = apiCache.gen]
    /\ apiPc' = IF apiCache.spec = None THEN "idle"
                ELSE IF apiCache.created = "NotSet" THEN "exit" ELSE "service"
    /\ NoFault /\ APIWithin /\ UNCHANGED <<queue, api, apiCache, svc>>

\* Only a public ClusterIP Service asks for a route.  Mutant: the annotation
\* is forgotten.
AskForNothing(type) == [type |-> type, ingress |-> FALSE]
AskForRoute(type) == [type |-> type, ingress |-> type = "ClusterIP"]

EnsureServiceExposed ==
    /\ apiPc = "service"
    /\ \/ Fault /\ UNCHANGED <<svc, apiQueue>>
          /\ apiWork' = [apiWork EXCEPT !.created = "Warning"]
          /\ apiPc' = "failed"
       \/ /\ NoFault
          /\ svc' = AskForRoute(apiBase.spec.type)
          /\ apiQueue' = (apiQueue \/ svc' # svc)
          /\ apiWork' = [apiWork EXCEPT !.created = "True"]
          /\ apiPc' = "exit"
    /\ APIWithin /\ UNCHANGED <<queue, api, apiCache, apiBase>>

\* The patch of what differs; a change of the status wakes the Watcher, too.
APIPatch == [api EXCEPT
    !.obs = IF apiWork.obs # apiBase.obs THEN apiWork.obs ELSE @,
    !.created = IF apiWork.created # apiBase.created THEN apiWork.created
                ELSE @]

APIExit ==
    /\ apiPc \in {"exit", "failed"}
    /\ \/ /\ NoFault /\ api' = APIPatch
          /\ apiQueue' = (apiQueue \/ apiPc = "failed")
       \/ Fault /\ UNCHANGED api /\ apiQueue' = TRUE
    /\ queue' = (queue \/ api' # api)
    /\ apiPc' = "idle" /\ apiWork' = NewAPI /\ apiBase' = NewAPI
    /\ APIWithin /\ UNCHANGED <<apiCache, svc>>

APIReconcile == APIStart \/ EnsureServiceExposed \/ APIExit

-----------------------------------------------------------------------------
(***************************************************************************)
(* The environment.                                                        *)
(***************************************************************************)

Change == changes < MaxChanges /\ changes' = changes + 1

UpdateSpec ==
    /\ Change /\ NoFault
    /\ \E s \in Specs \ {watcher.spec} : watcher' = [watcher EXCEPT !.spec = s]
    /\ UNCHANGED <<cache, queue, pc, base, work, outcome, api, apiQueue,
                   apiVars, svc, route, routeCache, input>>

\* Of the three secrets only the certificate of the ingress is watched, by
\* findObjectsForSrc, while the spec names it.
ChangeSecret ==
    /\ Change /\ NoFault
    /\ \E i \in Secrets : \E v \in InputStates \ {input[i]} :
          /\ input' = [input EXCEPT ![i] = v]
          /\ queue' = (queue \/ (i = "ingress" /\ cache.spec.ingressTLS))
    /\ UNCHANGED <<watcher, cache, pc, base, work, outcome, api, apiQueue,
                   apiVars, svc, route, routeCache>>

\* Somebody deletes the Route; when it is not in the informer's copy yet, that
\* sees both events.
DeleteRoute ==
    /\ Change /\ NoFault
    /\ route # None /\ route' = None
    /\ queue' = (queue \/ routeCache = None)
    /\ UNCHANGED <<watcher, cache, pc, base, work, outcome, api, apiQueue,
                   apiVars, svc, routeCache, input>>

\* The informers catch up, each with its own delay.
SyncWatcher ==
    /\ cache # watcher /\ cache' = watcher /\ queue' = TRUE /\ NoFault
    /\ UNCHANGED <<watcher, pc, base, work, outcome, api, apiQueue, apiVars,
                   svc, route, routeCache, input, changes>>
SyncAPI ==
    /\ apiCache # api /\ apiCache' = api /\ apiQueue' = TRUE /\ NoFault
    /\ UNCHANGED <<watcherVars, api, apiPc, apiBase, apiWork, svc, route,
                   routeCache, input, changes>>
SyncRoute ==
    /\ routeCache # route /\ routeCache' = route /\ queue' = TRUE /\ NoFault
    /\ UNCHANGED <<watcher, cache, pc, base, work, outcome, api, apiQueue,
                   apiVars, svc, route, input, changes>>

\* The operator restarts; both reconcilers run in its process.
Crash ==
    /\ Fault
    /\ cache' = watcher /\ apiCache' = api /\ routeCache' = route
    /\ queue' = TRUE /\ apiQueue' = TRUE
    /\ pc' = "idle" /\ work' = NoWork /\ outcome' = "none"
    /\ apiPc' = "idle" /\ apiWork' = NewAPI /\ apiBase' = NewAPI
    /\ UNCHANGED <<watcher, base, api, svc, route, input, changes>>

Sync == SyncWatcher \/ SyncAPI \/ SyncRoute
Environment == \/ UpdateSpec \/ ChangeSecret \/ DeleteRoute
               \/ Crash

Init ==
    /\ \E s \in Specs : watcher = [spec |-> s, exposed |-> "NotSet"]
    /\ cache = watcher /\ queue = TRUE
    /\ pc = "idle" /\ base = watcher /\ work = NoWork /\ outcome = "none"
    /\ api = NewAPI /\ apiCache = NewAPI /\ apiQueue = FALSE
    /\ apiPc = "idle" /\ apiBase = NewAPI /\ apiWork = NewAPI
    /\ svc = None /\ route = None /\ routeCache = None
    /\ input \in [Secrets -> StartInputs]
    /\ changes = 0 /\ faults = 0

Next == Reconcile \/ APIReconcile \/ Sync \/ Environment

Spec == Init /\ [][Next]_vars

\* The operator's workers and informers run as long as they have work.
Fairness == /\ WF_vars(Reconcile) /\ WF_vars(APIReconcile)
            /\ WF_vars(SyncWatcher) /\ WF_vars(SyncAPI) /\ WF_vars(SyncRoute)

FairSpec == Spec /\ Fairness

-----------------------------------------------------------------------------
Statuses5 == {"NotSet", "Unknown", "Info", "Warning", "True"}
Watchers == [spec : Specs, exposed : Statuses5]
APISpecs == {[type |-> s.type, podTLS |-> s.podTLS] : s \in Specs}
APIs == [spec : {None} \cup APISpecs, gen : Nat, obs : Nat, created : Statuses5]
Services == [type : {"ClusterIP", "LoadBalancer"}, ingress : BOOLEAN]
Routes == [cert : {None} \cup Versions, ca : {None} \cup Versions]

ASSUME NoneAssumption == None \notin APISpecs \cup Services \cup Routes

\* The type invariant: both reconcilers' variables stay in their types.
TypeOK ==
    /\ watcher \in Watchers /\ cache \in Watchers /\ base \in Watchers
    /\ queue \in BOOLEAN /\ apiQueue \in BOOLEAN
    /\ pc \in {"idle", "api", "list", "validate", "route", "plain",
               "certificate", "destination", "tls", "exit"}
    /\ work \in [exposed : Statuses5, svc : {None} \cup Services,
                 cert : {None} \cup Versions, ca : {None} \cup Versions]
    /\ outcome \in {"none", "after", "error"}
    /\ api \in APIs /\ apiCache \in APIs /\ apiBase \in APIs
    /\ apiWork \in APIs
    /\ apiPc \in {"idle", "service", "failed", "exit"}
    /\ svc \in {None} \cup Services
    /\ route \in {None} \cup Routes /\ routeCache \in {None} \cup Routes
    /\ input \in [Secrets -> InputStates]
    /\ changes \in Nat /\ faults \in Nat

\* Neither reconciler has anything to do and all informers are up to date.
AtRest ==
    /\ pc = "idle" /\ ~queue /\ apiPc = "idle" /\ ~apiQueue
    /\ cache = watcher /\ apiCache = api /\ routeCache = route

\* The route is there exactly for a public ClusterIP Service, with the
\* certificate the spec asks for and what the code knows of the pods' CA.
Exposed ==
    /\ svc = AskForRoute(watcher.spec.type)
    /\ (route # None) <=> (watcher.spec.type = "ClusterIP")
    /\ route # None =>
          /\ IF watcher.spec.ingressTLS
             THEN route.cert = input["ingress"] ELSE route.cert = None
          /\ (route.ca # None) <=> watcher.spec.podTLS

\* The one way in which a wake-up gets lost: a reconcile of the API that fails
\* for a new spec does not say so, because the copy of the status that its
\* patch is compared with still has the failure before; it only says that the
\* spec has been observed, beside whatever the status says by now.
Misreported ==
    /\ apiPc = "failed" /\ apiBase.created = "Warning"
    /\ apiBase.obs # apiBase.gen

\* No lost wake-up between the two reconcilers, although the Watcher does not
\* watch the Services it lists: when both rest, ExposeServiceReady is True
\* and the route is the one that the Service, the spec and the current
\* certificate of the ingress ask for.
RestIsExposed == AtRest => watcher.exposed = "True" /\ Exposed

\* watcher_controller.go:238 looks at the certificate a second time, after
\* exposeEndpoints has validated it: a route is never left with a certificate
\* or a CA that was missing or incomplete when it was read, whatever happened
\* to the secrets in between and however patches of stale copies mix.
CertificatesAreUsable ==
    route # None => /\ route.cert \in {None} \cup Versions
                    /\ route.ca \in {None} \cup Versions

\* A route that serves TLS is never set back to plain HTTP by a reconcile
\* that wants TLS, not even while the certificate is being replaced: the
\* plain route of CreateRoute is for a route that does not exist yet.
NeverPlainAgain ==
    [][route # None /\ route' # None /\ route.cert # None
       /\ route'.cert = None => ~base.spec.ingressTLS]_vars

\* Once changes and faults end, usable secrets and a spec that is not refused
\* lead to the right route, and to ExposeServiceReady.
Converges ==
    <>[]((\A i \in Secrets : input[i] \in Versions)
         /\ (watcher.spec.podTLS => watcher.spec.ingressTLS)
         => watcher.exposed = "True" /\ Exposed)
=============================================================================
