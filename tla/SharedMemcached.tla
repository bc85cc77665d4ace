-------------------------- MODULE SharedMemcached ---------------------------
(***************************************************************************)
(* The Memcached instances that the service resources share.  Each         *)
(* reconciler protects the instance it uses with a finalizer, which is     *)
(* named after the kind of the resource, helper.GetFinalizer(), and writes *)
(* it with an update of the whole object: the API server refuses the       *)
(* update of a copy that is not the newest.  The reconcilers, of           *)
(* controllers/watcherapi_controller.go and the two beside it, are cut     *)
(* down to these steps; they run in parallel, one per resource.            *)
(***************************************************************************)
EXTENDS Naturals, FiniteSets

CONSTANTS
    Resources,   \* the service resources of a namespace
    Kinds,       \* WatcherAPI, WatcherDecisionEngine, WatcherApplier
    KindOf,      \* the kind of each resource
    Instances,   \* the Memcached instances
    None,        \* no instance, no copy
    MaxChanges,  \* bound on what users do
    MaxFaults    \* bound on failed API calls

VARIABLES
    phase,     \* of each resource: "Live", "Deleting" or "Gone"
    wanted,    \* spec.memcachedInstance of each resource
    used,      \* the instance the StatefulSet is configured with
    queue,     \* the keys in the work queues
    pc, base,  \* the step of each reconcile, and the instance it is about
    work,      \* the copy of the instance a reconcile is about to write
    mem,       \* the Memcached instances on the API server
    cached,    \* the informer's copies
    changes, faults,
    unseen,    \* history: <<r, m>> if r has put its finalizer on m and the
               \* informer has not delivered that while r was there
    swallowed  \* history: the resources with a failed lookup in deletion

reconcileVars == <<queue, pc, base, work>>
historyVars == <<unseen, swallowed>>
vars == <<phase, wanted, used, reconcileVars, mem, cached, changes, faults,
          historyVars>>

ASSUME KindAssumption == KindOf \in [Resources -> Kinds]
ASSUME InstanceAssumption == Instances # {} /\ None \notin Instances
ASSUME BoundsAssumption == MaxChanges \in Nat /\ MaxFaults \in Nat

\* version stands for metadata.resourceVersion and uid.
Objects == [exists : BOOLEAN, deleting : BOOLEAN, fin : SUBSET Kinds,
            version : Nat]

ASSUME NoneAssumption == None \notin Objects

New == [exists |-> TRUE, deleting |-> FALSE, fin |-> {}, version |-> 0]

Fault == faults < MaxFaults /\ faults' = faults + 1
NoFault == UNCHANGED faults

\* helper.GetFinalizer.
Finalizer(r) == KindOf[r]

\* A write of an instance: a new version, and the end of an instance under
\* deletion that has lost its last finalizer.
Written(o, fin) ==
    [exists |-> ~(o.deleting /\ fin = {}), deleting |-> o.deleting,
     fin |-> fin, version |-> o.version + 1]

\* GetMemcachedByName reads with the manager's client, from the informer's
\* cache.
Copy(m) == cached[m]

\* Whether the finalizer of r is on a copy.  Mutants: any finalizer will do; it
\* is only seen if it is the only one.
HeldByAny(r, copy) == copy.fin # {}
HeldAlone(r, copy) == copy.fin = {Finalizer(r)}
Holds(r, copy) == Finalizer(r) \in copy.fin

GoTo(r, step) == pc' = [pc EXCEPT ![r] = step]

\* The reconcile is over; one that failed is started again.  Mutant: it is
\* not.
Forgotten(r) == /\ GoTo(r, "idle") /\ UNCHANGED queue
Retried(r) == /\ GoTo(r, "idle") /\ queue' = queue \cup {r}
Done(r) == GoTo(r, "idle") /\ UNCHANGED queue

\* A reconcile of r begins, with the spec as it is now.
Start(r) ==
    /\ pc[r] = "idle" /\ r \in queue
    /\ queue' = queue \ {r}
    /\ IF phase[r] = "Gone" THEN UNCHANGED <<pc, base>>
       ELSE /\ GoTo(r, IF phase[r] = "Live" THEN "memcached" ELSE "delete")
            /\ base' = [base EXCEPT ![r] = wanted[r]]
    /\ UNCHANGED <<phase, wanted, used, work, mem, cached, changes, faults,
                   historyVars>>

\* ensureMemcached: an instance that is missing is an error.  The finalizer is
\* only written if the copy does not have it.
EnsureMemcached(r) ==
    LET copy == Copy(base[r])
    IN  /\ pc[r] = "memcached"
        /\ \/ /\ Fault \/ (~copy.exists /\ NoFault)
              /\ Retried(r) /\ UNCHANGED work
           \/ /\ copy.exists /\ NoFault
              /\ IF Holds(r, copy) THEN GoTo(r, "deploy") /\ UNCHANGED work
                 ELSE GoTo(r, "protect") /\ work' = [work EXCEPT ![r] = copy]
              /\ UNCHANGED queue
        /\ UNCHANGED <<phase, wanted, used, base, mem, cached, changes,
                       historyVars>>

\* The update of a copy that is not the newest is refused.
Updated(m, copy, fin) ==
    /\ mem[m] = copy
    /\ mem' = [mem EXCEPT ![m] = Written(copy, fin)]

\* AddFinalizer and its update, which the API server refuses for an instance
\* under deletion, too.
AddFinalizer(r) ==
    LET copy == work[r]
    IN  /\ pc[r] = "protect"
        /\ \/ /\ Fault \/ ((mem[base[r]] # copy \/ copy.deleting) /\ NoFault)
              /\ Retried(r) /\ UNCHANGED <<mem, unseen>>
           \/ /\ ~copy.deleting /\ NoFault
              /\ Updated(base[r], copy, copy.fin \cup {Finalizer(r)})
              /\ unseen' = unseen \cup {<<r, base[r]>>}
              /\ GoTo(r, "deploy") /\ UNCHANGED queue
        /\ work' = [work EXCEPT ![r] = None]
        /\ UNCHANGED <<phase, wanted, used, base, cached, changes, swallowed>>

\* The config-data secret and the StatefulSet with the servers of the instance.
\* A StatefulSet that changed wakes the controller up.
Deploy(r) ==
    /\ pc[r] = "deploy"
    /\ \/ Fault /\ Retried(r) /\ UNCHANGED used
       \/ /\ NoFault
          /\ used' = [used EXCEPT ![r] = base[r]]
          /\ IF used[r] # base[r] THEN Retried(r) ELSE Done(r)
    /\ UNCHANGED <<phase, wanted, base, work, mem, cached, changes, historyVars>>

\* The last finalizer of the resource itself.
LetGo(r) == phase' = [phase EXCEPT ![r] = "Gone"] /\ Done(r)

\* reconcileDelete: a lookup that fails, unless it finds nothing, ends the
\* reconcile as if it had succeeded.
ReconcileDelete(r) ==
    LET copy == Copy(base[r])
    IN  /\ pc[r] = "delete"
        /\ \/ /\ Fault /\ Done(r) /\ UNCHANGED <<phase, work>>
              /\ swallowed' = swallowed \cup {r}
           \/ /\ copy.exists /\ Holds(r, copy) /\ NoFault
              /\ GoTo(r, "release") /\ work' = [work EXCEPT ![r] = copy]
              /\ UNCHANGED <<queue, phase, swallowed>>
           \/ /\ ~copy.exists \/ ~Holds(r, copy)
              /\ NoFault /\ LetGo(r) /\ UNCHANGED <<work, swallowed>>
        /\ UNCHANGED <<wanted, used, base, mem, cached, changes, unseen>>

\* RemoveFinalizer and its update.
RemoveFinalizer(r) ==
    LET copy == work[r]
    IN  /\ pc[r] = "release"
        /\ \/ /\ Fault \/ (mem[base[r]] # copy /\ NoFault)
              /\ Retried(r) /\ UNCHANGED <<phase, mem>>
           \/ /\ NoFault
              /\ Updated(base[r], copy, copy.fin \ {Finalizer(r)})
              /\ LetGo(r)
        /\ work' = [work EXCEPT ![r] = None]
        /\ UNCHANGED <<wanted, used, base, cached, changes, historyVars>>

Reconcile(r) == \/ Start(r) \/ EnsureMemcached(r) \/ AddFinalizer(r)
                \/ Deploy(r) \/ ReconcileDelete(r) \/ RemoveFinalizer(r)

-----------------------------------------------------------------------------
Change == changes < MaxChanges /\ changes' = changes + 1

\* A user names another instance, through the Watcher.
UpdateSpec(r) ==
    /\ Change /\ phase[r] = "Live"
    /\ \E m \in Instances \ {wanted[r]} : wanted' = [wanted EXCEPT ![r] = m]
    /\ queue' = queue \cup {r}
    /\ UNCHANGED <<phase, used, pc, base, work, mem, cached, faults, historyVars>>

DeleteCR(r) ==
    /\ Change /\ phase[r] = "Live"
    /\ phase' = [phase EXCEPT ![r] = "Deleting"]
    /\ queue' = queue \cup {r}
    /\ UNCHANGED <<wanted, used, pc, base, work, mem, cached, faults, historyVars>>

\* A user deletes an instance, or creates it again.
DeleteMemcached(m) ==
    /\ Change /\ mem[m].exists /\ ~mem[m].deleting
    /\ mem' = [mem EXCEPT ![m] =
                  Written([mem[m] EXCEPT !.deleting = TRUE], mem[m].fin)]
    /\ UNCHANGED <<phase, wanted, used, reconcileVars, cached, faults, historyVars>>

CreateMemcached(m) ==
    /\ Change /\ ~mem[m].exists
    /\ mem' = [mem EXCEPT ![m] = [New EXCEPT !.version = mem[m].version + 1]]
    /\ UNCHANGED <<phase, wanted, used, reconcileVars, cached, faults, historyVars>>

\* The informer catches up; nobody watches the instances.
Sync(m) ==
    /\ cached[m] # mem[m]
    /\ cached' = [cached EXCEPT ![m] = mem[m]]
    /\ unseen' = {u \in unseen : u[2] # m \/ phase[u[1]] = "Gone"}
    /\ UNCHANGED <<phase, wanted, used, reconcileVars, mem, changes, faults,
                   swallowed>>

Init ==
    /\ phase = [r \in Resources |-> "Live"]
    /\ wanted \in [Resources -> Instances]
    /\ used = [r \in Resources |-> None]
    /\ queue = Resources
    /\ pc = [r \in Resources |-> "idle"] /\ base = wanted
    /\ work = [r \in Resources |-> None]
    /\ mem = [m \in Instances |-> New] /\ cached = mem
    /\ changes = 0 /\ faults = 0
    /\ unseen = {} /\ swallowed = {}

Next ==
    \/ \E r \in Resources : Reconcile(r) \/ UpdateSpec(r) \/ DeleteCR(r)
    \/ \E m \in Instances :
          DeleteMemcached(m) \/ CreateMemcached(m) \/ Sync(m)

Spec == Init /\ [][Next]_vars

\* Each controller works its queue off, and the informer catches up.
Fairness == /\ \A r \in Resources : WF_vars(Reconcile(r))
            /\ \A m \in Instances : WF_vars(Sync(m))

FairSpec == Spec /\ Fairness

-----------------------------------------------------------------------------
\* The type invariant.
TypeOK ==
    /\ phase \in [Resources -> {"Live", "Deleting", "Gone"}]
    /\ wanted \in [Resources -> Instances] /\ base \in [Resources -> Instances]
    /\ used \in [Resources -> Instances \cup {None}]
    /\ queue \subseteq Resources
    /\ pc \in [Resources -> {"idle", "memcached", "protect", "deploy",
                             "delete", "release"}]
    /\ work \in [Resources -> Objects \cup {None}]
    /\ \A r \in Resources : pc[r] \in {"protect", "release"} => work[r] # None
    /\ mem \in [Instances -> Objects] /\ cached \in [Instances -> Objects]
    /\ changes \in Nat /\ faults \in Nat
    /\ unseen \subseteq Resources \X Instances /\ swallowed \subseteq Resources

\* watcherapplier_controller.go:185 (and the other reconcilers alike): "Add
\* finalizer to Memcached to prevent it from being deleted now that we're
\* using it".  So an instance that the pods of a live service are configured
\* with is there and carries the service's finalizer, although several
\* reconcilers write the finalizers of one instance from stale copies.
UsedIsHeld ==
    \A r \in Resources : phase[r] = "Live" /\ used[r] # None =>
        mem[used[r]].exists /\ Finalizer(r) \in mem[used[r]].fin

\* watcherapplier_controller.go:273 (and the other reconcilers alike): "Remove
\* our finalizer from Memcached".  So the instance that a resource named last
\* does not carry its finalizer once the resource is gone, unless another
\* resource of the kind is left.  The code has one way to leave it there: the
\* resource is deleted and goes before the informer has delivered the update
\* that put the finalizer on the instance, so that reconcileDelete does not
\* find it.  An instance that the resource named earlier is not looked at.
NothingHeldAfterwards ==
    \A r \in Resources :
        (\A s \in Resources : KindOf[s] = KindOf[r] => phase[s] = "Gone") =>
            \/ Finalizer(r) \notin mem[wanted[r]].fin
            \/ <<r, wanted[r]>> \in unseen

\* An instance somebody wants to delete is not held up by services that name
\* it and are on their way out, however their updates collide.  The exceptions
\* are the code's: a lookup in reconcileDelete whose failure is swallowed, and
\* a resource that went before the informer delivered its finalizer.
InstanceGoes ==
    \A m \in Instances :
        (mem[m].deleting /\ \A r \in Resources : phase[r] # "Live" /\ wanted[r] = m)
            ~> \/ ~mem[m].exists \/ swallowed # {}
               \/ \E r \in Resources : phase[r] = "Gone" /\ <<r, m>> \in unseen
=============================================================================
