----------------------- MODULE SharedMemcachedProofs ------------------------
(***************************************************************************)
(* Proofs about the Memcached instances that services share, for any       *)
(* number of resources, kinds and instances, and any number of changes and *)
(* faults.                                                                 *)
(***************************************************************************)
EXTENDS SharedMemcached, TLAPS

\* Every finalizer is in use by one resource only.
OneResourcePerKind ==
    \A r, q \in Resources : Finalizer(r) = Finalizer(q) => r = q

\* No instance that carries a finalizer has disappeared.
Alive == \A m \in Instances : mem[m].fin # {} => mem[m].exists

\* Only resources under deletion are on their way to release an instance.
Releasing ==
    \A r \in Resources : pc[r] \in {"delete", "release"} => phase[r] # "Live"

\* A live resource's finalizer is on the instances where its reconcile, its
\* StatefulSet or a copy of theirs expects it.
Kept(r) ==
    phase[r] = "Live" =>
        /\ \A m \in Instances :
              Finalizer(r) \in cached[m].fin => Finalizer(r) \in mem[m].fin
        /\ used[r] # None => Finalizer(r) \in mem[used[r]].fin
        /\ pc[r] = "deploy" => Finalizer(r) \in mem[base[r]].fin

\* What is preserved together.
Inv == TypeOK /\ Alive /\ Releasing /\ \A r \in Resources : Kept(r)

\* What a write of an instance leaves.
LEMMA WrittenFacts ==
    ASSUME NEW o \in Objects, NEW fin \in SUBSET Kinds
    PROVE  /\ Written(o, fin) \in Objects /\ Written(o, fin).fin = fin
           /\ fin # {} => Written(o, fin).exists
  <1> DEFINE stays == ~(o.deleting /\ fin = {})
  <1>1. o.deleting \in BOOLEAN /\ o.version + 1 \in Nat
    BY DEF Objects
  <1>2. stays \in BOOLEAN /\ (fin # {} => stays)
    OBVIOUS
  <1>3. Written(o, fin) = [exists |-> stays, deleting |-> o.deleting,
                           fin |-> fin, version |-> o.version + 1]
    BY DEF Written
  <1> HIDE DEF stays
  <1> QED
    BY <1>1, <1>2, <1>3 DEF Objects

\* The finalizers are of their type.
LEMMA FinalizerType == \A r \in Resources : Finalizer(r) \in Kinds
  BY KindAssumption DEF Finalizer

\* A reconcile reads an object.
LEMMA CopyType == ASSUME TypeOK, NEW m \in Instances PROVE Copy(m) \in Objects
  BY DEF TypeOK, Copy

\* The type invariant holds at the start ...
LEMMA InitType == Init => TypeOK
  <1>1. New \in Objects
    BY DEF New, Objects
  <1> QED
    BY <1>1, InstanceAssumption DEF Init, TypeOK

\* ... no object is taken for the absence of one ...
LEMMA WorkType ==
    ASSUME TypeOK, NEW r \in Resources, pc[r] \in {"protect", "release"}
    PROVE  work[r] # None
  BY DEF TypeOK

\* ... and an object that a step writes to the cluster is one.
LEMMA UpdatedFacts ==
    ASSUME TypeOK, NEW m \in Instances, NEW copy, NEW fin \in SUBSET Kinds,
           Updated(m, copy, fin)
    PROVE  /\ mem[m] = copy
           /\ mem' \in [Instances -> Objects]
           /\ mem'[m].fin = fin /\ (fin # {} => mem'[m].exists)
           /\ \A n \in Instances \ {m} : mem'[n] = mem[n]
  <1>1. copy \in Objects /\ mem[m] = copy
    BY DEF Updated, TypeOK
  <1>2. mem' = [mem EXCEPT ![m] = Written(copy, fin)]
    BY DEF Updated
  <1> QED
    BY <1>1, <1>2, WrittenFacts DEF TypeOK

\* Every step keeps the variables in their types.
LEMMA NextType == TypeOK /\ [Next]_vars => TypeOK'
  <1> SUFFICES ASSUME TypeOK, [Next]_vars PROVE TypeOK'
    OBVIOUS
  <1>0. TypeOK /\ (Fault \/ NoFault => faults' \in Nat)
    BY DEF TypeOK, Fault, NoFault
  <1>1. ASSUME NEW r \in Resources, Start(r) PROVE TypeOK'
    BY <1>0, <1>1 DEF Start, TypeOK, GoTo, historyVars
  <1>2. ASSUME NEW r \in Resources, EnsureMemcached(r) PROVE TypeOK'
    <2>1. Copy(base[r]) \in Objects /\ Copy(base[r]) # None
      BY CopyType, NoneAssumption DEF TypeOK
    <2> QED
      BY <1>0, <1>2, <2>1 DEF EnsureMemcached, TypeOK, GoTo, Retried, historyVars
  <1>3. ASSUME NEW r \in Resources, AddFinalizer(r) PROVE TypeOK'
    <2>1. work[r] \in Objects /\ base[r] \in Instances
      BY <1>3, WorkType DEF AddFinalizer, TypeOK
    <2>2. work[r].fin \cup {Finalizer(r)} \in SUBSET Kinds
      BY <2>1, FinalizerType DEF Objects
    <2>3. mem' \in [Instances -> Objects]
      BY <1>0, <1>3, <2>1, <2>2, UpdatedFacts DEF AddFinalizer, TypeOK
    <2> QED
      BY <1>0, <1>3, <2>3 DEF AddFinalizer, TypeOK, GoTo, Retried
  <1>4. ASSUME NEW r \in Resources, Deploy(r) PROVE TypeOK'
    BY <1>0, <1>4 DEF Deploy, TypeOK, GoTo, Retried, Done, historyVars
  <1>5. ASSUME NEW r \in Resources, ReconcileDelete(r) PROVE TypeOK'
    <2>1. Copy(base[r]) \in Objects /\ Copy(base[r]) # None
      BY CopyType, NoneAssumption DEF TypeOK
    <2> QED
      BY <1>0, <1>5, <2>1 DEF ReconcileDelete, TypeOK, GoTo, LetGo, Done
  <1>6. ASSUME NEW r \in Resources, RemoveFinalizer(r) PROVE TypeOK'
    <2>1. work[r] \in Objects /\ base[r] \in Instances
      BY <1>6, WorkType DEF RemoveFinalizer, TypeOK
    <2>2. work[r].fin \ {Finalizer(r)} \in SUBSET Kinds
      BY <2>1 DEF Objects
    <2>3. mem' \in [Instances -> Objects]
      BY <1>0, <1>6, <2>1, <2>2, UpdatedFacts DEF RemoveFinalizer, TypeOK
    <2> QED
      BY <1>0, <1>6, <2>3 DEF RemoveFinalizer, TypeOK, GoTo, Retried, LetGo, Done,
                               historyVars
  <1>7. ASSUME NEW r \in Resources, UpdateSpec(r) \/ DeleteCR(r) PROVE TypeOK'
    BY <1>0, <1>7 DEF UpdateSpec, DeleteCR, Change, TypeOK, historyVars
  <1>8. ASSUME NEW m \in Instances, DeleteMemcached(m) PROVE TypeOK'
    <2> DEFINE o == [mem[m] EXCEPT !.deleting = TRUE]
    <2>1. o \in Objects /\ mem[m].fin \in SUBSET Kinds
      <3>1. mem[m] \in Objects
        BY <1>0 DEF TypeOK
      <3> QED
        BY <3>1 DEF Objects
    <2>2. Written(o, mem[m].fin) \in Objects
      BY <2>1, WrittenFacts
    <2> QED
      BY <1>0, <1>8, <2>2 DEF DeleteMemcached, Change, reconcileVars, historyVars,
                               TypeOK
  <1>9. ASSUME NEW m \in Instances, CreateMemcached(m) PROVE TypeOK'
    <2>1. [New EXCEPT !.version = mem[m].version + 1] \in Objects
      <3>1. mem[m].version + 1 \in Nat
        BY <1>0 DEF TypeOK, Objects
      <3> QED
        BY <3>1 DEF Objects, New
    <2> QED
      BY <1>0, <1>9, <2>1 DEF CreateMemcached, Change, reconcileVars, historyVars,
                               TypeOK
  <1>10. ASSUME NEW m \in Instances, Sync(m) PROVE TypeOK'
    BY <1>0, <1>10 DEF Sync, reconcileVars, TypeOK
  <1>11. CASE UNCHANGED vars
    BY <1>0, <1>11 DEF vars, reconcileVars, historyVars, TypeOK
  <1> QED
    BY <1>1, <1>2, <1>3, <1>4, <1>5, <1>6, <1>7, <1>8, <1>9, <1>10, <1>11
       DEF Next, Reconcile

\* The reconcilers and their copies of the instances stay in their types,
\* however their reads, updates and retries interleave.
THEOREM TypeCorrect == Spec => []TypeOK
  BY InitType, NextType, PTL DEF Spec

-----------------------------------------------------------------------------
(***************************************************************************)
(* The instance in use is protected.                                       *)
(***************************************************************************)

\* No step but its own release takes a live resource's finalizer away, or the
\* instance that carries it.
LEMMA FinalizerStays ==
    ASSUME Inv, [Next]_vars, OneResourcePerKind,
           NEW q \in Resources, phase[q] = "Live", NEW n \in Instances,
           Finalizer(q) \in mem[n].fin
    PROVE  Finalizer(q) \in mem'[n].fin
  <1>0. TypeOK /\ mem[n].exists
    BY DEF Inv, Alive
  <1>1. ASSUME NEW r \in Resources, AddFinalizer(r)
        PROVE  Finalizer(q) \in mem'[n].fin
    <2>1. work[r] \in Objects /\ base[r] \in Instances
      BY <1>0, <1>1, WorkType DEF AddFinalizer, TypeOK
    <2>2. work[r].fin \cup {Finalizer(r)} \in SUBSET Kinds
      BY <2>1, FinalizerType DEF Objects
    <2>3. CASE Updated(base[r], work[r], work[r].fin \cup {Finalizer(r)})
      BY <1>0, <2>1, <2>2, <2>3, UpdatedFacts
    <2> QED
      BY <1>1, <2>3 DEF AddFinalizer
  <1>2. ASSUME NEW r \in Resources, RemoveFinalizer(r)
        PROVE  Finalizer(q) \in mem'[n].fin
    <2>1. work[r] \in Objects /\ base[r] \in Instances
      BY <1>0, <1>2, WorkType DEF RemoveFinalizer, TypeOK
    <2>2. work[r].fin \ {Finalizer(r)} \in SUBSET Kinds
      BY <2>1 DEF Objects
    <2>3. Finalizer(r) # Finalizer(q)
      BY <1>2 DEF RemoveFinalizer, Inv, Releasing, OneResourcePerKind
    <2>4. CASE Updated(base[r], work[r], work[r].fin \ {Finalizer(r)})
      BY <1>0, <2>1, <2>2, <2>3, <2>4, UpdatedFacts
    <2> QED
      BY <1>2, <2>4 DEF RemoveFinalizer
  <1>3. ASSUME NEW m \in Instances, DeleteMemcached(m)
        PROVE  Finalizer(q) \in mem'[n].fin
    BY <1>0, <1>3 DEF DeleteMemcached, TypeOK, Written
  <1>4. ASSUME NEW m \in Instances, CreateMemcached(m)
        PROVE  Finalizer(q) \in mem'[n].fin
    BY <1>0, <1>4 DEF CreateMemcached, TypeOK
  <1>5. CASE UNCHANGED mem
    BY <1>5
  <1> QED
    BY <1>1, <1>2, <1>3, <1>4, <1>5
       DEF Next, Reconcile, Start, EnsureMemcached, Deploy, ReconcileDelete,
           UpdateSpec, DeleteCR, Sync, vars

\* An instance goes only with its last finalizer.
LEMMA AliveKept == TypeOK /\ Alive /\ [Next]_vars => Alive'
  <1> SUFFICES ASSUME TypeOK, Alive, [Next]_vars PROVE Alive'
    OBVIOUS
  <1>0. TypeOK /\ Alive
    OBVIOUS
  <1>1. ASSUME NEW r \in Resources, AddFinalizer(r) PROVE Alive'
    <2>1. work[r] \in Objects /\ base[r] \in Instances
      BY <1>0, <1>1, WorkType DEF AddFinalizer, TypeOK
    <2>2. work[r].fin \cup {Finalizer(r)} \in SUBSET Kinds
      BY <2>1, FinalizerType DEF Objects
    <2>3. CASE Updated(base[r], work[r], work[r].fin \cup {Finalizer(r)})
      BY <1>0, <2>1, <2>2, <2>3, UpdatedFacts DEF Alive
    <2> QED
      BY <1>0, <1>1, <2>3 DEF AddFinalizer, Alive
  <1>2. ASSUME NEW r \in Resources, RemoveFinalizer(r) PROVE Alive'
    <2>1. work[r] \in Objects /\ base[r] \in Instances
      BY <1>0, <1>2, WorkType DEF RemoveFinalizer, TypeOK
    <2>2. work[r].fin \ {Finalizer(r)} \in SUBSET Kinds
      BY <2>1 DEF Objects
    <2>3. CASE Updated(base[r], work[r], work[r].fin \ {Finalizer(r)})
      BY <1>0, <2>1, <2>2, <2>3, UpdatedFacts DEF Alive
    <2> QED
      BY <1>0, <1>2, <2>3 DEF RemoveFinalizer, Alive
  <1>3. ASSUME NEW m \in Instances, DeleteMemcached(m) PROVE Alive'
    <2> DEFINE o == [mem[m] EXCEPT !.deleting = TRUE]
    <2>1. o \in Objects /\ mem[m].fin \in SUBSET Kinds
      <3>1. mem[m] \in Objects
        BY <1>0 DEF TypeOK
      <3> QED
        BY <3>1 DEF Objects
    <2>2. Written(o, mem[m].fin).fin # {} => Written(o, mem[m].fin).exists
      BY <2>1, WrittenFacts
    <2>3. mem' = [mem EXCEPT ![m] = Written(o, mem[m].fin)]
      BY <1>3 DEF DeleteMemcached
    <2> HIDE DEF o
    <2> QED
      BY <1>0, <2>2, <2>3 DEF Alive, TypeOK
  <1>4. ASSUME NEW m \in Instances, CreateMemcached(m) PROVE Alive'
    BY <1>0, <1>4 DEF CreateMemcached, New, TypeOK, Alive
  <1>5. CASE UNCHANGED mem
    BY <1>0, <1>5 DEF Alive
  <1> QED
    BY <1>1, <1>2, <1>3, <1>4, <1>5
       DEF Next, Reconcile, Start, EnsureMemcached, Deploy, ReconcileDelete,
           UpdateSpec, DeleteCR, Sync, vars

\* A resource under deletion does not come back to life.
LEMMA ReleasingKept == TypeOK /\ Releasing /\ [Next]_vars => Releasing'
  <1> SUFFICES ASSUME TypeOK, Releasing, [Next]_vars PROVE Releasing'
    OBVIOUS
  <1>0. TypeOK /\ Releasing
    OBVIOUS
  <1>1. ASSUME NEW r \in Resources, Reconcile(r) PROVE Releasing'
    BY <1>0, <1>1
       DEF Reconcile, Start, EnsureMemcached, AddFinalizer, Deploy,
           ReconcileDelete, RemoveFinalizer, GoTo, Retried, Done, LetGo,
           TypeOK, Releasing
  <1>2. ASSUME NEW r \in Resources, UpdateSpec(r) \/ DeleteCR(r)
        PROVE  Releasing'
    BY <1>0, <1>2 DEF UpdateSpec, DeleteCR, TypeOK, Releasing
  <1>3. CASE UNCHANGED <<pc, phase>>
    BY <1>0, <1>3 DEF Releasing
  <1> QED
    BY <1>1, <1>2, <1>3
       DEF Next, DeleteMemcached, CreateMemcached, Sync, vars, reconcileVars

\* Every step keeps a live resource's instances protected.
LEMMA KeptKept ==
    ASSUME Inv, [Next]_vars, OneResourcePerKind, NEW q \in Resources
    PROVE  Kept(q)'
  <1>0. TypeOK /\ Kept(q) /\ Releasing
    BY DEF Inv
  <1> SUFFICES ASSUME phase'[q] = "Live"
               PROVE  Kept(q)'
    BY DEF Kept
  <1>1. phase[q] = "Live"
    BY <1>0
       DEF Next, Reconcile, Start, EnsureMemcached, AddFinalizer, Deploy,
           ReconcileDelete, RemoveFinalizer, LetGo, UpdateSpec, DeleteCR,
           DeleteMemcached, CreateMemcached, Sync, vars, TypeOK
  <1>2. \A n \in Instances : Finalizer(q) \in mem[n].fin =>
                               Finalizer(q)' \in mem'[n].fin
    BY <1>1, FinalizerStays DEF Finalizer
  <1>3. ASSUME NEW n \in Instances, Finalizer(q)' \in cached'[n].fin
        PROVE  Finalizer(q)' \in mem'[n].fin
    <2>1. cached'[n] = cached[n] \/ (cached'[n] = mem[n] /\ mem' = mem)
      <3>1. CASE cached' = cached
        BY <3>1
      <3>2. CASE \E m \in Instances : Sync(m)
        BY <1>0, <3>2 DEF Sync, TypeOK
      <3> QED
        BY <3>1, <3>2
           DEF Next, Reconcile, Start, EnsureMemcached, AddFinalizer, Deploy,
               ReconcileDelete, RemoveFinalizer, UpdateSpec, DeleteCR,
               DeleteMemcached, CreateMemcached, vars
    <2> QED
      BY <1>0, <1>1, <1>2, <1>3, <2>1 DEF Kept, Finalizer
  <1>4. pc'[q] = "deploy" => Finalizer(q)' \in mem'[base'[q]].fin
    <2>1. ASSUME pc[q] = "deploy", base'[q] = base[q]
          PROVE  Finalizer(q)' \in mem'[base'[q]].fin
      BY <1>0, <1>1, <1>2, <2>1 DEF Kept, TypeOK
    <2>2. CASE EnsureMemcached(q)
      <3>1. base' = base /\ base[q] \in Instances
        BY <1>0, <2>2 DEF EnsureMemcached, TypeOK
      <3>2. pc'[q] = "deploy" => Finalizer(q) \in Copy(base[q]).fin
        BY <1>0, <2>2 DEF EnsureMemcached, Holds, GoTo, Retried, TypeOK
      <3>3. Finalizer(q) \in Copy(base[q]).fin => Finalizer(q) \in mem[base[q]].fin
        BY <1>0, <1>1, <3>1 DEF Copy, Kept
      <3> QED
        BY <1>2, <3>1, <3>2, <3>3
    <2>3. CASE AddFinalizer(q)
      <3>1. work[q] \in Objects /\ base[q] \in Instances /\ base' = base
        BY <1>0, <2>3, WorkType DEF AddFinalizer, TypeOK
      <3>2. work[q].fin \cup {Finalizer(q)} \in SUBSET Kinds
        BY <3>1, FinalizerType DEF Objects
      <3>3. CASE Updated(base[q], work[q], work[q].fin \cup {Finalizer(q)})
        BY <1>0, <3>1, <3>2, <3>3, UpdatedFacts DEF Finalizer
      <3>4. CASE Retried(q)
        BY <1>0, <3>4 DEF Retried, GoTo, TypeOK
      <3> QED
        BY <2>3, <3>3, <3>4 DEF AddFinalizer
    <2>4. CASE Start(q) \/ Deploy(q) \/ ReconcileDelete(q) \/ RemoveFinalizer(q)
      BY <1>0, <2>1, <2>4
         DEF Start, Deploy, ReconcileDelete, RemoveFinalizer, GoTo, Retried,
             Done, LetGo, TypeOK
    <2>5. CASE \E r \in Resources \ {q} : Reconcile(r)
      <3>1. pc'[q] = pc[q] /\ base'[q] = base[q]
        BY <1>0, <2>5
           DEF Reconcile, Start, EnsureMemcached, AddFinalizer, Deploy,
               ReconcileDelete, RemoveFinalizer, GoTo, Retried, Done, LetGo,
               TypeOK
      <3> QED
        BY <2>1, <3>1
    <2>6. CASE UNCHANGED <<pc, base>>
      BY <2>1, <2>6
    <2> QED
      BY <2>2, <2>3, <2>4, <2>5, <2>6
         DEF Next, Reconcile, UpdateSpec, DeleteCR, DeleteMemcached,
             CreateMemcached, Sync, vars, reconcileVars
  <1>5. used'[q] # None => Finalizer(q)' \in mem'[used'[q]].fin
    <2>1. \/ used'[q] = used[q]
          \/ used'[q] = base[q] /\ pc[q] = "deploy"
      <3>1. ASSUME NEW r \in Resources, Deploy(r)
            PROVE  \/ used' = used
                   \/ used' = [used EXCEPT ![r] = base[r]] /\ pc[r] = "deploy"
        BY <3>1 DEF Deploy
      <3>2. used' = used \/ \E r \in Resources : Deploy(r)
        BY <1>0
           DEF Next, Reconcile, Start, EnsureMemcached, AddFinalizer,
               ReconcileDelete, RemoveFinalizer, UpdateSpec, DeleteCR,
               DeleteMemcached, CreateMemcached, Sync, vars
      <3>3. used \in [Resources -> Instances \cup {None}]
        BY <1>0 DEF TypeOK
      <3> QED
        BY <3>1, <3>2, <3>3
    <2> QED
      BY <1>0, <1>1, <1>2, <2>1 DEF Kept, TypeOK
  <1> QED
    BY <1>3, <1>4, <1>5 DEF Kept

\* As long as every kind of service resource exists once, the instance that a
\* live service's pods are configured with carries its finalizer and cannot
\* disappear: neither stale copies nor colliding updates of several
\* reconcilers lose it.
THEOREM InUseIsHeld == OneResourcePerKind => (Spec => []UsedIsHeld)
  <1> SUFFICES ASSUME OneResourcePerKind PROVE Spec => []UsedIsHeld
    OBVIOUS
  <1>1. Init => Inv
    <2> SUFFICES ASSUME Init PROVE Inv
      OBVIOUS
    <2>1. Alive /\ Releasing /\ \A r \in Resources : Kept(r)
      BY DEF Init, New, Alive, Releasing, Kept
    <2> QED
      BY <2>1, InitType DEF Inv
  <1>2. Inv /\ [Next]_vars => Inv'
    <2> SUFFICES ASSUME Inv, [Next]_vars PROVE Inv'
      OBVIOUS
    <2>1. TypeOK' /\ Alive' /\ Releasing'
      BY NextType, AliveKept, ReleasingKept DEF Inv
    <2>2. \A r \in Resources : Kept(r)'
      BY KeptKept
    <2> QED
      BY <2>1, <2>2 DEF Inv
  <1>3. Inv => UsedIsHeld
    BY DEF Inv, TypeOK, Alive, Kept, UsedIsHeld
  <1> QED
    BY <1>1, <1>2, <1>3, PTL DEF Spec
-----------------------------------------------------------------------------
(***************************************************************************)
(* Nothing is held up by a service that is gone.                           *)
(***************************************************************************)

\* A deletion is about the instance that the resource names, which cannot
\* change any more.
Final(r) == pc[r] \in {"delete", "release"} => base[r] = wanted[r]

\* No copy of an instance that carries a finalizer says that it has gone.
CachedAlive == \A m \in Instances : cached[m].fin # {} => cached[m].exists

\* As long as the resource is there, a finalizer of its that the informer has
\* not delivered is on record.
Recorded(r) ==
    phase[r] # "Gone" =>
        \A m \in Instances :
            Finalizer(r) \in mem[m].fin /\ Finalizer(r) \notin cached[m].fin
                => <<r, m>> \in unseen

\* A resource that is gone is at rest, and has left nothing on the instance it
\* named but what it could not see.
LetGone(r) ==
    phase[r] = "Gone" =>
        /\ pc[r] = "idle"
        /\ \/ Finalizer(r) \notin mem[wanted[r]].fin
           \/ <<r, wanted[r]>> \in unseen

\* What is preserved together.
GoneInv ==
    /\ TypeOK /\ Alive /\ CachedAlive /\ Releasing
    /\ \A r \in Resources : Final(r) /\ Recorded(r) /\ LetGone(r)

\* A resource that is not live keeps its spec.
LEMMA WantedStays ==
    ASSUME TypeOK, [Next]_vars, NEW q \in Resources
    PROVE  /\ phase[q] # "Live" => phase'[q] # "Live" /\ wanted'[q] = wanted[q]
           /\ wanted'[q] # wanted[q] => pc' = pc /\ base' = base /\ phase' = phase
  <1>1. ASSUME NEW r \in Resources, Reconcile(r)
        PROVE  wanted' = wanted /\ (phase[q] # "Live" => phase'[q] # "Live")
    BY <1>1
       DEF Reconcile, Start, EnsureMemcached, AddFinalizer, Deploy,
           ReconcileDelete, RemoveFinalizer, LetGo, TypeOK
  <1>2. ASSUME NEW r \in Resources, UpdateSpec(r)
        PROVE  /\ phase' = phase /\ pc' = pc /\ base' = base
               /\ phase[q] # "Live" => wanted'[q] = wanted[q]
    BY <1>2 DEF UpdateSpec, TypeOK
  <1>3. ASSUME NEW r \in Resources, DeleteCR(r)
        PROVE  wanted' = wanted /\ (phase[q] # "Live" => phase'[q] # "Live")
    BY <1>3 DEF DeleteCR, TypeOK
  <1>4. CASE UNCHANGED <<phase, wanted>>
    BY <1>4
  <1> QED
    BY <1>1, <1>2, <1>3, <1>4
       DEF Next, DeleteMemcached, CreateMemcached, Sync, vars

\* A finalizer is put on an instance only by the reconcile of its resource.
LEMMA OnlyItsOwnAdds ==
    ASSUME TypeOK, [Next]_vars, OneResourcePerKind,
           NEW q \in Resources, ~AddFinalizer(q), NEW n \in Instances,
           Finalizer(q) \notin mem[n].fin
    PROVE  Finalizer(q) \notin mem'[n].fin
  <1>1. ASSUME NEW r \in Resources, AddFinalizer(r)
        PROVE  Finalizer(q) \notin mem'[n].fin
    <2>1. work[r] \in Objects /\ base[r] \in Instances
      BY <1>1, WorkType DEF AddFinalizer, TypeOK
    <2>2. work[r].fin \cup {Finalizer(r)} \in SUBSET Kinds
      BY <2>1, FinalizerType DEF Objects
    <2>3. Finalizer(r) # Finalizer(q)
      BY <1>1 DEF OneResourcePerKind
    <2>4. CASE Updated(base[r], work[r], work[r].fin \cup {Finalizer(r)})
      BY <2>1, <2>2, <2>3, <2>4, UpdatedFacts
    <2> QED
      BY <1>1, <2>4 DEF AddFinalizer
  <1>2. ASSUME NEW r \in Resources, RemoveFinalizer(r)
        PROVE  Finalizer(q) \notin mem'[n].fin
    <2>1. work[r] \in Objects /\ base[r] \in Instances
      BY <1>2, WorkType DEF RemoveFinalizer, TypeOK
    <2>2. work[r].fin \ {Finalizer(r)} \in SUBSET Kinds
      BY <2>1 DEF Objects
    <2>3. CASE Updated(base[r], work[r], work[r].fin \ {Finalizer(r)})
      BY <2>1, <2>2, <2>3, UpdatedFacts
    <2> QED
      BY <1>2, <2>3 DEF RemoveFinalizer
  <1>3. ASSUME NEW m \in Instances, DeleteMemcached(m)
        PROVE  Finalizer(q) \notin mem'[n].fin
    BY <1>3 DEF DeleteMemcached, TypeOK, Written
  <1>4. ASSUME NEW m \in Instances, CreateMemcached(m)
        PROVE  Finalizer(q) \notin mem'[n].fin
    BY <1>4 DEF CreateMemcached, New, TypeOK
  <1>5. CASE UNCHANGED mem
    BY <1>5
  <1> QED
    BY <1>1, <1>2, <1>3, <1>4, <1>5
       DEF Next, Reconcile, Start, EnsureMemcached, Deploy, ReconcileDelete,
           UpdateSpec, DeleteCR, Sync, vars

\* Every deletion starts from the spec as it stays.
LEMMA FinalKept ==
    ASSUME GoneInv, [Next]_vars, NEW q \in Resources
    PROVE  Final(q)'
  <1>0. TypeOK /\ Releasing /\ Final(q)
    BY DEF GoneInv
  <1>1. ASSUME NEW r \in Resources, Reconcile(r) PROVE Final(q)'
    <2>1. wanted' = wanted
      BY <1>1 DEF Reconcile, Start, EnsureMemcached, AddFinalizer, Deploy,
                  ReconcileDelete, RemoveFinalizer
    <2>2. CASE r = q
      BY <1>0, <1>1, <2>1, <2>2
         DEF Reconcile, Start, EnsureMemcached, AddFinalizer, Deploy,
             ReconcileDelete, RemoveFinalizer, GoTo, Retried, Done, LetGo,
             TypeOK, Final
    <2>3. CASE r # q
      <3>1. pc'[q] = pc[q] /\ base'[q] = base[q]
        BY <1>0, <1>1, <2>3
           DEF Reconcile, Start, EnsureMemcached, AddFinalizer, Deploy,
               ReconcileDelete, RemoveFinalizer, GoTo, Retried, Done, LetGo,
               TypeOK
      <3> QED
        BY <1>0, <2>1, <3>1 DEF Final
    <2> QED
      BY <2>2, <2>3
  <1>2. CASE UNCHANGED <<pc, base>>
    BY <1>0, <1>2, WantedStays DEF Final, Releasing
  <1> QED
    BY <1>1, <1>2
       DEF Next, UpdateSpec, DeleteCR, DeleteMemcached, CreateMemcached, Sync,
           vars, reconcileVars

\* The informer delivers what is there.
LEMMA CachedAliveKept ==
    TypeOK /\ Alive /\ CachedAlive /\ [Next]_vars => CachedAlive'
  <1> SUFFICES ASSUME TypeOK, Alive, CachedAlive, [Next]_vars
               PROVE  CachedAlive'
    OBVIOUS
  <1>1. ASSUME NEW m \in Instances, Sync(m) PROVE CachedAlive'
    BY <1>1 DEF Sync, TypeOK, Alive, CachedAlive
  <1>2. CASE UNCHANGED cached
    BY <1>2 DEF CachedAlive
  <1> QED
    BY <1>1, <1>2
       DEF Next, Reconcile, Start, EnsureMemcached, AddFinalizer, Deploy,
           ReconcileDelete, RemoveFinalizer, UpdateSpec, DeleteCR,
           DeleteMemcached, CreateMemcached, vars

\* What is on record is taken off it only when the informer delivers the
\* instance to a resource that is still there.
LEMMA UnseenStays ==
    ASSUME TypeOK, [Next]_vars, NEW q \in Resources, NEW n \in Instances,
           <<q, n>> \in unseen
    PROVE  \/ <<q, n>> \in unseen'
           \/ phase[q] # "Gone" /\ Sync(n)
  <1>1. ASSUME NEW m \in Instances, Sync(m), phase[q] = "Gone" \/ m # n
        PROVE  <<q, n>> \in unseen'
    BY <1>1 DEF Sync
  <1>2. CASE unseen' = unseen
    BY <1>2
  <1>3. ASSUME NEW r \in Resources, unseen' = unseen \cup {<<r, base[r]>>}
        PROVE  <<q, n>> \in unseen'
    BY <1>3
  <1> QED
    BY <1>1, <1>2, <1>3
       DEF Next, Reconcile, Start, EnsureMemcached, AddFinalizer, Deploy,
           ReconcileDelete, RemoveFinalizer, UpdateSpec, DeleteCR,
           DeleteMemcached, CreateMemcached, vars, historyVars

\* A resource that is gone is so for ever.
LEMMA GoneStays ==
    ASSUME TypeOK, [Next]_vars, NEW q \in Resources, phase[q] = "Gone"
    PROVE  phase'[q] = "Gone"
  <1>1. ASSUME NEW r \in Resources, Reconcile(r) PROVE phase'[q] = "Gone"
    BY <1>1
       DEF Reconcile, Start, EnsureMemcached, AddFinalizer, Deploy,
           ReconcileDelete, RemoveFinalizer, LetGo, TypeOK
  <1>2. ASSUME NEW r \in Resources, DeleteCR(r) PROVE phase'[q] = "Gone"
    BY <1>2 DEF DeleteCR, TypeOK
  <1>3. CASE UNCHANGED phase
    BY <1>3
  <1> QED
    BY <1>1, <1>2, <1>3
       DEF Next, UpdateSpec, DeleteMemcached, CreateMemcached, Sync, vars

\* A finalizer that the informer has not delivered goes on record when it is
\* put on, and stays there until it is delivered.
LEMMA RecordedKept ==
    ASSUME GoneInv, [Next]_vars, OneResourcePerKind, NEW q \in Resources
    PROVE  Recorded(q)'
  <1>0. TypeOK /\ Recorded(q)
    BY DEF GoneInv
  <1> SUFFICES ASSUME phase'[q] # "Gone", NEW n \in Instances,
                      Finalizer(q) \in mem'[n].fin,
                      Finalizer(q) \notin cached'[n].fin
               PROVE  <<q, n>> \in unseen'
    BY DEF Recorded, Finalizer
  <1>1. phase[q] # "Gone"
    BY <1>0, GoneStays
  <1>2. ~Sync(n)
    <2> SUFFICES ASSUME Sync(n) PROVE FALSE
      OBVIOUS
    <2>1. cached'[n] = mem[n] /\ mem' = mem
      BY <1>0 DEF Sync, TypeOK
    <2> QED
      BY <2>1
  <1>3. cached'[n] = cached[n]
    <2>1. ASSUME NEW m \in Instances, Sync(m) PROVE cached'[n] = cached[n]
      BY <1>0, <1>2, <2>1 DEF Sync, TypeOK
    <2>2. CASE UNCHANGED cached
      BY <2>2
    <2> QED
      BY <2>1, <2>2
         DEF Next, Reconcile, Start, EnsureMemcached, AddFinalizer, Deploy,
             ReconcileDelete, RemoveFinalizer, UpdateSpec, DeleteCR,
             DeleteMemcached, CreateMemcached, vars
  <1>4. CASE Finalizer(q) \in mem[n].fin
    <2>1. <<q, n>> \in unseen
      BY <1>0, <1>1, <1>3, <1>4 DEF Recorded
    <2> QED
      BY <1>0, <1>2, <2>1, UnseenStays
  <1>5. CASE Finalizer(q) \notin mem[n].fin
    <2>1. AddFinalizer(q)
      BY <1>0, <1>5, OnlyItsOwnAdds
    <2>2. work[q] \in Objects /\ base[q] \in Instances
      BY <1>0, <2>1, WorkType DEF AddFinalizer, TypeOK
    <2>3. work[q].fin \cup {Finalizer(q)} \in SUBSET Kinds
      BY <2>2, FinalizerType DEF Objects
    <2>4. CASE mem' = mem
      BY <1>5, <2>4
    <2>5. CASE /\ Updated(base[q], work[q], work[q].fin \cup {Finalizer(q)})
               /\ unseen' = unseen \cup {<<q, base[q]>>}
      <3>1. n = base[q]
        BY <1>0, <1>5, <2>2, <2>3, <2>5, UpdatedFacts
      <3> QED
        BY <2>5, <3>1
    <2> QED
      BY <2>1, <2>4, <2>5 DEF AddFinalizer
  <1> QED
    BY <1>4, <1>5

\* A resource goes when its finalizer is off the instance it names, as far as
\* it can see, and nothing puts it there again.
LEMMA LetGoneKept ==
    ASSUME GoneInv, [Next]_vars, OneResourcePerKind, NEW q \in Resources
    PROVE  LetGone(q)'
  <1>0. TypeOK /\ CachedAlive /\ Final(q) /\ Recorded(q) /\ LetGone(q)
    BY DEF GoneInv
  <1> SUFFICES ASSUME phase'[q] = "Gone"
               PROVE  /\ pc'[q] = "idle"
                      /\ \/ Finalizer(q) \notin mem'[wanted'[q]].fin
                         \/ <<q, wanted'[q]>> \in unseen'
    BY DEF LetGone, Finalizer
  <1>1. wanted'[q] = wanted[q] /\ wanted[q] \in Instances
    BY <1>0, WantedStays DEF TypeOK, Final
  <1>2. CASE phase[q] = "Gone"
    <2>1. /\ pc[q] = "idle"
          /\ Finalizer(q) \notin mem[wanted[q]].fin \/ <<q, wanted[q]>> \in unseen
      BY <1>0, <1>2 DEF LetGone
    <2>2. pc'[q] = "idle"
      <3>1. CASE Reconcile(q)
        BY <1>0, <1>2, <2>1, <3>1
           DEF Reconcile, Start, EnsureMemcached, AddFinalizer, Deploy,
               ReconcileDelete, RemoveFinalizer
      <3>2. ASSUME NEW r \in Resources, r # q, Reconcile(r)
            PROVE  pc'[q] = "idle"
        BY <1>0, <2>1, <3>2
           DEF Reconcile, Start, EnsureMemcached, AddFinalizer, Deploy,
               ReconcileDelete, RemoveFinalizer, GoTo, Retried, Done, LetGo,
               TypeOK
      <3>3. CASE UNCHANGED pc
        BY <2>1, <3>3
      <3> QED
        BY <3>1, <3>2, <3>3
           DEF Next, UpdateSpec, DeleteCR, DeleteMemcached, CreateMemcached,
               Sync, vars, reconcileVars
    <2>3. ~AddFinalizer(q)
      BY <2>1 DEF AddFinalizer
    <2>4. Finalizer(q) \notin mem[wanted[q]].fin =>
            Finalizer(q) \notin mem'[wanted[q]].fin
      BY <1>0, <1>1, <2>3, OnlyItsOwnAdds
    <2>5. <<q, wanted[q]>> \in unseen => <<q, wanted[q]>> \in unseen'
      BY <1>0, <1>1, <1>2, UnseenStays
    <2> QED
      BY <1>1, <2>1, <2>2, <2>4, <2>5
  <1>3. CASE phase[q] # "Gone" /\ ReconcileDelete(q)
    <2>1. /\ base[q] = wanted[q] /\ Copy(base[q]) = cached[wanted[q]]
          /\ mem' = mem /\ unseen' = unseen
      BY <1>0, <1>3 DEF ReconcileDelete, Final, Copy
    <2>2. /\ pc'[q] = "idle"
          /\ ~cached[wanted[q]].exists \/ ~Holds(q, cached[wanted[q]])
      BY <1>0, <1>3, <2>1 DEF ReconcileDelete, LetGo, Done, GoTo, TypeOK
    <2>3. Finalizer(q) \notin cached[wanted[q]].fin
      BY <1>0, <1>1, <2>2 DEF CachedAlive, Holds
    <2>4. Finalizer(q) \in mem[wanted[q]].fin => <<q, wanted[q]>> \in unseen
      BY <1>0, <1>1, <1>3, <2>3 DEF Recorded
    <2> QED
      BY <1>1, <2>1, <2>2, <2>4
  <1>4. CASE phase[q] # "Gone" /\ RemoveFinalizer(q)
    <2>1. work[q] \in Objects /\ base[q] = wanted[q]
      BY <1>0, <1>4, WorkType DEF RemoveFinalizer, TypeOK, Final
    <2>2. work[q].fin \ {Finalizer(q)} \in SUBSET Kinds
      BY <2>1 DEF Objects
    <2>3. /\ pc'[q] = "idle"
          /\ Updated(wanted[q], work[q], work[q].fin \ {Finalizer(q)})
      BY <1>0, <1>4, <2>1 DEF RemoveFinalizer, LetGo, Done, GoTo, TypeOK
    <2>4. mem'[wanted[q]].fin = work[q].fin \ {Finalizer(q)}
      BY <1>0, <1>1, <2>2, <2>3, UpdatedFacts
    <2> QED
      BY <1>1, <2>3, <2>4
  <1>5. phase[q] = "Gone" \/ ReconcileDelete(q) \/ RemoveFinalizer(q)
    <2>1. \/ UNCHANGED phase
          \/ \E r \in Resources :
                DeleteCR(r) \/ ReconcileDelete(r) \/ RemoveFinalizer(r)
      BY DEF Next, Reconcile, Start, EnsureMemcached, AddFinalizer, Deploy,
             UpdateSpec, DeleteMemcached, CreateMemcached, Sync, vars
    <2>2. ASSUME NEW r \in Resources, DeleteCR(r) PROVE phase[q] = "Gone"
      BY <1>0, <2>2 DEF DeleteCR, TypeOK
    <2>3. ASSUME NEW r \in Resources, r # q, ReconcileDelete(r) \/ RemoveFinalizer(r)
          PROVE  phase'[q] = phase[q]
      BY <1>0, <2>3 DEF ReconcileDelete, RemoveFinalizer, LetGo, TypeOK
    <2> QED
      BY <2>1, <2>2, <2>3
  <1> QED
    BY <1>2, <1>3, <1>4, <1>5

\* As long as every kind of service resource exists once, the instance that a
\* resource named last does not carry its finalizer once the resource is gone,
\* whatever calls failed, however far the informers are behind and whatever
\* the spec named while an earlier reconcile was under way.  The one exception
\* is the finalizer of a resource that went before it was delivered to it.
THEOREM NothingIsHeldAfterwards ==
    OneResourcePerKind => (Spec => []NothingHeldAfterwards)
  <1> SUFFICES ASSUME OneResourcePerKind PROVE Spec => []NothingHeldAfterwards
    OBVIOUS
  <1>1. Init => GoneInv
    <2> SUFFICES ASSUME Init PROVE GoneInv
      OBVIOUS
    <2>1. \A r \in Resources : Final(r) /\ Recorded(r) /\ LetGone(r)
      BY DEF Init, New, Final, Recorded, LetGone
    <2>2. Alive /\ CachedAlive /\ Releasing
      BY DEF Init, New, Alive, CachedAlive, Releasing
    <2> QED
      BY <2>1, <2>2, InitType DEF GoneInv
  <1>2. GoneInv /\ [Next]_vars => GoneInv'
    <2> SUFFICES ASSUME GoneInv, [Next]_vars PROVE GoneInv'
      OBVIOUS
    <2>1. TypeOK' /\ Alive' /\ CachedAlive' /\ Releasing'
      BY NextType, AliveKept, CachedAliveKept, ReleasingKept DEF GoneInv
    <2>2. \A r \in Resources : Final(r)' /\ Recorded(r)' /\ LetGone(r)'
      BY FinalKept, RecordedKept, LetGoneKept
    <2> QED
      BY <2>1, <2>2 DEF GoneInv
  <1>3. GoneInv => NothingHeldAfterwards
    BY DEF GoneInv, LetGone, NothingHeldAfterwards
  <1> QED
    BY <1>1, <1>2, <1>3, PTL DEF Spec
=============================================================================
