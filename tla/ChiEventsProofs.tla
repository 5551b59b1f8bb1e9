--------------------------- MODULE ChiEventsProofs ---------------------------
(***************************************************************************)
(* The events of a CR and its worker, for any specifications, finalizers   *)
(* and addresses and any number of edits, flips, errors and restarts: the  *)
(* types, what the normalizer refuses, and what Convergence allows the     *)
(* worker to do to the StatefulSets.                                       *)
(***************************************************************************)
EXTENDS ChiEvents, TLAPS

-----------------------------------------------------------------------------
(* Versions, items and the queue                                           *)

\* The absent CR and the absent item have their types.
LEMMA NoVersion == NoCR \in Versions /\ NoItem \in Item
BY DEF NoCR, NoItem, Versions, Item

\* What is known of a CR that exists.
LEMMA VersionParts ==
    ASSUME NEW v \in Versions, v # NoCR
    PROVE  /\ v \in [spec : Specs, gen : Nat \ {0}, fin : SUBSET Fins, del : BOOLEAN]
           /\ v.spec \in Specs /\ v.gen \in Nat \ {0}
           /\ v.fin \in SUBSET Fins /\ v.del \in BOOLEAN
BY DEF Versions

\* The queue keeps its bound when an item replaces or joins another of the same CR.
LEMMA InsertType ==
    ASSUME QueueTypeOK, NEW it \in Item, Insert(it)
    PROVE  QueueTypeOK'
<1>1. cancelled' \in BOOLEAN
  BY Zenon DEF Insert
<1>2. <<it>> \in Seq(Item) /\ Len(<<it>>) <= 2
  OBVIOUS
<1>3. ASSUME pending # <<>>
      PROVE  <<Head(pending), it>> \in Seq(Item) /\ Len(<<Head(pending), it>>) <= 2
  BY <1>3 DEF QueueTypeOK
<1>4. pending' = <<it>> \/ (pending # <<>> /\ pending' = <<Head(pending), it>>)
  BY Zenon DEF Insert
<1> QED
  BY <1>1, <1>2, <1>3, <1>4 DEF QueueTypeOK

LEMMA EnqueueType ==
    ASSUME QueueTypeOK, NEW old \in Versions, NEW new \in Versions
    PROVE  /\ enqueueUpdate(old, new) => QueueTypeOK'
           /\ enqueueAdd(new) => QueueTypeOK'
           /\ NoInsert => QueueTypeOK'
<1>1. [old |-> old, new |-> new] \in Item /\ [old |-> NoCR, new |-> new] \in Item
  BY NoVersion DEF Item
<1>2. NoInsert => QueueTypeOK'
  BY DEF NoInsert, QueueTypeOK
<1> QED
  BY <1>1, <1>2, InsertType DEF enqueueUpdate, enqueueAdd

\* A write of the CR is a version the informer will see.
LEMMA WriteType ==
    ASSUME ApiTypeOK, stream \in Seq(Versions), NEW new \in Versions, Write(new)
    PROVE  ApiTypeOK' /\ stream' \in Seq(Versions)
<1> DEFINE n == IF new.del /\ new.fin = {} THEN NoCR ELSE new
<1>1. n \in Versions
  BY NoVersion
<1>2. cr' = n /\ stream' = IF n = cr THEN stream ELSE Append(stream, n)
  BY DEF Write
<1>3. Append(stream, n) \in Seq(Versions)
  BY <1>1
<1> QED
  BY <1>1, <1>2, <1>3 DEF Write, ApiTypeOK

\* A write of the status keeps the types.
LEMMA StatusMainType ==
    ASSUME ApiTypeOK, ip \in IPs, NEW s \in Statuses, NEW t \in BOOLEAN, StatusMain(s, t)
    PROVE  ApiTypeOK'
BY DEF StatusMain, ApiTypeOK, apiVars

\* The writes of the worker and of clients keep the CR a version.
LEMMA EditType ==
    ASSUME cr \in Versions, cr # NoCR, NEW fin \in SUBSET Fins
    PROVE  /\ [cr EXCEPT !.fin = fin] \in Versions
           /\ [cr EXCEPT !.del = TRUE, !.gen = @ + 1] \in Versions
           /\ \A s \in Specs : [cr EXCEPT !.spec = s, !.gen = @ + 1, !.fin = fin] \in Versions
<1>1. cr \in [spec : Specs, gen : Nat \ {0}, fin : SUBSET Fins, del : BOOLEAN]
  BY VersionParts
<1>2. cr.gen + 1 \in Nat \ {0}
  BY <1>1
<1>3. [cr EXCEPT !.fin = fin] \in Versions
  BY <1>1 DEF Versions
<1>4. [cr EXCEPT !.del = TRUE, !.gen = @ + 1] \in Versions
  BY <1>1, <1>2 DEF Versions
<1>5. ASSUME NEW s \in Specs
      PROVE  [cr EXCEPT !.spec = s, !.gen = @ + 1, !.fin = fin] \in Versions
  BY <1>1, <1>2, <1>5 DEF Versions
<1> QED
  BY <1>3, <1>4, <1>5

-----------------------------------------------------------------------------
(* Types                                                                   *)

LEMMA BoundsNat ==
    MaxEdits \in Nat /\ MaxFlips \in Nat /\ MaxErrors \in Nat /\ MaxRestarts \in Nat
BY EventsBoundsAssumption

\* The types hold at first and after each action.
LEMMA TypeInit == Init => TypeOK
<1> SUFFICES ASSUME Init PROVE TypeOK
  OBVIOUS
<1>1. cr \in Versions
  BY EventsSpecsAssumption DEF Init, Versions, Fins
<1>2. ApiTypeOK
  BY <1>1, NoVersion DEF Init, ApiTypeOK, Statuses
<1>3. ChildTypeOK /\ WorkerTypeOK
  <2>1. podReady \in BOOLEAN /\ keep \in BOOLEAN
    BY Zenon DEF Init
  <2> QED
    BY <2>1, NoVersion DEF Init, ChildTypeOK, WorkerTypeOK, Pcs
<1>4. FeedTypeOK
  <2>1. <<cr>> \in Seq(Versions)
    BY <1>1
  <2>2. <<>> \in Seq({"ready", "notready"})
    OBVIOUS
  <2> QED
    BY <2>1, <2>2, NoVersion DEF Init, FeedTypeOK
<1>5. QueueTypeOK
  <2>1. pending = <<>> /\ cancelled \in BOOLEAN
    BY Zenon DEF Init
  <2>2. <<>> \in Seq(Item) /\ Len(<<>>) <= 2
    OBVIOUS
  <2> QED
    BY <2>1, <2>2, Zenon DEF QueueTypeOK
<1>6. BoundTypeOK
  <2>1. edits = 0 /\ flips = 0 /\ errors = 0 /\ restarts = 0
    BY Zenon DEF Init
  <2>2. failed = {} /\ late = 0 /\ crdGoing \in BOOLEAN
    BY Zenon DEF Init
  <2> QED
    BY <2>1, <2>2, BoundsNat DEF BoundTypeOK
<1> QED
  BY <1>2, <1>3, <1>4, <1>5, <1>6 DEF TypeOK

\* Parts of the state that a step leaves alone keep their types.
LEMMA SameTypes ==
    /\ ApiTypeOK /\ UNCHANGED apiVars => ApiTypeOK'
    /\ ChildTypeOK /\ UNCHANGED childVars => ChildTypeOK'
    /\ FeedTypeOK /\ UNCHANGED feedVars => FeedTypeOK'
    /\ QueueTypeOK /\ UNCHANGED <<pending, cancelled>> => QueueTypeOK'
    /\ WorkerTypeOK /\ UNCHANGED workerVars => WorkerTypeOK'
    /\ BoundTypeOK /\ UNCHANGED boundVars => BoundTypeOK'
<1>1. ApiTypeOK /\ UNCHANGED apiVars => ApiTypeOK'
  BY DEF ApiTypeOK, apiVars
<1>2. ChildTypeOK /\ UNCHANGED childVars => ChildTypeOK'
  BY DEF ChildTypeOK, childVars
<1>3. FeedTypeOK /\ UNCHANGED feedVars => FeedTypeOK'
  BY DEF FeedTypeOK, feedVars
<1>4. QueueTypeOK /\ UNCHANGED <<pending, cancelled>> => QueueTypeOK'
  BY DEF QueueTypeOK
<1>5. WorkerTypeOK /\ UNCHANGED workerVars => WorkerTypeOK'
  BY DEF WorkerTypeOK, workerVars
<1>6. BoundTypeOK /\ UNCHANGED boundVars => BoundTypeOK'
  BY DEF BoundTypeOK, boundVars
<1> QED
  BY <1>1, <1>2, <1>3, <1>4, <1>5, <1>6

LEMMA TypeDeliver == TypeOK /\ Deliver => TypeOK'
<1> SUFFICES ASSUME TypeOK, Deliver PROVE TypeOK'
  OBVIOUS
<1> USE DEF TypeOK
<1>1. PICK n \in 1 .. Len(stream) :
         /\ cache' = stream[n]
         /\ stream' = SubSeq(stream, n + 1, Len(stream))
         /\ IF stream[n] = NoCR THEN NoInsert
            ELSE IF cache = NoCR THEN enqueueAdd(stream[n])
            ELSE enqueueUpdate(cache, stream[n])
  BY DEF Deliver
<1>2. stream[n] \in Versions
  BY DEF FeedTypeOK
<1>3. stream' \in Seq(Versions)
  BY <1>1 DEF FeedTypeOK
<1>4. FeedTypeOK'
  BY <1>1, <1>2, <1>3 DEF FeedTypeOK, Deliver
<1>5. QueueTypeOK'
  BY <1>1, <1>2, EnqueueType DEF FeedTypeOK
<1>6. ApiTypeOK' /\ ChildTypeOK' /\ WorkerTypeOK' /\ BoundTypeOK'
  BY DEF Deliver, apiVars, childVars, workerVars, boundVars, ApiTypeOK, ChildTypeOK,
         WorkerTypeOK, BoundTypeOK
<1> QED
  BY <1>4, <1>5, <1>6

LEMMA TypeResync == TypeOK /\ Resync => TypeOK'
<1> SUFFICES ASSUME TypeOK, Resync PROVE TypeOK'
  OBVIOUS
<1>1. QueueTypeOK'
  BY EnqueueType DEF TypeOK, Resync, FeedTypeOK
<1> QED
  BY <1>1, SameTypes DEF TypeOK, Resync

LEMMA TypeTake == TypeOK /\ Take => TypeOK'
<1> SUFFICES ASSUME TypeOK, Take PROVE TypeOK'
  OBVIOUS
<1>1. pending \in Seq(Item) /\ pending # <<>> /\ Len(pending) <= 2
  BY DEF TypeOK, QueueTypeOK, Take
<1>2. Head(pending) \in Item /\ Tail(pending) \in Seq(Item) /\ Len(Tail(pending)) <= 2
  BY <1>1
<1>3. item' = Head(pending) /\ pending' = Tail(pending) /\ cancelled' \in BOOLEAN
      /\ pc' = "ensure" /\ live' = live /\ keep' = keep
  BY Zenon DEF Take
<1>4. QueueTypeOK'
  BY <1>2, <1>3, Zenon DEF QueueTypeOK
<1>5. WorkerTypeOK'
  BY <1>2, <1>3 DEF TypeOK, WorkerTypeOK, Pcs
<1> QED
  BY <1>4, <1>5, SameTypes DEF TypeOK, Take

LEMMA TypeEnsure == TypeOK /\ ensureFinalizer => TypeOK'
<1> SUFFICES ASSUME TypeOK, ensureFinalizer PROVE TypeOK'
  OBVIOUS
<1>1. WorkerTypeOK'
  BY DEF TypeOK, WorkerTypeOK, ApiTypeOK, ensureFinalizer, Pcs
<1> QED
  BY <1>1, SameTypes DEF TypeOK, ensureFinalizer

LEMMA TypeInstall == TypeOK /\ installFinalizer => TypeOK'
<1> SUFFICES ASSUME TypeOK, installFinalizer PROVE TypeOK'
  OBVIOUS
<1>1. WorkerTypeOK'
  BY DEF TypeOK, WorkerTypeOK, installFinalizer, Pcs
<1>2. ApiTypeOK' /\ stream' \in Seq(Versions)
  <2>1. live.fin \cup {"own"} \in SUBSET Fins
    BY NoVersion, VersionParts DEF TypeOK, WorkerTypeOK, Fins, NoCR
  <2>2. CASE Exists /\ ~cr.del
    <3>1. [cr EXCEPT !.fin = live.fin \cup {"own"}] \in Versions
      BY <2>1, <2>2, EditType DEF TypeOK, ApiTypeOK, Exists
    <3> QED
      BY <2>2, <3>1, WriteType DEF TypeOK, FeedTypeOK, installFinalizer
  <2>3. CASE ~(Exists /\ ~cr.del)
    BY <2>3, SameTypes DEF TypeOK, FeedTypeOK, installFinalizer
  <2> QED
    BY <2>2, <2>3
<1>3. FeedTypeOK'
  BY <1>2 DEF TypeOK, FeedTypeOK, installFinalizer
<1> QED
  BY <1>1, <1>2, <1>3, SameTypes DEF TypeOK, installFinalizer

LEMMA TypeUpdate == TypeOK /\ updateCHI => TypeOK'
<1> SUFFICES ASSUME TypeOK, updateCHI PROVE TypeOK'
  OBVIOUS
<1>1. keep' \in BOOLEAN
  BY Zenon DEF updateCHI
<1>2. WorkerTypeOK'
  BY <1>1 DEF TypeOK, WorkerTypeOK, ApiTypeOK, updateCHI, Pcs, Exists
<1> QED
  BY <1>2, SameTypes DEF TypeOK, updateCHI

\* A call that fails is counted and noted.
LEMMA FailsType ==
    ASSUME BoundTypeOK, NEW f, Fails(f)
    PROVE  BoundTypeOK'
BY BoundsNat DEF BoundTypeOK, Fails

LEMMA TypeFails == TypeOK /\ FailNext => TypeOK'
<1> SUFFICES ASSUME TypeOK, FailNext PROVE TypeOK'
  OBVIOUS
<1>1. BoundTypeOK'
  BY FailsType DEF TypeOK, FailNext, updateCHIFails, deleteCHIFails, deleteCRProtocolFails,
                   uninstallFinalizerFails
<1>2. /\ UNCHANGED <<apiVars, childVars, feedVars, pending, cancelled>>
      /\ item' = item
  BY DEF FailNext, updateCHIFails, deleteCHIFails, deleteCRProtocolFails,
         uninstallFinalizerFails
<1>3. keep' = keep \/ keep' = FALSE
  BY Zenon DEF FailNext, updateCHIFails, deleteCHIFails, deleteCRProtocolFails,
               uninstallFinalizerFails
<1>4. keep' \in BOOLEAN
  BY <1>3, Zenon DEF TypeOK, WorkerTypeOK
<1>5. \/ pc' \in {"idle", "uninstall"} /\ live' = live
      \/ pc' \in {"delete", "gate"} /\ live' = cr /\ cr # NoCR
  BY DEF FailNext, updateCHIFails, deleteCHIFails, deleteCRProtocolFails,
         uninstallFinalizerFails, Exists
<1>6. WorkerTypeOK'
  BY <1>2, <1>4, <1>5 DEF TypeOK, WorkerTypeOK, ApiTypeOK, Pcs
<1> QED
  BY <1>1, <1>2, <1>6, SameTypes DEF TypeOK

LEMMA TypeEndpoints == TypeOK /\ (updateEndpoints \/ updateEndpointsWrites) => TypeOK'
<1> SUFFICES ASSUME TypeOK, updateEndpoints \/ updateEndpointsWrites PROVE TypeOK'
  OBVIOUS
<1>1. FeedTypeOK'
  BY NoVersion DEF TypeOK, FeedTypeOK, ApiTypeOK, updateEndpoints, updateEndpointsWrites
<1>2. ChildTypeOK'
  <2>1. hold # NoCR => hold.spec \in Specs
    BY VersionParts DEF TypeOK, FeedTypeOK
  <2>2. /\ podReady' = podReady /\ conf' = conf /\ sts' = sts
        /\ \/ UNCHANGED <<users, kept>>
           \/ users' = hold.spec /\ hold # NoCR /\ kept' = kept \ {"users"}
    BY DEF updateEndpoints, updateEndpointsWrites, childVars
  <2> QED
    BY <2>1, <2>2 DEF TypeOK, ChildTypeOK
<1> QED
  BY <1>1, <1>2, SameTypes DEF TypeOK, updateEndpoints, updateEndpointsWrites

LEMMA TypeReconcile == TypeOK /\ reconcileCR => TypeOK'
<1> SUFFICES ASSUME TypeOK, reconcileCR PROVE TypeOK'
  OBVIOUS
<1>1. WorkerTypeOK'
  <2>1. pc' \in {"idle", "uninstall", "aux"} /\ live # NoCR
    BY DEF TypeOK, WorkerTypeOK, reconcileCR, AfterPass
  <2> QED
    BY <2>1 DEF TypeOK, WorkerTypeOK, reconcileCR, Pcs
<1>2. ApiTypeOK'
  <2>1. \/ UNCHANGED apiVars
        \/ StatusMain("Aborted", TRUE)
        \/ StatusMain("Aborted", tagged)
        \/ StatusMain("InProgress", tagged)
    BY DEF reconcileCR
  <2>2. {"Aborted", "InProgress"} \subseteq Statuses /\ tagged \in BOOLEAN /\ ip \in IPs
    BY DEF Statuses, TypeOK, ApiTypeOK, FeedTypeOK
  <2> QED
    BY <2>1, <2>2, SameTypes, StatusMainType DEF TypeOK
<1> QED
  BY <1>1, <1>2, SameTypes DEF TypeOK, reconcileCR

LEMMA TypeAux == TypeOK /\ reconcileAux => TypeOK'
<1> SUFFICES ASSUME TypeOK, reconcileAux PROVE TypeOK'
  OBVIOUS
<1>1. live \in Versions /\ live # NoCR /\ live.spec \in Specs
  BY VersionParts DEF TypeOK, WorkerTypeOK, reconcileAux
<1>2. WorkerTypeOK'
  BY <1>1 DEF TypeOK, WorkerTypeOK, reconcileAux, AfterPass, Pcs
<1>3. kept' \subseteq Children
  BY DEF TypeOK, ChildTypeOK, reconcileAux, Written, Children
<1>4. ChildTypeOK'
  BY <1>1, <1>3 DEF TypeOK, ChildTypeOK, reconcileAux
<1> QED
  BY <1>2, <1>4, SameTypes DEF TypeOK, reconcileAux

LEMMA TypeHosts == TypeOK /\ reconcileHosts => TypeOK'
<1> SUFFICES ASSUME TypeOK, reconcileHosts PROVE TypeOK'
  OBVIOUS
<1>1. live \in Versions /\ live # NoCR /\ Sts[live.spec] \in Nat
  BY VersionParts, EventsSpecsAssumption DEF TypeOK, WorkerTypeOK, reconcileHosts
<1>2. podReady' \in BOOLEAN /\ pc' \in {"idle", "uninstall", "finalize", "fail"}
  BY Zenon DEF TypeOK, ChildTypeOK, reconcileHosts, AfterPass
<1>3. sts' \in Nat
  BY <1>1 DEF TypeOK, ChildTypeOK, reconcileHosts
<1>4. WorkerTypeOK'
  BY <1>1, <1>2 DEF TypeOK, WorkerTypeOK, reconcileHosts, Pcs
<1>5. kept' \subseteq Children
  BY DEF TypeOK, ChildTypeOK, reconcileHosts, Written, Children
<1>6. ChildTypeOK'
  BY <1>2, <1>3, <1>5 DEF TypeOK, ChildTypeOK, reconcileHosts
<1> QED
  BY <1>4, <1>6, SameTypes DEF TypeOK, reconcileHosts

LEMMA TypeFailed == TypeOK /\ markReconcileCompletedUnsuccessfully => TypeOK'
<1> SUFFICES ASSUME TypeOK, markReconcileCompletedUnsuccessfully PROVE TypeOK'
  OBVIOUS
<1>1. WorkerTypeOK'
  BY DEF TypeOK, WorkerTypeOK, markReconcileCompletedUnsuccessfully, AfterPass, Pcs
<1>2. ApiTypeOK'
  BY SameTypes, StatusMainType
  DEF TypeOK, ApiTypeOK, FeedTypeOK, Statuses, markReconcileCompletedUnsuccessfully
<1> QED
  BY <1>1, <1>2, SameTypes DEF TypeOK, markReconcileCompletedUnsuccessfully

LEMMA TypeFinalize == TypeOK /\ finalizeCR => TypeOK'
<1> SUFFICES ASSUME TypeOK, finalizeCR PROVE TypeOK'
  OBVIOUS
<1>1. WorkerTypeOK'
  BY DEF TypeOK, WorkerTypeOK, finalizeCR, AfterPass, Pcs
<1>2. ApiTypeOK'
  <2>1. CASE UNCHANGED apiVars
    BY <2>1, SameTypes DEF TypeOK
  <2>2. CASE ~UNCHANGED apiVars
    <3>1. /\ cr' = cr /\ chopIP' = ip /\ status' \in {"Aborted", "Completed"}
          /\ done' \in {cr, done} /\ (tagged' = TRUE \/ tagged' = tagged)
      BY <2>2 DEF finalizeCR, Complete
    <3>2. tagged' \in BOOLEAN
      BY <3>1, Zenon DEF TypeOK, ApiTypeOK
    <3> QED
      BY <3>1, <3>2 DEF TypeOK, ApiTypeOK, FeedTypeOK, Statuses
  <2> QED
    BY <2>1, <2>2
<1>3. \/ UNCHANGED <<users, kept, late>>
      \/ /\ Exists /\ users' = cr.spec /\ kept' = kept \ {"users"}
         /\ late' \in {0, cr.spec}
  BY DEF finalizeCR, Complete
<1>4. Exists => cr.spec \in Specs
  BY VersionParts DEF TypeOK, ApiTypeOK, Exists
<1>5. ChildTypeOK'
  BY <1>3, <1>4 DEF TypeOK, ChildTypeOK, finalizeCR
<1>6. BoundTypeOK'
  BY <1>3, <1>4 DEF TypeOK, BoundTypeOK, finalizeCR
<1> QED
  BY <1>1, <1>2, <1>5, <1>6, SameTypes DEF TypeOK, finalizeCR

LEMMA TypeDeleteProtocol == TypeOK /\ deleteCRProtocol => TypeOK'
<1> SUFFICES ASSUME TypeOK, deleteCRProtocol PROVE TypeOK'
  OBVIOUS
<1>1. WorkerTypeOK'
  BY DEF TypeOK, WorkerTypeOK, deleteCRProtocol, Pcs
<1>2. ApiTypeOK'
  BY SameTypes, StatusMainType
  DEF TypeOK, ApiTypeOK, FeedTypeOK, Statuses, deleteCRProtocol
<1>3. ChildTypeOK'
  <2>1. UNCHANGED <<conf, users, sts>> \/ (conf' = 0 /\ users' = 0 /\ sts' = 0)
    BY DEF deleteCRProtocol
  <2>2. podReady' = podReady /\ kept' = kept
    BY DEF deleteCRProtocol
  <2>3. 0 \in Nat
    OBVIOUS
  <2> QED
    BY <2>1, <2>2, <2>3, Zenon DEF TypeOK, ChildTypeOK
<1> QED
  BY <1>1, <1>2, <1>3, SameTypes DEF TypeOK, deleteCRProtocol

LEMMA TypeUninstall == TypeOK /\ uninstallFinalizer => TypeOK'
<1> SUFFICES ASSUME TypeOK, uninstallFinalizer PROVE TypeOK'
  OBVIOUS
<1>1. keep' \in BOOLEAN
  BY Zenon DEF uninstallFinalizer
<1>2. WorkerTypeOK'
  BY <1>1 DEF TypeOK, WorkerTypeOK, ApiTypeOK, uninstallFinalizer, Pcs
<1> QED
  BY <1>2, SameTypes DEF TypeOK, uninstallFinalizer

LEMMA TypePatch == TypeOK /\ patchCHIFinalizers => TypeOK'
<1> SUFFICES ASSUME TypeOK, patchCHIFinalizers PROVE TypeOK'
  OBVIOUS
<1>1. WorkerTypeOK'
  BY DEF TypeOK, WorkerTypeOK, patchCHIFinalizers, Pcs
<1>2. ApiTypeOK' /\ stream' \in Seq(Versions)
  <2>1. live.fin \ {"own"} \in SUBSET Fins
    BY NoVersion, VersionParts DEF TypeOK, WorkerTypeOK, Fins, NoCR
  <2>2. CASE ~cancelled /\ Exists /\ live.fin \ {"own"} \subseteq cr.fin
    <3>1. [cr EXCEPT !.fin = live.fin \ {"own"}] \in Versions
      BY <2>1, <2>2, EditType DEF TypeOK, ApiTypeOK, Exists
    <3> QED
      BY <2>2, <3>1, WriteType DEF TypeOK, FeedTypeOK, patchCHIFinalizers
  <2>3. CASE ~(~cancelled /\ Exists /\ live.fin \ {"own"} \subseteq cr.fin)
    BY <2>3, SameTypes DEF TypeOK, FeedTypeOK, patchCHIFinalizers
  <2> QED
    BY <2>2, <2>3
<1>3. FeedTypeOK'
  BY <1>2 DEF TypeOK, FeedTypeOK, patchCHIFinalizers
<1> QED
  BY <1>1, <1>2, <1>3, SameTypes DEF TypeOK, patchCHIFinalizers

\* The system worker takes the first of the readiness transitions.
LEMMA PodEventTaken ==
    ASSUME FeedTypeOK, podEvents # <<>>, podEvents' = Tail(podEvents), timer' \in Versions,
           UNCHANGED <<ip, stream, cache, hold>>
    PROVE  FeedTypeOK'
BY DEF FeedTypeOK

LEMMA TypeRecoverAborted == TypeOK /\ recoverAbortedReconcileOnPodReady => TypeOK'
<1> SUFFICES ASSUME TypeOK, recoverAbortedReconcileOnPodReady PROVE TypeOK'
  OBVIOUS
<1>1. QueueTypeOK'
  BY EnqueueType DEF TypeOK, ApiTypeOK, recoverAbortedReconcileOnPodReady
<1>2. FeedTypeOK'
  BY PodEventTaken DEF TypeOK, FeedTypeOK, recoverAbortedReconcileOnPodReady
<1> QED
  BY <1>1, <1>2, SameTypes DEF TypeOK, recoverAbortedReconcileOnPodReady

LEMMA TypeRecoverCompleted == TypeOK /\ recoverCompletedReconcileOnPodNotReady => TypeOK'
<1> SUFFICES ASSUME TypeOK, recoverCompletedReconcileOnPodNotReady PROVE TypeOK'
  OBVIOUS
<1>1. timer' \in Versions
  BY DEF TypeOK, ApiTypeOK, FeedTypeOK, recoverCompletedReconcileOnPodNotReady
<1>2. FeedTypeOK'
  BY <1>1, PodEventTaken DEF TypeOK, recoverCompletedReconcileOnPodNotReady
<1> QED
  BY <1>2, SameTypes DEF TypeOK, recoverCompletedReconcileOnPodNotReady

LEMMA TypeTimer == TypeOK /\ TimerFires => TypeOK'
<1> SUFFICES ASSUME TypeOK, TimerFires PROVE TypeOK'
  OBVIOUS
<1>1. QueueTypeOK'
  BY EnqueueType DEF TypeOK, FeedTypeOK, TimerFires
<1>2. FeedTypeOK'
  BY NoVersion DEF TypeOK, FeedTypeOK, TimerFires
<1> QED
  BY <1>1, <1>2, SameTypes DEF TypeOK, TimerFires

\* An edit of the CR by a client.
LEMMA EditStepType ==
    ASSUME TypeOK, CanEdit, EnvUnchanged, crdGoing' \in BOOLEAN,
           NEW new \in Versions, Write(new)
    PROVE  TypeOK'
<1>1. ApiTypeOK' /\ stream' \in Seq(Versions)
  BY WriteType DEF TypeOK, FeedTypeOK
<1>2. FeedTypeOK'
  BY <1>1 DEF TypeOK, FeedTypeOK, EnvUnchanged
<1>3. BoundTypeOK'
  BY BoundsNat DEF TypeOK, BoundTypeOK, CanEdit, EnvUnchanged
<1> QED
  BY <1>1, <1>2, <1>3, SameTypes DEF TypeOK, EnvUnchanged

LEMMA TypeEditSpec == TypeOK /\ EditSpec => TypeOK'
<1> SUFFICES ASSUME TypeOK, EditSpec PROVE TypeOK'
  OBVIOUS
<1>1. PICK s \in Specs, fin \in {cr.fin, cr.fin \ {"own"}} :
         Write([cr EXCEPT !.spec = s, !.gen = @ + 1, !.fin = fin])
  BY DEF EditSpec
<1>2. cr \in Versions /\ cr # NoCR /\ fin \in SUBSET Fins
  BY VersionParts DEF TypeOK, ApiTypeOK, EditSpec, Exists
<1>3. [cr EXCEPT !.spec = s, !.gen = @ + 1, !.fin = fin] \in Versions
  BY <1>2, EditType
<1>4. crdGoing' \in BOOLEAN
  BY Zenon DEF TypeOK, BoundTypeOK, EditSpec
<1> QED
  BY <1>1, <1>3, <1>4, EditStepType DEF EditSpec

LEMMA TypeEditFinalizers == TypeOK /\ EditFinalizers => TypeOK'
<1> SUFFICES ASSUME TypeOK, EditFinalizers PROVE TypeOK'
  OBVIOUS
<1>1. cr \in Versions /\ cr # NoCR /\ cr.fin \in SUBSET Fins
  BY VersionParts DEF TypeOK, ApiTypeOK, EditFinalizers, Exists
<1>2. PICK f \in Foreign : \/ Write([cr EXCEPT !.fin = @ \ {f}])
                          \/ Write([cr EXCEPT !.fin = @ \cup {f}])
  BY DEF EditFinalizers
<1>3. cr.fin \ {f} \in SUBSET Fins /\ cr.fin \cup {f} \in SUBSET Fins
  BY <1>1 DEF Fins
<1>4. [cr EXCEPT !.fin = @ \ {f}] \in Versions /\ [cr EXCEPT !.fin = @ \cup {f}] \in Versions
  BY <1>1, <1>3, EditType
<1>5. crdGoing' \in BOOLEAN
  BY Zenon DEF TypeOK, BoundTypeOK, EditFinalizers
<1> QED
  BY <1>2, <1>4, <1>5, EditStepType DEF EditFinalizers

LEMMA TypeDelete == TypeOK /\ (Delete \/ DeleteCRD) => TypeOK'
<1> SUFFICES ASSUME TypeOK, Delete \/ DeleteCRD PROVE TypeOK'
  OBVIOUS
<1>1. [cr EXCEPT !.del = TRUE, !.gen = @ + 1] \in Versions
  BY EditType DEF TypeOK, ApiTypeOK, Delete, DeleteCRD, Exists
<1>2. crdGoing' \in BOOLEAN
  BY Zenon DEF TypeOK, BoundTypeOK, Delete, DeleteCRD
<1> QED
  BY <1>1, <1>2, EditStepType DEF Delete, DeleteCRD

LEMMA TypePodFlips == TypeOK /\ PodFlips => TypeOK'
<1> SUFFICES ASSUME TypeOK, PodFlips PROVE TypeOK'
  OBVIOUS
<1>1. (IF podReady THEN "notready" ELSE "ready") \in {"ready", "notready"}
  OBVIOUS
<1>2. podEvents' \in Seq({"ready", "notready"})
  BY <1>1 DEF TypeOK, FeedTypeOK, PodFlips
<1>3. FeedTypeOK'
  BY <1>2 DEF TypeOK, FeedTypeOK, PodFlips
<1>4. podReady' \in BOOLEAN
  BY Zenon DEF PodFlips
<1>5. ChildTypeOK'
  BY <1>4 DEF TypeOK, ChildTypeOK, PodFlips
<1>6. BoundTypeOK'
  BY BoundsNat DEF TypeOK, BoundTypeOK, PodFlips
<1> QED
  BY <1>3, <1>5, <1>6, SameTypes DEF TypeOK, PodFlips

LEMMA TypeCollect == TypeOK /\ GarbageCollect => TypeOK'
<1> SUFFICES ASSUME TypeOK, GarbageCollect PROVE TypeOK'
  OBVIOUS
<1>1. ChildTypeOK'
  BY DEF TypeOK, ChildTypeOK, GarbageCollect, Owned
<1> QED
  BY <1>1, SameTypes DEF TypeOK, GarbageCollect

LEMMA TypeRestart == TypeOK /\ Restart => TypeOK'
<1> SUFFICES ASSUME TypeOK, Restart PROVE TypeOK'
  OBVIOUS
<1>1. FeedTypeOK'
  <2>1. /\ ip' \in IPs /\ stream' = <<>> /\ cache' = cr /\ podEvents' = <<>>
        /\ {timer', hold'} \subseteq {NoCR}
    BY DEF Restart
  <2>2. <<>> \in Seq(Versions) /\ <<>> \in Seq({"ready", "notready"})
    OBVIOUS
  <2> QED
    BY <2>1, <2>2, NoVersion DEF TypeOK, ApiTypeOK, FeedTypeOK
<1>2. [old |-> NoCR, new |-> cr] \in Item
  BY NoVersion DEF TypeOK, ApiTypeOK, Item
<1>3. pending' = <<[old |-> NoCR, new |-> cr]>> \/ pending' = <<>>
  BY Zenon DEF Restart
<1>4. pending' \in Seq(Item) /\ Len(pending') <= 2
  <2>1. \A x \in Item : <<x>> \in Seq(Item) /\ Len(<<x>>) <= 2
    OBVIOUS
  <2>2. <<>> \in Seq(Item) /\ Len(<<>>) <= 2
    OBVIOUS
  <2> QED
    BY <1>2, <1>3, <2>1, <2>2, Zenon
<1>5. cancelled' \in BOOLEAN
  BY Zenon DEF Restart
<1>6. QueueTypeOK'
  BY <1>4, <1>5 DEF QueueTypeOK
<1>7. WorkerTypeOK'
  <2>1. keep' \in BOOLEAN
    BY Zenon DEF Restart
  <2> QED
    BY <2>1, NoVersion DEF WorkerTypeOK, Restart, Pcs
<1>8. BoundTypeOK'
  BY BoundsNat DEF TypeOK, BoundTypeOK, Restart
<1> QED
  BY <1>1, <1>6, <1>7, <1>8, SameTypes DEF TypeOK, Restart

LEMMA TypeStep == TypeOK /\ [Next]_vars => TypeOK'
<1>1. TypeOK /\ UNCHANGED vars => TypeOK'
  BY SameTypes DEF TypeOK, vars
<1> QED
  BY <1>1, TypeDeliver, TypeResync, TypeTake, TypeEnsure, TypeInstall, TypeUpdate,
     TypeFails, TypeEndpoints, TypeReconcile, TypeAux, TypeHosts, TypeFailed, TypeFinalize,
     TypeDeleteProtocol, TypeUninstall, TypePatch, TypeRecoverAborted,
     TypeRecoverCompleted, TypeTimer, TypeEditSpec, TypeEditFinalizers, TypeDelete,
     TypePodFlips, TypeCollect, TypeRestart
  DEF Next, WorkerNext, RecoveryNext

\* The worker, the queue and the watch keep to their types, and the queue
\* never holds more than two items of the CR (enqueueObject, updateCHI).
THEOREM EventsTypeCorrect == Spec => []TypeOK
<1> QED
  BY TypeInit, TypeStep, PTL DEF Spec

-----------------------------------------------------------------------------
(* What the normalizer refuses                                             *)

\* The gate has let the pass through, and what it read is not refused.
PastGate == {"aux", "hosts", "fail", "finalize"}
RefusedInv ==
    /\ pc \in PastGate => live.spec \notin Refused
    /\ RefusedNeverApplied

\* The absent specification is not refused.
LEMMA NoneRefused == 0 \notin Refused /\ NoCR.spec = 0
BY EventsSpecsAssumption DEF NoCR

LEMMA RefusedInit == Init => RefusedInv
BY NoneRefused DEF Init, RefusedInv, RefusedNeverApplied, PastGate

\* A step of the worker: only the gate, with a specification it accepts, starts a
\* pass; only the pass writes ConfigMaps, and only finalizeCR, which looks again,
\* the ancestor.
LEMMA RefusedWorker == TypeOK /\ RefusedInv /\ WorkerNext => RefusedInv'
<1> SUFFICES ASSUME TypeOK, RefusedInv, WorkerNext PROVE RefusedInv'
  OBVIOUS
<1> USE DEF RefusedInv, RefusedNeverApplied, PastGate
<1>1. CASE Take
  BY <1>1 DEF Take, apiVars, childVars
<1>2. CASE ensureFinalizer
  BY <1>2 DEF ensureFinalizer, apiVars, childVars
<1>3. CASE installFinalizer
  BY <1>3 DEF installFinalizer, Write, apiVars, childVars
<1>4. CASE updateCHI
  BY <1>4 DEF updateCHI, apiVars, childVars
<1>5. CASE reconcileCR
  <2>1. live' = live /\ conf' = conf /\ users' = users /\ done' = done
    BY <1>5 DEF reconcileCR, StatusMain, apiVars, childVars
  <2>2. pc' \in PastGate => live.spec \notin Refused
    BY <1>5 DEF reconcileCR, AfterPass
  <2> QED
    BY <2>1, <2>2
<1>6. CASE reconcileAux
  BY <1>6 DEF reconcileAux, AfterPass, apiVars
<1>7. CASE reconcileHosts
  BY <1>7 DEF reconcileHosts, AfterPass, apiVars
<1>8. CASE markReconcileCompletedUnsuccessfully
  BY <1>8 DEF markReconcileCompletedUnsuccessfully, AfterPass, StatusMain, apiVars, childVars
<1>9. CASE finalizeCR
  <2>1. pc' \notin PastGate /\ conf' = conf
    BY <1>9 DEF finalizeCR, AfterPass
  <2>2. UNCHANGED <<users, done>> \/ (users' = cr.spec /\ done' = cr /\ cr.spec \notin Refused)
    BY <1>9 DEF finalizeCR, Complete, apiVars
  <2> QED
    BY <2>1, <2>2
<1>10. CASE deleteCRProtocol
  BY <1>10, NoneRefused DEF deleteCRProtocol, StatusMain, apiVars
<1>11. CASE uninstallFinalizer
  BY <1>11 DEF uninstallFinalizer, apiVars, childVars
<1>12. CASE patchCHIFinalizers
  BY <1>12 DEF patchCHIFinalizers, Write, apiVars, childVars
<1> QED
  BY <1>1, <1>2, <1>3, <1>4, <1>5, <1>6, <1>7, <1>8, <1>9, <1>10, <1>11, <1>12
  DEF WorkerNext

\* Nothing else does but updateEndpoints, which looks too.
LEMMA RefusedOther == TypeOK /\ RefusedInv /\ [Next]_vars /\ ~WorkerNext => RefusedInv'
<1> SUFFICES ASSUME TypeOK, RefusedInv, [Next]_vars, ~WorkerNext PROVE RefusedInv'
  OBVIOUS
<1> USE DEF RefusedInv, RefusedNeverApplied, PastGate
<1>1. CASE RecoveryNext
  BY <1>1 DEF RecoveryNext, recoverAbortedReconcileOnPodReady,
       recoverCompletedReconcileOnPodNotReady, TimerFires, apiVars, childVars, workerVars
<1>2. CASE Deliver \/ Resync
  BY <1>2 DEF Deliver, Resync, apiVars, childVars, workerVars
<1>3. CASE GarbageCollect
  BY <1>3, NoneRefused DEF GarbageCollect, Owned, apiVars, workerVars
<1>4. CASE FailNext
  BY <1>4 DEF FailNext, updateCHIFails, deleteCHIFails, deleteCRProtocolFails,
              uninstallFinalizerFails, apiVars, childVars
<1>5. CASE EditSpec \/ EditFinalizers \/ Delete \/ DeleteCRD
  BY <1>5 DEF EditSpec, EditFinalizers, Delete, DeleteCRD, Write, EnvUnchanged, childVars, workerVars
<1>6. CASE PodFlips
  BY <1>6 DEF PodFlips, apiVars, workerVars
<1>7. CASE Restart
  BY <1>7 DEF Restart, apiVars, childVars
<1>8. CASE UNCHANGED vars
  BY <1>8 DEF vars, apiVars, childVars, workerVars
<1>9. CASE updateEndpoints \/ updateEndpointsWrites
  BY <1>9 DEF updateEndpoints, updateEndpointsWrites, apiVars, childVars, workerVars
<1> QED
  BY <1>1, <1>2, <1>3, <1>4, <1>5, <1>6, <1>7, <1>8, <1>9 DEF Next

\* A specification the normalizer refuses reaches neither the ConfigMaps nor the
\* ancestor, however events, edits and passes interleave (reconcileCR, finalizeCR).
THEOREM RefusalSafe == Spec => []RefusedNeverApplied
<1>1. TypeOK /\ RefusedInv /\ [Next]_vars => RefusedInv'
  BY RefusedWorker, RefusedOther
<1>2. RefusedInv => RefusedNeverApplied
  BY DEF RefusedInv
<1> QED
  BY <1>1, <1>2, RefusedInit, EventsTypeCorrect, PTL DEF Spec

-----------------------------------------------------------------------------
(* The refinement of Convergence                                           *)

\* Clients only go forward, a later specification never asks for an older
\* version of the StatefulSets, no other controller holds the CR back, and the
\* reads by which deleteCHI decides do not fail.
Forward ==
    /\ ~MayRevert
    /\ \A r, s \in Specs : r <= s => Sts[r] <= Sts[s]
    /\ Foreign = {}
    /\ Faults \cap {"crd", "reget"} = {}

InPass == PastGate \cup {"gate"}

\* What a pass has read is neither behind the StatefulSets nor ahead of the CR.
ReadInv ==
    /\ Exists => sts <= Sts[cr.spec]
    /\ pc \in InPass => sts <= Sts[live.spec] /\ (Exists => live.spec <= cr.spec)

\* Terminating is written of a CR marked deleted, which the finalizer keeps,
\* and no pass runs after it; never of one that goes with its CRD.
TerminatingInv ==
    /\ Exists /\ cr.del => "own" \in cr.fin
    /\ pc = "delete" \/ status = "Terminating" => ~Wanted
    /\ pc \in InPass => status # "Terminating"
    /\ crdGoing => pc # "delete" /\ status # "Terminating" /\ ~Wanted

ForwardInv == ReadInv /\ TerminatingInv

Inv == TypeOK /\ ForwardInv

\* Each action keeps ForwardInv and is a step of Convergence or none.
LEMMA ForwardInit == Init => ForwardInv
<1> SUFFICES ASSUME Init PROVE ForwardInv
  OBVIOUS
<1>1. cr.spec = 1 /\ ~cr.del /\ sts = 0 /\ status = "" /\ pc = "idle" /\ ~crdGoing
  <2>1. cr \in [spec : {1}, gen : {1}, fin : SUBSET Foreign, del : {FALSE}]
    BY Zenon DEF Init
  <2> QED
    BY <2>1, Zenon DEF Init
<1>2. Sts[1] \in Nat
  BY EventsSpecsAssumption
<1>3. sts <= Sts[cr.spec]
  <2>1. 0 <= Sts[1]
    BY <1>2
  <2> QED
    BY <1>1, <2>1, Zenon
<1>4. pc \notin InPass /\ pc # "delete"
  BY <1>1 DEF InPass, PastGate
<1> QED
  BY <1>1, <1>3, <1>4 DEF ForwardInv, ReadInv, TerminatingInv

\* Steps that touch neither the CR, nor its status, nor the StatefulSets or the CRD.
Quiet == UNCHANGED <<cr, status, sts, crdGoing>>

LEMMA QuietStep ==
    ASSUME Inv, Quiet, pc' \notin InPass \cup {"delete"} \/ UNCHANGED <<pc, live>>
    PROVE  ForwardInv'
<1>1. Exists' = Exists /\ Wanted' = Wanted
  BY DEF Quiet, Exists, Wanted
<1>2. ReadInv'
  BY <1>1 DEF Inv, Quiet, ForwardInv, ReadInv
<1>3. TerminatingInv'
  BY <1>1 DEF Inv, Quiet, ForwardInv, TerminatingInv
<1> QED
  BY <1>2, <1>3 DEF ForwardInv

LEMMA QuietPromise == Quiet => [Promise!Next]_(Promise!vars)
<1> SUFFICES ASSUME Quiet PROVE Promise!Report
  BY DEF Promise!Next
<1>1. wantBar' = wantBar /\ sts' = sts
  BY DEF Quiet, wantBar, Wanted, Exists
<1>2. tornBar' = tornBar
  BY Zenon DEF Quiet, tornBar
<1> QED
  BY <1>1, <1>2, Zenon DEF Promise!Report

\* The outcome of a write that goes forward.
Later(new) == new.spec >= cr.spec /\ (cr.del => new.del)

\* A write that goes forward never makes an unwanted CR wanted, nor the wanted version older.
LEMMA WriteOutcome ==
    ASSUME Inv, Forward, Exists, NEW new \in Versions, new # NoCR, Later(new), Write(new)
    PROVE  /\ status' = status
           /\ Exists' => cr' = new /\ (new.del => "own" \in new.fin)
           /\ Wanted' => Wanted
           /\ Wanted' => Sts[cr.spec] <= Sts[cr'.spec]
<1>1. cr' = NoCR \/ (cr' = new /\ ~(new.del /\ new.fin = {}))
  BY DEF Write
<1>2. NoCR.del = FALSE /\ NoCR.spec = 0
  BY DEF NoCR
<1>3. new.spec \in Specs /\ new.fin \in SUBSET Fins /\ cr.spec \in Specs
  BY VersionParts DEF Inv, TypeOK, ApiTypeOK, Exists
<1>4. new.fin # {} => "own" \in new.fin
  BY <1>3 DEF Forward, Fins
<1>5. Sts[cr.spec] <= Sts[new.spec]
  BY <1>3, EventsSpecsAssumption DEF Forward, Later
<1> QED
  BY <1>1, <1>2, <1>4, <1>5 DEF Write, Exists, Wanted, Later

LEMMA WriteStep ==
    ASSUME Inv, Forward, Exists, NEW new \in Versions, new # NoCR, Later(new), Write(new),
           UNCHANGED sts, pc' \notin InPass \cup {"delete"} \/ UNCHANGED <<pc, live>>,
           crdGoing' => crdGoing \/ (Wanted /\ new.del)
    PROVE  ForwardInv' /\ [Promise!Next]_(Promise!vars)
<1> USE DEF Inv
<1>1. /\ status' = status
      /\ Exists' => cr' = new /\ (new.del => "own" \in new.fin)
      /\ Wanted' => Wanted
      /\ Wanted' => Sts[cr.spec] <= Sts[cr'.spec]
  BY WriteOutcome
<1>2. new.spec \in Nat /\ cr.spec \in Nat /\ Sts[cr.spec] \in Nat /\ Sts[new.spec] \in Nat
  BY VersionParts, EventsSpecsAssumption DEF TypeOK, ApiTypeOK, Exists
<1>3. ReadInv'
  <2>1. Exists' => sts' <= Sts[cr'.spec]
    <3>1. Sts[cr.spec] <= Sts[new.spec]
      BY VersionParts, EventsSpecsAssumption
      DEF Forward, Later, TypeOK, ApiTypeOK, Exists
    <3>2. sts <= Sts[cr.spec] /\ sts \in Nat
      BY DEF ForwardInv, ReadInv, TypeOK, ChildTypeOK
    <3>3. sts <= Sts[new.spec]
      BY <1>2, <3>1, <3>2
    <3> QED
      BY <1>1, <3>3
  <2>2. ASSUME pc' \in InPass
        PROVE  sts' <= Sts[live'.spec] /\ (Exists' => live'.spec <= cr'.spec)
    <3>1. pc \in InPass /\ live' = live /\ live # NoCR
      BY <2>2 DEF TypeOK, WorkerTypeOK, InPass, PastGate
    <3>2. live.spec \in Nat
      BY <3>1, VersionParts, EventsSpecsAssumption DEF TypeOK, WorkerTypeOK
    <3> QED
      BY <1>1, <1>2, <3>1, <3>2 DEF ForwardInv, ReadInv, Later
  <2> QED
    BY <2>1, <2>2 DEF ReadInv
<1>4. TerminatingInv'
  <2>1. crdGoing' => ~Wanted'
    BY <1>1 DEF ForwardInv, TerminatingInv, Wanted
  <2> QED
    BY <1>1, <2>1 DEF ForwardInv, TerminatingInv
<1>5. [Promise!Next]_(Promise!vars)
  <2>1. CASE Wanted'
    <3>1. wantBar' >= wantBar /\ wantBar' \in Nat /\ wantBar \in Nat
      BY <1>1, <1>2, <2>1 DEF wantBar, Wanted
    <3> QED
      BY <1>1, <3>1 DEF Promise!Next, Promise!Change, Promise!Report, tornBar
  <2>2. CASE ~Wanted'
    BY <1>1, <2>2 DEF Promise!Next, Promise!Change, wantBar, tornBar
  <2> QED
    BY <2>1, <2>2
<1> QED
  BY <1>3, <1>4, <1>5 DEF ForwardInv

LEMMA LaterWrite ==
    ASSUME Inv, Forward, Exists, NEW new \in Versions, new.spec >= cr.spec,
           cr.del => new.del, Write(new),
           UNCHANGED sts, pc' \notin InPass \cup {"delete"} \/ UNCHANGED <<pc, live>>,
           crdGoing' => crdGoing \/ (Wanted /\ new.del)
    PROVE  ForwardInv' /\ [Promise!Next]_(Promise!vars)
<1>1. cr.spec \in Nat /\ cr.spec # 0
  BY VersionParts, EventsSpecsAssumption DEF Inv, TypeOK, ApiTypeOK, Exists
<1>2. new # NoCR
  BY <1>1 DEF NoCR
<1> QED
  BY <1>2, WriteStep DEF Later

\* A patch of the finalizers.
LEMMA PatchForward ==
    ASSUME Inv, Forward, Exists, Write([cr EXCEPT !.fin = live.fin \cup {"own"}])
                              \/ Write([cr EXCEPT !.fin = live.fin \ {"own"}]),
           UNCHANGED <<sts, crdGoing>>, pc' \notin InPass \cup {"delete"}
    PROVE  ForwardInv' /\ [Promise!Next]_(Promise!vars)
<1>1. cr \in [spec : Specs, gen : Nat \ {0}, fin : SUBSET Fins, del : BOOLEAN]
  BY VersionParts DEF Inv, TypeOK, ApiTypeOK, Exists
<1>2. live.fin \in SUBSET Fins
  BY VersionParts DEF Inv, TypeOK, WorkerTypeOK, NoCR
<1>3. PICK fin \in SUBSET Fins : Write([cr EXCEPT !.fin = fin])
  BY <1>2 DEF Fins
<1> DEFINE new == [cr EXCEPT !.fin = fin]
<1>4. new \in Versions
  BY EditType DEF Inv, TypeOK, ApiTypeOK, Exists
<1>5. new.spec = cr.spec /\ new.del = cr.del
  BY <1>1
<1>6. new.spec >= cr.spec
  BY <1>1, <1>5, EventsSpecsAssumption
<1> QED
  BY <1>3, <1>4, <1>5, <1>6, LaterWrite

\* A status update of a pass, and one of its end.
LEMMA StatusStep ==
    ASSUME Inv, UNCHANGED <<cr, sts, crdGoing>>, pc \in InPass, status' \in Statuses \ {"Terminating"},
           pc' \in {"idle", "uninstall"} \/ (pc' \in InPass /\ UNCHANGED live)
    PROVE  ForwardInv' /\ [Promise!Next]_(Promise!vars)
<1>1. Exists' = Exists /\ Wanted' = Wanted
  BY DEF Exists, Wanted
<1>2. ReadInv'
  BY <1>1 DEF Inv, ForwardInv, ReadInv, InPass, PastGate
<1>3. TerminatingInv'
  BY <1>1 DEF Inv, ForwardInv, TerminatingInv, InPass, PastGate
<1>4. wantBar' = wantBar
  BY <1>1 DEF wantBar
<1>5. tornBar' = tornBar
  BY DEF tornBar, Inv, ForwardInv, TerminatingInv
<1>6. Promise!Report
  BY <1>4, <1>5, Zenon DEF Promise!Report
<1> QED
  BY <1>2, <1>3, <1>6 DEF ForwardInv, Promise!Next

\* updateCHI starts a pass with the CR as it is, or turns to its deletion.
LEMMA ForwardUpdate == Inv /\ Forward /\ updateCHI => ForwardInv'
<1> SUFFICES ASSUME Inv, Forward, updateCHI PROVE ForwardInv'
  OBVIOUS
<1>1. live' = cr /\ cr' = cr /\ sts' = sts /\ status' = status /\ crdGoing' = crdGoing
  BY DEF updateCHI, apiVars, childVars, boundVars
<1>2. Exists' = Exists /\ Wanted' = Wanted
  BY <1>1 DEF Exists, Wanted
<1>3. pc' \in {"idle", "delete", "gate"} /\ (pc' # "idle" => Exists)
  BY DEF updateCHI
<1>4. Exists => cr.spec <= cr.spec
  <2>1. Exists => cr.spec \in Specs
    BY VersionParts DEF Inv, TypeOK, ApiTypeOK, Exists
  <2>2. Specs \subseteq Nat
    BY EventsSpecsAssumption
  <2>3. \A n \in Nat : n <= n
    OBVIOUS
  <2> QED
    BY <2>1, <2>2, <2>3, Zenon
<1>5. ReadInv'
  BY <1>1, <1>2, <1>3, <1>4 DEF Inv, ForwardInv, ReadInv, InPass, PastGate
<1>6. pc' = "delete" => cr.del /\ ~crdGoing
  BY DEF updateCHI
<1>7. pc' = "gate" => ~cr.del \/ crdGoing
  BY DEF updateCHI, Inv, ForwardInv, TerminatingInv
<1>8. TerminatingInv'
  BY <1>1, <1>2, <1>3, <1>6, <1>7
  DEF Inv, ForwardInv, TerminatingInv, Wanted, InPass, PastGate
<1> QED
  BY <1>5, <1>8 DEF ForwardInv

\* The hosts of the pass: what it read is at least what is there, at most what is
\* wanted, and not what a deletion has removed.
LEMMA ForwardHosts ==
    Inv /\ Forward /\ reconcileHosts => ForwardInv' /\ [Promise!Next]_(Promise!vars)
<1> SUFFICES ASSUME Inv, Forward, reconcileHosts, sts' = Sts[live.spec]
             PROVE  ForwardInv' /\ [Promise!Next]_(Promise!vars)
  <2>1. reconcileHosts /\ sts' # Sts[live.spec] => Quiet /\ pc' \in {"idle", "uninstall"}
    BY DEF reconcileHosts, AfterPass, Quiet, apiVars, boundVars
  <2> QED
    BY <2>1, QuietStep, QuietPromise DEF InPass, PastGate
<1>1. /\ cr' = cr /\ status' = status /\ live' = live /\ pc \in InPass
      /\ pc' \in {"idle", "uninstall", "finalize", "fail"} /\ crdGoing' = crdGoing
  BY DEF reconcileHosts, AfterPass, apiVars, boundVars, InPass, PastGate
<1>2. Exists' = Exists /\ Wanted' = Wanted
  BY <1>1 DEF Exists, Wanted
<1>3. live.spec \in Specs /\ Sts[live.spec] \in Nat /\ sts \in Nat
  BY VersionParts, EventsSpecsAssumption
  DEF Inv, TypeOK, WorkerTypeOK, ChildTypeOK, reconcileHosts
<1>4. ASSUME Exists
      PROVE  Sts[live.spec] <= Sts[cr.spec]
  <2>1. cr.spec \in Specs
    BY <1>4, VersionParts DEF Inv, TypeOK, ApiTypeOK, Exists
  <2>2. live.spec <= cr.spec
    BY <1>1, <1>4 DEF Inv, ForwardInv, ReadInv
  <2> QED
    BY <1>3, <2>1, <2>2 DEF Forward
<1>5. ReadInv'
  BY <1>1, <1>2, <1>3, <1>4 DEF Inv, ForwardInv, ReadInv
<1>6. TerminatingInv'
  BY <1>1, <1>2 DEF Inv, ForwardInv, TerminatingInv, InPass, PastGate
<1>7. Promise!Bring
  <2>1. sts' >= sts
    BY <1>1, <1>3 DEF Inv, ForwardInv, ReadInv
  <2>2. wantBar # 0 => sts' <= wantBar
    BY <1>4 DEF wantBar, Wanted
  <2>3. ~tornBar /\ wantBar' = wantBar
    BY <1>1, <1>2 DEF wantBar, tornBar, Inv, ForwardInv, TerminatingInv
  <2>4. tornBar' = tornBar
    BY <1>1, Zenon DEF tornBar
  <2> QED
    BY <2>1, <2>2, <2>3, <2>4, Zenon DEF Promise!Bring
<1> QED
  BY <1>5, <1>6, <1>7 DEF ForwardInv, Promise!Next

\* The children of a CR that is deleted are removed.
LEMMA Removed ==
    ASSUME Inv, ~Wanted, sts' = 0, UNCHANGED <<cr, crdGoing>>,
           crdGoing => status' = status,
           status' = status \/ status' = "Terminating", pc' \notin InPass \cup {"delete"}
    PROVE  ForwardInv' /\ [Promise!Next]_(Promise!vars)
<1>1. Exists' = Exists /\ Wanted' = Wanted
  BY DEF Exists, Wanted
<1>2. ReadInv'
  <2>1. ASSUME Exists
        PROVE  0 <= Sts[cr.spec]
    <3>1. Sts[cr.spec] \in Nat
      BY <2>1, VersionParts, EventsSpecsAssumption DEF Inv, TypeOK, ApiTypeOK, Exists
    <3> QED
      BY <3>1
  <2> QED
    BY <1>1, <2>1 DEF ReadInv
<1>3. TerminatingInv'
  BY <1>1 DEF Inv, ForwardInv, TerminatingInv
<1>4. wantBar = 0 /\ wantBar' = wantBar
  BY <1>1 DEF wantBar
<1>5. tornBar' \in {tornBar, TRUE}
  BY Zenon DEF tornBar
<1>6. Promise!TearDown
  BY <1>4, <1>5, Zenon DEF Promise!TearDown
<1> QED
  BY <1>2, <1>3, <1>6 DEF ForwardInv, Promise!Next

LEMMA ForwardDelete ==
    Inv /\ deleteCRProtocol => ForwardInv' /\ [Promise!Next]_(Promise!vars)
<1> SUFFICES ASSUME Inv, deleteCRProtocol
             PROVE  ForwardInv' /\ [Promise!Next]_(Promise!vars)
  OBVIOUS
<1>1. CASE cancelled
  <2>1. Quiet /\ pc' = "idle"
    BY <1>1 DEF deleteCRProtocol, Quiet, apiVars, boundVars
  <2> QED
    BY <2>1, QuietStep, QuietPromise DEF InPass, PastGate
<1>2. CASE ~cancelled
  <2>1. ~Wanted
    BY DEF deleteCRProtocol, Inv, ForwardInv, TerminatingInv
  <2>2. /\ sts' = 0 /\ cr' = cr /\ crdGoing' = crdGoing /\ pc' = "uninstall"
        /\ status' = status \/ status' = "Terminating"
    BY <1>2 DEF deleteCRProtocol, StatusMain, apiVars, boundVars
  <2>3. ~crdGoing
    BY DEF deleteCRProtocol, Inv, ForwardInv, TerminatingInv
  <2> QED
    BY <2>1, <2>2, <2>3, Removed DEF InPass, PastGate
<1> QED
  BY <1>1, <1>2

LEMMA ForwardCollect ==
    Inv /\ GarbageCollect => ForwardInv' /\ [Promise!Next]_(Promise!vars)
<1> SUFFICES ASSUME Inv, GarbageCollect
             PROVE  ForwardInv' /\ [Promise!Next]_(Promise!vars)
  OBVIOUS
<1> SUFFICES ASSUME sts' # sts
             PROVE  ForwardInv' /\ [Promise!Next]_(Promise!vars)
  <2>1. sts' = sts => Quiet /\ UNCHANGED <<pc, live>>
    BY DEF GarbageCollect, Quiet, apiVars, workerVars, boundVars
  <2> QED
    BY <2>1, QuietStep, QuietPromise
<1>1. /\ ~Wanted /\ ~Exists /\ ~Exists' /\ sts' = 0 /\ crdGoing' = crdGoing
      /\ cr' = cr /\ status' = status /\ pc' = pc /\ live' = live
  BY DEF GarbageCollect, Owned, apiVars, workerVars, boundVars, Wanted, Exists
<1>2. ReadInv'
  <2>1. ASSUME pc \in InPass
        PROVE  0 <= Sts[live.spec]
    <3>1. live \in Versions /\ live # NoCR
      BY <2>1 DEF Inv, TypeOK, WorkerTypeOK, InPass, PastGate
    <3>2. Sts[live.spec] \in Nat
      BY <3>1, VersionParts, EventsSpecsAssumption
    <3> QED
      BY <3>2
  <2> QED
    BY <1>1, <2>1 DEF ReadInv
<1>3. TerminatingInv'
  BY <1>1 DEF Inv, ForwardInv, TerminatingInv, Wanted, Exists
<1>4. wantBar = 0 /\ wantBar' = 0
  BY <1>1 DEF wantBar, Wanted
<1>5. tornBar' \in {tornBar, TRUE}
  BY <1>1, Zenon DEF tornBar
<1>6. Promise!TearDown
  BY <1>1, <1>4, <1>5, Zenon DEF Promise!TearDown
<1> QED
  BY <1>2, <1>3, <1>6 DEF ForwardInv, Promise!Next

\* The two patches of the finalizers and the edits of clients only go forward.
LEMMA ForwardInstall ==
    Inv /\ Forward /\ installFinalizer => ForwardInv' /\ [Promise!Next]_(Promise!vars)
<1> SUFFICES ASSUME Inv, Forward, installFinalizer
             PROVE  ForwardInv' /\ [Promise!Next]_(Promise!vars)
  OBVIOUS
<1>1. pc' \notin InPass \cup {"delete"} /\ sts' = sts /\ crdGoing' = crdGoing
  BY DEF installFinalizer, InPass, PastGate, childVars, boundVars
<1>2. CASE Exists /\ ~cr.del
  BY <1>1, <1>2, PatchForward DEF installFinalizer
<1>3. CASE ~(Exists /\ ~cr.del)
  <2>1. Quiet
    BY <1>1, <1>3 DEF installFinalizer, Quiet, apiVars
  <2> QED
    BY <1>1, <2>1, QuietStep, QuietPromise
<1> QED
  BY <1>2, <1>3

LEMMA ForwardPatch ==
    Inv /\ Forward /\ patchCHIFinalizers => ForwardInv' /\ [Promise!Next]_(Promise!vars)
<1> SUFFICES ASSUME Inv, Forward, patchCHIFinalizers
             PROVE  ForwardInv' /\ [Promise!Next]_(Promise!vars)
  OBVIOUS
<1>1. pc' \notin InPass \cup {"delete"} /\ sts' = sts /\ crdGoing' = crdGoing
  BY DEF patchCHIFinalizers, InPass, PastGate, childVars, boundVars
<1>2. CASE Write([cr EXCEPT !.fin = live.fin \ {"own"}]) /\ Exists
  BY <1>1, <1>2, PatchForward
<1>3. CASE UNCHANGED <<apiVars, stream>>
  <2>1. Quiet
    BY <1>1, <1>3 DEF Quiet, apiVars
  <2> QED
    BY <1>1, <2>1, QuietStep, QuietPromise
<1> QED
  BY <1>2, <1>3 DEF patchCHIFinalizers

LEMMA ForwardEdit ==
    ASSUME Inv, Forward, EditSpec \/ EditFinalizers \/ Delete \/ DeleteCRD
    PROVE  ForwardInv' /\ [Promise!Next]_(Promise!vars)
<1>1. /\ Exists /\ sts' = sts /\ pc' = pc /\ live' = live
      /\ cr \in [spec : Specs, gen : Nat \ {0}, fin : SUBSET Fins, del : BOOLEAN]
  BY VersionParts DEF EditSpec, EditFinalizers, Delete, DeleteCRD, EnvUnchanged, childVars, workerVars,
     Inv, TypeOK, ApiTypeOK, Exists
<1>2. CASE EditFinalizers
  <2>1. PICK f \in Foreign : TRUE
    BY <1>2 DEF EditFinalizers
  <2> QED
    BY <2>1 DEF Forward
<1>3. CASE Delete \/ DeleteCRD
  <2> DEFINE new == [cr EXCEPT !.del = TRUE, !.gen = @ + 1]
  <2>1. new \in Versions /\ Write(new)
    BY <1>1, <1>3, EditType DEF Delete, DeleteCRD, Inv, TypeOK, ApiTypeOK, Exists
  <2>2. new.spec >= cr.spec /\ new.del
    BY <1>1, EventsSpecsAssumption
  <2>3. crdGoing' => crdGoing \/ Wanted
    BY <1>3, Zenon DEF Delete, DeleteCRD, Wanted
  <2> HIDE DEF new
  <2> QED
    BY <1>1, <2>1, <2>2, <2>3, LaterWrite
<1>4. CASE EditSpec
  <2>1. PICK s \in Specs, fin \in {cr.fin, cr.fin \ {"own"}} :
           s > cr.spec /\ ~cr.del /\ Write([cr EXCEPT !.spec = s, !.gen = @ + 1, !.fin = fin])
    BY <1>4 DEF EditSpec, Forward
  <2> DEFINE new == [cr EXCEPT !.spec = s, !.gen = @ + 1, !.fin = fin]
  <2>2. new \in Versions
    BY <1>1, EditType DEF Inv, TypeOK, ApiTypeOK, Exists
  <2>3. new.spec >= cr.spec
    BY <1>1, <2>1, EventsSpecsAssumption
  <2>4. ~cr.del /\ Write(new) /\ crdGoing' = crdGoing
    BY <1>4, <2>1 DEF EditSpec
  <2> HIDE DEF new
  <2> QED
    BY <1>1, <2>2, <2>3, <2>4, LaterWrite
<1> QED
  BY <1>2, <1>3, <1>4

\* Steps that are Quiet and start no pass.
LEMMA ForwardQuiet ==
    ASSUME Inv, Forward,
           \/ Take \/ ensureFinalizer \/ FailNext \/ reconcileAux \/ uninstallFinalizer
           \/ RecoveryNext \/ Deliver \/ Resync \/ PodFlips \/ Restart
           \/ updateEndpoints \/ updateEndpointsWrites \/ UNCHANGED vars
    PROVE  ForwardInv' /\ [Promise!Next]_(Promise!vars)
<1>1. CASE Take \/ ensureFinalizer \/ uninstallFinalizer \/ Restart
  <2>1. Quiet /\ pc' \in {"ensure", "get", "idle", "install", "unpatch"}
    BY <1>1 DEF Take, ensureFinalizer, uninstallFinalizer, Restart, Quiet,
                apiVars, childVars, boundVars
  <2> QED
    BY <2>1, QuietStep, QuietPromise DEF InPass, PastGate
<1>4. CASE FailNext
  <2>1. ~deleteCHIFails
    BY DEF deleteCHIFails, Fails, Forward
  <2>2. Quiet /\ pc' \in {"idle", "uninstall"}
    BY <1>4, <2>1 DEF FailNext, updateCHIFails, deleteCRProtocolFails,
          uninstallFinalizerFails, Fails, Quiet, apiVars, childVars
  <2> QED
    BY <2>2, QuietStep, QuietPromise DEF InPass, PastGate
<1>5. CASE updateEndpoints \/ updateEndpointsWrites
  <2>1. Quiet /\ UNCHANGED <<pc, live>>
    BY <1>5 DEF updateEndpoints, updateEndpointsWrites, apiVars, childVars, workerVars,
                boundVars, Quiet
  <2> QED
    BY <2>1, QuietStep, QuietPromise
<1>2. CASE RecoveryNext \/ Deliver \/ Resync \/ PodFlips \/ UNCHANGED vars
  <2>1. Quiet /\ UNCHANGED <<pc, live>>
    BY <1>2 DEF RecoveryNext, recoverAbortedReconcileOnPodReady,
          recoverCompletedReconcileOnPodNotReady, TimerFires, Deliver, Resync, PodFlips,
          vars, apiVars, childVars, workerVars, boundVars, Quiet
  <2> QED
    BY <2>1, QuietStep, QuietPromise
<1>3. CASE reconcileAux
  <2>1. /\ cr' = cr /\ status' = status /\ sts' = sts /\ live' = live
        /\ pc = "aux" /\ pc' \in {"idle", "uninstall", "hosts"} /\ crdGoing' = crdGoing
    BY <1>3 DEF reconcileAux, AfterPass, apiVars, boundVars
  <2>2. Exists' = Exists /\ Wanted' = Wanted
    BY <2>1 DEF Exists, Wanted
  <2>3. ReadInv' /\ TerminatingInv'
    BY <2>1, <2>2 DEF Inv, ForwardInv, ReadInv, TerminatingInv, InPass, PastGate
  <2>4. Quiet
    BY <2>1 DEF Quiet
  <2> QED
    BY <2>3, <2>4, QuietPromise DEF ForwardInv
<1> QED
  BY <1>1, <1>2, <1>3, <1>4, <1>5

LEMMA ForwardStatus ==
    ASSUME Inv, reconcileCR \/ markReconcileCompletedUnsuccessfully \/ finalizeCR
    PROVE  ForwardInv' /\ [Promise!Next]_(Promise!vars)
<1>1. /\ cr' = cr /\ sts' = sts /\ live' = live /\ crdGoing' = crdGoing
      /\ pc \in InPass /\ pc' \in {"idle", "uninstall", "aux"}
  BY DEF reconcileCR, markReconcileCompletedUnsuccessfully, finalizeCR, Complete, AfterPass,
         StatusMain, apiVars, childVars, boundVars, InPass, PastGate
<1>2. status' \in {status, "Aborted", "InProgress", "Completed"}
  BY DEF reconcileCR, markReconcileCompletedUnsuccessfully, finalizeCR, Complete,
         StatusMain, apiVars
<1>3. status' \in Statuses \ {"Terminating"}
  BY <1>1, <1>2 DEF Inv, TypeOK, ApiTypeOK, Statuses, ForwardInv, TerminatingInv
<1> QED
  BY <1>1, <1>3, StatusStep DEF InPass, PastGate

LEMMA ForwardStep ==
    Inv /\ Forward /\ [Next]_vars => ForwardInv' /\ [Promise!Next]_(Promise!vars)
<1>1. updateCHI => Quiet
  BY DEF updateCHI, Quiet, apiVars, childVars, boundVars
<1> QED
  BY <1>1, QuietPromise, ForwardUpdate, ForwardHosts, ForwardDelete, ForwardCollect,
     ForwardInstall, ForwardPatch, ForwardEdit, ForwardQuiet, ForwardStatus
  DEF Next, WorkerNext

\* The worker does to the StatefulSets what Convergence allows and nothing else:
\* while clients only go forward it never brings back an older version, nor
\* what the deletion of the CR has removed (updateCHI, deleteCHI), whatever else
\* fails on the way and whether the CR goes by itself or with its CRD.
THEOREM WorkerKeepsPromise == Forward /\ Spec => Promise!Safe
<1>1. Forward /\ Init => Promise!Init
  <2> SUFFICES ASSUME Init PROVE Promise!Init
    OBVIOUS
  <2>1. cr \in [spec : {1}, gen : {1}, fin : SUBSET Foreign, del : {FALSE}]
    BY Zenon DEF Init
  <2>2. cr.spec = 1 /\ ~cr.del
    BY <2>1, Zenon
  <2>3. cr # NoCR
    BY <2>2, NoneRefused
  <2>4. Sts[1] # 0
    BY EventsSpecsAssumption
  <2>5. wantBar # 0
    BY <2>2, <2>3, <2>4, Zenon DEF wantBar, Wanted, Exists
  <2>6. sts = 0 /\ ~tornBar
    BY DEF Init, tornBar
  <2> QED
    BY <2>5, <2>6 DEF Promise!Init
<1>2. Init => ForwardInv
  BY ForwardInit
<1>3. TypeOK /\ ForwardInv /\ Forward /\ [Next]_vars =>
        ForwardInv' /\ [Promise!Next]_(Promise!vars)
  BY ForwardStep DEF Inv
<1>4. Forward => Forward'
  BY DEF Forward
<1> QED
  BY <1>1, <1>2, <1>3, <1>4, EventsTypeCorrect, PTL DEF Spec, Promise!Safe

=============================================================================
