------------------------------ MODULE ChiEvents ------------------------------
(***************************************************************************)
(* One ClickHouseInstallation and everything that decides whether a change *)
(* of it is reconciled (pkg/controller/chi): the informer and its handlers,*)
(* the queue, updateCHI with its finalizer and its live read, the gate in  *)
(* reconcileCR, the outcome of the pass, and the pod events that bring an  *)
(* aborted or a completed CR back into the queue.                          *)
(*                                                                         *)
(* An event is a pair of versions of the CR.  The worker takes the older   *)
(* one from the pair and the newer one from the API server, and the two    *)
(* need not be neighbours: events are merged, superseded and delayed, the  *)
(* operator's own finalizer makes one of them, and clients edit the CR     *)
(* meanwhile.  The hosts are one: the StatefulSets have a version and are  *)
(* healthy or not.  The teardown of a deleted CR is one step here and is   *)
(* taken apart in HostObjects.  The error of every call that takes part in *)
(* a deletion is logged and nothing else, and each of them can fail here.  *)
(***************************************************************************)
EXTENDS Naturals, Sequences, FiniteSets

CONSTANTS
    Specs,        \* specifications a client may write: 1 .. n
    Sts,          \* the version of the StatefulSets each asks for
    Refused,      \* the ones the normalizer refuses
    Suspended,    \* the ones that say suspend
    MayRevert,    \* whether clients also go back to an older specification
    MayStrip,     \* whether clients PUT whole objects, without the finalizer
    RecoverCompleted, \* reconcile.recovery.onStatus.completed.onPodNotReady
    MayDropCRD,   \* whether the CRD may be deleted, and the CR with it
    Slices,       \* whether EndpointSlices change
    Faults,       \* the calls that may fail
    Foreign,      \* finalizers of other controllers
    IPs,          \* addresses the operator's pod may get
    MaxEdits,     \* edits and deletions by clients
    MaxFlips,     \* changes of the pods' readiness
    MaxErrors,    \* failed calls of the API server
    MaxRestarts   \* crashes of the operator

ASSUME EventsSpecsAssumption ==
    /\ Specs \subseteq Nat \ {0} /\ 1 \in Specs
    /\ Refused \subseteq Specs /\ Suspended \subseteq Specs
    /\ Sts \in [Specs -> Nat \ {0}]
    /\ {MayRevert, MayStrip, RecoverCompleted, MayDropCRD, Slices} \subseteq BOOLEAN
ASSUME EventsNamesAssumption ==
    /\ "own" \notin Foreign /\ IPs # {}
    /\ Faults \subseteq {"get", "crd", "reget", "status", "unget", "unpatch"}
ASSUME EventsBoundsAssumption ==
    {MaxEdits, MaxFlips, MaxErrors, MaxRestarts} \subseteq Nat

VARIABLES
    \* The API server
    cr,         \* the CR: specification, generation, finalizers, deletion mark
    status,     \* .status.status
    done,       \* the ancestor, .status.normalizedCompleted
    chopIP,     \* .status.chop-ip
    tagged,     \* .status.errors holds a reason of the normalizer
    crdGoing,   \* the CRD is being deleted
    conf,       \* the specification the common and the hosts' ConfigMaps were
                \* written from, 0 if there are none
    users,      \* the specification the users ConfigMap was written from
    sts,        \* the version of the StatefulSets, 0 if there are none
    podReady,   \* whether the pods of the StatefulSets are ready
    kept,       \* children without an owner, which outlive the CR
    \* The operator
    ip,         \* the address of its pod
    stream,     \* versions of the CR its informer has not yet seen
    cache,      \* the version its informer holds
    pending,    \* items of the CR in the queue
    podEvents,  \* readiness transitions in the queue of the system worker
    timer,      \* the CR captured by a scheduled recovery
    hold,       \* the CR read by updateEndpoints, not yet written from
    \* The worker of the CR
    pc, item, live, cancelled,
    keep,       \* the pass of a CR that goes with its CRD: SkipOwnerRef
    \* Bounds and history
    edits, flips, errors, restarts,
    failed,     \* the calls that have failed
    late        \* the specification last stamped as the ancestor, if it is not
                \* the one the pass had read; otherwise 0

apiVars    == <<cr, status, done, chopIP, tagged>>
childVars  == <<conf, users, sts, podReady, kept>>
feedVars   == <<ip, stream, cache, podEvents, timer, hold>>
workerVars == <<pc, item, live, keep>>
boundVars  == <<edits, flips, errors, restarts, failed, late, crdGoing>>
vars == <<apiVars, childVars, feedVars, pending, cancelled, workerVars, boundVars>>

Fins == {"own"} \cup Foreign

(* A version of the CR.  No CR, and no older version, is the empty one. *)
NoCR == [spec |-> 0, gen |-> 0, fin |-> {}, del |-> FALSE]
Versions == [spec : Specs, gen : Nat \ {0}, fin : SUBSET Fins, del : BOOLEAN] \cup {NoCR}
Item == [old : Versions, new : Versions]
NoItem == [old |-> NoCR, new |-> NoCR]

Statuses == {"", "InProgress", "Completed", "Aborted", "Terminating"}
Pcs == {"idle", "ensure", "install", "get", "gate", "aux", "hosts", "fail",
        "finalize", "delete", "uninstall", "unpatch"}

Exists == cr # NoCR
Children == {"conf", "users", "sts"}
Torn == conf = 0 /\ users = 0 /\ sts = 0

-----------------------------------------------------------------------------
(* Comparing versions.                                                     *)

(* The deletion mark is not compared. *)
HasActionsToDo_NoDeletion(old, new) ==
    old.spec # new.spec \/ old.fin # new.fin

(* MakeActionPlan and HasActionsToDo: generation, resource version and      *)
(* status are not compared.  Labels behave as finalizers do.                *)
HasActionsToDo(old, new) ==
    \/ old.spec # new.spec
    \/ old.fin # new.fin
    \/ old.del # new.del

(* isGenerationTheSame; an Add has no old version. *)
isGenerationTheSame(old, new) == old # NoCR /\ old.gen = new.gen

(* isAfterFinalizerInstalled *)
isAfterFinalizerInstalled(old, new) ==
    isGenerationTheSame(old, new) /\ old.fin = {} /\ new.fin # {}

(* hasUnhealthyHosts: a pod that is not there is not healthy. *)
hasUnhealthyHosts == sts = 0 \/ ~podReady

(* Drift is the version of the StatefulSets and nothing else. *)
HasDrift(new) == sts # Sts[new.spec]


(* HasReconcileWork: the action plan against the ancestor, or drift.        *)
(* SkipOwnerRef is an attribute the action plan compares.                   *)
HasReconcileWork(new) == keep \/ HasActionsToDo(done, new) \/ HasDrift(new)

(* The generation is looked at first. *)
decideReconcileGate_GenerationFirst(old, new) ==
    CASE isGenerationTheSame(old, new) /\ ~hasUnhealthyHosts -> "NothingToDo"
      [] isAfterFinalizerInstalled(old, new) -> "FinalizerInstalled"
      [] chopIP # ip -> "OperatorIPChanged"
      [] HasReconcileWork(new) -> "ReconcileWork"
      [] OTHER -> "NothingToDo"

(* decideReconcileGate, in its order.  The recovery of a stuck host is      *)
(* decided from the rebuilt CR, whose status is never Completed.            *)
decideReconcileGate(old, new) ==
    IF \E o \in {old, done} : isAfterFinalizerInstalled(o, new)
    THEN "FinalizerInstalled"
    ELSE IF chopIP # ip THEN "OperatorIPChanged"
    ELSE IF isGenerationTheSame(old, new) /\ ~hasUnhealthyHosts THEN "NothingToDo"
    ELSE IF HasReconcileWork(new) THEN "ReconcileWork"
    ELSE IF hasUnhealthyHosts THEN "UnhealthyHosts"
    ELSE "NothingToDo"

proceeds(decision) == decision # "NothingToDo"

-----------------------------------------------------------------------------
(* The informer and the queue.                                             *)

(* An item whose handle the queue already holds replaces the one there or   *)
(* waits behind it; the queue is a library and may do either, but it keeps  *)
(* the newer one.  The item being processed is superseded: its context is   *)
(* cancelled.                                                               *)
Insert(it) ==
    /\ pending' \in IF pending = <<>> THEN {<<it>>}
                    ELSE {<<it>>, <<Head(pending), it>>}
    /\ cancelled' = (pc # "idle")

NoInsert == UNCHANGED <<pending, cancelled>>

(* enqueueObject of an update: prepareCHIUpdate drops one without actions.  *)
enqueueUpdate(old, new) ==
    IF HasActionsToDo(old, new) THEN Insert([old |-> old, new |-> new]) ELSE NoInsert

(* enqueueObject of an addition *)
enqueueAdd(new) == Insert([old |-> NoCR, new |-> new])

(* The informer sees the next versions of the CR, several at once after a   *)
(* reconnect: AddFunc, UpdateFunc, or DeleteFunc, whose items enqueueObject *)
(* does not queue.                                                          *)
Deliver ==
    /\ stream # <<>>
    /\ \E n \in 1 .. Len(stream) :
         /\ n \in {1, Len(stream)}
         /\ cache' = stream[n]
         /\ stream' = SubSeq(stream, n + 1, Len(stream))
         /\ IF stream[n] = NoCR THEN NoInsert
            ELSE IF cache = NoCR THEN enqueueAdd(stream[n])
            ELSE enqueueUpdate(cache, stream[n])
    /\ UNCHANGED <<apiVars, childVars, ip, podEvents, timer, hold, workerVars, boundVars>>

(* The periodic resync: an update from a version to itself. *)
Resync ==
    /\ cache # NoCR
    /\ enqueueUpdate(cache, cache)
    /\ UNCHANGED <<apiVars, childVars, feedVars, workerVars, boundVars>>

(* A write of the CR's metadata or specification: a CR that is marked       *)
(* deleted goes with its last finalizer, and the informer is told.          *)
Write(new) ==
    LET n == IF new.del /\ new.fin = {} THEN NoCR ELSE new IN
    /\ cr' = n
    /\ stream' = IF n = cr THEN stream ELSE Append(stream, n)
    /\ UNCHANGED <<status, done, chopIP, tagged>>

-----------------------------------------------------------------------------
(* The worker: updateCHI.                                                  *)

Take ==
    /\ pc = "idle" /\ pending # <<>>
    /\ item' = Head(pending) /\ pending' = Tail(pending)
    /\ cancelled' = FALSE
    /\ pc' = "ensure"
    /\ UNCHANGED <<apiVars, childVars, feedVars, live, keep, boundVars>>

(* ensureFinalizer and the read of installFinalizer.  The item's version    *)
(* decides whether to look, the API server's whether to patch.  A finalizer *)
(* found there ends the handling of the item as one just installed does;    *)
(* a failed read goes on without.                                           *)
ensureFinalizer ==
    /\ pc = "ensure"
    /\ live' = cr
    /\ pc' = CASE item.new.del \/ "own" \in item.new.fin \/ ~Exists -> "get"
               [] "own" \in cr.fin -> "idle"
               [] OTHER -> "install"
    /\ UNCHANGED <<apiVars, childVars, feedVars, pending, cancelled, item, keep, boundVars>>

(* installFinalizer's patch replaces the whole list that was read.  No      *)
(* finalizer can be added to a CR marked deleted, and none to no CR.        *)
installFinalizer ==
    /\ pc = "install"
    /\ IF Exists /\ ~cr.del
       THEN /\ Write([cr EXCEPT !.fin = live.fin \cup {"own"}])
            /\ pc' = "idle"
       ELSE /\ pc' = "get"
            /\ UNCHANGED <<apiVars, stream>>
    /\ UNCHANGED <<childVars, ip, cache, podEvents, timer, hold, pending, cancelled,
                   item, live, keep, boundVars>>

(* What updateCHI works on is the item's version. *)
updateCHI_NoLiveRead ==
    /\ pc = "get"
    /\ live' = item.new
    /\ pc' = IF cancelled \/ ~Exists THEN "idle"
             ELSE IF item.new.del /\ "own" \in item.new.fin THEN "delete" ELSE "gate"
    /\ keep' = FALSE
    /\ UNCHANGED <<apiVars, childVars, feedVars, pending, cancelled, item, boundVars>>

(* A CR that is not found is reconciled as an empty one. *)
updateCHI_NotFoundGoesOn ==
    /\ pc = "get"
    /\ live' = cr
    /\ pc' = IF cancelled THEN "idle"
             ELSE IF cr.del /\ "own" \in cr.fin THEN "delete" ELSE "gate"
    /\ keep' = FALSE
    /\ UNCHANGED <<apiVars, childVars, feedVars, pending, cancelled, item, boundVars>>

(* updateCHI after the finalizer: the live read and deleteCHI up to its     *)
(* turn.  A CR marked deleted that lacks the finalizer is reconciled; one   *)
(* that goes with its CRD is reconciled too, so that its children lose      *)
(* their owner, and gives up its finalizer afterwards.                      *)
updateCHI ==
    /\ pc = "get"
    /\ live' = cr
    /\ pc' = IF cancelled \/ ~Exists THEN "idle"
             ELSE IF ~crdGoing /\ cr.del /\ "own" \in cr.fin THEN "delete" ELSE "gate"
    /\ keep' = (Exists /\ cr.del /\ crdGoing /\ ~cancelled)
    /\ UNCHANGED <<apiVars, childVars, feedVars, pending, cancelled, item, boundVars>>

(* A call of the API server fails. *)
Fails(f) ==
    /\ f \in Faults /\ errors < MaxErrors
    /\ errors' = errors + 1
    /\ failed' = failed \cup {f}
    /\ UNCHANGED <<edits, flips, restarts, late, crdGoing>>

(* The live read fails: run logs the error and the item is done. *)
updateCHIFails ==
    /\ pc = "get" /\ Fails("get")
    /\ pc' = "idle"
    /\ UNCHANGED <<apiVars, childVars, feedVars, pending, cancelled, item, live, keep>>

(* A read of deleteCHI fails: without the CRD the children are purged, and  *)
(* without the CR deleteCHI has done nothing, and updateCHI reconciles.     *)
deleteCHIFails ==
    /\ pc = "get" /\ ~cancelled /\ Exists /\ cr.del
    /\ live' = cr
    /\ \/ /\ crdGoing /\ Fails("crd")
          /\ pc' = IF "own" \in cr.fin THEN "delete" ELSE "gate"
       \/ /\ ~crdGoing /\ Fails("reget")
          /\ pc' = "gate"
    /\ keep' = FALSE
    /\ UNCHANGED <<apiVars, childVars, feedVars, pending, cancelled, item>>

-----------------------------------------------------------------------------
(* The worker: reconcileCR.                                                *)

(* A status update of the field group Main; its failure is ignored, and it  *)
(* fails when the CR is gone.                                               *)
StatusMain(s, tag) ==
    IF Exists THEN /\ status' = s /\ chopIP' = ip /\ tagged' = tag
                   /\ UNCHANGED <<cr, done>>
    ELSE UNCHANGED apiVars

(* Where reconcileCR returns to: updateCHI, or deleteCHI. *)
AfterPass == IF keep THEN "uninstall" ELSE "idle"

(* Children the pass writes have an owner, or none. *)
Written(children) == IF keep THEN kept \cup children ELSE kept \ children

(* reconcileCR up to markReconcileStart.  A refused specification and a     *)
(* suspended one with changes end in Aborted.  The errors of earlier passes *)
(* are inherited, tags and all.                                             *)
reconcileCR ==
    /\ pc = "gate"
    /\ CASE cancelled -> pc' = AfterPass /\ UNCHANGED apiVars
         [] ~cancelled /\ live.spec \in Refused ->
              pc' = AfterPass /\ StatusMain("Aborted", TRUE)
         [] ~cancelled /\ live.spec \in Suspended \ Refused ->
              /\ pc' = AfterPass
              /\ IF keep \/ HasActionsToDo(done, live) THEN StatusMain("Aborted", tagged)
                 ELSE UNCHANGED apiVars
         [] OTHER ->
              IF proceeds(decideReconcileGate(item.old, live))
              THEN pc' = "aux" /\ StatusMain("InProgress", tagged)
              ELSE pc' = AfterPass /\ UNCHANGED apiVars
    /\ UNCHANGED <<childVars, feedVars, pending, cancelled, item, live, keep, boundVars>>

(* reconcileCRAuxObjectsPreliminary: the ConfigMaps. *)
reconcileAux ==
    /\ pc = "aux"
    /\ IF cancelled THEN pc' = AfterPass /\ UNCHANGED <<conf, users, kept>>
       ELSE /\ pc' = "hosts" /\ conf' = live.spec /\ users' = live.spec
            /\ kept' = Written({"conf", "users"})
    /\ UNCHANGED <<apiVars, sts, podReady, feedVars, pending, cancelled,
                   item, live, keep, boundVars>>

(* The hosts of the pass: their StatefulSets are brought to the version     *)
(* asked for, which replaces their pods.  Pods that do not become ready     *)
(* fail the pass.                                                           *)
reconcileHosts ==
    /\ pc = "hosts"
    /\ IF cancelled THEN pc' = AfterPass /\ UNCHANGED <<sts, podReady, kept>>
       ELSE /\ sts' = Sts[live.spec]
            /\ kept' = Written({"sts"})
            /\ podReady' \in IF sts' = sts THEN {podReady} ELSE BOOLEAN
            /\ pc' = IF podReady' THEN "finalize" ELSE "fail"
    /\ UNCHANGED <<apiVars, conf, users, feedVars, pending, cancelled,
                   item, live, keep, boundVars>>

(* markReconcileCompletedUnsuccessfully *)
markReconcileCompletedUnsuccessfully ==
    /\ pc = "fail"
    /\ pc' = AfterPass
    /\ IF cancelled THEN UNCHANGED apiVars ELSE StatusMain("Aborted", tagged)
    /\ UNCHANGED <<childVars, feedVars, pending, cancelled, item, live, keep, boundVars>>

(* finalizeCR of a CR that is accepted: the users ConfigMap is written from *)
(* the CR as it is now, with an owner whatever the pass was told, and that  *)
(* CR becomes the ancestor.                                                 *)
Complete ==
    /\ users' = cr.spec /\ kept' = kept \ {"users"}
    /\ status' = "Completed" /\ done' = cr /\ chopIP' = ip
    /\ late' = IF cr.spec = live.spec THEN 0 ELSE cr.spec
    /\ UNCHANGED <<cr, tagged>>

(* What the CR holds now is stamped although the normalizer refuses it. *)
finalizeCR_RefusedToo ==
    /\ pc = "finalize"
    /\ pc' = AfterPass
    /\ IF cancelled \/ ~Exists THEN UNCHANGED <<apiVars, users, kept, late>> ELSE Complete
    /\ UNCHANGED <<conf, sts, podReady, feedVars, pending, cancelled, item, live, keep,
                   edits, flips, errors, restarts, failed, crdGoing>>

(* finalizeCR: the CR is read again and completed as it is now, unless the  *)
(* normalizer refuses it.                                                   *)
finalizeCR ==
    /\ pc = "finalize"
    /\ pc' = AfterPass
    /\ IF cancelled \/ ~Exists THEN UNCHANGED <<apiVars, users, kept, late>>
       ELSE IF cr.spec \in Refused
       THEN /\ status' = "Aborted" /\ tagged' = TRUE /\ chopIP' = ip
            /\ UNCHANGED <<cr, done, users, kept, late>>
       ELSE Complete
    /\ UNCHANGED <<conf, sts, podReady, feedVars, pending, cancelled, item, live, keep,
                   edits, flips, errors, restarts, failed, crdGoing>>

-----------------------------------------------------------------------------
(* The worker: deleteCHI.                                                  *)

(* deleteCRProtocol; a superseded deletion stops where it is. *)
deleteCRProtocol ==
    /\ pc = "delete"
    /\ IF cancelled THEN pc' = "idle" /\ UNCHANGED <<apiVars, conf, users, sts>>
       ELSE /\ pc' = "uninstall"
            /\ StatusMain("Terminating", tagged)
            /\ conf' = 0 /\ users' = 0 /\ sts' = 0
    /\ UNCHANGED <<podReady, kept, feedVars, pending, cancelled, item, live, keep, boundVars>>

(* Its status cannot be written, and it returns before it has deleted       *)
(* anything; the finalizer goes all the same.                               *)
deleteCRProtocolFails ==
    /\ pc = "delete" /\ ~cancelled /\ Fails("status")
    /\ pc' = "uninstall"
    /\ UNCHANGED <<apiVars, childVars, feedVars, pending, cancelled, item, live, keep>>

(* uninstallFinalizer's read *)
uninstallFinalizer ==
    /\ pc = "uninstall"
    /\ live' = cr
    /\ pc' = IF cancelled \/ ~Exists THEN "idle" ELSE "unpatch"
    /\ keep' = FALSE
    /\ UNCHANGED <<apiVars, childVars, feedVars, pending, cancelled, item, boundVars>>

(* patchCHIFinalizers replaces the whole list that was read; a finalizer    *)
(* that was removed meanwhile cannot be added to a CR marked deleted.       *)
patchCHIFinalizers ==
    /\ pc = "unpatch"
    /\ pc' = "idle"
    /\ IF ~cancelled /\ Exists /\ live.fin \ {"own"} \subseteq cr.fin
       THEN Write([cr EXCEPT !.fin = live.fin \ {"own"}])
       ELSE UNCHANGED <<apiVars, stream>>
    /\ UNCHANGED <<childVars, ip, cache, podEvents, timer, hold, pending, cancelled,
                   item, live, keep, boundVars>>

(* The read or the patch fails; deleteCHI logs it, and nobody takes the CR  *)
(* up again.                                                                *)
uninstallFinalizerFails ==
    /\ ~cancelled
    /\ \/ pc = "uninstall" /\ Fails("unget")
       \/ pc = "unpatch" /\ Fails("unpatch")
    /\ pc' = "idle" /\ keep' = FALSE
    /\ UNCHANGED <<apiVars, childVars, feedVars, pending, cancelled, item, live>>

-----------------------------------------------------------------------------
(* Pod-driven recovery, on the system worker.                              *)

(* shouldTriggerAutoRecovery: any tag of the normalizer among the errors    *)
(* rules it out.                                                            *)
shouldTriggerAutoRecovery == Exists /\ status = "Aborted" /\ ~cr.del /\ ~tagged

(* recoverAbortedReconcileOnPodReady *)
recoverAbortedReconcileOnPodReady ==
    /\ podEvents # <<>> /\ Head(podEvents) = "ready"
    /\ podEvents' = Tail(podEvents)
    /\ IF shouldTriggerAutoRecovery THEN enqueueAdd(cr) ELSE NoInsert
    /\ UNCHANGED <<apiVars, childVars, ip, stream, cache, timer, hold, workerVars, boundVars>>

(* shouldTriggerStuckHostRecovery *)
shouldTriggerStuckHostRecovery == Exists /\ status = "Completed" /\ ~cr.del

(* recoverCompletedReconcileOnPodNotReady captures the CR for later; a      *)
(* pod the kubelet is already dealing with is left alone.                   *)
recoverCompletedReconcileOnPodNotReady ==
    /\ podEvents # <<>> /\ Head(podEvents) = "notready"
    /\ podEvents' = Tail(podEvents)
    /\ timer' \in {timer} \cup
         IF RecoverCompleted /\ shouldTriggerStuckHostRecovery THEN {cr} ELSE {}
    /\ UNCHANGED <<apiVars, childVars, ip, stream, cache, hold, pending, cancelled,
                   workerVars, boundVars>>

(* The scheduled recovery: the CR as it was captured is queued. *)
TimerFires ==
    /\ timer # NoCR
    /\ timer' = NoCR
    /\ enqueueAdd(timer)
    /\ UNCHANGED <<apiVars, childVars, ip, stream, cache, podEvents, hold, workerVars, boundVars>>

-----------------------------------------------------------------------------
(* The worker of an EndpointSlice: updateEndpoints.                        *)

(* An EndpointSlice of the CR has changed, at any time; finalizeCR reads    *)
(* the CR.                                                                  *)
updateEndpoints ==
    /\ Slices /\ Exists /\ hold = NoCR
    /\ hold' = cr
    /\ UNCHANGED <<apiVars, childVars, ip, stream, cache, podEvents, timer, pending,
                   cancelled, workerVars, boundVars>>

(* finalizeCR writes the users ConfigMap from what it has read, unless the  *)
(* normalizer refuses it.  The write of the normalized CR is in StatusStore.*)
updateEndpointsWrites ==
    /\ hold # NoCR
    /\ IF hold.spec \in Refused THEN UNCHANGED <<users, kept>>
       ELSE users' = hold.spec /\ kept' = kept \ {"users"}
    /\ hold' = NoCR
    /\ UNCHANGED <<apiVars, conf, sts, podReady, ip, stream, cache, podEvents, timer,
                   pending, cancelled, workerVars, boundVars>>

-----------------------------------------------------------------------------
(* The environment.                                                        *)

CanEdit == edits < MaxEdits /\ edits' = edits + 1

EnvUnchanged == UNCHANGED <<childVars, ip, cache, podEvents, timer, hold, pending,
                            cancelled, workerVars, flips, errors, restarts, failed, late>>

(* A client writes a specification; one that PUTs a whole object also drops *)
(* finalizers it does not know.                                             *)
EditSpec ==
    /\ CanEdit /\ Exists /\ ~cr.del
    /\ \E s \in Specs \ {cr.spec}, fin \in {cr.fin, cr.fin \ {"own"}} :
         /\ MayRevert \/ s > cr.spec
         /\ MayStrip \/ fin = cr.fin
         /\ Write([cr EXCEPT !.spec = s, !.gen = @ + 1, !.fin = fin])
    /\ UNCHANGED crdGoing /\ EnvUnchanged

(* Another controller adds or removes its finalizer. *)
EditFinalizers ==
    /\ CanEdit /\ Exists
    /\ \E f \in Foreign :
         \/ f \in cr.fin /\ Write([cr EXCEPT !.fin = @ \ {f}])
         \/ f \notin cr.fin /\ ~cr.del /\ Write([cr EXCEPT !.fin = @ \cup {f}])
    /\ UNCHANGED crdGoing /\ EnvUnchanged

(* A client deletes the CR; the mark is a new generation. *)
Delete ==
    /\ CanEdit /\ Exists /\ ~cr.del
    /\ Write([cr EXCEPT !.del = TRUE, !.gen = @ + 1])
    /\ UNCHANGED crdGoing /\ EnvUnchanged

(* The CRD is deleted, and Kubernetes deletes the CR with it.  The CRD of a *)
(* CR that is already marked deleted stays.                                 *)
DeleteCRD ==
    /\ MayDropCRD /\ CanEdit /\ Exists /\ ~cr.del
    /\ crdGoing' = TRUE
    /\ Write([cr EXCEPT !.del = TRUE, !.gen = @ + 1])
    /\ EnvUnchanged

(* The pods change their readiness, and the informer tells the system       *)
(* worker.                                                                  *)
PodFlips ==
    /\ flips < MaxFlips /\ sts # 0
    /\ flips' = flips + 1
    /\ podReady' = ~podReady
    /\ podEvents' = Append(podEvents, IF podReady THEN "notready" ELSE "ready")
    /\ UNCHANGED <<apiVars, conf, users, sts, kept, ip, stream, cache, timer, hold, pending, cancelled,
                   workerVars, edits, errors, restarts, failed, late, crdGoing>>

(* Kubernetes deletes what a CR that is gone owned. *)
Owned(child, version) == IF child \in kept THEN version ELSE 0
GarbageCollect ==
    /\ ~Exists
    /\ conf' = Owned("conf", conf) /\ users' = Owned("users", users)
    /\ sts' = Owned("sts", sts)
    /\ <<conf, users, sts>>' # <<conf, users, sts>>
    /\ UNCHANGED <<apiVars, podReady, kept, feedVars, pending, cancelled, workerVars, boundVars>>

(* The operator dies and starts again, perhaps under another address; its   *)
(* informer lists the CR.                                                   *)
Restart ==
    /\ restarts < MaxRestarts
    /\ restarts' = restarts + 1
    /\ ip' \in IPs
    /\ stream' = <<>> /\ cache' = cr
    /\ pending' = IF Exists THEN <<[old |-> NoCR, new |-> cr]>> ELSE <<>>
    /\ podEvents' = <<>> /\ timer' = NoCR /\ hold' = NoCR
    /\ pc' = "idle" /\ item' = NoItem /\ live' = NoCR /\ keep' = FALSE
    /\ cancelled' = FALSE
    /\ UNCHANGED <<apiVars, childVars, edits, flips, errors, failed, late, crdGoing>>

-----------------------------------------------------------------------------
(* The CR has just been created. *)
Init ==
    /\ cr \in [spec : {1}, gen : {1}, fin : SUBSET Foreign, del : {FALSE}]
    /\ status = "" /\ done = NoCR /\ chopIP = "" /\ tagged = FALSE
    /\ crdGoing = FALSE
    /\ conf = 0 /\ users = 0 /\ sts = 0 /\ podReady = TRUE /\ kept = {}
    /\ ip \in IPs
    /\ stream = <<cr>> /\ cache = NoCR /\ pending = <<>>
    /\ podEvents = <<>> /\ timer = NoCR /\ hold = NoCR
    /\ pc = "idle" /\ item = NoItem /\ live = NoCR /\ keep = FALSE /\ cancelled = FALSE
    /\ edits = 0 /\ flips = 0 /\ errors = 0 /\ restarts = 0
    /\ failed = {} /\ late = 0

(* What the worker of the CR does. *)
WorkerNext ==
    \/ Take \/ ensureFinalizer \/ installFinalizer \/ updateCHI
    \/ reconcileCR \/ reconcileAux \/ reconcileHosts
    \/ markReconcileCompletedUnsuccessfully \/ finalizeCR
    \/ deleteCRProtocol \/ uninstallFinalizer \/ patchCHIFinalizers

(* What the system worker and its timers do. *)
RecoveryNext ==
    \/ recoverAbortedReconcileOnPodReady
    \/ recoverCompletedReconcileOnPodNotReady
    \/ TimerFires

(* A call of the worker fails. *)
FailNext ==
    \/ updateCHIFails \/ deleteCHIFails \/ deleteCRProtocolFails \/ uninstallFinalizerFails

Next ==
    \/ WorkerNext \/ RecoveryNext \/ Deliver \/ GarbageCollect
    \/ Resync \/ FailNext \/ updateEndpoints \/ updateEndpointsWrites
    \/ EditSpec \/ EditFinalizers \/ Delete \/ DeleteCRD \/ PodFlips \/ Restart

Spec == Init /\ [][Next]_vars

(* Worker threads run, the watch delivers, timers fire, and Kubernetes      *)
(* collects; nothing makes a client, a pod or a crash happen.               *)
Fairness ==
    /\ WF_vars(WorkerNext) /\ WF_vars(RecoveryNext)
    /\ WF_vars(Deliver) /\ WF_vars(GarbageCollect)

FairSpec == Spec /\ Fairness

-----------------------------------------------------------------------------
(* Properties.                                                             *)

ApiTypeOK ==
    /\ cr \in Versions /\ status \in Statuses /\ done \in Versions
    /\ chopIP \in IPs \cup {""} /\ tagged \in BOOLEAN
ChildTypeOK ==
    /\ {conf, users} \subseteq Specs \cup {0} /\ sts \in Nat /\ podReady \in BOOLEAN
    /\ kept \subseteq Children
FeedTypeOK ==
    /\ ip \in IPs /\ stream \in Seq(Versions) /\ cache \in Versions
    /\ podEvents \in Seq({"ready", "notready"}) /\ {timer, hold} \subseteq Versions
QueueTypeOK ==
    pending \in Seq(Item) /\ Len(pending) <= 2 /\ cancelled \in BOOLEAN
WorkerTypeOK ==
    /\ pc \in Pcs /\ item \in Item /\ live \in Versions /\ keep \in BOOLEAN
    /\ pc \in {"gate", "aux", "hosts", "fail", "finalize", "delete"} => live # NoCR
BoundTypeOK ==
    /\ edits \in 0 .. MaxEdits /\ flips \in 0 .. MaxFlips
    /\ errors \in 0 .. MaxErrors /\ restarts \in 0 .. MaxRestarts
    /\ failed \subseteq Faults /\ late \in Specs \cup {0} /\ crdGoing \in BOOLEAN

(* The variables range over the values the code gives them, no more than    *)
(* two items wait, and a pass works on a CR it has read.                    *)
TypeOK ==
    /\ ApiTypeOK /\ ChildTypeOK /\ FeedTypeOK /\ QueueTypeOK
    /\ WorkerTypeOK /\ BoundTypeOK

Wanted == Exists /\ ~cr.del

(* A CR that reports why its last change is not applied. *)
Excused == status = "Aborted" \/ cr.spec \in Suspended

(* Once clients, pods and crashes are quiet, the StatefulSets are what the  *)
(* last specification a client wrote asks for, and the ConfigMaps were      *)
(* written from it, whatever events were merged, superseded or delayed on   *)
(* the way and whoever stripped the finalizer, or the CR says Aborted       *)
(* (decideReconcileGate: a change that was not applied is never skipped).   *)
(* Settings that landed in the middle of a pass are the exception: the pass *)
(* stamps them as its ancestor without having written them (finalizeCR).    *)
LastChangeApplied ==
    <>[](Wanted => \/ Excused
                   \/ sts = Sts[cr.spec] /\ cr.spec \in {conf, late})

(* A call failed after which nobody takes the CR up again. *)
GivenUp == failed \cap {"get", "reget", "unget", "unpatch"} # {}

(* A CR marked deleted goes, with everything it had unless its CRD goes: no *)
(* order of events makes the worker give its deletion up, and no failure of *)
(* the status write (deleteCHI).  A failed read or a failed patch does.     *)
DeletionCompletes ==
    (Exists /\ cr.del) ~> \/ ~Exists /\ (Torn \/ crdGoing)
                          \/ Exists /\ GivenUp


(* The version that is wanted, and whether the deletion has removed it. *)
wantBar == IF Wanted THEN Sts[cr.spec] ELSE 0
tornBar == status = "Terminating"
stuckBar == Excused \/ crdGoing \/ (Exists /\ cr.del /\ GivenUp)

(* What the worker does to the StatefulSets is what Convergence allows: it  *)
(* never goes back to an older specification, and never brings back what    *)
(* the deletion of the CR has torn down; and it converges.                  *)
Promise == INSTANCE Convergence WITH
    want <- wantBar, have <- sts, torn <- tornBar, stuck <- stuckBar
Converges == Promise!Spec

(* A specification the normalizer refuses reaches neither the children nor  *)
(* the ancestor, also when it is written in the middle of a pass of another *)
(* one or an EndpointSlice changes (reconcileCR, finalizeCR).               *)
RefusedNeverApplied == {conf, users, done.spec} \cap Refused = {}

=============================================================================
