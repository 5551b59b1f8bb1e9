---------------------------- MODULE HostObjects -----------------------------
(***************************************************************************)
(* The Kubernetes objects of one ClickHouse host, call by call: its        *)
(* StatefulSet (statefulset-reconciler.go), its pod, its volume claims     *)
(* (storage-reconciler.go), the cleanup that ends a pass and the deletion  *)
(* of the CR (worker-deleter.go).  ChiReconcile has the rest of the pass   *)
(* and the other hosts; here a pass is what it does to this one.           *)
(*                                                                         *)
(* A StatefulSet is judged by the label that holds the version it was      *)
(* written with: here its template and its volumes, but not its replicas.  *)
(***************************************************************************)
EXTENDS Naturals, FiniteSets, Sequences

CONSTANTS
    VolumeSeq,       \* the volumes, in the order they are mounted
    Operators,       \* the volumes whose claims the operator provisions
    Retained,        \* the volumes with reclaim policy Retain
    Specs,           \* records [there, ver, vols]: is the host in the CR, its
                     \* template and its volume claim templates
    NoSpec,          \* stands for no specification
    First,           \* the specification of the initial state
    Edits,           \* the changes of it that clients make, pairs of specifications
    Policies,        \* records [create, update, recreate, loss, failed, unknown]:
                     \* statefulSet.create.onFailure, update.onFailure,
                     \* recreate.onUpdateFailure, recreate.onDataLoss, and what the
                     \* cleanup does with failed and with unknown claims
    Faults,          \* the calls that may fail
    MaxEdits, MaxErrors, MaxRestarts, MaxLosses   \* bounds

Volumes == {VolumeSeq[i] : i \in DOMAIN VolumeSeq}
NoSts == <<>>

FaultKinds == {"claimread", "claimwrite", "claimdelete", "stsread", "stswrite",
               "stsdelete", "drain", "launch", "poll", "ddl", "list", "pod",
               "status", "finalizer"}

ASSUME HostSpecAssumption ==
    /\ VolumeSeq \in Seq(Volumes)
    /\ First \in Specs /\ NoSpec \notin Specs /\ Edits \subseteq Specs \X Specs
    /\ \A s \in Specs : s.there \in BOOLEAN /\ s.vols \subseteq Volumes
    /\ Operators \cup Retained \subseteq Volumes
ASSUME HostPolicyAssumption == \A p \in Policies : p.update # "delete"
ASSUME HostBoundAssumption ==
    /\ Faults \subseteq FaultKinds
    /\ {MaxEdits, MaxErrors, MaxRestarts, MaxLosses} \subseteq Nat

VARIABLES
    \* the custom resource; phase is "live", "deleting", "held" by a finalizer that
    \* could not be taken off, or "gone"
    spec, anc, status, listed, phase, policy,
    \* what Kubernetes holds
    sts, pod, claim, tagged,
    \* an event on its way to the informer, and the worker's queue
    event, pending, cancelled,
    \* the pass: its specification, its step, the walk over the volumes
    cr, pc, leg, todo, verdict,
    \* the host's attributes and options, and the registries: reconciled, failed
    \* and, once discovered, to be purged
    attr, opts, created, cur, reconciled, failed, doomed,
    \* what the properties remember: which volumes were found lost, by this pass
    \* or before, and have their tables yet to be created anew, or have them but
    \* kept the replica; and whether the host was as it should be when the pass
    \* began and nobody but the worker has touched it since
    owed, well,
    \* counters
    edits, errors, restarts, losses

crVars == <<spec, anc, status, listed, phase, policy>>
kubeVars == <<sts, pod, claim, tagged>>
queueVars == <<event, pending, cancelled>>
walkVars == <<leg, todo, verdict>>
hostVars == <<attr, opts, created, cur>>
registryVars == <<reconciled, failed, doomed>>
passVars == <<cr, pc, walkVars, hostVars, registryVars>>
ghostVars == <<owed, well>>
countVars == <<edits, errors, restarts, losses>>
vars == <<crVars, kubeVars, queueVars, passVars, ghostVars, countVars>>

Steps == {"idle", "pvcs", "status", "sts", "delete", "drain", "remove", "create",
          "launch", "tables", "clean", "purge", "stamp", "fail", "delsts", "delpvc", "finalizer"}

-----------------------------------------------------------------------------
(* What the code asks.                                                     *)

Desired(s) == [ver |-> s.ver, vols |-> s.vols, reps |-> 1]

(* GetObjectStatusFromMetas compares the labels: replicas are not looked at. *)
SameLabel(a, b) == a.ver = b.ver /\ a.vols = b.vols

HasAncestor == anc # NoSpec /\ anc.there

(* getStatefulSetStatus *)
StatefulSetStatus ==
    CASE sts # NoSts -> IF SameLabel(sts, cr) THEN "Same" ELSE "Modified"
      [] OTHER -> IF HasAncestor THEN "Modified" ELSE "Requested"

Mounted == IF sts = NoSts THEN {} ELSE sts.vols

IsStatefulSetReady ==
    IF sts.reps = 0 THEN pod = "none" ELSE pod = "up"

(* isNewVolume: when the ancestor cannot be asked, the volume is not new. *)
isNewVolume(v) == HasAncestor /\ v \notin anc.vols

(* errSeverity, moreSevere: what is found on one volume never hides what is *)
(* found on another.                                                        *)
errSeverity(e) == CASE e = "" -> 0 [] e = "new" -> 1 [] e = "missed" -> 2 [] e = "lost" -> 3

moreSevere_KeepsFirst(a, b) == IF a = "" THEN b ELSE a

moreSevere(a, b) == IF errSeverity(b) > errSeverity(a) THEN b ELSE a

(* What reconcilePVCFromVolumeMount says of a claim: isLostPVC, isLostPV and *)
(* the claim that stays nil.                                                 *)
VolumeVerdict(v) ==
    CASE claim[v] = "lost" -> IF v \in Operators THEN "lost" ELSE "missed"
      [] claim[v] = "none" /\ listed /\ isNewVolume(v) -> "new"
      [] claim[v] = "none" /\ v \notin Operators -> "missed"
      [] claim[v] = "none" /\ listed -> "lost"
      [] OTHER -> ""

(* IsInNewCluster: the other hosts of a new CR are new as well. *)
IsInNewCluster == anc = NoSpec /\ created

shouldMigrateTables == opts.migrate \/ (~listed /\ ~IsInNewCluster)

(* shouldPurgePVC, and the label purgePVC looks at: a claim that was never  *)
(* tagged counts as Delete.                                                 *)
GetReclaimPolicy(v) == IF v \in tagged /\ v \in Retained THEN "Retain" ELSE "Delete"

shouldPurgePVC_IgnoresFailed(v) == policy.unknown = "Delete"

shouldPurgePVC(v) == (IF v \in failed THEN policy.failed ELSE policy.unknown) = "Delete"

Purged == {v \in Volumes \ reconciled :
             claim[v] # "none" /\ shouldPurgePVC(v) /\ GetReclaimPolicy(v) = "Delete"}

(* HostCanDeletePVC goes by the mounts of the StatefulSet that was read last *)
(* and the templates of the CR; a claim of unclear origin is deleted.        *)
HostCanDeletePVC(v) == ~(v \in cur /\ v \in cr.vols /\ v \in Retained)

(* A pod can start once its volumes are there. *)
CanStart ==
    /\ sts # NoSts /\ sts.reps = 1
    /\ \A v \in sts.vols : claim[v] = "bound" \/ (claim[v] = "none" /\ v \notin Operators)

(* Claims deleted while a pod mounts them stay until the pod is gone. *)
WithDeleted(gone, users) ==
    [v \in Volumes |-> IF v \notin gone \/ claim[v] = "none" THEN claim[v]
                       ELSE IF v \in users THEN "terminating" ELSE "none"]

NothingDoomed == [sts |-> FALSE, claims |-> {}]

NoOptions == [recreate |-> FALSE, migrate |-> FALSE, drop |-> FALSE]

-----------------------------------------------------------------------------
Init ==
    /\ spec = First /\ cr = First /\ policy \in Policies
    /\ phase = "live" /\ event = FALSE /\ cancelled = FALSE /\ well = FALSE
    /\ \/ /\ anc = NoSpec /\ status = "" /\ listed = FALSE /\ pending = TRUE
          /\ sts = NoSts /\ pod = "none" /\ tagged = {}
          /\ claim = [v \in Volumes |-> "none"]
       \/ /\ First.there
          /\ anc = First /\ status = "Completed" /\ listed = TRUE /\ pending = FALSE
          /\ sts = Desired(First) /\ pod = "up" /\ tagged = First.vols
          /\ claim = [v \in Volumes |-> IF v \in First.vols THEN "bound" ELSE "none"]
    /\ pc = "idle" /\ leg = "first" /\ todo = {} /\ verdict = ""
    /\ attr = "" /\ opts = NoOptions /\ created = FALSE /\ cur = {}
    /\ reconciled = {} /\ failed = {} /\ doomed = NothingDoomed
    /\ owed = [v \in Volumes |-> "no"]
    /\ edits = 0 /\ errors = 0 /\ restarts = 0 /\ losses = 0

-----------------------------------------------------------------------------
NoError == UNCHANGED errors
Fault(kind) == kind \in Faults /\ errors < MaxErrors /\ errors' = errors + 1

Frame == UNCHANGED <<spec, anc, phase, policy, queueVars, cr,
                     edits, restarts, losses>>

(* STS.Remove: the pod goes with its StatefulSet. *)
Removed_OrphansPod == sts' = NoSts /\ UNCHANGED pod

Removed == sts' = NoSts /\ pod' = "none"

Goto(step) == pc' = step /\ UNCHANGED walkVars

(* ReconcilePVCs walks the mounts of the desired StatefulSet. *)
StartWalk(which, vols) ==
    /\ pc' = "pvcs" /\ leg' = which /\ verdict' = ""
    /\ todo' = {i \in DOMAIN VolumeSeq : VolumeSeq[i] \in vols}

(* reconcileHostStatefulSet succeeded: on to the polishing of the volumes. *)
StatefulSetDone == StartWalk("polish", cr.vols)

GivenUp == [v \in Volumes |-> IF owed[v] = "now" THEN "before" ELSE owed[v]]

(* updateCHI: a CR that is gone is no longer looked at. *)
updateCHINotFound ==
    /\ pc = "idle" /\ pending /\ phase = "gone" /\ pending' = FALSE
    /\ UNCHANGED <<crVars, kubeVars, event, cancelled, passVars, ghostVars, countVars>>

(* decideReconcileGate: the ancestor is what the CR asks for, and the host  *)
(* has it and is healthy.  The other hosts may still ask for a pass.        *)
gateNothingToDo ==
    /\ pc = "idle" /\ pending /\ phase = "live" /\ anc = spec
    /\ spec.there => sts # NoSts /\ SameLabel(sts, spec) /\ pod = "up"
    /\ pending' = FALSE
    /\ UNCHANGED <<crVars, kubeVars, event, cancelled, passVars, ghostVars, countVars>>

(* The pass forgets what the last one knew. *)
PassBegins ==
    /\ pc = "idle" /\ pending /\ phase = "live"
    /\ pending' = FALSE /\ cr' = spec /\ status' = "InProgress"
    /\ IF spec.there THEN StartWalk("first", spec.vols) ELSE Goto("clean")
    /\ attr' = "" /\ opts' = NoOptions /\ created' = FALSE /\ cur' = Mounted
    /\ reconciled' = {} /\ failed' = {} /\ doomed' = NothingDoomed
    /\ owed' = GivenUp
    /\ well' = /\ spec.there /\ sts = Desired(spec) /\ pod = "up"
               /\ \A v \in spec.vols : claim[v] = "bound"
    /\ UNCHANGED <<spec, anc, listed, phase, policy, kubeVars, event, cancelled, countVars>>

-----------------------------------------------------------------------------
(* The claims.                                                             *)

(* reconcilePVCFromVolumeMount: a claim that cannot be read is passed over; *)
(* one without a volume is deleted first; then the claim is tagged and      *)
(* updated, or created if the operator provisions it.                       *)
reconcilePVCFromVolumeMount(v) ==
    LET Verdict(e) == verdict' = moreSevere(verdict, e)
        Write(c) == /\ claim' = [claim EXCEPT ![v] = c]
                    /\ tagged' = tagged \cup {v}
                    /\ reconciled' = reconciled \cup {v} /\ UNCHANGED failed
    IN
    \/ /\ Fault("claimread") /\ UNCHANGED <<verdict, claim, tagged, reconciled, failed, owed>>
    \/ /\ owed' = IF leg = "first" /\ listed /\ VolumeVerdict(v) \in {"lost", "missed"}
                  THEN [owed EXCEPT ![v] = "now"] ELSE owed
       /\ \/ /\ NoError /\ Verdict(VolumeVerdict(v))
             /\ IF v \in Operators \/ claim[v] \in {"bound", "terminating"}
                THEN Write(IF claim[v] = "terminating" THEN claim[v] ELSE "bound")
                ELSE /\ claim' = [claim EXCEPT ![v] = "none"] /\ tagged' = tagged \ {v}
                     /\ UNCHANGED <<reconciled, failed>>
          \/ /\ Fault("claimwrite") /\ Verdict(VolumeVerdict(v))
             /\ v \in Operators \/ claim[v] \in {"bound", "terminating"}
             /\ failed' = failed \cup {v} /\ UNCHANGED reconciled
             /\ claim' = [claim EXCEPT ![v] = IF @ = "lost" THEN "none" ELSE @]
             /\ tagged' = {u \in tagged : claim'[u] # "none"}
          \/ /\ Fault("claimdelete") /\ claim[v] = "lost"
             /\ Verdict("lost") /\ Write("lost")

(* The walk of ReconcilePVCs, one mount at a time. *)
ReconcilePVCs ==
    /\ pc = "pvcs" /\ ~cancelled
    /\ \E i \in todo : /\ \A j \in todo : i <= j
                      /\ todo' = todo \ {i}
                      /\ reconcilePVCFromVolumeMount(VolumeSeq[i])
    /\ Frame
    /\ UNCHANGED <<status, listed, sts, pod, pc, leg, hostVars, doomed, well>>

(* reconcileHostMain on the verdict of the first walk, and where the other  *)
(* two walks lead: createStatefulSet, and the tables.                       *)
VolumesWalked ==
    /\ pc = "pvcs" /\ (todo = {} \/ cancelled)
    /\ \/ /\ leg = "first" /\ verdict \in {"lost", "missed"} /\ policy.loss = "abort"
          /\ Goto("fail") /\ UNCHANGED opts
       \/ /\ leg = "first" /\ ~(verdict \in {"lost", "missed"} /\ policy.loss = "abort")
          /\ opts' = [recreate |-> verdict # "", migrate |-> verdict # "",
                      drop |-> verdict \in {"lost", "missed"}]
          /\ Goto("status")
       \/ leg = "middle" /\ Goto("create") /\ UNCHANGED opts
       \/ leg = "polish" /\ Goto("tables") /\ UNCHANGED opts
    /\ Frame
    /\ UNCHANGED <<status, listed, kubeVars, attr, created, cur, registryVars, ghostVars,
                   errors>>

-----------------------------------------------------------------------------
(* The StatefulSet.                                                        *)

PrepareHostStatefulSetWithStatus ==
    /\ pc = "status" /\ Goto("sts")
    /\ \/ NoError /\ attr' = StatefulSetStatus
       \/ Fault("stsread") /\ attr' = "Unknown"
    /\ Frame
    /\ UNCHANGED <<status, listed, kubeVars, opts, created, cur, registryVars, ghostVars>>

(* What ReconcileStatefulSet makes of its read of the object: one that      *)
(* cannot be read is neither absent nor broken.                             *)
Arm_UnreadIsBroken(unread) ==
    CASE opts.recreate -> "replace"
      [] sts = NoSts /\ ~unread -> "create"
      [] OTHER -> IF ~unread /\ IsStatefulSetReady THEN "update" ELSE "replace"

Arm(unread) ==
    CASE opts.recreate -> "recreate"
      [] unread -> "error"
      [] sts = NoSts -> "create"
      [] OTHER -> IF IsStatefulSetReady THEN "update" ELSE "replace"

(* onUpdateFailure: a StatefulSet that cannot be updated. *)
AfterFailedUpdate_GoesOn == "done"

AfterFailedUpdate == IF policy.recreate = "abort" THEN "fail" ELSE "delete"

(* The API refuses a change of a StatefulSet's own claim templates. *)
Updatable == sts.vols \ Operators = cr.vols \ Operators

ReconcileStatefulSet ==
    LET Leave(step) == IF step = "done" THEN StatefulSetDone ELSE Goto(step)
        ArmStep(arm) == CASE arm = "recreate" -> "delete" [] arm = "replace" -> AfterFailedUpdate
                          [] arm = "create" -> "create" [] OTHER -> "fail"
    IN
    /\ pc = "sts"
    /\ \/ /\ cancelled \/ attr = "Same"
          /\ NoError /\ StatefulSetDone /\ UNCHANGED <<sts, pod, cur, well>>
       \/ /\ ~cancelled /\ attr # "Same" /\ UNCHANGED well
          /\ \E unread \in BOOLEAN :
                /\ cur' = IF unread THEN {} ELSE Mounted
                /\ CASE Arm(unread) = "update" /\ Updatable /\ sts # Desired(cr) ->
                           Goto("launch") /\ sts' = Desired(cr) /\ pod' = "starting"
                     [] Arm(unread) = "update" /\ Updatable /\ sts = Desired(cr) ->
                           StatefulSetDone /\ UNCHANGED <<sts, pod>>
                     [] Arm(unread) = "update" /\ ~Updatable ->
                           Leave(AfterFailedUpdate) /\ UNCHANGED <<sts, pod>>
                     [] OTHER -> Leave(ArmStep(Arm(unread))) /\ UNCHANGED <<sts, pod>>
                /\ IF unread THEN Fault("stsread") ELSE NoError
       \/ /\ ~cancelled /\ attr # "Same" /\ Arm(FALSE) = "update" /\ Fault("stswrite")
          /\ cur' = Mounted /\ Leave(AfterFailedUpdate)
          /\ well' = FALSE /\ UNCHANGED <<sts, pod>>
    /\ Frame
    /\ UNCHANGED <<status, listed, claim, tagged, attr, opts, created, registryVars, owed>>

(* recreateStatefulSet, doDeleteStatefulSet: scaled to zero first, if that  *)
(* works.                                                                   *)
doDeleteStatefulSet ==
    /\ pc = "delete"
    /\ \/ cancelled /\ NoError /\ StatefulSetDone /\ UNCHANGED <<sts, pod, cur>>
       \/ ~cancelled /\ Fault("stsread") /\ Goto("fail") /\ UNCHANGED <<sts, pod, cur>>
       \/ /\ ~cancelled /\ sts = NoSts /\ NoError
          /\ StartWalk("middle", cr.vols) /\ UNCHANGED <<sts, pod, cur>>
       \/ /\ ~cancelled /\ sts # NoSts /\ cur' = sts.vols
          /\ \/ /\ NoError /\ Goto("drain")
                /\ sts' = [sts EXCEPT !.reps = 0]
                /\ pod' = IF pod = "none" THEN "none" ELSE "stopping"
             \/ sts.reps = 1 /\ Fault("stswrite") /\ Goto("remove") /\ UNCHANGED <<sts, pod>>
    /\ Frame
    /\ UNCHANGED <<status, listed, claim, tagged, attr, opts, created, registryVars,
                   ghostVars>>

(* The wait for the pod to go.  Only a spent budget forces it out; a read   *)
(* that fails or a pass that is cancelled ends the wait as well.            *)
waitScaledDown ==
    /\ pc = "drain" /\ Goto("remove")
    /\ \/ (pod = "none" \/ cancelled) /\ NoError /\ UNCHANGED pod
       \/ pod # "none" /\ ~cancelled /\ Fault("drain") /\ pod' \in {"none", pod}
    /\ Frame
    /\ UNCHANGED <<status, listed, sts, claim, tagged, hostVars, registryVars, ghostVars>>

(* STS.Delete polls until the object is gone; a cancelled poll says success *)
(* whether or not it got as far as the request.                             *)
deleteStatefulSet ==
    /\ pc = "remove"
    /\ \/ /\ NoError /\ Removed /\ StartWalk("middle", cr.vols)
       \/ cancelled /\ NoError /\ UNCHANGED <<sts, pod>> /\ StartWalk("middle", cr.vols)
       \/ /\ ~cancelled /\ Fault("stsdelete") /\ Goto("fail")
          /\ \/ UNCHANGED <<sts, pod>>
             \/ Removed
    /\ Frame
    /\ UNCHANGED <<status, listed, claim, tagged, hostVars, registryVars, ghostVars>>

(* doCreateStatefulSet: what exists already is an error. *)
createStatefulSet ==
    /\ pc = "create" /\ created' = TRUE
    /\ \/ /\ sts = NoSts /\ NoError /\ Goto("launch")
          /\ sts' = Desired(cr) /\ pod' = "starting"
       \/ /\ IF sts = NoSts THEN Fault("stswrite") ELSE NoError
          /\ Goto("fail") /\ UNCHANGED <<sts, pod>>
    /\ Frame
    /\ UNCHANGED <<status, listed, claim, tagged, attr, opts, cur, registryVars, ghostVars>>

(* waitHostStatefulSetToLaunch, OnStatefulSetCreateFailed and               *)
(* OnStatefulSetUpdateFailed: with onFailure "delete" the whole host goes,  *)
(* its claims too.                                                          *)
waitHostStatefulSetToLaunch ==
    LET onFailure == IF created THEN policy.create ELSE policy.update
        deleted == {v \in Volumes : HostCanDeletePVC(v)}
    IN
    /\ pc = "launch"
    /\ \/ /\ cancelled \/ IsStatefulSetReady
          /\ NoError /\ StatefulSetDone /\ UNCHANGED <<sts, pod, claim, tagged>>
       \/ /\ ~cancelled /\ ~IsStatefulSetReady
          /\ IF CanStart THEN Fault("launch") ELSE NoError
          /\ \/ onFailure = "abort" /\ Goto("fail") /\ UNCHANGED <<sts, pod, claim, tagged>>
             \/ onFailure = "ignore" /\ StatefulSetDone /\ UNCHANGED <<sts, pod, claim, tagged>>
             \/ /\ onFailure = "delete" /\ Goto("fail")
                /\ Removed
                /\ claim' = WithDeleted(deleted, {}) /\ tagged' = tagged \ deleted
    /\ Frame
    /\ UNCHANGED <<status, listed, hostVars, registryVars, ghostVars>>

-----------------------------------------------------------------------------
(* The rest of the pass.                                                   *)

(* What migrateTables with a drop of the replica leaves: dropZKReplica may  *)
(* be refused or fail, and migrateTables does not look at its result.       *)
AfterDrop(dropped) ==
    [v \in Volumes |-> IF dropped \/ owed[v] = "no" THEN "no" ELSE "kept"]

(* reconcileHostTables: a host that does not answer goes on without its     *)
(* tables; a failed statement ends the pass unsuccessfully.                 *)
reconcileHostTables ==
    /\ pc = "tables"
    /\ \/ /\ ~shouldMigrateTables \/ cancelled
          /\ NoError /\ Goto("clean") /\ UNCHANGED <<listed, owed>>
       \/ /\ shouldMigrateTables /\ ~cancelled /\ pod = "up" /\ NoError
          /\ Goto("clean") /\ listed' = TRUE
          /\ owed' \in IF opts.drop THEN {AfterDrop(d) : d \in BOOLEAN} ELSE {owed}
       \/ /\ shouldMigrateTables /\ ~cancelled /\ pod = "up" /\ Fault("ddl")
          /\ Goto("fail") /\ UNCHANGED <<listed, owed>>
       \/ /\ shouldMigrateTables /\ ~cancelled
          /\ IF pod = "up" \/ CanStart THEN Fault("poll") ELSE NoError
          /\ Goto("clean") /\ owed' = GivenUp /\ UNCHANGED listed
    /\ Frame
    /\ UNCHANGED <<status, kubeVars, hostVars, registryVars, well>>

(* clean, discovery: what was found and not reconciled is to be deleted, as *)
(* far as the lists could be read and the policies agree.                   *)
clean ==
    /\ pc = "clean"
    /\ \/ cancelled /\ NoError /\ Goto("stamp") /\ UNCHANGED doomed
       \/ /\ ~cancelled /\ Goto("purge")
          /\ \E found \in BOOLEAN, kept \in SUBSET Purged :
                /\ doomed' = [sts |-> found /\ sts # NoSts /\ ~cr.there, claims |-> Purged \ kept]
                /\ IF found /\ kept = {} THEN NoError ELSE Fault("list")
    /\ Frame
    /\ UNCHANGED <<status, listed, kubeVars, hostVars, reconciled, failed, ghostVars>>

(* purge: objects go in any order, a StatefulSet after a poll, a claim with *)
(* a context of its own: a cancellation on the way stops none of them.  A   *)
(* poll that is cancelled may end before the request.                       *)
purge ==
    /\ pc = "purge"
    /\ \/ /\ doomed.sts /\ doomed' = [doomed EXCEPT !.sts = FALSE]
          /\ \/ NoError /\ Removed
             \/ (IF cancelled THEN NoError ELSE Fault("stsdelete")) /\ UNCHANGED <<sts, pod>>
          /\ Goto("purge") /\ UNCHANGED <<claim, tagged, listed>>
       \/ /\ \E v \in doomed.claims :
                /\ doomed' = [doomed EXCEPT !.claims = @ \ {v}]
                /\ \/ NoError /\ claim' = WithDeleted({v}, IF pod = "none" THEN {} ELSE Mounted)
                   \/ Fault("claimdelete") /\ UNCHANGED claim
          /\ tagged' = {v \in tagged : claim'[v] # "none"}
          /\ Goto("purge") /\ UNCHANGED <<sts, pod, listed>>
       \/ /\ doomed = NothingDoomed /\ NoError /\ Goto("stamp")
          /\ listed' = (listed /\ cr.there) /\ UNCHANGED <<kubeVars, doomed>>
    /\ Frame
    /\ UNCHANGED <<status, hostVars, reconciled, failed, ghostVars>>

PassOver == /\ pc' = "idle" /\ cancelled' = FALSE /\ well' = FALSE
            /\ attr' = "" /\ opts' = NoOptions /\ created' = FALSE /\ cur' = {}
            /\ leg' = "first" /\ todo' = {} /\ verdict' = ""
            /\ reconciled' = {} /\ failed' = {} /\ doomed' = NothingDoomed /\ cr' = spec

(* finalizeReconcileAndMarkCompleted *)
finalizeReconcileAndMarkCompleted ==
    /\ pc = "stamp" /\ PassOver
    /\ IF cancelled THEN UNCHANGED <<status, anc>> ELSE status' = "Completed" /\ anc' = spec
    /\ UNCHANGED <<spec, listed, phase, policy, kubeVars, event, pending, owed, countVars>>

(* markReconcileCompletedUnsuccessfully *)
markReconcileCompletedUnsuccessfully ==
    /\ pc = "fail" /\ PassOver
    /\ status' = IF cancelled THEN status ELSE "Aborted"
    /\ UNCHANGED <<spec, anc, listed, phase, policy, kubeVars, event, pending, owed, countVars>>

-----------------------------------------------------------------------------
(* The deletion of the CR.                                                 *)

(* deleteCHI, deleteCRProtocol, deleteHost: a status that cannot be written *)
(* ends the deletion before anything is deleted, and a StatefulSet that     *)
(* cannot be read, or is not there, ends that of the host; either error is  *)
(* dropped.                                                                 *)
deleteHost ==
    /\ pc = "idle" /\ pending /\ phase \in {"deleting", "held"}
    /\ pending' = FALSE /\ cr' = spec
    /\ \/ sts # NoSts /\ NoError /\ cur' = sts.vols /\ Goto("delsts")
       \/ /\ IF sts # NoSts THEN Fault("stsread") ELSE NoError
          /\ Goto("finalizer") /\ UNCHANGED cur
       \/ Fault("status") /\ Goto("finalizer") /\ UNCHANGED cur
    /\ UNCHANGED <<crVars, kubeVars, event, cancelled, attr, opts, created, registryVars, ghostVars,
                   edits, restarts, losses>>

deleteHostStatefulSet ==
    /\ pc = "delsts" /\ Goto("delpvc")
    /\ \/ NoError /\ Removed
       \/ Fault("stsdelete") /\ UNCHANGED <<sts, pod>>
    /\ Frame
    /\ UNCHANGED <<status, listed, claim, tagged, hostVars, registryVars, ghostVars>>

DeletePVC ==
    /\ pc = "delpvc" /\ Goto("finalizer")
    /\ \E kept \in SUBSET {v \in Volumes : HostCanDeletePVC(v) /\ claim[v] # "none"} :
          /\ IF kept # {} THEN Fault("list") ELSE NoError
          /\ claim' = WithDeleted({v \in Volumes : HostCanDeletePVC(v)} \ kept,
                                  IF pod = "none" THEN {} ELSE Mounted)
    /\ tagged' = {v \in tagged : claim'[v] # "none"}
    /\ Frame
    /\ UNCHANGED <<status, listed, sts, pod, hostVars, registryVars, ghostVars>>

(* uninstallFinalizer: an error of its read or patch is only logged, and    *)
(* nothing queues the CR again.                                             *)
uninstallFinalizer ==
    /\ pc = "finalizer" /\ PassOver
    /\ \/ NoError /\ phase' = "gone"
       \/ Fault("finalizer") /\ phase' = "held"
    /\ UNCHANGED <<spec, anc, status, listed, policy, kubeVars, event, pending, owed,
                   edits, restarts, losses>>

-----------------------------------------------------------------------------
(* The world around the operator.                                          *)

EditSpec ==
    /\ edits < MaxEdits /\ phase = "live"
    /\ \E e \in Edits : spec = e[1] /\ spec' = e[2]
    /\ edits' = edits + 1 /\ event' = TRUE
    /\ UNCHANGED <<anc, status, listed, phase, policy, kubeVars, pending, cancelled, passVars, ghostVars,
                   errors, restarts, losses>>

DeleteCR ==
    /\ edits < MaxEdits /\ phase = "live"
    /\ phase' = "deleting" /\ edits' = edits + 1 /\ event' = TRUE
    /\ UNCHANGED <<spec, anc, status, listed, policy, kubeVars, pending, cancelled, passVars, ghostVars,
                   errors, restarts, losses>>

(* The informer sees the change: the CR is queued, and the context of the   *)
(* pass under way is cancelled.                                             *)
Deliver ==
    /\ event /\ event' = FALSE
    /\ pending' = TRUE /\ cancelled' = (pc # "idle")
    /\ UNCHANGED <<crVars, kubeVars, passVars, ghostVars, countVars>>

(* The kubelet, the StatefulSet controller and the claim protection.  A pod *)
(* that comes up retries a CR that was given up.                            *)
PodStarts ==
    /\ pod = "starting" /\ sts # NoSts /\ \A v \in sts.vols : claim[v] = "bound"
    /\ pod' = "up" /\ pending' = (pending \/ (status = "Aborted" /\ phase = "live"))
    /\ UNCHANGED <<crVars, sts, claim, tagged, event, cancelled, passVars, ghostVars, countVars>>

ClaimProvisioned ==
    /\ pod = "starting"
    /\ \E v \in Mounted \ Operators :
          claim[v] = "none" /\ claim' = [claim EXCEPT ![v] = "bound"]
    /\ UNCHANGED <<crVars, sts, pod, tagged, queueVars, passVars, ghostVars, countVars>>

PodStops ==
    /\ pod = "stopping" /\ pod' = "none"
    /\ UNCHANGED <<crVars, sts, claim, tagged, queueVars, passVars, ghostVars, countVars>>

ClaimGoes ==
    /\ \E v \in Volumes :
          /\ claim[v] = "terminating" /\ (pod = "none" \/ v \notin Mounted)
          /\ claim' = [claim EXCEPT ![v] = "none"] /\ tagged' = tagged \ {v}
    /\ UNCHANGED <<crVars, sts, pod, queueVars, passVars, ghostVars, countVars>>

(* A volume is lost, and with it the pod; the claim stays behind or is      *)
(* deleted by hand.                                                         *)
LoseVolume ==
    /\ losses < MaxLosses /\ losses' = losses + 1 /\ well' = FALSE
    /\ \E v \in Volumes, c \in {"lost", "none"} :
          /\ claim[v] = "bound" /\ claim' = [claim EXCEPT ![v] = c]
          /\ tagged' = IF c = "none" THEN tagged \ {v} ELSE tagged
          /\ pod' = IF pod = "up" /\ v \in Mounted THEN "starting" ELSE pod
    /\ UNCHANGED <<crVars, sts, queueVars, passVars, owed, edits, errors, restarts>>

PodFails ==
    /\ pod = "up" /\ Fault("pod") /\ pod' = "starting" /\ well' = FALSE
    /\ UNCHANGED <<crVars, sts, claim, tagged, queueVars, passVars, owed,
                   edits, restarts, losses>>

Restart ==
    /\ restarts < MaxRestarts /\ restarts' = restarts + 1
    /\ phase # "gone" /\ PassOver /\ pending' = TRUE /\ event' = FALSE
    /\ UNCHANGED <<crVars, kubeVars, owed, edits, errors, losses>>

-----------------------------------------------------------------------------
Worker ==
    \/ updateCHINotFound \/ gateNothingToDo \/ PassBegins \/ ReconcilePVCs \/ VolumesWalked
    \/ PrepareHostStatefulSetWithStatus \/ ReconcileStatefulSet \/ doDeleteStatefulSet
    \/ waitScaledDown \/ deleteStatefulSet \/ createStatefulSet
    \/ waitHostStatefulSetToLaunch \/ reconcileHostTables \/ clean \/ purge
    \/ finalizeReconcileAndMarkCompleted \/ markReconcileCompletedUnsuccessfully
    \/ deleteHost \/ deleteHostStatefulSet \/ DeletePVC \/ uninstallFinalizer

Cluster == PodStarts \/ ClaimProvisioned \/ PodStops \/ ClaimGoes

Next == Worker \/ Cluster \/ EditSpec \/ DeleteCR \/ Deliver \/ LoseVolume \/ PodFails \/ Restart

(* The worker runs, the informer is told, and Kubernetes does what it was asked. *)
Fairness == /\ WF_vars(Worker) /\ WF_vars(Deliver) /\ WF_vars(PodStarts) /\ WF_vars(ClaimProvisioned)
            /\ WF_vars(PodStops) /\ WF_vars(ClaimGoes)

Spec == Init /\ [][Next]_vars
FairSpec == Spec /\ Fairness

-----------------------------------------------------------------------------
(* Properties.                                                             *)

Sets == [ver : {s.ver : s \in Specs}, vols : {s.vols : s \in Specs}, reps : {0, 1}]
Claims == {"none", "bound", "lost", "terminating"}

CRTypeOK ==
    /\ {spec, cr} \subseteq Specs /\ anc \in Specs \cup {NoSpec} /\ policy \in Policies
    /\ status \in {"", "InProgress", "Completed", "Aborted"} /\ listed \in BOOLEAN
    /\ phase \in {"live", "deleting", "held", "gone"}
KubeTypeOK ==
    /\ sts \in Sets \cup {NoSts}
    /\ pod \in {"none", "starting", "up", "stopping"} /\ (pod # "none" => sts # NoSts)
    /\ claim \in [Volumes -> Claims]
    /\ tagged \subseteq {v \in Volumes : claim[v] # "none"}
PassTypeOK ==
    /\ pc \in Steps /\ leg \in {"first", "middle", "polish"}
    /\ todo \subseteq DOMAIN VolumeSeq
    /\ verdict \in {"", "new", "missed", "lost"}
    /\ opts \in [recreate : BOOLEAN, migrate : BOOLEAN, drop : BOOLEAN]
    /\ reconciled \cup failed \subseteq Volumes
    /\ doomed \in [sts : BOOLEAN, claims : SUBSET Volumes]
    /\ owed \in [Volumes -> {"no", "now", "before", "kept"}]

(* The variables range over the values the code gives them, a StatefulSet   *)
(* has the volumes of some specification, a pod has its StatefulSet, and    *)
(* only a claim that exists is tagged.                                      *)
TypeOK == CRTypeOK /\ KubeTypeOK /\ PassTypeOK

(* A host that is as the CR asks when a pass begins, and that nobody else   *)
(* disturbs, is left alone by the pass, whichever of its reads fail and     *)
(* whatever the claims refuse: the pod stays up, the StatefulSet and the    *)
(* claims stay as they are.  (A StatefulSet that refuses an update is no    *)
(* longer as it should be: the code replaces it.)                           *)
WellUntouched ==
    well => /\ pod = "up" /\ sts = Desired(cr)
            /\ \A v \in cr.vols : claim[v] = "bound"

(* The operator never deletes a claim it has tagged while the CR its pass    *)
(* works on asks for the volume, nor, when the host or the CR goes, one that *)
(* is to be retained; only create.onFailure "delete" does                   *)
(* (waitHostStatefulSetToLaunch).  A host that is put back while the cleanup *)
(* is on its way is put back too late (README, Known divergences).          *)
DataKept ==
    [][ \A v \in tagged :
          claim[v] = "bound" /\ claim'[v] \in {"none", "terminating"} /\ losses' = losses =>
             \/ v \notin cr.vols
             \/ (~cr.there \/ phase # "live") /\ v \notin Retained
             \/ pc = "launch" /\ policy.create = "delete" ]_vars

(* A pass that found a volume of a host with tables lost does not complete  *)
(* with the recovery left out, whatever else it found on the host's other   *)
(* volumes, unless the host did not answer: it has asked for the replica to *)
(* be dropped and has created the tables anew.  (Whether the replica was    *)
(* dropped is not looked at: migrateTables.)                                *)
LossRecovered ==
    [][ status # "Completed" /\ status' = "Completed" =>
          \A v \in cr.vols : owed[v] # "now" ]_vars

(* In the end the worker rests, and the CR is gone, is held by a finalizer  *)
(* that could not be taken off, or says Aborted, or the host has the        *)
(* StatefulSet it asks for.                                                 *)
Settled ==
    /\ pc = "idle" /\ ~pending
    /\ \/ phase \in {"gone", "held"}
       \/ status = "Aborted"
       \/ phase = "live" /\ (spec.there => sts # NoSts /\ SameLabel(sts, spec))
HostSettles == <>[]Settled

=============================================================================
