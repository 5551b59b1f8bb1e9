-------------------------- MODULE KeeperReconcile --------------------------
(***************************************************************************)
(* The ClickHouseKeeper (CHK) reconcile pass: pkg/controller/chk.          *)
(*                                                                         *)
(* One custom resource, the StatefulSets of its hosts, and the worker that *)
(* rolls them one at a time behind the Raft quorum gate.  The operator may *)
(* be cancelled or killed between any two steps, every read and write of   *)
(* the API server may fail, pods fail and recover on their own, and the    *)
(* user edits the specification while a pass is running.                   *)
(***************************************************************************)
EXTENDS Naturals, FiniteSets

CONSTANTS
    Hosts,          \* every host the CR may ever declare
    ShardOf,        \* the shard (1, 2, ...) a host is declared in
    Pos,            \* the place of a host in the declaration order
    NShards,        \* number of shards
    Tmpls,          \* revisions of the StatefulSet template (image, resources)
    Specs,          \* the specifications the user may apply
    NoSpec,         \* "no ancestor": .status.normalizedCompleted is empty
    InitKinds,      \* which initial states: "fresh" and / or "steady"
    MaxEdits,       \* bound on specification edits
    MaxFaults,      \* bound on pod failures and StatefulSet losses
    MaxErrors,      \* bound on failed API calls and expired launch waits
    MaxRestarts,    \* bound on shutdowns and crashes of the operator
    WaitBudget,     \* quorum wait budget of a pass, in polls
    VolumeFaults,   \* may PVC reconcile report added or lost volumes?
    OnDataLoss,     \* spec.reconcile.statefulSet.recreate.onDataLoss
    OnUpdateFailure,\* spec.reconcile.statefulSet.recreate.onUpdateFailure
    StartupWait,    \* reconcile.host.wait.probes.startup is true
    ReadinessWait,  \* reconcile.host.wait.probes.readiness is not false
    PurgeUnknown    \* cleanup policy deletes unknown StatefulSets

\* A specification, abstracted to what the pass distinguishes:
\*   members   the hosts it declares;         tmpl      the STS template revision
\*   conf      settings applied hot;          settings  settings that need a restart
\*   stop      spec.stop;                     suspend   spec.suspend
\*   refused   rejected by the normalizer
SpecType ==
    [members : SUBSET Hosts, tmpl : Tmpls, conf : Nat, settings : Nat,
     stop : BOOLEAN, suspend : BOOLEAN, refused : BOOLEAN]

\* The object-version label of a StatefulSet: template revision and whether
\* it asks for a replica.
LabelType == [tmpl : Tmpls, on : BOOLEAN]

ASSUME HostsAssumption  == IsFiniteSet(Hosts)
ASSUME OrderAssumption  == /\ NShards \in Nat
                           /\ ShardOf \in [Hosts -> 1 .. NShards]
                           /\ Pos \in [Hosts -> Nat]
                           /\ \A g, h \in Hosts : Pos[g] = Pos[h] => g = h
ASSUME SpecsAssumption  == /\ Specs \subseteq SpecType
                           /\ Specs # {}
                           /\ NoSpec \notin Specs
ASSUME BoundsAssumption == /\ MaxEdits \in Nat
                           /\ MaxFaults \in Nat
                           /\ MaxErrors \in Nat
                           /\ MaxRestarts \in Nat
                           /\ WaitBudget \in Nat
ASSUME PolicyAssumption == /\ VolumeFaults \in BOOLEAN
                           /\ OnDataLoss \in {"abort", "recreate"}
                           /\ OnUpdateFailure \in {"abort", "recreate"}
                           /\ StartupWait \in BOOLEAN
                           /\ ReadinessWait \in BOOLEAN
                           /\ PurgeUnknown \in BOOLEAN

VARIABLES
    \* --- the API server -------------------------------------------------
    spec,       \* the specification the user wants
    anc,        \* the ancestor: the specification of the last completed pass
    status,     \* .status.status
    cm,         \* the specification the common ConfigMap was generated from
    has,        \* hosts whose StatefulSet exists
    label,      \* object-version label of each StatefulSet
    up,         \* hosts whose StatefulSet asks for a replica
    ready,      \* hosts whose StatefulSet reports a ready replica
    pending,    \* a reconcile request is queued
    \* --- the worker -----------------------------------------------------
    pc,         \* where the pass is
    ctxDone,    \* the operator's context is cancelled
    cr,         \* the specification this pass reconciles
    fanOut,     \* every host is new: full fan-out
    shard,      \* the shard being reconciled
    todo,       \* its hosts that are still to be reconciled
    recovery,   \* the hosts among them that were down when the shard started
    host,       \* the host being reconciled
    curReady,   \* hosts whose cached CurStatefulSet is ready
    curNil,     \* hosts whose cached CurStatefulSet is nil
    snap,       \* hostEnsembleSnapshot
    st,         \* reconcile status of the host's StatefulSet
    recreate,   \* ForceRecreate requested for the host
    waits,      \* launch waits requested for the host
    spent,      \* quorumWaitSpent, in polls
    done,       \* StatefulSets in the registry of reconciled objects
    deferred,   \* some host was deferred
    hard,       \* some host failed
    \* --- bounds and history ---------------------------------------------
    edits, faults, errors, restarts,
    moved       \* hosts whose readiness changed since the gate last looked

crVars   == <<spec, anc, status, cm>>
stsVars  == <<has, label, up, ready>>
walkVars == <<cr, fanOut, shard, todo, recovery, host>>
curVars  == <<curReady, curNil>>
gateVars == <<snap, st, recreate, waits, spent>>
outVars  == <<done, deferred, hard>>
passVars == <<walkVars, curVars, gateVars, outVars>>
envVars  == <<edits, faults, restarts>>
vars     == <<crVars, stsVars, pending, pc, ctxDone, passVars, envVars, errors, moved>>

-----------------------------------------------------------------------------
(* Definitions whose names have a suffix after an underscore are seeded    *)
(* faults: variants of the definition that follows, used to show that a    *)
(* property notices them.  No action refers to them.                       *)

(* Raft arithmetic                                                         *)

raftFaultTolerantMinMembers == 3

ensembleHasQuorumHeadroom(n) == n >= raftFaultTolerantMinMembers

raftQuorumSize_Half(n) == n \div 2

raftQuorumSize(n) == IF n <= 0 THEN 0 ELSE n \div 2 + 1

(* The ensemble                                                            *)

ancMembers == IF anc = NoSpec THEN {} ELSE anc.members

hasAncestor(h) == h \in ancMembers

\* The ancestor's hosts when they can lose one, the desired hosts otherwise.
quorumSizingEnsemble ==
    IF ensembleHasQuorumHeadroom(Cardinality(ancMembers)) THEN ancMembers
                                                          ELSE cr.members

countReady(S) == Cardinality(ready \cap S)

-----------------------------------------------------------------------------
(* The desired StatefulSet and its status against the stored one           *)

desiredLabel(s, shutdown) == [tmpl |-> s.tmpl, on |-> ~shutdown]

getStatefulSetStatus(h, s, shutdown) ==
    CASE h \in has /\ label[h] = desiredLabel(s, shutdown)  -> "Same"
      [] h \in has /\ label[h] # desiredLabel(s, shutdown)  -> "Modified"
      [] h \notin has /\ hasAncestor(h)                     -> "Modified"
      [] OTHER                                              -> "Requested"

StsStatuses == {"Same", "Modified", "Requested", "Unknown"}

HasReconcileWork ==
    \/ anc # spec
    \/ \E h \in spec.members : getStatefulSetStatus(h, spec, spec.stop) # "Same"

\* All hosts are new: neither in the ancestor nor, without one, on the cluster.
preliminaryRequested(h) == ~hasAncestor(h) /\ (anc # NoSpec \/ h \notin has)

\* IsConfigurationChangeRequiresReboot.  A CHK never asks for a RollingUpdate,
\* is never in troubleshoot mode, and its hosts' versions are always known.
shouldForceRestartHost(h, status_) ==
    /\ hasAncestor(h)
    /\ ~anc.stop
    /\ ~cr.stop
    /\ status_ # "Requested"
    /\ anc.settings # cr.settings

-----------------------------------------------------------------------------
(* The quorum gate.  cur is the set of hosts whose cached StatefulSet is   *)
(* ready, r the ready count it is compared with.                           *)

hostContributesReady(h, cur) == h \in cur

ensembleQuorumSafeAfterDisrupt_HostCounted(h, sn, cur) ==
    \/ ~sn.rolling
    \/ ~ensembleHasQuorumHeadroom(sn.members)
    \/ sn.readyCount >= raftQuorumSize(sn.members)

ensembleQuorumSafeAfterDisrupt(h, sn, cur) ==
    \/ ~sn.rolling
    \/ ~ensembleHasQuorumHeadroom(sn.members)
    \/ sn.readyCount >= raftQuorumSize(sn.members)
                        + (IF hostContributesReady(h, cur) THEN 1 ELSE 0)

hostDisruptionWouldBreakQuorum(h, status_, force, sn, cur) ==
    /\ ~cr.stop
    /\ status_ # "Requested"
    /\ status_ # "Same" \/ shouldForceRestartHost(h, status_) \/ force
    /\ hostContributesReady(h, cur)
    /\ ~ensembleQuorumSafeAfterDisrupt(h, sn, cur)

\* The launch waits of a host: a member of a rolling ensemble has to become
\* Ready, every other host only has to start.
prepareStsReconcileOptsWaitSection(h, rolling, cur) ==
    LET joinedEnsemble == hasAncestor(h) \/ hostContributesReady(h, cur)
    IN  (IF StartupWait \/ ~rolling \/ ~joinedEnsemble THEN {"started"} ELSE {})
        \cup
        (IF rolling /\ joinedEnsemble /\ ReadinessWait THEN {"ready"} ELSE {})

-----------------------------------------------------------------------------
(* Initial states                                                          *)

NoSnap == [rolling |-> FALSE, members |-> 0, readyCount |-> 0]

\* A CR that was just created: nothing of it exists yet.
FreshCluster ==
    /\ anc = NoSpec
    /\ status = "None"
    /\ cm = NoSpec
    /\ has = {} /\ up = {} /\ ready = {}

\* A CR whose last pass completed and whose pods all run.
SteadyCluster ==
    /\ anc = spec
    /\ status = "Completed"
    /\ cm = spec
    /\ has = spec.members
    /\ up = (IF spec.stop THEN {} ELSE spec.members)
    /\ ready = up

Init ==
    /\ spec \in {s \in Specs : ~s.refused}
    /\ label = [h \in Hosts |-> desiredLabel(spec, spec.stop)]
    /\ \/ "fresh" \in InitKinds /\ FreshCluster
       \/ "steady" \in InitKinds /\ SteadyCluster
    /\ pending = TRUE
    /\ pc = "idle" /\ ctxDone = FALSE
    /\ cr = spec /\ fanOut = FALSE /\ shard = 1
    /\ todo = {} /\ recovery = {} /\ host \in {h \in Hosts : Pos[h] = 1}
    /\ curReady = {} /\ curNil = {}
    /\ snap = NoSnap /\ st = "Unknown" /\ recreate = FALSE /\ waits = {}
    /\ spent = 0 /\ done = {} /\ deferred = FALSE /\ hard = FALSE
    /\ edits = 0 /\ faults = 0 /\ errors = 0 /\ restarts = 0 /\ moved = {}

-----------------------------------------------------------------------------
(* API calls.  A call under a cancelled context fails; under a live one it *)
(* may fail MaxErrors times.                                               *)

ApiWorks == ~ctxDone /\ UNCHANGED errors

ApiFails == IF ctxDone THEN UNCHANGED errors
                       ELSE errors < MaxErrors /\ errors' = errors + 1

\* reconcileConfigMapCommon where the caller ignores its result.
PublishBestEffort ==
    \/ ApiWorks /\ cm' = cr
    \/ ApiFails /\ cm' = cm

\* The worker lives for one request: its state dies with it.
WorkerDies ==
    /\ pc' = "idle"
    /\ fanOut' = FALSE /\ shard' = 1 /\ todo' = {} /\ recovery' = {}
    /\ curReady' = {} /\ curNil' = {}
    /\ snap' = NoSnap /\ st' = "Unknown" /\ recreate' = FALSE /\ waits' = {}
    /\ spent' = 0 /\ done' = {} /\ deferred' = FALSE /\ hard' = FALSE
    /\ moved' = {}
    /\ UNCHANGED <<cr, host>>

-----------------------------------------------------------------------------
(* Reconcile and the head of reconcileCR                                   *)

\* A request that needs no work: the CR is suspended, or neither the
\* specification nor a StatefulSet differs from what is there.
ReconcileNothing ==
    /\ pc = "idle" /\ pending /\ ~ctxDone
    /\ spec.suspend \/ (~spec.refused /\ ~HasReconcileWork)
    /\ pending' = FALSE
    /\ UNCHANGED <<crVars, stsVars, pc, ctxDone, passVars, envVars, errors, moved>>

\* The normalizer refuses the specification: persist Aborted, do not reconcile.
ReconcileRefused ==
    /\ pc = "idle" /\ pending /\ ~ctxDone
    /\ ~spec.suspend /\ spec.refused
    /\ \/ ApiWorks /\ status' = "Aborted"
       \/ ApiFails /\ status' = status
    /\ pending' = (status' # status)
    /\ UNCHANGED <<spec, anc, cm, stsVars, pc, ctxDone, passVars, envVars, moved>>

\* Reading the CR or markReconcileStart's status write fails: the request is
\* retried.
ReconcileStartFails ==
    /\ pc = "idle" /\ pending /\ ~ctxDone
    /\ ApiFails
    /\ UNCHANGED <<crVars, stsVars, pending, pc, ctxDone, passVars, envVars, moved>>

\* buildCR, markReconcileStart and setHostStatusesPreliminary: freeze the
\* specification, cache every StatefulSet, reset the task and the wait budget.
\* A StatefulSet that cannot be read is cached as nil and counts as drift.
ReconcileStart ==
    /\ pc = "idle" /\ pending /\ ~ctxDone
    /\ ~spec.suspend /\ ~spec.refused
    /\ \E unread \in SUBSET spec.members :
          /\ IF unread = {} THEN HasReconcileWork /\ ApiWorks ELSE ApiFails
          /\ curReady' = (ready \cap spec.members) \ unread
          /\ curNil' = (spec.members \ has) \cup unread
    /\ status' = "InProgress"
    /\ pending' = (status' # status)
    /\ cr' = spec
    /\ fanOut' = \A h \in spec.members : preliminaryRequested(h)
    /\ spent' = 0 /\ done' = {} /\ deferred' = FALSE /\ hard' = FALSE
    /\ shard' = 1 /\ todo' = {} /\ recovery' = {}
    /\ pc' = "aux"
    /\ UNCHANGED <<spec, anc, cm, stsVars, ctxDone, host, snap, st, recreate,
                   waits, envVars, moved>>

\* reconcileCRAuxObjectsPreliminary publishes the common ConfigMap; a failed
\* write is only logged.
ReconcileAuxPreliminary ==
    /\ pc = "aux"
    /\ PublishBestEffort
    /\ pc' = "shard"
    /\ UNCHANGED <<spec, anc, status, stsVars, pending, ctxDone, passVars,
                   envVars, moved>>

-----------------------------------------------------------------------------
(* reconcileClusterShardsAndHosts and reconcileShardWithHosts              *)

shardHosts(s) == {h \in cr.members : ShardOf[h] = s}

isHostHealthyForReconcile(h) ==
    \/ cr.stop
    \/ h \in curReady
    \/ h \in curNil /\ h \in ready

ShardStart ==
    /\ pc = "shard" /\ shard <= NShards
    /\ todo' = shardHosts(shard)
    /\ recovery' = {h \in shardHosts(shard) : ~isHostHealthyForReconcile(h)}
    /\ pc' = "pick"
    /\ UNCHANGED <<crVars, stsVars, pending, ctxDone, cr, fanOut, shard, host,
                   curVars, gateVars, outVars, envVars, errors, moved>>

ShardEnd ==
    /\ pc = "pick" /\ todo = {}
    /\ shard' = shard + 1
    /\ recovery' = {}
    /\ pc' = "shard"
    /\ UNCHANGED <<crVars, stsVars, pending, ctxDone, cr, fanOut, todo,
                   host, curVars, gateVars, outVars, envVars, errors, moved>>

ShardsEnd_DeferralForgotten ==
    /\ pc = "shard" /\ shard > NShards
    /\ pc' = IF hard THEN "fail" ELSE "final"
    /\ UNCHANGED <<crVars, stsVars, pending, ctxDone, passVars, envVars, errors,
                   moved>>

\* After the last shard a hard error wins over a deferral, and both keep the
\* pass from reaching its tail.
ShardsEnd ==
    /\ pc = "shard" /\ shard > NShards
    /\ pc' = IF hard \/ deferred THEN "fail" ELSE "final"
    /\ UNCHANGED <<crVars, stsVars, pending, ctxDone, passVars, envVars, errors,
                   moved>>

\* shardHostsRecoveryFirst: hosts that were down come first, each group in
\* declaration order.
isNextHost(h) ==
    LET group == IF todo \cap recovery # {} THEN todo \cap recovery ELSE todo
    IN  h \in group /\ \A g \in group : Pos[h] <= Pos[g]

\* A cancelled pass walks past its hosts without touching them.
HostSkipped(h) ==
    /\ pc = "pick" /\ isNextHost(h) /\ ctxDone
    /\ todo' = todo \ {h}
    /\ UNCHANGED <<crVars, stsVars, pending, pc, ctxDone, cr, fanOut, shard,
                   recovery, host, curVars, gateVars, outVars, envVars, errors,
                   moved>>

\* reconcileHostPrepare publishes the common ConfigMap, best effort.
HostStart(h) ==
    /\ pc = "pick" /\ isNextHost(h) /\ ~ctxDone
    /\ PublishBestEffort
    /\ host' = h
    /\ pc' = "main"
    /\ UNCHANGED <<spec, anc, status, stsVars, pending, ctxDone, cr, fanOut,
                   shard, todo, recovery, curVars, gateVars, outVars, envVars,
                   moved>>

\* How reconcileHost returns to the host loop: noteCRUDResult.
HostLocalsDie ==
    /\ snap' = NoSnap /\ st' = "Unknown" /\ recreate' = FALSE /\ waits' = {}
    /\ moved' = {}
    /\ UNCHANGED <<cr, fanOut, host>>

HostSucceeds ==
    /\ todo' = todo \ {host}
    /\ done' = done \cup {host}
    /\ pc' = "pick"
    /\ HostLocalsDie
    /\ UNCHANGED <<shard, recovery, deferred, hard>>

HostDeferred_AsSuccess ==
    /\ todo' = todo \ {host}
    /\ pc' = "pick"
    /\ HostLocalsDie
    /\ UNCHANGED <<shard, recovery, done, deferred, hard>>

HostDeferred ==
    /\ todo' = todo \ {host}
    /\ deferred' = TRUE
    /\ pc' = "pick"
    /\ HostLocalsDie
    /\ UNCHANGED <<shard, recovery, done, hard>>

\* A hard error ends the shard; in the first shard, unless fanning out, it
\* ends the walk.
HostFails ==
    /\ hard' = TRUE
    /\ todo' = {} /\ recovery' = {}
    /\ IF shard = 1 /\ ~fanOut
       THEN pc' = "fail" /\ UNCHANGED shard
       ELSE pc' = "shard" /\ shard' = shard + 1
    /\ HostLocalsDie
    /\ UNCHANGED <<done, deferred>>

-----------------------------------------------------------------------------
(* reconcileHostMain up to the StatefulSet                                 *)

\* The host's own ConfigMap cannot be written, or its data is lost and the
\* policy says abort.
HostMainFails ==
    /\ pc = "main"
    /\ \/ ApiFails
       \/ VolumeFaults /\ OnDataLoss = "abort" /\ UNCHANGED errors
    /\ HostFails
    /\ UNCHANGED <<crVars, stsVars, pending, ctxDone, curVars, spent, envVars>>

\* reconcileHostPVCs: an added or lost volume asks for a recreate.
HostMain ==
    /\ pc = "main"
    /\ ApiWorks
    /\ recreate' \in (IF VolumeFaults THEN BOOLEAN ELSE {FALSE})
    /\ pc' = "snapshot"
    /\ UNCHANGED <<crVars, stsVars, pending, ctxDone, walkVars, curVars, snap, st,
                   waits, spent, outVars, envVars, moved>>

-----------------------------------------------------------------------------
(* Snapshot, prepare, gate                                                 *)

\* countReadyEnsembleMembers refreshes the hosts of the set it counts, and the
\* reconciled host is refreshed explicitly.  The ancestor's hosts are other
\* objects than the desired ones.
RefreshCurStatefulSets ==
    LET read == IF ensembleHasQuorumHeadroom(Cardinality(ancMembers))
                THEN {host} ELSE cr.members
    IN  /\ curReady' = (curReady \ read) \cup (ready \cap read)
        /\ curNil' = (curNil \ read) \cup (read \ has)

snapshotHostEnsemble ==
    LET n == Cardinality(quorumSizingEnsemble)
        r == countReady(quorumSizingEnsemble)
    IN  [rolling |-> n <= 1 \/ r >= raftQuorumSize(n), members |-> n, readyCount |-> r]

\* The part of ensureQuorumSafeToDisruptHost before its waiting loop.
ensureQuorumSafeToDisruptHost(h, status_, sn, cur) ==
    /\ sn.rolling
    /\ ensembleHasQuorumHeadroom(sn.members)
    /\ hostDisruptionWouldBreakQuorum(h, status_, recreate, sn, cur)

quorumWaitBudgetLeft_OffByOne(polls) == polls <= WaitBudget

\* quorumWaitSpent has not reached the pass's budget.
quorumWaitBudgetLeft(polls) == polls < WaitBudget

SnapshotFails ==
    /\ pc = "snapshot"
    /\ ApiFails
    /\ HostFails
    /\ UNCHANGED <<crVars, stsVars, pending, ctxDone, curVars, spent, envVars>>

Snapshot ==
    /\ pc = "snapshot" /\ ~ctxDone
    /\ RefreshCurStatefulSets
    /\ \E status_ \in StsStatuses :
          /\ \/ ApiWorks /\ status_ = getStatefulSetStatus(host, cr, cr.stop)
             \/ ApiFails /\ status_ = "Unknown"
          /\ \/ /\ ~ensureQuorumSafeToDisruptHost(host, status_, snapshotHostEnsemble, curReady')
                /\ pc' = "proceed"
             \/ /\ ensureQuorumSafeToDisruptHost(host, status_, snapshotHostEnsemble, curReady')
                /\ quorumWaitBudgetLeft(spent)
                /\ pc' = "gate"
          /\ st' = status_
          /\ snap' = snapshotHostEnsemble
          /\ waits' = prepareStsReconcileOptsWaitSection(host, snap'.rolling, curReady')
    /\ moved' = {}
    /\ UNCHANGED <<crVars, stsVars, pending, ctxDone, walkVars, recreate, spent,
                   outVars, envVars>>

\* The wait budget of the pass is spent: refuse without waiting.
SnapshotDefers ==
    /\ pc = "snapshot" /\ ~ctxDone
    /\ RefreshCurStatefulSets
    /\ \E status_ \in StsStatuses :
          /\ \/ ApiWorks /\ status_ = getStatefulSetStatus(host, cr, cr.stop)
             \/ ApiFails /\ status_ = "Unknown"
          /\ ensureQuorumSafeToDisruptHost(host, status_, snapshotHostEnsemble, curReady')
    /\ ~quorumWaitBudgetLeft(spent)
    /\ HostDeferred
    /\ UNCHANGED <<crVars, stsVars, pending, ctxDone, spent, envVars>>

\* One turn of the waiting loop: refreshQuorumSnapshotCounts keeps rolling.
GateRefreshed == [snap EXCEPT !.readyCount = countReady(quorumSizingEnsemble)]

GateBlocks == hostDisruptionWouldBreakQuorum(host, st, recreate, GateRefreshed, curReady')

GatePoll ==
    /\ pc = "gate" /\ ApiWorks
    /\ RefreshCurStatefulSets
    /\ spent' = spent + 1
    /\ GateBlocks => quorumWaitBudgetLeft(spent')
    /\ pc' = IF GateBlocks THEN "gate" ELSE "proceed"
    /\ snap' = GateRefreshed
    /\ moved' = {}
    /\ UNCHANGED <<crVars, stsVars, pending, ctxDone, walkVars, st, recreate,
                   waits, outVars, envVars>>

GateDefers ==
    /\ pc = "gate" /\ ApiWorks
    /\ RefreshCurStatefulSets
    /\ spent' = spent + 1
    /\ GateBlocks /\ ~quorumWaitBudgetLeft(spent')
    /\ HostDeferred
    /\ UNCHANGED <<crVars, stsVars, pending, ctxDone, envVars>>

\* The refresh fails or the context is cancelled while waiting.
GateFails ==
    /\ pc = "gate"
    /\ ApiFails
    /\ HostFails
    /\ UNCHANGED <<crVars, stsVars, pending, ctxDone, curVars, spent, envVars>>

-----------------------------------------------------------------------------
(* What a write does to the host's StatefulSet                             *)

isStatefulSetReady(h) == h \in has /\ (h \in up => h \in ready)

\* Created, updated or recreated with a new object version.
StsWritten(lbl) ==
    /\ has' = has \cup {host}
    /\ label' = [label EXCEPT ![host] = lbl]
    /\ up' = IF lbl.on THEN up \cup {host} ELSE up \ {host}
    /\ ready' = ready \ {host}
    /\ pending' = TRUE

\* doDeleteStatefulSet scaled it to 0 and then could not delete it: the
\* object version is the one of the object it was read from.
StsScaledToZero ==
    /\ host \in has
    /\ up' = up \ {host} /\ ready' = ready \ {host}
    /\ pending' = TRUE
    /\ UNCHANGED <<has, label>>

\* Deleted for a recreate whose create failed.
StsGone ==
    /\ host \in has
    /\ has' = has \ {host} /\ up' = up \ {host} /\ ready' = ready \ {host}
    /\ pending' = TRUE
    /\ UNCHANGED label

StsUntouched == UNCHANGED <<stsVars, pending>>

\* A recreate happens when the StatefulSet is not ready or an update fails,
\* and the policy allows it, or when it was asked for.
mayRecreate(forced) == host \in has /\ (forced \/ OnUpdateFailure # "abort")

\* The ways a create, update or recreate breaks off.
StsWriteFails(forced) ==
    \/ ApiFails /\ StsUntouched
    \/ ApiFails /\ mayRecreate(forced) /\ (StsScaledToZero \/ StsGone)
    \/ /\ host \in has /\ ~isStatefulSetReady(host)
       /\ ~mayRecreate(forced)
       /\ UNCHANGED errors /\ StsUntouched

-----------------------------------------------------------------------------
(* reconcileHostStatefulSet behind the gate                                *)

\* hostForceRestart scales the host down, best effort, and the StatefulSet is
\* prepared again.  A host to force restart has an ancestor, so the result is
\* Modified, also where Same is overridden so that the scale-up happens.
ForceRestart ==
    /\ pc = "proceed" /\ shouldForceRestartHost(host, st)
    /\ \/ /\ ApiWorks
          /\ host \in has /\ ~isStatefulSetReady(host) => mayRecreate(FALSE)
          /\ StsWritten(desiredLabel(cr, TRUE))
       \/ StsWriteFails(FALSE)
    /\ st' = "Modified"
    /\ pc' = "apply"
    /\ UNCHANGED <<crVars, ctxDone, walkVars, curVars, snap, recreate, waits, spent,
                   outVars, envVars, moved>>

NoForceRestart ==
    /\ pc = "proceed" /\ ~shouldForceRestartHost(host, st)
    /\ pc' = "apply"
    /\ UNCHANGED <<crVars, stsVars, pending, ctxDone, passVars, envVars, errors,
                   moved>>

\* ReconcileStatefulSet returns at once when the context is cancelled, the
\* object version is the same, or an update changes nothing.
updateIsNoop ==
    /\ isStatefulSetReady(host) /\ ~recreate
    /\ label[host] = desiredLabel(cr, cr.stop)
    /\ host \in up <=> ~cr.stop

ApplyNothing ==
    /\ pc = "apply"
    /\ ctxDone \/ st = "Same" \/ updateIsNoop
    /\ HostSucceeds
    /\ UNCHANGED <<crVars, stsVars, pending, ctxDone, curVars, spent, envVars, errors>>

ApplyWrite ==
    /\ pc = "apply" /\ ApiWorks
    /\ st # "Same" /\ ~updateIsNoop
    /\ host \in has /\ ~isStatefulSetReady(host) => mayRecreate(recreate)
    /\ StsWritten(desiredLabel(cr, cr.stop))
    /\ pc' = "launch"
    /\ UNCHANGED <<crVars, ctxDone, passVars, envVars, moved>>

ApplyFails ==
    /\ pc = "apply"
    /\ st # "Same"
    /\ StsWriteFails(recreate)
    /\ HostFails
    /\ UNCHANGED <<crVars, ctxDone, curVars, spent, envVars>>

\* waitHostStatefulSetToLaunch; a cancelled wait counts as launched.
LaunchOk ==
    /\ pc = "launch"
    /\ ctxDone \/ ("ready" \in waits => isStatefulSetReady(host))
    /\ HostSucceeds
    /\ UNCHANGED <<crVars, stsVars, pending, ctxDone, curVars, spent, envVars, errors>>

\* The wait expires: chkStatefulSetFallback aborts.  A wait for a pod that no
\* StatefulSet asks for (stopped, or deleted meanwhile) always expires.
LaunchFails ==
    /\ pc = "launch" /\ ~ctxDone
    /\ waits # {}
    /\ ApiFails \/ (host \notin up /\ UNCHANGED errors)
    /\ HostFails
    /\ UNCHANGED <<crVars, stsVars, pending, ctxDone, curVars, spent, envVars>>

-----------------------------------------------------------------------------
(* The tail of the pass                                                    *)

\* reconcileCRAuxObjectsFinal.
AuxFinal ==
    /\ pc = "final"
    /\ \/ ctxDone /\ UNCHANGED <<cm, errors, hard>> /\ pc' = "clean"
       \/ ApiWorks /\ cm' = cr /\ UNCHANGED hard /\ pc' = "clean"
       \/ ~ctxDone /\ ApiFails /\ UNCHANGED cm /\ hard' = TRUE /\ pc' = "fail"
    /\ UNCHANGED <<spec, anc, status, stsVars, pending, ctxDone, walkVars, curVars,
                   gateVars, done, deferred, envVars, moved>>

Fail_NotRequeued ==
    /\ pc = "fail"
    /\ \/ ~hard /\ UNCHANGED <<status, errors>>
       \/ hard /\ ApiWorks /\ status' = "Aborted"
       \/ hard /\ ApiFails /\ UNCHANGED status
    /\ WorkerDies
    /\ UNCHANGED <<spec, anc, cm, stsVars, pending, ctxDone, envVars>>

\* A deferred pass is requeued and leaves the status alone, a failed one is
\* marked Aborted and retried.
Fail ==
    /\ pc = "fail"
    /\ \/ ~hard /\ UNCHANGED <<status, errors>>
       \/ hard /\ ApiWorks /\ status' = "Aborted"
       \/ hard /\ ApiFails /\ UNCHANGED status
    /\ pending' = TRUE
    /\ WorkerDies
    /\ UNCHANGED <<spec, anc, cm, stsVars, ctxDone, envVars>>

\* clean: discover the CR's objects and purge the ones that are not in the
\* registry of reconciled objects.  What cannot be listed or deleted stays.
Clean ==
    /\ pc = "clean" /\ ~ctxDone
    /\ \E purged \in SUBSET (has \ done) :
          /\ IF purged = (IF PurgeUnknown THEN has \ done ELSE {})
             THEN ApiWorks ELSE ApiFails
          /\ ~PurgeUnknown => purged = {}
          /\ has' = has \ purged /\ up' = up \ purged /\ ready' = ready \ purged
          /\ pending' = (pending \/ purged # {})
    /\ pc' = "finalize"
    /\ UNCHANGED <<crVars, label, ctxDone, passVars, envVars, moved>>

\* finalizeCR re-reads the CR and stamps what it reads as the ancestor, unless
\* the normalizer refuses it.
Finalize ==
    /\ pc = "finalize" /\ ApiWorks
    /\ anc' = IF spec.refused THEN anc ELSE spec
    /\ status' = IF spec.refused THEN "Aborted" ELSE "Completed"
    /\ pending' = TRUE
    /\ WorkerDies
    /\ UNCHANGED <<spec, cm, stsVars, ctxDone, envVars>>

FinalizeFails ==
    /\ pc = "finalize" /\ ~ctxDone /\ ApiFails
    /\ pending' = TRUE
    /\ WorkerDies
    /\ UNCHANGED <<crVars, stsVars, ctxDone, envVars>>

\* A cancelled pass ends here: nothing is purged, nothing is stamped.
PassCancelled ==
    /\ pc \in {"clean", "finalize"} /\ ctxDone
    /\ WorkerDies
    /\ UNCHANGED <<crVars, stsVars, pending, ctxDone, envVars, errors>>

-----------------------------------------------------------------------------
(* Everything else that changes the cluster                                *)

sinceGate(h) == IF pc \in {"gate", "proceed", "apply"} THEN moved \cup {h} ELSE moved

PodReady(h) ==
    /\ h \in up \ ready
    /\ ready' = ready \cup {h}
    /\ moved' = sinceGate(h)
    /\ pending' = TRUE
    /\ UNCHANGED <<crVars, has, label, up, pc, ctxDone, passVars, envVars, errors>>

PodFails(h) ==
    /\ faults < MaxFaults
    /\ h \in ready
    /\ ready' = ready \ {h}
    /\ faults' = faults + 1
    /\ moved' = sinceGate(h)
    /\ pending' = TRUE
    /\ UNCHANGED <<crVars, has, label, up, pc, ctxDone, passVars, edits, restarts,
                   errors>>

StatefulSetLost(h) ==
    /\ faults < MaxFaults
    /\ h \in has
    /\ has' = has \ {h} /\ up' = up \ {h} /\ ready' = ready \ {h}
    /\ faults' = faults + 1
    /\ moved' = sinceGate(h)
    /\ pending' = TRUE
    /\ UNCHANGED <<crVars, label, pc, ctxDone, passVars, edits, restarts, errors>>

EditSpec(s) ==
    /\ edits < MaxEdits
    /\ s # spec
    /\ spec' = s
    /\ edits' = edits + 1
    /\ pending' = TRUE
    /\ UNCHANGED <<anc, status, cm, stsVars, pc, ctxDone, passVars, faults, restarts,
                   errors, moved>>

Shutdown ==
    /\ restarts < MaxRestarts /\ ~ctxDone
    /\ ctxDone' = TRUE
    /\ restarts' = restarts + 1
    /\ UNCHANGED <<crVars, stsVars, pending, pc, passVars, edits, faults, errors,
                   moved>>

Crash ==
    /\ restarts < MaxRestarts /\ ~ctxDone
    /\ restarts' = restarts + 1
    /\ pending' = TRUE
    /\ WorkerDies
    /\ UNCHANGED <<crVars, stsVars, ctxDone, edits, faults, errors>>

\* The next operator process lists every CR when it starts.
Restart ==
    /\ ctxDone
    /\ ctxDone' = FALSE
    /\ pending' = TRUE
    /\ WorkerDies
    /\ UNCHANGED <<crVars, stsVars, envVars, errors>>

-----------------------------------------------------------------------------

\* The worker's steps, one disjunct per step of the pass.
WorkerNext ==
    \/ ReconcileNothing \/ ReconcileRefused \/ ReconcileStartFails \/ ReconcileStart
    \/ ReconcileAuxPreliminary
    \/ ShardStart \/ ShardEnd \/ ShardsEnd
    \/ \E h \in Hosts : HostSkipped(h) \/ HostStart(h)
    \/ HostMainFails \/ HostMain
    \/ SnapshotFails \/ Snapshot \/ SnapshotDefers
    \/ GatePoll \/ GateDefers \/ GateFails
    \/ ForceRestart \/ NoForceRestart
    \/ ApplyNothing \/ ApplyWrite \/ ApplyFails
    \/ LaunchOk \/ LaunchFails
    \/ AuxFinal \/ Fail \/ Clean \/ Finalize \/ FinalizeFails \/ PassCancelled

ClusterNext ==
    \/ \E h \in Hosts : PodReady(h) \/ PodFails(h) \/ StatefulSetLost(h)
    \/ \E s \in Specs : EditSpec(s)
    \/ Shutdown \/ Crash \/ Restart

Next == WorkerNext \/ ClusterNext

Spec == Init /\ [][Next]_vars

\* controller-runtime keeps calling Reconcile while a request is queued, a pod
\* that is asked for becomes ready unless it fails again, and the Deployment
\* restarts an operator that stopped.
FairSpec ==
    /\ Spec
    /\ WF_vars(WorkerNext)
    /\ \A h \in Hosts : WF_vars(PodReady(h))
    /\ WF_vars(Restart)

-----------------------------------------------------------------------------
(* Properties                                                              *)

PCs == {"idle", "aux", "shard", "pick", "main", "snapshot", "gate", "proceed",
        "apply", "launch", "final", "fail", "clean", "finalize"}

ClusterTypeOK ==
    /\ spec \in Specs /\ anc \in Specs \cup {NoSpec} /\ cm \in Specs \cup {NoSpec}
    /\ status \in {"None", "InProgress", "Completed", "Aborted"}
    /\ has \subseteq Hosts /\ up \subseteq has /\ ready \subseteq up
    /\ label \in [Hosts -> LabelType]

WalkTypeOK ==
    /\ pc \in PCs
    /\ cr \in Specs
    /\ shard \in 1 .. NShards + 1
    /\ todo \subseteq Hosts /\ recovery \subseteq Hosts /\ host \in Hosts

GateTypeOK ==
    /\ curReady \subseteq Hosts /\ curNil \subseteq Hosts
    /\ snap \in [rolling : BOOLEAN, members : Nat, readyCount : Nat]
    /\ st \in StsStatuses
    /\ waits \subseteq {"started", "ready"}
    /\ spent \in 0 .. WaitBudget

OutcomeTypeOK ==
    /\ done \subseteq Hosts /\ moved \subseteq Hosts
    /\ edits \in 0 .. MaxEdits /\ faults \in 0 .. MaxFaults
    /\ errors \in 0 .. MaxErrors /\ restarts \in 0 .. MaxRestarts

FlagsTypeOK ==
    /\ pending \in BOOLEAN /\ ctxDone \in BOOLEAN
    /\ fanOut \in BOOLEAN /\ recreate \in BOOLEAN
    /\ deferred \in BOOLEAN /\ hard \in BOOLEAN

\* Every variable keeps its type, the wait budget is never overdrawn, and a
\* StatefulSet is ready only when it exists and asks for a replica.
TypeOK == ClusterTypeOK /\ WalkTypeOK /\ GateTypeOK /\ OutcomeTypeOK /\ FlagsTypeOK

\* Most of the members of E are in S.
IsMajority(S, E) == 2 * Cardinality(S \cap E) > Cardinality(E)

\* An ensemble that can afford to lose a member keeps its Raft majority through
\* every roll, retry, deferral, shutdown and crash, as long as no pod fails by
\* itself, the membership is fixed and the CR is not stopped.
MajorityHeld ==
    Cardinality(ancMembers) >= 3 => IsMajority(ready, ancMembers)

\* Whatever fails meanwhile: when the worker takes down a member of a rolling
\* ensemble that the gate saw Ready, a majority is left, except for members
\* whose readiness changed after the gate's last look.
DisruptsWithHeadroom ==
    LET E == quorumSizingEnsemble
    IN  ( /\ pc \in {"proceed", "apply"} /\ pc' # pc
          /\ host \in (ready \ ready') \ moved
          /\ snap.rolling /\ ensembleHasQuorumHeadroom(snap.members) /\ ~cr.stop
          /\ host \in E )
        => IsMajority(ready' \cup moved, E)

DisruptAccounted == [][DisruptsWithHeadroom]_vars

\* clean never deletes the StatefulSet of a host the pass declares, whatever
\* was deferred, skipped or failed before it.
PurgeOnlyDeparted == [][(pc = "clean" /\ pc' = "finalize") =>
                            (has \ has') \cap cr.members = {}]_vars

\* The ancestor moves, and the status becomes Completed, only at the end of a
\* pass that reconciled every host it declares: a deferred, failed, cancelled
\* or killed pass never stamps it.
CompletedMeansWalked == [][(anc' # anc \/ (status' = "Completed" /\ status # "Completed"))
                               => cr.members \subseteq done]_vars

\* Requests drain: once edits, faults, errors and restarts are over the worker
\* comes to rest with no reconcile work left.
WorkDrains == <>[](pc = "idle" /\ ~pending /\ (spec.suspend \/ spec.refused \/ ~HasReconcileWork))

=============================================================================
