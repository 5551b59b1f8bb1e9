---------------------------- MODULE ChiReconcile ----------------------------
(***************************************************************************)
(* One reconcile pass of a ClickHouseInstallation, from reconcileCR's gate *)
(* to the completed status, and the passes that follow it                  *)
(* (worker-reconciler-chi.go, worker-wait-exclude-include-restart.go,      *)
(* worker-migrator.go).  Shards are walked by goroutines; every host is    *)
(* drained, configured, restarted or rolled, given its tables and put back *)
(* in steps of its own.  A new event cancels the pass: API calls go on     *)
(* (they run under a context of their own), waits and SQL do not.          *)
(*                                                                         *)
(* StatefulSet writes are one step each, with every outcome; HostObjects   *)
(* has them call by call.                                                  *)
(***************************************************************************)
EXTENDS Naturals, FiniteSets, Sequences

CONSTANTS
    HostSeq,         \* the hosts, in the order of the layout
    ShardOf,         \* the shard of each host, a number from 1
    Specs,           \* records [hosts, ver, conf, mode, rolling]
    NoSpec,          \* stands for no specification
    First,           \* the specification the CR starts with
    InitKinds,       \* the states to start from: "fresh", "steady", "degraded"
    Image,           \* the image of each version of the pod template
    Env,             \* the environment of each version
    Broken,          \* versions and settings that do not start
    Workers,         \* shards reconciled at a time
    WaitReady,       \* whether a roll waits for the pod's readiness
    Policies,        \* records [create, update, recreate, loss]: statefulSet.create.onFailure
                     \* and update.onFailure ("ignore" or "abort"), recreate.onUpdateFailure
                     \* and recreate.onDataLoss ("recreate" or "abort")
    Faults,          \* what may fail
    LateEdits,       \* whether an edit's event may still be on its way when a pass
                     \* that did not see it is stamped as completed
    MayRevert,       \* whether an edit may bring back an earlier specification
    MaxEdits, MaxErrors, MaxRestarts   \* bounds

Hosts == {HostSeq[i] : i \in DOMAIN HostSeq}
Shards == {ShardOf[h] : h \in Hosts}
Vers == DOMAIN Image
NoSts == <<>>
Absent == "absent"

FaultKinds == {"hook", "service", "config", "volume", "podread", "shutdown",
               "sts", "timeout", "poll", "ddl", "mark", "final"}

ASSUME HostAssumption ==
    HostSeq \in Seq(Hosts) /\ "" \notin Hosts
ASSUME SpecAssumption ==
    /\ NoSpec \notin Specs /\ First \in Specs
    /\ \A s \in Specs : s.hosts \subseteq Hosts /\ s.hosts # {} /\ s.ver \in Vers
                        /\ s.mode \in {"run", "stop"} /\ s.rolling \in BOOLEAN
ASSUME FaultAssumption == Faults \subseteq FaultKinds
ASSUME BoundAssumption ==
    /\ Workers \in Nat \ {0} /\ MaxEdits \in Nat
    /\ MaxErrors \in Nat /\ MaxRestarts \in Nat

VARIABLES
    \* the custom resource
    spec, anc, status, listed, policy,
    \* what Kubernetes and ClickHouse hold, per host
    sts, pod, mark, remote, conf, run, schema,
    \* what is on its way to the worker
    event, pending, cancelled,
    \* the pass: its specification, its phase, the hosts' attributes
    cr, pc, attr, low, added, pushed, newly, fanOut,
    \* the goroutines, and what became of the shards they finished
    th, deferred, failed,
    \* counters
    seen, edits, errors, restarts

crVars == <<spec, anc, status, listed, policy>>
worldVars == <<sts, pod, mark, remote, conf, run, schema>>
queueVars == <<event, pending, cancelled>>
passVars == <<cr, pc, attr, low, added, pushed, newly, fanOut>>
walkVars == <<th, deferred, failed>>
countVars == <<seen, edits, errors, restarts>>
vars == <<crVars, worldVars, queueVars, passVars, walkVars, countVars>>

Statuses == {"", "InProgress", "Completed", "Aborted"}
Attrs == {"", "Requested", "Modified", "Same", "Created"}
Steps == {"wait", "next", "descend", "main", "gate", "restart", "back", "scale",
          "sts", "launch", "tables", "ascend", "include", "done"}

(* A goroutine at a step on a host, and the positions in HostSeq of the     *)
(* hosts it has yet to come to: those that were down go first.              *)
Thread(step, h, down, rest) ==
    [pc |-> step, host |-> h, down |-> down, rest |-> rest, recreate |-> FALSE,
     migrate |-> FALSE, create |-> FALSE, defers |-> FALSE, healthy |-> TRUE]
Waiting == Thread("wait", "", {}, {})
Over == Thread("done", "", {}, {})

-----------------------------------------------------------------------------
(* What the code asks of a host.                                           *)

ShardHosts(s) == {h \in cr.hosts : ShardOf[h] = s}

(* The StatefulSet a specification asks for: its template and replicas. *)
Desired(s) == <<s.ver, IF s.mode = "stop" THEN "off" ELSE "on">>

HasAncestor(h) == anc # NoSpec /\ h \in anc.hosts

(* isHostHealthyForReconcile: a pod whose read fails counts as down. *)
isHostHealthyForReconcile(h, unread) ==
    cr.mode # "run" \/ (pod[h] = "up" /\ h # unread)

(* isShardSafeToDisruptHost, shardHasHealthyPeer *)
isShardSafeToDisruptHost(h, unread) ==
    \/ Cardinality(ShardHosts(ShardOf[h])) <= 1
    \/ \E p \in ShardHosts(ShardOf[h]) \ {h} : isHostHealthyForReconcile(p, unread)

isImageChangeRequested(h) == sts[h] # NoSts /\ Image[sts[h][1]] # Image[cr.ver]

(* shouldForceRestartHost: the CR asks for a rolling restart, its settings  *)
(* call for one, or the pod is down in a way that does (crushed: NotReady   *)
(* past the threshold).  The arm for an unknown version is never taken: the *)
(* version falls back to a known one.                                       *)
shouldForceRestartHost(h, a, crushed) ==
    /\ HasAncestor(h) /\ anc.mode = "run" /\ cr.mode = "run"
    /\ a # "Requested" /\ ~isImageChangeRequested(h)
    /\ cr.rolling \/ cr.conf # anc.conf \/ (crushed /\ pod[h] = "down")

(* hostRequiresStatefulSetRollout *)
hostRequiresStatefulSetRollout_Always(h) == TRUE

hostRequiresStatefulSetRollout(h) == sts[h] = NoSts \/ Env[sts[h][1]] # Env[cr.ver]

shouldExcludeHost(h, crushed, unread) ==
    /\ cr.mode = "run"
    /\ Cardinality(ShardHosts(ShardOf[h])) > 1
    /\ isImageChangeRequested(h) \/ shouldForceRestartHost(h, attr[h], crushed)
    /\ isHostHealthyForReconcile(h, unread)
    /\ isShardSafeToDisruptHost(h, unread)

(* The label a StatefulSet carries: one that was drained on the way to its  *)
(* deletion still has the label it was written with.                        *)
Drained(st) == IF st[2] = "on" THEN <<st[1], "drained">> ELSE st
ObjectVersion(st) == IF st[2] = "drained" THEN <<st[1], "on">> ELSE st

(* PrepareHostStatefulSetWithStatus, getStatefulSetStatus: by the object    *)
(* version label, or by the ancestor where there is no StatefulSet.         *)
StatefulSetStatus(h, desired) ==
    IF sts[h] # NoSts THEN IF ObjectVersion(sts[h]) = desired THEN "Same" ELSE "Modified"
    ELSE IF HasAncestor(h) THEN "Modified" ELSE "Requested"

(* hostDisruptionWouldDegradeShard, once the attribute a is known. *)
hostDisruptionWouldDegradeShard_AnyPeer(h, a, force, unread) == FALSE

hostDisruptionWouldDegradeShard(h, a, force, unread) ==
    /\ cr.mode = "run" /\ a # "Requested"
    /\ a # "Same" \/ force
    /\ isHostHealthyForReconcile(h, unread)
    /\ ~isShardSafeToDisruptHost(h, unread)

(* IsInNewCluster compares counts of hosts, not the hosts. *)
IsInNewCluster(h) == ~HasAncestor(h) /\ added = Cardinality(cr.hosts)

shouldMigrateTables(h, force) ==
    cr.mode = "run" /\ (force \/ (h \notin listed /\ ~IsInNewCluster(h)))

shouldRestoreHostToServiceOnDeferral_Never(a) == FALSE

shouldRestoreHostToServiceOnDeferral(a) == a # "Requested"

(* reconcileConfigMapCommon: remote_servers as the attributes have it, with *)
(* the hosts the options exclude left out.                                  *)
RemoteServers(attrs, lows, filtered) ==
    [h \in Hosts |->
        IF h \notin cr.hosts \/ (filtered /\ attrs[h] = "Requested") THEN Absent
        ELSE IF h \in lows THEN "low" ELSE "normal"]

Starts(h) == sts[h] # NoSts /\ sts[h][2] = "on" /\ {sts[h][1], conf[h]} \cap Broken = {}

(* HostCreateTables replays what a live peer has; where no peer answers it   *)
(* finds nothing to replay, and that is a success.                           *)
HostCreateTables(h) ==
    IF \E p \in schema \ {h} : pod[p] = "up" THEN schema \cup {h} ELSE schema

(* getReconcileShardsWorkersNum, for the shards after the first. *)
Started == {s \in Shards : th[s].pc # "wait"}
Walking == {s \in Shards : th[s].pc \notin {"wait", "done"}}

-----------------------------------------------------------------------------
(* Initial states.                                                         *)

Steady ==
    /\ anc = First /\ status = "Completed"
    /\ sts = [h \in Hosts |-> IF h \in First.hosts THEN Desired(First) ELSE NoSts]
    /\ pod \in [Hosts -> {"none", "up", "down"}]
    /\ \A h \in Hosts : pod[h] = "none" <=> h \notin First.hosts \/ First.mode = "stop"
    /\ mark = [h \in Hosts |-> "in"]
    /\ remote = [h \in Hosts |-> IF h \in First.hosts THEN "normal" ELSE Absent]
    /\ conf = [h \in Hosts |-> First.conf] /\ run = conf
    /\ schema = First.hosts /\ listed = First.hosts

Fresh ==
    /\ anc = NoSpec /\ status = "" /\ listed = {} /\ schema = {}
    /\ sts = [h \in Hosts |-> NoSts] /\ pod = [h \in Hosts |-> "none"]
    /\ mark = [h \in Hosts |-> "in"] /\ remote = [h \in Hosts |-> Absent]
    /\ conf = [h \in Hosts |-> First.conf] /\ run = conf

Init ==
    /\ spec = First /\ policy \in Policies
    /\ \/ "fresh" \in InitKinds /\ Fresh /\ event = TRUE
       \/ Steady /\ event = FALSE
          /\ LET down == {h \in First.hosts : pod[h] = "down"} IN
             \/ "steady" \in InitKinds /\ down = {}
             \/ "degraded" \in InitKinds /\ Cardinality(down) = 1
    /\ pending = FALSE /\ cancelled = FALSE
    /\ cr = First /\ pc = "idle" /\ attr = [h \in Hosts |-> ""]
    /\ low = {} /\ added = 0 /\ pushed = {} /\ newly = {} /\ fanOut = FALSE
    /\ th = [s \in Shards |-> Waiting] /\ deferred = {} /\ failed = {}
    /\ seen = {First} /\ edits = 0 /\ errors = 0 /\ restarts = 0

-----------------------------------------------------------------------------
(* The pass around the shards.                                             *)

NoError == UNCHANGED errors
Fault(kind) == kind \in Faults /\ errors < MaxErrors /\ errors' = errors + 1

(* The memory of a pass over the hosts of a specification; where every host *)
(* is new, the shards are walked all at once.                               *)
StartPass(s, attrs) ==
    /\ cr' = s /\ attr' = attrs
    /\ fanOut' = (\A h \in s.hosts : attrs[h] = "Requested")
    /\ low' = {} /\ added' = 0 /\ pushed' = {} /\ newly' = {}
    /\ th' = [x \in Shards |-> Waiting] /\ deferred' = {} /\ failed' = {}

ForgetPass == StartPass(First, [h \in Hosts |-> ""])

(* reconcileCR: the events of this model (an edit, the list after a restart, *)
(* a recovery) all pass the gate, whose other side is in ChiEvents; then     *)
(* markReconcileStart and setHostStatusesPreliminary.                        *)
PassBegins ==
    /\ pc = "idle" /\ pending
    /\ pending' = FALSE /\ pc' = "prelim" /\ status' = "InProgress"
    /\ StartPass(spec, [h \in Hosts |->
                   IF h \notin spec.hosts THEN ""
                   ELSE IF HasAncestor(h) \/ (anc = NoSpec /\ sts[h] # NoSts)
                   THEN "Modified" ELSE "Requested"])
    /\ UNCHANGED <<spec, policy, anc, listed, worldVars, event, cancelled, countVars>>

(* reconcileCRAuxObjectsPreliminary: a failed write is only logged. *)
reconcileCRAuxObjectsPreliminary ==
    /\ pc = "prelim"
    /\ pc' = "shards"
    /\ \/ ~cancelled /\ NoError /\ remote' = RemoteServers(attr, low, TRUE)
       \/ cancelled /\ NoError /\ UNCHANGED remote
       \/ Fault("config") /\ UNCHANGED remote
    /\ UNCHANGED <<crVars, sts, pod, mark, conf, run, schema, queueVars,
                   cr, attr, low, added, pushed, newly, fanOut, walkVars, seen, edits, restarts>>

FirstShard == ShardOf[HostSeq[1]]

(* reconcileClusterShardsAndHosts: the first shard goes alone, and its hard *)
(* error keeps the others from starting.                                    *)
MayStart(s) ==
    /\ th[s].pc = "wait" /\ Cardinality(Walking) < Workers
    /\ s = FirstShard \/ fanOut
         \/ (th[FirstShard].pc = "done" /\ FirstShard \notin failed)

(* reconcileShardWithHosts: the shard's Service, then recovery before       *)
(* rollout.                                                                 *)
shardHostsRecoveryFirst(s) ==
    LET Positions(hosts) == {i \in DOMAIN HostSeq : HostSeq[i] \in hosts}
        down == {h \in ShardHosts(s) : ~isHostHealthyForReconcile(h, "")}
    IN  Thread("next", "", Positions(down), Positions(ShardHosts(s) \ down))

reconcileShardWithHosts(s) ==
    /\ pc = "shards" /\ MayStart(s)
    /\ \/ /\ NoError /\ UNCHANGED failed
          /\ th' = [th EXCEPT ![s] = shardHostsRecoveryFirst(s)]
       \/ /\ Fault("service") /\ ~cancelled
          /\ failed' = failed \cup {s} /\ th' = [th EXCEPT ![s] = Over]
    /\ UNCHANGED <<crVars, worldVars, queueVars, passVars, deferred, seen, edits, restarts>>

(* The walk is over: its hard errors end the pass, a deferral does not.     *)
ShardsOver ==
    \/ Walking = {} /\ Started = Shards
    \/ Walking = {} /\ FirstShard \in failed /\ ~fanOut

WalkEnds ==
    /\ pc = "shards" /\ ShardsOver
    /\ pc' = IF failed # {} THEN "fail" ELSE "final"
    /\ UNCHANGED <<crVars, worldVars, queueVars, cr, attr, low, added, pushed, newly, fanOut,
                   walkVars, countVars>>

(* reconcileCRAuxObjectsFinal: hosts that were deferred stay out of         *)
(* remote_servers; then the restart of newly added hosts.  A failed write   *)
(* is a hard error, returned after the restarts.                            *)
finalRemoteServersOptions_AllHosts(isDeferred) == FALSE

finalRemoteServersOptions(isDeferred) == isDeferred

reconcileCRAuxObjectsFinal ==
    /\ pc = "final"
    /\ pc' = "newly"
    /\ \/ cancelled /\ NoError /\ UNCHANGED <<remote, newly, failed>>
       \/ /\ ~cancelled
          /\ newly' = {h \in cr.hosts : attr[h] = "Created" /\ ~IsInNewCluster(h)
                                        /\ Cardinality(cr.hosts) > 1}
          /\ \/ /\ NoError /\ UNCHANGED failed
                /\ remote' = RemoteServers(attr, low, finalRemoteServersOptions(deferred # {}))
             \/ Fault("final") /\ failed' = Shards /\ UNCHANGED remote
    /\ UNCHANGED <<crVars, sts, pod, mark, conf, run, schema, queueVars,
                   cr, attr, low, added, pushed, fanOut, th, deferred, seen, edits, restarts>>

(* restartNewlyAddedHosts: a host that could not load its Distributed       *)
(* tables restarts; best effort.                                            *)
restartNewlyAddedHosts ==
    /\ pc = "newly" /\ newly # {}
    /\ \E h \in newly :
          /\ newly' = newly \ {h}
          /\ \/ NoError /\ UNCHANGED <<pod, run, schema, pushed>>
             \/ /\ cr.mode = "run" /\ pod[h] = "up" /\ ~cancelled
                /\ run' = [run EXCEPT ![h] = conf[h]]
                /\ \/ /\ NoError /\ pushed' = pushed \cup {h}
                      /\ schema' = HostCreateTables(h) /\ UNCHANGED pod
                   \/ /\ Fault("timeout") /\ pod' = [pod EXCEPT ![h] = "down"]
                      /\ UNCHANGED <<pushed, schema>>
    /\ UNCHANGED <<crVars, sts, mark, remote, conf, queueVars,
                   cr, pc, attr, low, added, fanOut, walkVars, seen, edits, restarts>>

FinalEnds ==
    /\ pc = "newly" /\ newly = {}
    /\ pc' = IF deferred \cup failed # {} THEN "fail" ELSE IF cancelled THEN "end" ELSE "clean"
    /\ UNCHANGED <<crVars, worldVars, queueVars, cr, attr, low, added, pushed, newly, fanOut,
                   walkVars, countVars>>

(* clean, for the StatefulSets: what exists and is not of this pass goes    *)
(* (Deletion is in HostObjects).                                            *)
clean_OrphansPods ==
    /\ pc = "clean" /\ pc' = "finalize"
    /\ sts' = [h \in Hosts |-> IF h \in cr.hosts \/ cancelled THEN sts[h] ELSE NoSts]
    /\ UNCHANGED <<crVars, pod, mark, remote, conf, run, schema, queueVars, cr, attr, low,
                   added, pushed, newly, fanOut, walkVars, countVars>>

clean ==
    /\ pc = "clean"
    /\ pc' = "finalize"
    /\ LET keep == IF cancelled THEN Hosts ELSE cr.hosts IN
       /\ sts' = [h \in Hosts |-> IF h \in keep THEN sts[h] ELSE NoSts]
       /\ pod' = [h \in Hosts |-> IF h \in keep THEN pod[h] ELSE "none"]
       /\ schema' = schema \cap keep
    /\ UNCHANGED <<crVars, mark, remote, conf, run, queueVars, cr, attr, low, added,
                   pushed, newly, fanOut, walkVars, countVars>>

(* finalizeReconcileAndMarkCompleted stamps what the CR says by now. *)
finalizeReconcileAndMarkCompleted ==
    /\ pc = "finalize" /\ (LateEdits \/ ~event)
    /\ pc' = "end"
    /\ IF cancelled THEN UNCHANGED crVars
       ELSE /\ anc' = spec /\ status' = "Completed" /\ listed' = listed \cup pushed
            /\ UNCHANGED <<spec, policy>>
    /\ UNCHANGED <<worldVars, queueVars, cr, attr, low, added, pushed, newly, fanOut, walkVars, countVars>>

markReconcileCompletedUnsuccessfully ==
    /\ pc = "fail"
    /\ pc' = "end"
    /\ IF cancelled THEN UNCHANGED <<status, listed>>
       ELSE status' = "Aborted" /\ listed' = listed \cup pushed
    /\ UNCHANGED <<spec, policy, anc, worldVars, queueVars, cr, attr, low, added, pushed, newly, fanOut,
                   walkVars, countVars>>

PassEnds ==
    /\ pc = "end" /\ pc' = "idle" /\ cancelled' = FALSE
    /\ ForgetPass
    /\ UNCHANGED <<crVars, worldVars, event, pending, countVars>>

-----------------------------------------------------------------------------
(* A goroutine on a host of shard s: reconcileHost, step by step.           *)

Goto(s, step) == th' = [th EXCEPT ![s].pc = step]

(* An error other than a deferral ends the shard. *)
HardError(s) == failed' = failed \cup {s} /\ th' = [th EXCEPT ![s] = Over]

(* What no step of a host touches. *)
HostFrame == UNCHANGED <<spec, policy, anc, status, queueVars, cr, pc, newly, fanOut, seen, edits, restarts>>

NextHost(s) == Thread("next", "", th[s].down, th[s].rest)

(* The hosts left to come to, and which of them is next. *)
ToWalk(s) == th[s].down \cup th[s].rest
IsNext(s, i) ==
    LET first == IF th[s].down # {} THEN th[s].down ELSE th[s].rest
    IN  i \in first /\ \A j \in first : i <= j

(* reconcileHost: a cancelled pass skips the hosts that are left; otherwise *)
(* the hooks, and excludeHost takes the host out of the Services.  Where    *)
(* that write fails the host stays in, and is handled as if it were out.    *)
excludeHostFromService(h) ==
    \/ NoError /\ mark' = [mark EXCEPT ![h] = "out"]
    \/ Fault("mark") /\ UNCHANGED mark

reconcileHost(s) ==
    /\ th[s].pc = "next"
    /\ \/ /\ ToWalk(s) = {} \/ cancelled
          /\ th' = [th EXCEPT ![s] = Over]
          /\ NoError /\ UNCHANGED <<mark, failed>>
       \/ /\ ToWalk(s) # {} /\ ~cancelled /\ Fault("hook") /\ HardError(s)
          /\ UNCHANGED mark
       \/ /\ ~cancelled /\ UNCHANGED failed
          /\ \E i \in ToWalk(s), crushed \in BOOLEAN :
                LET h == HostSeq[i]
                    At(step) == Thread(step, h, th[s].down \ {i}, th[s].rest \ {i})
                IN  /\ IsNext(s, i)
                    /\ IF shouldExcludeHost(h, crushed, "")
                       THEN /\ excludeHostFromService(h)
                            /\ th' = [th EXCEPT ![s] = At("descend")]
                       ELSE /\ NoError /\ UNCHANGED mark
                            /\ th' = [th EXCEPT ![s] = At("main")]
    /\ HostFrame
    /\ UNCHANGED <<listed, sts, pod, remote, conf, run, schema, attr, low, added, pushed, deferred>>

(* descendHostInClickHouseCluster: a failed write is ignored. *)
descendHostInClickHouseCluster(s) ==
    LET h == th[s].host IN
    /\ th[s].pc = "descend"
    /\ low' = low \cup {h} /\ Goto(s, "main")
    /\ \/ NoError /\ remote' = RemoteServers(attr, low \cup {h}, TRUE)
       \/ Fault("config") /\ UNCHANGED remote
    /\ HostFrame
    /\ UNCHANGED <<listed, sts, pod, mark, conf, run, schema, attr, added, pushed, deferred, failed>>

(* reconcileHostMain as far as the StatefulSet: the host's ConfigMap, and   *)
(* the verdict on its volumes.                                              *)
reconcileHostMain(s) ==
    LET h == th[s].host IN
    /\ th[s].pc = "main"
    /\ \/ Fault("config") /\ HardError(s) /\ UNCHANGED <<conf, schema>>
       \/ /\ NoError /\ Goto(s, "gate") /\ UNCHANGED <<failed, schema>>
          /\ conf' = [conf EXCEPT ![h] = cr.conf]
       \/ /\ h \in schema /\ ~cancelled /\ Fault("volume")
          /\ conf' = [conf EXCEPT ![h] = cr.conf] /\ schema' = schema \ {h}
          /\ IF policy.loss = "abort" THEN HardError(s)
             ELSE /\ th' = [th EXCEPT ![s] = [th[s] EXCEPT !.pc = "gate", !.recreate = TRUE,
                                                           !.migrate = TRUE]]
                  /\ UNCHANGED failed
    /\ HostFrame
    /\ UNCHANGED <<listed, sts, pod, mark, remote, run, attr, low, added, pushed, deferred>>

(* A deferral: the shard goes on, and an established host is put back.      *)
Defer(s, a) ==
    /\ deferred' = deferred \cup {s}
    /\ th' = [th EXCEPT ![s] = IF shouldRestoreHostToServiceOnDeferral(a)
                               THEN [th[s] EXCEPT !.pc = "ascend", !.defers = TRUE]
                               ELSE NextHost(s)]

(* reconcileHostStatefulSet up to its first write: the shard-safety gate,   *)
(* then the choice between a restart and a roll.                            *)
reconcileHostStatefulSet(s) ==
    LET h == th[s].host
        a == StatefulSetStatus(h, Desired(cr))
    IN
    /\ th[s].pc = "gate"
    /\ attr' = [attr EXCEPT ![h] = a]
    /\ \E crushed \in BOOLEAN, unread \in {"", h} :
          LET force == shouldForceRestartHost(h, a, crushed) IN
          /\ IF unread = h THEN Fault("podread") ELSE NoError
          /\ IF hostDisruptionWouldDegradeShard(h, a, force, unread)
             THEN Defer(s, a)
             ELSE /\ th' = [th EXCEPT ![s] = [th[s] EXCEPT
                                !.healthy = isHostHealthyForReconcile(h, ""),
                                !.pc = IF force /\ ~hostRequiresStatefulSetRollout(h)
                                       THEN "restart" ELSE "sts"]]
                  /\ UNCHANGED deferred
    /\ HostFrame
    /\ UNCHANGED <<listed, worldVars, low, added, pushed, failed>>

(* hostForceRestart, hostSoftwareRestart: the SQL shutdown takes the pod    *)
(* down; where it fails, or the pod is down already, the host is scaled.    *)
hostForceRestart(s) ==
    LET h == th[s].host IN
    /\ th[s].pc = "restart"
    /\ \/ cancelled /\ NoError /\ Goto(s, "sts") /\ UNCHANGED pod
       \/ /\ ~cancelled /\ pod[h] = "up" /\ NoError
          /\ pod' = [pod EXCEPT ![h] = "down"] /\ Goto(s, "back")
       \/ /\ ~cancelled /\ UNCHANGED pod /\ Goto(s, "scale")
          /\ IF pod[h] = "up" THEN Fault("shutdown") ELSE NoError
    /\ HostFrame
    /\ UNCHANGED <<listed, sts, mark, remote, conf, run, schema, attr, low, added, pushed,
                   deferred, failed>>

(* The waits of hostSoftwareRestart. *)
waitHostRestart(s) ==
    LET h == th[s].host IN
    /\ th[s].pc = "back"
    /\ \/ (cancelled \/ pod[h] = "up") /\ NoError /\ Goto(s, "sts")
       \/ ~cancelled /\ pod[h] # "up" /\ ~Starts(h) /\ NoError /\ Goto(s, "scale")
       \/ ~cancelled /\ pod[h] # "up" /\ Fault("timeout") /\ Goto(s, "scale")
    /\ HostFrame
    /\ UNCHANGED <<listed, worldVars, attr, low, added, pushed, deferred, failed>>

(* hostScaleDown: its error is dropped. *)
hostScaleDown(s) ==
    LET h == th[s].host IN
    /\ th[s].pc = "scale" /\ Goto(s, "sts")
    /\ \/ /\ ~cancelled /\ NoError /\ (pod[h] = "up" \/ policy.recreate # "abort")
          /\ sts' = [sts EXCEPT ![h] = <<cr.ver, "off">>] /\ pod' = [pod EXCEPT ![h] = "none"]
       \/ /\ cancelled \/ (pod[h] # "up" /\ policy.recreate = "abort")
          /\ NoError /\ UNCHANGED <<sts, pod>>
       \/ ~cancelled /\ Fault("sts") /\ UNCHANGED <<sts, pod>>
    /\ HostFrame
    /\ UNCHANGED <<listed, mark, remote, conf, run, schema, attr, low, added, pushed,
                   deferred, failed>>

-----------------------------------------------------------------------------
(* The StatefulSet.                                                         *)

(* A StatefulSet written anew: its pod starts over, labelled ready by the   *)
(* template.                                                                *)
Roll(h) ==
    /\ sts' = [sts EXCEPT ![h] = Desired(cr)]
    /\ pod' = [pod EXCEPT ![h] = IF cr.mode = "run" THEN "down" ELSE "none"]
    /\ mark' = [mark EXCEPT ![h] = "in"]

IsStatefulSetReady(h) == sts[h][2] # "on" \/ pod[h] = "up"

(* ReconcileStatefulSet: nothing when cancelled or the same; otherwise the  *)
(* object is created, updated, or deleted and created again.                *)
ReconcileStatefulSet(s) ==
    LET h == th[s].host
        a == StatefulSetStatus(h, Desired(cr))
        Launch(create) == th' = [th EXCEPT ![s] = [th[s] EXCEPT !.pc = "launch",
                                                                !.create = create]]
        recreates == th[s].recreate \/ policy.recreate # "abort"
    IN
    /\ th[s].pc = "sts"
    /\ attr' = [attr EXCEPT ![h] = a]
    /\ \/ /\ cancelled \/ a = "Same"
          /\ NoError /\ Goto(s, "tables") /\ UNCHANGED <<sts, pod, mark, added, failed>>
       \/ /\ ~cancelled /\ a # "Same" /\ sts[h] = NoSts
          /\ added' = added + 1
          /\ \/ NoError /\ Roll(h) /\ Launch(TRUE) /\ UNCHANGED failed
             \/ Fault("sts") /\ HardError(s) /\ UNCHANGED <<sts, pod, mark>>
       \/ /\ ~cancelled /\ a # "Same" /\ sts[h] # NoSts /\ IsStatefulSetReady(h)
          /\ ~th[s].recreate
          /\ NoError /\ Roll(h) /\ Launch(FALSE) /\ UNCHANGED <<added, failed>>
       \/ /\ ~cancelled /\ a # "Same" /\ sts[h] # NoSts /\ ~recreates
          /\ IF IsStatefulSetReady(h) THEN Fault("sts") ELSE NoError
          /\ HardError(s) /\ UNCHANGED <<sts, pod, mark, added>>
       \/ /\ ~cancelled /\ a # "Same" /\ sts[h] # NoSts /\ recreates
          /\ \/ /\ IF IsStatefulSetReady(h) /\ ~th[s].recreate THEN Fault("sts") ELSE NoError
                /\ added' = added + 1 /\ Roll(h) /\ Launch(TRUE) /\ UNCHANGED failed
             \/ /\ Fault("sts") /\ HardError(s) /\ UNCHANGED mark
                /\ \/ UNCHANGED <<sts, pod, added>>
                   \/ /\ ~IsStatefulSetReady(h) \/ th[s].recreate
                      /\ pod' = [pod EXCEPT ![h] = "none"]
                      /\ \/ sts' = [sts EXCEPT ![h] = Drained(@)] /\ UNCHANGED added
                         \/ sts' = [sts EXCEPT ![h] = NoSts] /\ added' = added + 1
    /\ HostFrame
    /\ UNCHANGED <<listed, remote, conf, run, schema, low, pushed, deferred>>

(* waitForStatefulSetLaunch and what onFailure makes of its timeout. *)
waitForStatefulSetLaunch(s) ==
    LET h == th[s].host
        onFailure == IF th[s].create THEN policy.create ELSE policy.update
        launched == cancelled \/ ~WaitReady \/ IsStatefulSetReady(h)
    IN
    /\ th[s].pc = "launch"
    /\ \/ launched /\ NoError /\ Goto(s, "tables") /\ UNCHANGED failed
       \/ /\ ~launched /\ IF Starts(h) THEN Fault("timeout") ELSE NoError
          /\ IF onFailure = "abort" THEN HardError(s) ELSE Goto(s, "tables") /\ UNCHANGED failed
    /\ HostFrame
    /\ UNCHANGED <<listed, worldVars, attr, low, added, pushed, deferred>>

-----------------------------------------------------------------------------
(* Tables, and the way back.                                                *)

(* reconcileHostMain succeeded: a new host becomes a created one.           *)
HostMainDone(s, h) ==
    /\ attr' = [attr EXCEPT ![h] = IF @ = "Requested" THEN "Created" ELSE @]
    /\ th' = [th EXCEPT ![s] = IF cr.mode = "stop" THEN NextHost(s) ELSE [th[s] EXCEPT !.pc = "ascend"]]

(* reconcileHostTables, migrateTables: a host that does not answer goes on  *)
(* without tables; a failed statement defers the host.                      *)
reconcileHostTables(s) ==
    LET h == th[s].host
        need == shouldMigrateTables(h, th[s].migrate)
    IN
    /\ th[s].pc = "tables"
    /\ \/ /\ ~need \/ cancelled \/ (pod[h] # "up" /\ ~Starts(h))
          /\ NoError /\ HostMainDone(s, h) /\ UNCHANGED <<schema, pushed, deferred>>
       \/ /\ need /\ ~cancelled /\ Fault("poll")
          /\ HostMainDone(s, h) /\ UNCHANGED <<schema, pushed, deferred>>
       \/ /\ need /\ ~cancelled /\ pod[h] = "up" /\ NoError
          /\ schema' = HostCreateTables(h) /\ pushed' = pushed \cup {h}
          /\ HostMainDone(s, h) /\ UNCHANGED deferred
       \/ /\ need /\ ~cancelled /\ pod[h] = "up" /\ Fault("ddl")
          /\ Defer(s, attr[h]) /\ UNCHANGED <<schema, pushed, attr>>
    /\ HostFrame
    /\ UNCHANGED <<listed, sts, pod, mark, remote, conf, run, low, added, failed>>

ascendHostInClickHouseCluster(s) ==
    LET h == th[s].host IN
    /\ th[s].pc = "ascend"
    /\ low' = low \ {h} /\ Goto(s, "include")
    /\ \/ NoError /\ remote' = RemoteServers(attr, low \ {h}, TRUE)
       \/ Fault("config") /\ UNCHANGED remote
    /\ HostFrame
    /\ UNCHANGED <<listed, sts, pod, mark, conf, run, schema, attr, added, pushed, deferred, failed>>

includeHostIntoService_Skipped(h) == NoError /\ UNCHANGED mark

(* The ready mark is set, without a retry; the error of a write that fails  *)
(* is discarded, and a host that was out stays out: "lost".                 *)
includeHostIntoService(h) ==
    \/ NoError /\ mark' = [mark EXCEPT ![h] = "in"]
    \/ Fault("mark") /\ mark' = [mark EXCEPT ![h] = IF @ = "in" THEN "in" ELSE "lost"]

(* includeHost: back into the Services, once the replica has caught up: the *)
(* wait does not expire (its timeout is a century), and one that is         *)
(* cancelled, or whose query fails, counts as done.  A host that succeeded  *)
(* also has the status written.                                             *)
includeHost(s) ==
    LET h == th[s].host IN
    /\ th[s].pc = "include"
    /\ th' = [th EXCEPT ![s] = NextHost(s)]
    /\ includeHostIntoService(h)
    /\ listed' = IF cancelled \/ th[s].defers THEN listed ELSE listed \cup pushed
    /\ HostFrame
    /\ UNCHANGED <<sts, pod, remote, conf, run, schema, attr, low, added, pushed, deferred, failed>>

-----------------------------------------------------------------------------
(* The world around the operator.                                           *)

EditSpec ==
    /\ edits < MaxEdits
    /\ \E s \in Specs \ (IF MayRevert THEN {spec} ELSE seen) :
          spec' = s /\ seen' = seen \cup {s}
    /\ edits' = edits + 1 /\ event' = TRUE
    /\ UNCHANGED <<anc, status, listed, policy, worldVars, pending, cancelled, passVars, walkVars,
                   errors, restarts>>

(* An event is queued, and cancels the pass that runs (enqueueObject). *)
Deliver ==
    /\ event
    /\ event' = FALSE /\ pending' = TRUE
    /\ cancelled' = (pc # "idle")
    /\ UNCHANGED <<crVars, worldVars, passVars, walkVars, countVars>>

(* A pod comes up, with the settings that are mounted by then; it retries a *)
(* CR that was given up (recoverAbortedReconcileOnPodReady).                *)
PodStarts(h) ==
    /\ pod[h] = "down" /\ Starts(h)
    /\ pod' = [pod EXCEPT ![h] = "up"] /\ run' = [run EXCEPT ![h] = conf[h]]
    /\ event' = (event \/ status = "Aborted")
    /\ UNCHANGED <<crVars, sts, mark, remote, conf, schema, pending, cancelled,
                   passVars, walkVars, countVars>>

(* The operator dies at any step; the CR is listed again when it is back.   *)
Restart ==
    /\ restarts < MaxRestarts /\ restarts' = restarts + 1
    /\ pc' = "idle" /\ ForgetPass
    /\ event' = TRUE /\ pending' = FALSE /\ cancelled' = FALSE
    /\ UNCHANGED <<crVars, worldVars, seen, edits, errors>>

-----------------------------------------------------------------------------
HostStep(s) ==
    \/ reconcileHost(s) \/ descendHostInClickHouseCluster(s) \/ reconcileHostMain(s)
    \/ reconcileHostStatefulSet(s) \/ hostForceRestart(s) \/ waitHostRestart(s)
    \/ hostScaleDown(s) \/ ReconcileStatefulSet(s) \/ waitForStatefulSetLaunch(s)
    \/ reconcileHostTables(s) \/ ascendHostInClickHouseCluster(s) \/ includeHost(s)

PassStep ==
    \/ PassBegins \/ reconcileCRAuxObjectsPreliminary \/ WalkEnds
    \/ reconcileCRAuxObjectsFinal \/ restartNewlyAddedHosts \/ FinalEnds \/ clean
    \/ finalizeReconcileAndMarkCompleted \/ markReconcileCompletedUnsuccessfully \/ PassEnds

Next ==
    \/ PassStep
    \/ \E s \in Shards : reconcileShardWithHosts(s) \/ HostStep(s)
    \/ EditSpec \/ Deliver \/ Restart
    \/ \E h \in Hosts : PodStarts(h)

(* The goroutines are scheduled, events arrive, and what can start does.    *)
Fairness ==
    /\ WF_vars(PassStep) /\ WF_vars(Deliver)
    /\ \A s \in Shards : WF_vars(reconcileShardWithHosts(s)) /\ WF_vars(HostStep(s))
    /\ \A h \in Hosts : WF_vars(PodStarts(h))

Spec == Init /\ [][Next]_vars
FairSpec == Spec /\ Fairness

-----------------------------------------------------------------------------
(* Properties.                                                              *)

Threads == [pc : Steps, host : Hosts \cup {""}, down : SUBSET (DOMAIN HostSeq),
            rest : SUBSET (DOMAIN HostSeq), recreate : BOOLEAN, migrate : BOOLEAN,
            create : BOOLEAN, defers : BOOLEAN, healthy : BOOLEAN]

CRTypeOK ==
    /\ {spec, cr} \subseteq Specs /\ anc \in Specs \cup {NoSpec} /\ status \in Statuses
    /\ policy \in Policies /\ listed \subseteq Hosts
WorldTypeOK ==
    /\ sts \in [Hosts -> {NoSts} \cup (Vers \X {"on", "off", "drained"})]
    /\ pod \in [Hosts -> {"none", "down", "up"}] /\ mark \in [Hosts -> {"in", "out", "lost"}]
    /\ remote \in [Hosts -> {Absent, "low", "normal"}]
    /\ \A h \in Hosts : pod[h] # "none" => sts[h] # NoSts /\ sts[h][2] = "on"
    /\ {conf, run} \subseteq [Hosts -> {s.conf : s \in Specs}] /\ schema \subseteq Hosts
PassTypeOK ==
    /\ attr \in [Hosts -> Attrs] /\ added \in Nat
    /\ pushed \cup low \cup newly \subseteq Hosts
WalkTypeOK ==
    /\ th \in [Shards -> Threads]
    /\ deferred \cup failed \subseteq Shards

(* The variables range over the values the code gives them; a pod has a     *)
(* StatefulSet that wants it.                                               *)
TypeOK == CRTypeOK /\ WorldTypeOK /\ PassTypeOK /\ WalkTypeOK

(* A pass never takes down the last replica of a shard that serves: the     *)
(* rule of hostDisruptionWouldDegradeShard and recovery before rollout,     *)
(* whatever was rolled, restarted, deferred or broken off before.  A pod    *)
(* that came up after the gate saw it down is not protected.                *)
ServingReplicas(s) ==
    {h \in ShardHosts(s) : pod[h] = "up" /\ (h = th[s].host => th[s].healthy)}

ShardServes ==
    [][ \A s \in Shards :
          (/\ pc = "shards" /\ pc' = "shards" /\ cr.mode = "run"
           /\ Cardinality(ShardHosts(s)) > 1 /\ ServingReplicas(s) # {})
          => \E h \in ShardHosts(s) : pod'[h] = "up" ]_vars

(* A host the last completed pass did not have enters remote_servers, which *)
(* every pod mounts, only once its StatefulSet exists and its own reconcile *)
(* went through, tables included: the exclusions of                         *)
(* getRemoteServersGeneratorOptions and of a deferred pass.  A cancelled    *)
(* pass still writes, and so do the other shards once one has failed        *)
(* (README, Known divergences).                                             *)
AdvertisedExist ==
    [][ \A h \in Hosts :
          remote[h] = Absent /\ remote'[h] # Absent /\ ~HasAncestor(h)
          => \/ sts[h] # NoSts /\ attr[h] # "Requested"
             \/ cancelled \/ ShardOf[h] \in failed ]_vars

(* A pass that was given up for deferrals alone has put every replica it    *)
(* drained back into the Services (shouldRestoreHostToServiceOnDeferral),   *)
(* but for one whose own write of the ready mark failed: the code discards  *)
(* that error (SetReadyMarkOnPodAndService).                                *)
DeferralRestores ==
    pc = "fail" /\ failed = {} /\ ~cancelled /\ cr.mode = "run" =>
        \A h \in cr.hosts : HasAncestor(h) => mark[h] # "out"

(* In the end every pass is over and, unless the CR says Aborted, every     *)
(* host has its StatefulSet, has its normal weight in remote_servers and is *)
(* back in the Services, but for one whose write of the ready mark failed;  *)
(* other hosts are gone.                                                    *)
Settled ==
    /\ pc = "idle" /\ ~event /\ ~pending
    /\ status = "Aborted" \/
       \A h \in Hosts :
          IF h \notin spec.hosts THEN sts[h] = NoSts /\ remote[h] = Absent
          ELSE /\ sts[h] = Desired(spec) /\ remote[h] = "normal"
               /\ spec.mode = "run" => mark[h] # "out"
HostsReturn == <>[]Settled

(* A completed pass leaves no running server on settings it was to replace: *)
(* the restart of shouldForceRestartHost happened, or a roll did.           *)
CompletedIsRunning ==
    [][ status # "Completed" /\ status' = "Completed" =>
          \A h \in cr.hosts : pod[h] = "up" => run[h] = cr.conf ]_vars

(* A pass that completes has the servers it knew as running run the         *)
(* settings it changed, through restarts that fail, pods that time out,     *)
(* deferrals and crashes in between.                                        *)
RestartsHappen ==
    [][ status # "Completed" /\ status' = "Completed" =>
          \A h \in cr.hosts :
             HasAncestor(h) /\ anc.mode = "run" /\ cr.conf # anc.conf /\ pod[h] = "up"
             => run[h] = cr.conf ]_vars
=============================================================================
