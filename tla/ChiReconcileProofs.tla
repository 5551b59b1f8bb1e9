------------------------- MODULE ChiReconcileProofs -------------------------
(***************************************************************************)
(* A pass over the hosts of an installation, for any shards, hosts,        *)
(* specifications and policies, any number of goroutines, edits, errors    *)
(* and restarts: the types, what a deferral puts back, the last replica of *)
(* a shard, what remote_servers names, and the restarts.                   *)
(***************************************************************************)
EXTENDS ChiReconcile, FiniteSetTheorems, TLAPS

\* The steps around the walk of the shards.
OuterStep ==
    \/ reconcileCRAuxObjectsPreliminary \/ WalkEnds \/ reconcileCRAuxObjectsFinal
    \/ restartNewlyAddedHosts \/ FinalEnds \/ clean \/ finalizeReconcileAndMarkCompleted
    \/ markReconcileCompletedUnsuccessfully
    \/ EditSpec \/ Deliver \/ (\E h \in Hosts : PodStarts(h)) \/ UNCHANGED vars

\* The steps of a goroutine on a host.
HostSteps == Steps \ {"wait", "next", "done"}

\* The goroutines walk hosts of their own shards, and only during the walk.
ThreadInv ==
    /\ pc # "shards" => \A s \in Shards : th[s].pc \in {"wait", "done"}
    /\ \A s \in Shards :
          /\ IF th[s].pc \in HostSteps THEN th[s].host \in ShardHosts(s) ELSE th[s].host = ""
          /\ \A i \in ToWalk(s) : HostSeq[i] \in ShardHosts(s)
          /\ th[s].pc \in {"wait", "done"} => ToWalk(s) = {}

\* The goroutine of the host's shard has yet to come to it, or is at it.
Ahead(h) ==
    LET s == ShardOf[h]
    IN  th[s].pc = "wait" \/ th[s].host = h \/ \E i \in ToWalk(s) : HostSeq[i] = h

\* The pass walks, or is past the walk, and nothing has cut it short for the host.
Walks == pc \in {"shards", "final", "newly", "fail", "clean", "finalize"} /\ ~cancelled
Sound(h) == h \in cr.hosts /\ ShardOf[h] \notin failed

\* Before the walk every host is ahead; past it, in a pass without errors, none.
AfterInv ==
    /\ pc = "prelim" => \A s \in Shards : th[s].pc = "wait"
    /\ pc = "final" => failed = {}
    /\ pc \in {"clean", "finalize"} => failed = {} /\ deferred = {}
    /\ Walks /\ pc # "shards" /\ failed = {} => \A s \in Shards : th[s].pc = "done"

\* An established host is not judged to be new.
AttrInv ==
    \A s \in Shards : th[s].pc \in {"launch", "tables"} /\ HasAncestor(th[s].host) =>
        attr[th[s].host] # "Requested"

\* An established host that the walk is past is in the Services, or the write that
\* puts it back failed.
RestoreInv ==
    Walks /\ cr.mode = "run" =>
        \A h \in Hosts : Sound(h) /\ HasAncestor(h) => mark[h] # "out" \/ Ahead(h)

\* A new host has its StatefulSet once it is no longer requested, and is no
\* longer requested once the walk is past it.
Filtered == pc \in {"prelim", "shards", "final"} /\ ~cancelled
NewInv ==
    Filtered =>
        /\ \A h \in Hosts : Sound(h) /\ ~HasAncestor(h) /\ attr[h] # "Requested" => sts[h] # NoSts
        /\ \A s \in Shards : th[s].pc \in {"launch", "tables"} => sts[th[s].host] # NoSts
        /\ pc # "prelim" /\ deferred = {} =>
              /\ \A h \in Hosts : Sound(h) => attr[h] # "Requested" \/ Ahead(h)
              /\ \A s \in Shards : th[s].pc \in {"ascend", "include"} =>
                    attr[th[s].host] # "Requested"

\* The steps from the gate to the write of the StatefulSet.
Disrupting == {"restart", "back", "scale", "sts"}

\* A host that was up at the gate is disrupted only beside a peer that is up.
PeerInv ==
    cr.mode = "run" => \A s \in Shards :
        th[s].pc \in Disrupting /\ th[s].healthy /\ Cardinality(ShardHosts(s)) > 1 =>
            \/ \E p \in ShardHosts(s) \ {th[s].host} : pod[p] = "up"
            \/ th[s].pc = "sts" /\ StatefulSetStatus(th[s].host, Desired(cr)) = "Same"

\* Pods can be read.
PodsReadable == "podread" \notin Faults

\* A shutdown may fail, or the write of a StatefulSet, but not one after the other.
RestartsReliable == ~({"shutdown", "sts"} \subseteq Faults) \/ MaxErrors <= 1

\* No write of a StatefulSet fails any more.
Spent == "sts" \notin Faults \/ ~(errors < MaxErrors)

\* The pass changes the settings of a host that the last one left running.
Restarting(h) ==
    /\ Sound(h) /\ ShardOf[h] \notin deferred
    /\ HasAncestor(h) /\ anc.mode = "run" /\ cr.conf # anc.conf

\* The host runs the settings of the pass, or none.
Runs(h) == pod[h] = "up" => run[h] = cr.conf

\* How far the restart of a host has come.
Restarted(h) ==
    /\ Ahead(h) \/ (conf[h] = cr.conf /\ Runs(h))
    /\ LET t == th[ShardOf[h]] IN t.host = h =>
          /\ t.pc \in HostSteps \ {"descend", "main"} => conf[h] = cr.conf
          /\ t.pc \in {"back", "launch", "tables", "ascend", "include"} => Runs(h)
          /\ t.pc = "scale" => Runs(h) \/ Spent
          /\ t.pc = "sts" => Runs(h) \/ StatefulSetStatus(h, Desired(cr)) # "Same"
RunsInv == Walks => \A h \in Hosts : Restarting(h) => Restarted(h)

-----------------------------------------------------------------------------
(* Threads                                                                 *)

\* What a goroutine's state consists of.
LEMMA ThreadParts ==
    ASSUME NEW t \in Threads
    PROVE  /\ t.pc \in Steps /\ t.host \in Hosts \cup {""} /\ t.down \in SUBSET (DOMAIN HostSeq)
           /\ t.rest \in SUBSET (DOMAIN HostSeq)
BY DEF Threads

\* A step to another point of the same host changes nothing else of the goroutine.
LEMMA GotoType ==
    ASSUME NEW s \in Shards, NEW step \in Steps, WalkTypeOK, Goto(s, step)
    PROVE  /\ th' \in [Shards -> Threads]
           /\ th'[s].pc = step /\ th'[s].host = th[s].host
           /\ th'[s].down = th[s].down /\ th'[s].rest = th[s].rest
           /\ th'[s].healthy = th[s].healthy
           /\ \A x \in Shards : x # s => th'[x] = th[x]
BY DEF Goto, WalkTypeOK, Threads

\* A goroutine given a new state, the others as they are.
LEMMA SetThread ==
    ASSUME NEW s \in Shards, NEW t \in Threads, WalkTypeOK, th' = [th EXCEPT ![s] = t]
    PROVE  th' \in [Shards -> Threads] /\ th'[s] = t /\ \A x \in Shards : x # s => th'[x] = th[x]
BY DEF WalkTypeOK

\* A goroutine that has not started and one that is over have no host and none to come.
LEMMA IdleThreads ==
    /\ Waiting \in Threads /\ Waiting.pc = "wait" /\ Waiting.host = ""
    /\ Waiting.down = {} /\ Waiting.rest = {}
    /\ Over \in Threads /\ Over.pc = "done" /\ Over.host = "" /\ Over.down = {} /\ Over.rest = {}
<1>1. {} \in SUBSET (DOMAIN HostSeq) /\ "" \in Hosts \cup {""} /\ {"wait", "done"} \subseteq Steps
  BY DEF Steps
<1>2. /\ Waiting \in Threads /\ Waiting.pc = "wait" /\ Waiting.host = ""
      /\ Waiting.down = {} /\ Waiting.rest = {}
  BY <1>1 DEF Waiting, Thread, Threads
<1>3. /\ Over \in Threads /\ Over.pc = "done" /\ Over.host = ""
      /\ Over.down = {} /\ Over.rest = {}
  BY <1>1 DEF Over, Thread, Threads
<1> QED
  BY <1>2, <1>3

\* Between two hosts a goroutine keeps what it has to come to.
LEMMA NextHostType ==
    ASSUME WalkTypeOK, NEW s \in Shards
    PROVE  /\ NextHost(s) \in Threads /\ NextHost(s).pc = "next" /\ NextHost(s).host = ""
           /\ NextHost(s).down = th[s].down /\ NextHost(s).rest = th[s].rest
<1>1. "" \in Hosts \cup {""} /\ "next" \in Steps
  BY DEF Steps
<1>2. th[s] \in Threads
  BY DEF WalkTypeOK
<1>3. th[s].down \in SUBSET (DOMAIN HostSeq) /\ th[s].rest \in SUBSET (DOMAIN HostSeq)
  BY <1>2, ThreadParts
<1> QED
  BY <1>1, <1>3 DEF NextHost, Thread, Threads

-----------------------------------------------------------------------------
(* What a step of a goroutine does to the walk                             *)

\* It is over, for want of hosts or for the cancellation;
Quits(s) == th[s].pc = "next" /\ th'[s] = Over /\ (ToWalk(s) = {} \/ cancelled)

\* it gives the shard up;
Fails(s) == s \in failed' /\ th'[s] = Over

\* it comes to its next host;
Arrives(s) ==
    /\ th[s].pc = "next" /\ th'[s].pc \in {"descend", "main"}
    /\ \E i \in ToWalk(s) : /\ th'[s].host = HostSeq[i]
                            /\ th'[s].down = th[s].down \ {i} /\ th'[s].rest = th[s].rest \ {i}

\* it goes on with its host;
Goes(s) ==
    /\ th[s].pc \in HostSteps /\ th'[s].pc \in HostSteps /\ th'[s].host = th[s].host
    /\ th'[s].down = th[s].down /\ th'[s].rest = th[s].rest

\* or it is done with it.
Leaves(s) == th[s].pc \in {"gate", "tables", "include"} /\ th'[s] = NextHost(s)

Moves(s) ==
    /\ th' \in [Shards -> Threads] /\ \A x \in Shards : x # s => th'[x] = th[x]
    /\ Quits(s) \/ Fails(s) \/ Arrives(s) \/ Goes(s) \/ Leaves(s)

\* How a step of a goroutine moves it: on at its host, out by an error, out at the end,
\* off its host, or to the next one.
LEMMA GotoMoves ==
    ASSUME NEW s \in Shards, NEW step \in HostSteps, WalkTypeOK, th[s].pc \in HostSteps,
           Goto(s, step)
    PROVE  Moves(s) /\ Goes(s) /\ th'[s].pc = step /\ th'[s].healthy = th[s].healthy
<1>1. step \in Steps
  BY DEF HostSteps
<1> QED
  BY <1>1, GotoType DEF Moves, Goes

LEMMA HardErrorMoves ==
    ASSUME NEW s \in Shards, WalkTypeOK, HardError(s)
    PROVE  Moves(s) /\ Fails(s)
BY SetThread, IdleThreads DEF HardError, Moves, Fails

LEMMA OverMoves ==
    ASSUME NEW s \in Shards, WalkTypeOK, th[s].pc = "next", ToWalk(s) = {} \/ cancelled,
           th' = [th EXCEPT ![s] = Over]
    PROVE  Moves(s) /\ Quits(s)
BY SetThread, IdleThreads DEF Moves, Quits

LEMMA LeaveMoves ==
    ASSUME NEW s \in Shards, WalkTypeOK, th[s].pc \in {"gate", "tables", "include"},
           th' = [th EXCEPT ![s] = NextHost(s)]
    PROVE  Moves(s) /\ Leaves(s)
BY SetThread, NextHostType DEF Moves, Leaves

LEMMA ArriveMoves ==
    ASSUME NEW s \in Shards, WalkTypeOK, th[s].pc = "next", NEW i \in ToWalk(s),
           NEW step \in {"descend", "main"},
           th' = [th EXCEPT ![s] = Thread(step, HostSeq[i], th[s].down \ {i}, th[s].rest \ {i})]
    PROVE  Moves(s) /\ Arrives(s) /\ th'[s].healthy = TRUE
<1>1. th[s] \in Threads /\ step \in Steps
  BY DEF WalkTypeOK, Steps
<1>2. th[s].down \in SUBSET (DOMAIN HostSeq) /\ th[s].rest \in SUBSET (DOMAIN HostSeq)
  BY <1>1, ThreadParts
<1>3. HostSeq[i] \in Hosts \cup {""}
  BY <1>2 DEF ToWalk, Hosts
<1> DEFINE t == Thread(step, HostSeq[i], th[s].down \ {i}, th[s].rest \ {i})
<1>4. /\ t \in Threads /\ t.pc = step /\ t.host = HostSeq[i] /\ t.down = th[s].down \ {i}
      /\ t.rest = th[s].rest \ {i} /\ t.healthy = TRUE
  <2>1. th[s].down \ {i} \in SUBSET (DOMAIN HostSeq) /\ th[s].rest \ {i} \in SUBSET (DOMAIN HostSeq)
    BY <1>2
  <2> QED
    BY <1>1, <1>3, <2>1 DEF Thread, Threads
<1> HIDE DEF t
<1>5. th' = [th EXCEPT ![s] = t]
  BY DEF t
<1>6. th' \in [Shards -> Threads] /\ th'[s] = t /\ \A x \in Shards : x # s => th'[x] = th[x]
  BY <1>4, <1>5, SetThread
<1> QED
  BY <1>4, <1>6 DEF Moves, Arrives

\* A step of a goroutine touches its host and its shard, and nothing else.
Shape(s) ==
    /\ Moves(s) /\ HostFrame /\ run' = run
    /\ failed \subseteq failed' /\ failed' \subseteq failed \cup {s}
    /\ deferred \subseteq deferred' /\ deferred' \subseteq deferred \cup {s}
    /\ \A h \in Hosts : h # th[s].host =>
          attr'[h] = attr[h] /\ sts'[h] = sts[h] /\ pod'[h] = pod[h] /\ conf'[h] = conf[h]
    /\ \A h \in Hosts : h # th[s].host /\ h # th'[s].host => mark'[h] = mark[h]

\* Every step of a goroutine has one of these shapes.
LEMMA ShapeReconcileHost ==
    ASSUME NEW s \in Shards, TypeOK, reconcileHost(s)
    PROVE  Shape(s)
<1>1. UNCHANGED <<attr, sts, pod, conf, run, deferred>> /\ HostFrame
  BY DEF reconcileHost
<1>2. CASE th' = [th EXCEPT ![s] = Over] /\ (ToWalk(s) = {} \/ cancelled) /\ UNCHANGED <<mark, failed>>
  BY <1>1, <1>2, OverMoves DEF reconcileHost, Shape, TypeOK
<1>3. CASE HardError(s) /\ UNCHANGED mark
  BY <1>1, <1>3, HardErrorMoves DEF Shape, TypeOK, HardError
<1>4. CASE /\ UNCHANGED failed
           /\ \E i \in ToWalk(s) :
                \/ /\ mark' = mark \/ mark' = [mark EXCEPT ![HostSeq[i]] = "out"]
                   /\ th' = [th EXCEPT ![s] = Thread("descend", HostSeq[i], th[s].down \ {i},
                                                     th[s].rest \ {i})]
                \/ /\ UNCHANGED mark
                   /\ th' = [th EXCEPT ![s] = Thread("main", HostSeq[i], th[s].down \ {i},
                                                     th[s].rest \ {i})]
  <2>1. PICK i \in ToWalk(s) :
           \/ /\ mark' = mark \/ mark' = [mark EXCEPT ![HostSeq[i]] = "out"]
              /\ th' = [th EXCEPT ![s] = Thread("descend", HostSeq[i], th[s].down \ {i},
                                                th[s].rest \ {i})]
           \/ /\ UNCHANGED mark
              /\ th' = [th EXCEPT ![s] = Thread("main", HostSeq[i], th[s].down \ {i},
                                                th[s].rest \ {i})]
    BY <1>4
  <2>2. th[s].pc = "next"
    BY DEF reconcileHost
  <2>3. Moves(s)
    BY <2>1, <2>2, ArriveMoves DEF TypeOK
  <2>4. th'[s].host = HostSeq[i]
    <3>1. \E step \in {"descend", "main"} :
             th'[s] = Thread(step, HostSeq[i], th[s].down \ {i}, th[s].rest \ {i})
      BY <2>1 DEF TypeOK, WalkTypeOK
    <3> QED
      BY <3>1 DEF Thread
  <2>5. \A h \in Hosts : h # HostSeq[i] => mark'[h] = mark[h]
    BY <2>1 DEF TypeOK, WorldTypeOK
  <2> QED
    BY <1>1, <1>4, <2>3, <2>4, <2>5 DEF Shape
<1> QED
  BY <1>2, <1>3, <1>4 DEF reconcileHost, excludeHostFromService

\* A step that goes on with its host or gives the shard up.
LEMMA ShapeGoes ==
    ASSUME NEW s \in Shards, TypeOK, th[s].pc \in HostSteps, HostFrame, run' = run,
           deferred' = deferred,
           \A h \in Hosts : h # th[s].host =>
              /\ attr'[h] = attr[h] /\ sts'[h] = sts[h] /\ pod'[h] = pod[h]
              /\ conf'[h] = conf[h] /\ mark'[h] = mark[h],
           \/ HardError(s)
           \/ UNCHANGED failed /\ \E step \in HostSteps : Goto(s, step)
    PROVE  Shape(s)
<1>1. Moves(s)
  BY HardErrorMoves, GotoMoves DEF TypeOK
<1>2. failed \subseteq failed' /\ failed' \subseteq failed \cup {s}
  BY DEF HardError
<1> QED
  BY <1>1, <1>2 DEF Shape

LEMMA ShapePlain ==
    ASSUME NEW s \in Shards, TypeOK,
           \/ descendHostInClickHouseCluster(s) \/ hostForceRestart(s) \/ waitHostRestart(s)
           \/ hostScaleDown(s) \/ waitForStatefulSetLaunch(s)
           \/ ascendHostInClickHouseCluster(s)
    PROVE  Shape(s)
<1>1. th[s].pc \in HostSteps
  BY DEF descendHostInClickHouseCluster, hostForceRestart, waitHostRestart, hostScaleDown,
         waitForStatefulSetLaunch, ascendHostInClickHouseCluster, HostSteps, Steps
<1>2. HostFrame /\ UNCHANGED <<run, deferred, attr, conf, mark>>
  BY DEF descendHostInClickHouseCluster, hostForceRestart, waitHostRestart, hostScaleDown,
         waitForStatefulSetLaunch, ascendHostInClickHouseCluster, worldVars
<1>3. \A h \in Hosts : h # th[s].host => sts'[h] = sts[h] /\ pod'[h] = pod[h]
  BY DEF descendHostInClickHouseCluster, hostForceRestart, waitHostRestart, hostScaleDown,
         waitForStatefulSetLaunch, ascendHostInClickHouseCluster, worldVars, TypeOK, WorldTypeOK
<1>4. HardError(s) \/ (UNCHANGED failed /\ \E step \in HostSteps : Goto(s, step))
  BY DEF descendHostInClickHouseCluster, hostForceRestart, waitHostRestart, hostScaleDown,
         waitForStatefulSetLaunch, ascendHostInClickHouseCluster, HostSteps, Steps
<1> QED
  BY <1>1, <1>2, <1>3, <1>4, ShapeGoes

\* The goroutine goes on with its host, other locals changed.
LEMMA ShapeOnward ==
    ASSUME NEW s \in Shards, TypeOK, th[s].pc \in HostSteps, HostFrame, run' = run,
           UNCHANGED failed, deferred \subseteq deferred', deferred' \subseteq deferred \cup {s},
           \A h \in Hosts : h # th[s].host =>
              /\ attr'[h] = attr[h] /\ sts'[h] = sts[h] /\ pod'[h] = pod[h]
              /\ conf'[h] = conf[h] /\ mark'[h] = mark[h],
           NEW t \in Threads, th' = [th EXCEPT ![s] = t],
           \/ /\ t.pc \in HostSteps /\ t.host = th[s].host /\ t.down = th[s].down
              /\ t.rest = th[s].rest
           \/ th[s].pc \in {"gate", "tables", "include"} /\ t = NextHost(s)
    PROVE  Shape(s)
<1>1. th' \in [Shards -> Threads] /\ th'[s] = t /\ \A x \in Shards : x # s => th'[x] = th[x]
  BY SetThread DEF TypeOK
<1>2. Moves(s)
  BY <1>1 DEF Moves, Goes, Leaves
<1> QED
  BY <1>2 DEF Shape

LEMMA ShapeReconcileHostMain ==
    ASSUME NEW s \in Shards, TypeOK, reconcileHostMain(s)
    PROVE  Shape(s)
<1>1. th[s].pc \in HostSteps /\ th[s] \in Threads
  BY DEF reconcileHostMain, HostSteps, Steps, TypeOK, WalkTypeOK
<1>2. HostFrame /\ UNCHANGED <<run, deferred, attr, sts, pod, mark>>
  BY DEF reconcileHostMain
<1>3. \A h \in Hosts : h # th[s].host => conf'[h] = conf[h]
  <2>1. conf' = conf \/ conf' = [conf EXCEPT ![th[s].host] = cr.conf]
    BY DEF reconcileHostMain
  <2> QED
    BY <2>1 DEF TypeOK, WorldTypeOK
<1>4. CASE HardError(s) \/ (UNCHANGED failed /\ Goto(s, "gate"))
  <2>1. "gate" \in HostSteps
    BY DEF HostSteps, Steps
  <2> QED
    BY <1>1, <1>2, <1>3, <1>4, <2>1, ShapeGoes
<1>5. CASE /\ UNCHANGED failed
           /\ th' = [th EXCEPT ![s] = [th[s] EXCEPT !.pc = "gate", !.recreate = TRUE,
                                                    !.migrate = TRUE]]
  <2> DEFINE t == [th[s] EXCEPT !.pc = "gate", !.recreate = TRUE, !.migrate = TRUE]
  <2>1. th' = [th EXCEPT ![s] = t]
    BY <1>5
  <2>2. /\ t \in Threads /\ t.pc \in HostSteps /\ t.host = th[s].host
        /\ t.down = th[s].down /\ t.rest = th[s].rest
    BY <1>1 DEF Threads, HostSteps, Steps
  <2> HIDE DEF t
  <2> QED
    BY <1>1, <1>2, <1>3, <1>5, <2>1, <2>2, ShapeOnward
<1> QED
  BY <1>4, <1>5 DEF reconcileHostMain

\* What the gate may make of the goroutine.
LEMMA DeferThread ==
    ASSUME NEW s \in Shards, TypeOK, NEW a, Defer(s, a)
    PROVE  \E t \in Threads :
              /\ th' = [th EXCEPT ![s] = t]
              /\ \/ /\ a # "Requested" /\ t.pc = "ascend" /\ t.host = th[s].host
                    /\ t.down = th[s].down /\ t.rest = th[s].rest
                 \/ a = "Requested" /\ t = NextHost(s)
<1>1. CASE a # "Requested"
  <2> DEFINE t == [th[s] EXCEPT !.pc = "ascend", !.defers = TRUE]
  <2>1. th' = [th EXCEPT ![s] = t]
    BY <1>1 DEF Defer, shouldRestoreHostToServiceOnDeferral
  <2>2. t \in Threads /\ t.pc = "ascend" /\ t.host = th[s].host /\ t.down = th[s].down
        /\ t.rest = th[s].rest
    BY DEF TypeOK, WalkTypeOK, Threads, Steps
  <2> HIDE DEF t
  <2> QED
    BY <1>1, <2>1, <2>2
<1>2. CASE a = "Requested"
  BY <1>2, NextHostType DEF Defer, shouldRestoreHostToServiceOnDeferral, TypeOK
<1> QED
  BY <1>1, <1>2

\* The health check answers yes or no.
LEMMA HealthType ==
    ASSUME NEW h, NEW u PROVE isHostHealthyForReconcile(h, u) \in BOOLEAN
BY DEF isHostHealthyForReconcile

\* The gate: it defers, or sends the host on to its restart or its roll.
LEMMA GateCases ==
    ASSUME NEW s \in Shards, TypeOK, reconcileHostStatefulSet(s)
    PROVE  \E crushed \in BOOLEAN, unread \in {"", th[s].host} :
             LET h == th[s].host
                 a == StatefulSetStatus(h, Desired(cr))
                 force == shouldForceRestartHost(h, a, crushed)
                 step == IF force /\ ~hostRequiresStatefulSetRollout(h) THEN "restart" ELSE "sts"
             IN  /\ unread = h => "podread" \in Faults
                 /\ \/ hostDisruptionWouldDegradeShard(h, a, force, unread) /\ Defer(s, a)
                    \/ /\ ~hostDisruptionWouldDegradeShard(h, a, force, unread)
                       /\ UNCHANGED deferred
                       /\ th' = [th EXCEPT ![s] = [th[s] EXCEPT
                                     !.healthy = isHostHealthyForReconcile(h, ""), !.pc = step]]
BY DEF reconcileHostStatefulSet, Fault

LEMMA ShapeGate ==
    ASSUME NEW s \in Shards, TypeOK, reconcileHostStatefulSet(s)
    PROVE  Shape(s)
<1>1. th[s].pc = "gate" /\ th[s].pc \in HostSteps
  BY DEF reconcileHostStatefulSet, HostSteps, Steps
<1>2. HostFrame /\ UNCHANGED <<run, sts, pod, conf, mark, failed>>
  BY DEF reconcileHostStatefulSet, worldVars
<1>3. \A h \in Hosts : h # th[s].host => attr'[h] = attr[h]
  BY DEF reconcileHostStatefulSet, TypeOK, PassTypeOK
<1>4. CASE \E a : Defer(s, a)
  <2>1. PICK a : Defer(s, a)
    BY <1>4
  <2>2. PICK t \in Threads :
          /\ th' = [th EXCEPT ![s] = t]
          /\ \/ t.pc = "ascend" /\ t.host = th[s].host /\ t.down = th[s].down /\ t.rest = th[s].rest
             \/ t = NextHost(s)
    BY <2>1, DeferThread
  <2>3. deferred' = deferred \cup {s}
    BY <2>1 DEF Defer
  <2>4. "ascend" \in HostSteps
    BY DEF HostSteps, Steps
  <2> QED
    BY <1>1, <1>2, <1>3, <2>2, <2>3, <2>4, ShapeOnward
<1>5. CASE /\ UNCHANGED deferred
           /\ \E step \in {"restart", "sts"}, b \in BOOLEAN :
                 th' = [th EXCEPT ![s] = [th[s] EXCEPT !.healthy = b, !.pc = step]]
  <2>1. PICK step \in {"restart", "sts"}, b \in BOOLEAN :
                 th' = [th EXCEPT ![s] = [th[s] EXCEPT !.healthy = b, !.pc = step]]
    BY <1>5, Zenon
  <2> DEFINE t == [th[s] EXCEPT !.healthy = b, !.pc = step]
  <2>2. /\ t \in Threads /\ t.pc = step /\ t.host = th[s].host
        /\ t.down = th[s].down /\ t.rest = th[s].rest
    BY DEF TypeOK, WalkTypeOK, Threads, Steps
  <2>5. th' = [th EXCEPT ![s] = t]
    BY <2>1, Zenon
  <2> HIDE DEF t
  <2>3. t.pc \in HostSteps
    BY <2>2 DEF HostSteps, Steps
  <2>4. deferred' = deferred
    BY <1>5
  <2> QED
    BY <1>1, <1>2, <1>3, <2>2, <2>3, <2>4, <2>5, ShapeOnward
<1>6. \/ \E a : Defer(s, a)
      \/ /\ UNCHANGED deferred
         /\ \E step \in {"restart", "sts"}, b \in BOOLEAN :
                 th' = [th EXCEPT ![s] = [th[s] EXCEPT !.healthy = b, !.pc = step]]
  <2>1. isHostHealthyForReconcile(th[s].host, "") \in BOOLEAN
    BY HealthType
  <2> QED
    BY <2>1, GateCases
<1> QED
  BY <1>4, <1>5, <1>6

\* The StatefulSet is left as it is, written anew, or half way broken off.
LEMMA WriteCases ==
    ASSUME NEW s \in Shards, ReconcileStatefulSet(s)
    PROVE  LET h == th[s].host
               a == StatefulSetStatus(h, Desired(cr))
           IN  \/ /\ cancelled \/ a = "Same"
                  /\ Goto(s, "tables") /\ UNCHANGED <<sts, pod, mark, failed>>
               \/ /\ ~cancelled /\ a # "Same" /\ Roll(h) /\ UNCHANGED failed
                  /\ \E c \in BOOLEAN :
                        th' = [th EXCEPT ![s] = [th[s] EXCEPT !.pc = "launch", !.create = c]]
               \/ /\ ~cancelled /\ a # "Same" /\ HardError(s) /\ UNCHANGED mark
                  /\ \/ UNCHANGED <<sts, pod>>
                     \/ /\ sts[h] # NoSts /\ pod' = [pod EXCEPT ![h] = "none"]
                        /\ \/ sts' = [sts EXCEPT ![h] = Drained(@)]
                           \/ sts' = [sts EXCEPT ![h] = NoSts]
BY DEF ReconcileStatefulSet

LEMMA ShapeReconcileStatefulSet ==
    ASSUME NEW s \in Shards, TypeOK, ReconcileStatefulSet(s)
    PROVE  Shape(s)
<1>1. th[s].pc = "sts" /\ th[s].pc \in HostSteps
  BY DEF ReconcileStatefulSet, HostSteps, Steps
<1>2. HostFrame /\ UNCHANGED <<run, conf, deferred>>
  BY DEF ReconcileStatefulSet
<1>3. \A h \in Hosts : h # th[s].host => attr'[h] = attr[h]
  BY DEF ReconcileStatefulSet, TypeOK, PassTypeOK
<1>4. \A h \in Hosts : h # th[s].host =>
         sts'[h] = sts[h] /\ pod'[h] = pod[h] /\ mark'[h] = mark[h]
  <2>1. /\ sts' = sts \/ \E x : sts' = [sts EXCEPT ![th[s].host] = x]
        /\ pod' = pod \/ \E x : pod' = [pod EXCEPT ![th[s].host] = x]
        /\ mark' = mark \/ \E x : mark' = [mark EXCEPT ![th[s].host] = x]
    BY WriteCases DEF Roll
  <2> QED
    BY <2>1 DEF TypeOK, WorldTypeOK
<1>5. CASE HardError(s) \/ (UNCHANGED failed /\ Goto(s, "tables"))
  <2>1. "tables" \in HostSteps
    BY DEF HostSteps, Steps
  <2> QED
    BY <1>1, <1>2, <1>3, <1>4, <1>5, <2>1, ShapeGoes
<1>6. CASE UNCHANGED failed /\ \E c \in BOOLEAN :
             th' = [th EXCEPT ![s] = [th[s] EXCEPT !.pc = "launch", !.create = c]]
  <2>1. PICK c \in BOOLEAN :
             th' = [th EXCEPT ![s] = [th[s] EXCEPT !.pc = "launch", !.create = c]]
    BY <1>6, Zenon
  <2> DEFINE t == [th[s] EXCEPT !.pc = "launch", !.create = c]
  <2>2. /\ t \in Threads /\ t.pc \in HostSteps /\ t.host = th[s].host
        /\ t.down = th[s].down /\ t.rest = th[s].rest
    BY DEF TypeOK, WalkTypeOK, Threads, Steps, HostSteps
  <2>3. th' = [th EXCEPT ![s] = t]
    BY <2>1, Zenon
  <2> HIDE DEF t
  <2>4. UNCHANGED failed
    BY <1>6
  <2> QED
    BY <1>1, <1>2, <1>3, <1>4, <2>2, <2>3, <2>4, ShapeOnward
<1> QED
  BY <1>5, <1>6, WriteCases

\* The tables: the host is done, or deferred.
LEMMA TablesCases ==
    ASSUME NEW s \in Shards, TypeOK, reconcileHostTables(s)
    PROVE  LET h == th[s].host
           IN  \/ /\ UNCHANGED deferred
                  /\ attr' = [attr EXCEPT ![h] = IF @ = "Requested" THEN "Created" ELSE @]
                  /\ \/ cr.mode = "stop" /\ th' = [th EXCEPT ![s] = NextHost(s)]
                     \/ Goto(s, "ascend")
               \/ UNCHANGED attr /\ Defer(s, attr[h])
<1>1. HostMainDone(s, th[s].host) =>
        /\ attr' = [attr EXCEPT ![th[s].host] = IF @ = "Requested" THEN "Created" ELSE @]
        /\ \/ cr.mode = "stop" /\ th' = [th EXCEPT ![s] = NextHost(s)]
           \/ Goto(s, "ascend")
  BY DEF HostMainDone, Goto, TypeOK, WalkTypeOK
<1> QED
  BY <1>1 DEF reconcileHostTables

LEMMA ShapeTables ==
    ASSUME NEW s \in Shards, TypeOK, reconcileHostTables(s)
    PROVE  Shape(s)
<1>1. th[s].pc = "tables" /\ th[s].pc \in HostSteps
  BY DEF reconcileHostTables, HostSteps, Steps
<1>2. HostFrame /\ UNCHANGED <<run, sts, pod, conf, mark, failed>>
  BY DEF reconcileHostTables
<1>3. \A h \in Hosts : h # th[s].host => attr'[h] = attr[h]
  BY TablesCases DEF TypeOK, PassTypeOK
<1>4. "ascend" \in HostSteps
  BY DEF HostSteps, Steps
<1>5. CASE Defer(s, attr[th[s].host])
  <2>1. PICK t \in Threads :
          /\ th' = [th EXCEPT ![s] = t]
          /\ \/ t.pc = "ascend" /\ t.host = th[s].host /\ t.down = th[s].down /\ t.rest = th[s].rest
             \/ t = NextHost(s)
    BY <1>5, DeferThread
  <2>2. deferred' = deferred \cup {s}
    BY <1>5 DEF Defer
  <2> QED
    BY <1>1, <1>2, <1>3, <1>4, <2>1, <2>2, ShapeOnward
<1>6. CASE UNCHANGED deferred /\ Goto(s, "ascend")
  BY <1>1, <1>2, <1>3, <1>4, <1>6, ShapeGoes
<1>7. CASE UNCHANGED deferred /\ th' = [th EXCEPT ![s] = NextHost(s)]
  <2>1. NextHost(s) \in Threads
    BY NextHostType DEF TypeOK
  <2> QED
    BY <1>1, <1>2, <1>3, <1>7, <2>1, ShapeOnward
<1> QED
  BY <1>5, <1>6, <1>7, TablesCases

LEMMA ShapeInclude ==
    ASSUME NEW s \in Shards, TypeOK, includeHost(s)
    PROVE  Shape(s)
<1>1. th[s].pc = "include" /\ th[s].pc \in HostSteps
  BY DEF includeHost, HostSteps, Steps
<1>2. HostFrame /\ UNCHANGED <<run, sts, pod, conf, attr, failed, deferred>>
  BY DEF includeHost
<1>3. \A h \in Hosts : h # th[s].host => mark'[h] = mark[h]
  BY DEF includeHost, includeHostIntoService, TypeOK, WorldTypeOK
<1>4. NextHost(s) \in Threads /\ th' = [th EXCEPT ![s] = NextHost(s)]
  BY NextHostType DEF TypeOK, includeHost
<1> QED
  BY <1>1, <1>2, <1>3, <1>4, ShapeOnward

LEMMA HostShape == ASSUME NEW s \in Shards, TypeOK, HostStep(s) PROVE Shape(s)
BY ShapeReconcileHost, ShapePlain, ShapeReconcileHostMain, ShapeGate, ShapeReconcileStatefulSet,
   ShapeTables, ShapeInclude
DEF HostStep

-----------------------------------------------------------------------------
(* Types and threads                                                       *)

\* What a specification consists of, and the StatefulSet it asks for.
LEMMA SpecParts ==
    ASSUME NEW x \in Specs
    PROVE  /\ x.hosts \subseteq Hosts /\ x.ver \in Vers /\ x.mode \in {"run", "stop"}
           /\ x.conf \in {y.conf : y \in Specs} /\ x # NoSpec
           /\ Desired(x) \in Vers \X {"on", "off", "drained"} /\ Desired(x) # NoSts
           /\ x.mode = "run" => Desired(x)[2] = "on"
<1>1. /\ x.hosts \subseteq Hosts /\ x.ver \in Vers /\ x.mode \in {"run", "stop"}
      /\ x.conf \in {y.conf : y \in Specs} /\ x # NoSpec
  BY SpecAssumption
<1>2. Desired(x) \in Vers \X {"on", "off", "drained"} /\ (x.mode = "run" => Desired(x)[2] = "on")
  BY <1>1 DEF Desired
<1>3. Desired(x) # NoSts
  BY DEF Desired, NoSts
<1> QED
  BY <1>1, <1>2, <1>3

\* A goroutine on a host is on one of its shard's.
LEMMA HostAt ==
    ASSUME TypeOK, ThreadInv, NEW s \in Shards, th[s].pc \in HostSteps
    PROVE  /\ th[s].host \in Hosts /\ th[s].host \in cr.hosts /\ ShardOf[th[s].host] = s
           /\ th[s].host \in ShardHosts(s) /\ th[s].host # "" /\ pc = "shards"
<1>1. th[s].host \in ShardHosts(s)
  BY DEF ThreadInv
<1>2. cr \in Specs
  BY DEF TypeOK, CRTypeOK
<1>3. cr.hosts \subseteq Hosts
  BY <1>2, SpecParts
<1>4. pc = "shards"
  BY DEF ThreadInv, HostSteps
<1> QED
  BY <1>1, <1>3, <1>4, HostAssumption DEF ShardHosts

\* Each part of the types is about its own variables.
LEMMA SameTypes ==
    /\ CRTypeOK /\ UNCHANGED <<crVars, cr>> => CRTypeOK'
    /\ WorldTypeOK /\ UNCHANGED worldVars => WorldTypeOK'
    /\ PassTypeOK /\ UNCHANGED passVars => PassTypeOK'
    /\ WalkTypeOK /\ UNCHANGED walkVars => WalkTypeOK'
<1>1. CRTypeOK /\ UNCHANGED <<crVars, cr>> => CRTypeOK'
  BY DEF CRTypeOK, crVars
<1>2. WorldTypeOK /\ UNCHANGED worldVars => WorldTypeOK'
  BY DEF WorldTypeOK, worldVars
<1>3. PassTypeOK /\ UNCHANGED passVars => PassTypeOK'
  BY DEF PassTypeOK, passVars
<1>4. WalkTypeOK /\ UNCHANGED walkVars => WalkTypeOK'
  BY DEF WalkTypeOK, walkVars
<1> QED
  BY <1>1, <1>2, <1>3, <1>4

\* remote_servers as generated is a choice per host.
LEMMA RemoteType ==
    ASSUME NEW attrs, NEW lows, NEW filtered
    PROVE  RemoteServers(attrs, lows, filtered) \in [Hosts -> {Absent, "low", "normal"}]
BY DEF RemoteServers

\* A goroutine stays in its shard: one step of it, and its start.
LEMMA ThreadHostStep ==
    ASSUME NEW s \in Shards, TypeOK, ThreadInv, HostStep(s)
    PROVE  WalkTypeOK' /\ ThreadInv'
<1>1. Shape(s)
  BY HostShape
<1>2. WalkTypeOK'
  BY <1>1 DEF Shape, Moves, TypeOK, WalkTypeOK
<1>3. pc = "shards" /\ pc' = pc /\ cr' = cr
  <2>1. th[s].pc \notin {"wait", "done"}
    BY DEF HostStep, reconcileHost, descendHostInClickHouseCluster, reconcileHostMain,
       reconcileHostStatefulSet, hostForceRestart, waitHostRestart, hostScaleDown,
       ReconcileStatefulSet, waitForStatefulSetLaunch, reconcileHostTables,
       ascendHostInClickHouseCluster, includeHost
  <2> QED
    BY <1>1, <2>1 DEF ThreadInv, Shape, HostFrame
<1>4. ASSUME NEW x \in Shards
      PROVE  /\ IF th'[x].pc \in HostSteps THEN th'[x].host \in ShardHosts(x) ELSE th'[x].host = ""
             /\ \A i \in th'[x].down \cup th'[x].rest : HostSeq[i] \in ShardHosts(x)
             /\ th'[x].pc \in {"wait", "done"} => th'[x].down \cup th'[x].rest = {}
  <2>1. CASE x # s
    BY <1>1, <1>4, <2>1 DEF Shape, Moves, ThreadInv, ToWalk
  <2>2. CASE x = s /\ (Quits(s) \/ Fails(s))
    BY <2>2, IdleThreads DEF Quits, Fails, HostSteps
  <2>3. CASE x = s /\ Arrives(s)
    BY <2>3 DEF Arrives, ThreadInv, ToWalk, HostSteps, Steps
  <2>4. CASE x = s /\ Goes(s)
    BY <2>4 DEF Goes, ThreadInv, ToWalk, HostSteps
  <2>5. CASE x = s /\ Leaves(s)
    BY <2>5, NextHostType DEF Leaves, ThreadInv, ToWalk, HostSteps, TypeOK
  <2> QED
    BY <1>1, <2>1, <2>2, <2>3, <2>4, <2>5 DEF Shape, Moves
<1>5. ThreadInv'
  BY <1>3, <1>4 DEF ThreadInv, ToWalk, ShardHosts
<1> QED
  BY <1>2, <1>5

LEMMA ThreadShard ==
    ASSUME NEW s \in Shards, TypeOK, ThreadInv, reconcileShardWithHosts(s)
    PROVE  /\ WalkTypeOK' /\ ThreadInv'
           /\ \A x \in Shards : x # s => th'[x] = th[x]
           /\ \/ s \in failed' /\ th'[s] = Over
              \/ /\ failed' = failed /\ th'[s].pc = "next"
                 /\ \A i \in DOMAIN HostSeq :
                       HostSeq[i] \in ShardHosts(s) => i \in th'[s].down \cup th'[s].rest
<1> DEFINE t == shardHostsRecoveryFirst(s)
<1>1. /\ t \in Threads /\ t.pc = "next" /\ t.host = ""
      /\ t.down \cup t.rest = {i \in DOMAIN HostSeq : HostSeq[i] \in ShardHosts(s)}
  BY DEF shardHostsRecoveryFirst, Thread, Threads, Steps
<1> HIDE DEF t
<1>2. \/ th' = [th EXCEPT ![s] = t] /\ failed' = failed
      \/ th' = [th EXCEPT ![s] = Over] /\ failed' = failed \cup {s}
  BY DEF reconcileShardWithHosts, t
<1>3. /\ th' \in [Shards -> Threads] /\ \A x \in Shards : x # s => th'[x] = th[x]
      /\ \/ th'[s] = t /\ failed' = failed
         \/ th'[s] = Over /\ s \in failed'
  BY <1>1, <1>2, SetThread, IdleThreads DEF TypeOK
<1>4. pc = "shards" /\ pc' = pc /\ cr' = cr /\ deferred' = deferred
  BY DEF reconcileShardWithHosts, passVars
<1>5. WalkTypeOK'
  BY <1>2, <1>3, <1>4 DEF TypeOK, WalkTypeOK
<1>6. ASSUME NEW x \in Shards
      PROVE  /\ IF th'[x].pc \in HostSteps THEN th'[x].host \in ShardHosts(x) ELSE th'[x].host = ""
             /\ \A i \in th'[x].down \cup th'[x].rest : HostSeq[i] \in ShardHosts(x)
             /\ th'[x].pc \in {"wait", "done"} => th'[x].down \cup th'[x].rest = {}
  <2>1. CASE x # s
    BY <1>3, <1>6, <2>1 DEF ThreadInv, ToWalk
  <2>2. CASE x = s
    BY <1>1, <1>3, <2>2, IdleThreads DEF HostSteps
  <2> QED
    BY <2>1, <2>2
<1>7. ThreadInv'
  BY <1>4, <1>6 DEF ThreadInv, ToWalk, ShardHosts
<1> QED
  BY <1>1, <1>3, <1>5, <1>7

\* A pass begins with every goroutine waiting, and leaves nothing behind.
LEMMA StartPassType ==
    ASSUME NEW s0 \in Specs, NEW attrs \in [Hosts -> Attrs], StartPass(s0, attrs)
    PROVE  WalkTypeOK' /\ ThreadInv' /\ PassTypeOK' /\ cr' \in Specs
<1>1. \A x \in Shards : th'[x] = Waiting
  BY DEF StartPass
<1>2. WalkTypeOK'
  BY <1>1, IdleThreads DEF StartPass, WalkTypeOK
<1>3. ThreadInv'
  BY <1>1, IdleThreads DEF ThreadInv, ToWalk, HostSteps
<1>4. added' = 0 /\ 0 \in Nat
  BY DEF StartPass
<1> QED
  BY <1>2, <1>3, <1>4 DEF StartPass, PassTypeOK

LEMMA ForgetPassType == ASSUME ForgetPass PROVE WalkTypeOK' /\ ThreadInv' /\ PassTypeOK' /\ cr' \in Specs
<1>1. First \in Specs /\ [h \in Hosts |-> ""] \in [Hosts -> Attrs]
  BY SpecAssumption DEF Attrs
<1> QED
  BY <1>1, StartPassType DEF ForgetPass

\* The steps around the walk that leave the goroutines alone.
LEMMA ThreadRest ==
    ASSUME TypeOK, ThreadInv, OuterStep
    PROVE  WalkTypeOK' /\ ThreadInv'
<1>1. UNCHANGED <<th, cr, deferred>>
  BY DEF OuterStep, reconcileCRAuxObjectsPreliminary, WalkEnds, reconcileCRAuxObjectsFinal,
     restartNewlyAddedHosts, FinalEnds, clean, finalizeReconcileAndMarkCompleted,
     markReconcileCompletedUnsuccessfully, EditSpec, Deliver, PodStarts, vars, walkVars, passVars
<1>2. failed' \in {failed, Shards}
  BY DEF OuterStep, reconcileCRAuxObjectsPreliminary, WalkEnds, reconcileCRAuxObjectsFinal,
     restartNewlyAddedHosts, FinalEnds, clean, finalizeReconcileAndMarkCompleted,
     markReconcileCompletedUnsuccessfully, EditSpec, Deliver, PodStarts, vars, walkVars
<1>3. WalkTypeOK'
  BY <1>1, <1>2 DEF TypeOK, WalkTypeOK
<1>4. pc' # "shards" => \A s \in Shards : th[s].pc \in {"wait", "done"}
  <2>1. CASE WalkEnds
    BY <2>1 DEF WalkEnds, ShardsOver, Walking
  <2>2. CASE ~WalkEnds
    <3>1. pc' # "shards" => pc # "shards"
      BY <2>2 DEF OuterStep, reconcileCRAuxObjectsPreliminary, reconcileCRAuxObjectsFinal,
         restartNewlyAddedHosts, FinalEnds, clean, finalizeReconcileAndMarkCompleted,
         markReconcileCompletedUnsuccessfully, EditSpec, Deliver, PodStarts, vars, passVars
    <3> QED
      BY <3>1 DEF ThreadInv
  <2> QED
    BY <2>1, <2>2
<1> QED
  BY <1>1, <1>3, <1>4 DEF ThreadInv, ToWalk, ShardHosts

\* The world: a StatefulSet written anew, scaled down, drained, or gone.
LEMMA PodsFollow ==
    ASSUME WorldTypeOK, UNCHANGED <<remote, conf, run, schema>>, mark' = mark \/ \E h \in Hosts :
              mark' = [mark EXCEPT ![h] = "in"],
           NEW h \in Hosts,
           \/ \E st \in {NoSts} \cup (Vers \X {"on", "off", "drained"}) :
                 sts' = [sts EXCEPT ![h] = st] /\ pod' = [pod EXCEPT ![h] = "none"]
           \/ \E st \in Vers \X {"on", "off", "drained"} :
                 /\ sts' = [sts EXCEPT ![h] = st] /\ st[2] = "on" /\ st # NoSts
                 /\ pod' = [pod EXCEPT ![h] = "down"]
           \/ sts' = sts /\ pod' = [pod EXCEPT ![h] = "down"] /\ pod[h] = "up"
           \/ sts' = sts /\ pod' = [pod EXCEPT ![h] = "none"]
    PROVE  WorldTypeOK'
<1>1. mark' \in [Hosts -> {"in", "out", "lost"}]
  BY DEF WorldTypeOK
<1>2. /\ sts' \in [Hosts -> {NoSts} \cup (Vers \X {"on", "off", "drained"})]
      /\ pod' \in [Hosts -> {"none", "down", "up"}]
  BY DEF WorldTypeOK
<1>3. ASSUME NEW g \in Hosts, pod'[g] # "none" PROVE sts'[g] # NoSts /\ sts'[g][2] = "on"
  BY <1>3 DEF WorldTypeOK
<1> QED
  BY <1>1, <1>2, <1>3 DEF WorldTypeOK

\* The attributes a step gives a host are attributes.
LEMMA StatusAttr ==
    ASSUME NEW h, NEW d PROVE StatefulSetStatus(h, d) \in Attrs
BY DEF StatefulSetStatus, Attrs

\* What one step of a goroutine may do to the counts and the sets of the pass.
LEMMA HostCounts ==
    ASSUME NEW s \in Shards, HostStep(s)
    PROVE  /\ added' = added \/ added' = added + 1
           /\ pushed' = pushed \/ pushed' = pushed \cup {th[s].host}
           /\ low' = low \/ low' = low \cup {th[s].host} \/ low' = low \ {th[s].host}
           /\ newly' = newly
           /\ listed' = listed \/ listed' = listed \cup pushed
           /\ schema' = schema \/ schema' = HostCreateTables(th[s].host) \/ schema' = schema \ {th[s].host}
<1>1. /\ pushed' = pushed \/ pushed' = pushed \cup {th[s].host}
      /\ low' = low \/ low' = low \cup {th[s].host} \/ low' = low \ {th[s].host}
      /\ newly' = newly
  BY DEF HostStep, reconcileHost, descendHostInClickHouseCluster, reconcileHostMain,
     reconcileHostStatefulSet, hostForceRestart, waitHostRestart, hostScaleDown,
     ReconcileStatefulSet, waitForStatefulSetLaunch, reconcileHostTables,
     ascendHostInClickHouseCluster, includeHost, HostFrame
<1>2. listed' = listed \/ listed' = listed \cup pushed
  BY DEF HostStep, reconcileHost, descendHostInClickHouseCluster, reconcileHostMain,
     reconcileHostStatefulSet, hostForceRestart, waitHostRestart, hostScaleDown,
     ReconcileStatefulSet, waitForStatefulSetLaunch, reconcileHostTables,
     ascendHostInClickHouseCluster, includeHost
<1>3. schema' = schema \/ schema' = HostCreateTables(th[s].host) \/ schema' = schema \ {th[s].host}
  BY DEF HostStep, reconcileHost, descendHostInClickHouseCluster, reconcileHostMain,
     reconcileHostStatefulSet, hostForceRestart, waitHostRestart, hostScaleDown,
     ReconcileStatefulSet, waitForStatefulSetLaunch, reconcileHostTables,
     ascendHostInClickHouseCluster, includeHost, worldVars
<1>4. added' = added \/ added' = added + 1
  BY DEF HostStep, reconcileHost, descendHostInClickHouseCluster, reconcileHostMain,
     reconcileHostStatefulSet, hostForceRestart, waitHostRestart, hostScaleDown,
     ReconcileStatefulSet, waitForStatefulSetLaunch, reconcileHostTables,
     ascendHostInClickHouseCluster, includeHost
<1> QED
  BY <1>1, <1>2, <1>3, <1>4

\* A goroutine's step is between two hosts, or on a host.
LEMMA HostOrNext ==
    ASSUME NEW s \in Shards, HostStep(s)
    PROVE  reconcileHost(s) \/ th[s].pc \in HostSteps
BY DEF HostStep, descendHostInClickHouseCluster, reconcileHostMain,
   reconcileHostStatefulSet, hostForceRestart, waitHostRestart, hostScaleDown,
   ReconcileStatefulSet, waitForStatefulSetLaunch, reconcileHostTables,
   ascendHostInClickHouseCluster, includeHost, HostSteps, Steps

LEMMA HostAttr ==
    ASSUME NEW s \in Shards, TypeOK, ThreadInv, HostStep(s)
    PROVE  attr' \in [Hosts -> Attrs]
<1>1. attr \in [Hosts -> Attrs]
  BY DEF TypeOK, PassTypeOK
<1>2. CASE reconcileHostTables(s)
  <2>1. \/ attr' = attr
        \/ attr' = [attr EXCEPT ![th[s].host] = IF @ = "Requested" THEN "Created" ELSE @]
    BY <1>2, TablesCases
  <2> QED
    BY <1>1, <2>1 DEF Attrs
<1>3. CASE reconcileHostStatefulSet(s) \/ ReconcileStatefulSet(s)
  <2>1. attr' = [attr EXCEPT ![th[s].host] = StatefulSetStatus(th[s].host, Desired(cr))]
    BY <1>3 DEF reconcileHostStatefulSet, ReconcileStatefulSet
  <2> QED
    BY <1>1, <2>1, StatusAttr
<1>4. CASE UNCHANGED attr
  BY <1>1, <1>4
<1> QED
  BY <1>2, <1>3, <1>4 DEF HostStep, reconcileHost, descendHostInClickHouseCluster,
     reconcileHostMain, hostForceRestart, waitHostRestart, hostScaleDown,
     waitForStatefulSetLaunch, ascendHostInClickHouseCluster, includeHost

\* What a step of a goroutine does to the CR and the pass, and to the cluster.
LEMMA CRPassHostStep ==
    ASSUME NEW s \in Shards, TypeOK, ThreadInv, HostStep(s)
    PROVE  CRTypeOK' /\ PassTypeOK'
<1>1. Shape(s)
  BY HostShape
<1>2. listed' \subseteq Hosts
  BY HostCounts DEF TypeOK, CRTypeOK, PassTypeOK
<1>3. CRTypeOK'
  BY <1>1, <1>2 DEF Shape, HostFrame, TypeOK, CRTypeOK
<1>4. added' \in Nat
  <2>1. added \in Nat /\ (added' = added \/ added' = added + 1)
    BY HostCounts DEF TypeOK, PassTypeOK
  <2> QED
    BY <2>1
<1>5. pushed' \cup low' \cup newly' \subseteq Hosts
  <2>1. CASE th[s].pc \in HostSteps
    <3>1. th[s].host \in Hosts
      BY <2>1, HostAt
    <3>2. /\ pushed' = pushed \/ pushed' = pushed \cup {th[s].host}
          /\ low' = low \/ low' = low \cup {th[s].host} \/ low' = low \ {th[s].host}
          /\ newly' = newly
      BY HostCounts
    <3>3. pushed \cup low \cup newly \subseteq Hosts
      BY DEF TypeOK, PassTypeOK
    <3> QED
      BY <3>1, <3>2, <3>3
  <2>2. CASE reconcileHost(s)
    BY <2>2 DEF reconcileHost, HostFrame, TypeOK, PassTypeOK
  <2> QED
    BY <2>1, <2>2, HostOrNext
<1>6. PassTypeOK'
  BY <1>4, <1>5, HostAttr DEF PassTypeOK
<1> QED
  BY <1>3, <1>6

\* The steps that leave the StatefulSets and the pods alone.
LEMMA WorldStill ==
    ASSUME WorldTypeOK, UNCHANGED <<sts, pod>>, mark' \in [Hosts -> {"in", "out", "lost"}],
           remote' \in [Hosts -> {Absent, "low", "normal"}],
           {conf', run'} \subseteq [Hosts -> {s.conf : s \in Specs}], schema' \subseteq Hosts
    PROVE  WorldTypeOK'
BY DEF WorldTypeOK

LEMMA WorldHostStill ==
    ASSUME NEW s \in Shards, TypeOK, ThreadInv, th[s].pc \in HostSteps, HostStep(s),
           UNCHANGED <<sts, pod>>
    PROVE  WorldTypeOK'
<1>1. th[s].host \in Hosts /\ cr \in Specs
  BY HostAt DEF TypeOK, CRTypeOK
<1>2. mark' \in [Hosts -> {"in", "out", "lost"}]
  <2>1. \/ mark' = mark \/ mark' = [mark EXCEPT ![th[s].host] = "in"]
        \/ mark' = [mark EXCEPT ![th[s].host] = IF @ = "in" THEN "in" ELSE "lost"]
    <3>1. th[s].pc # "next"
      BY DEF HostSteps
    <3> QED
      BY <3>1 DEF HostStep, reconcileHost, descendHostInClickHouseCluster, reconcileHostMain,
         reconcileHostStatefulSet, hostForceRestart, waitHostRestart, hostScaleDown, Roll,
         ReconcileStatefulSet, waitForStatefulSetLaunch, reconcileHostTables, worldVars,
         ascendHostInClickHouseCluster, includeHost, includeHostIntoService
  <2> QED
    BY <1>1, <2>1 DEF TypeOK, WorldTypeOK
<1>3. remote' \in [Hosts -> {Absent, "low", "normal"}]
  <2>1. remote' = remote \/ \E a, l, f : remote' = RemoteServers(a, l, f)
    BY DEF HostStep, reconcileHost, descendHostInClickHouseCluster, reconcileHostMain,
       reconcileHostStatefulSet, hostForceRestart, waitHostRestart, hostScaleDown,
       ReconcileStatefulSet, waitForStatefulSetLaunch, reconcileHostTables, worldVars,
       ascendHostInClickHouseCluster, includeHost
  <2> QED
    BY <2>1, RemoteType DEF TypeOK, WorldTypeOK
<1>4. {conf', run'} \subseteq [Hosts -> {x.conf : x \in Specs}]
  <2>1. run' = run
    BY HostShape DEF Shape
  <2>2. conf' = conf \/ conf' = [conf EXCEPT ![th[s].host] = cr.conf]
    BY DEF HostStep, reconcileHost, descendHostInClickHouseCluster, reconcileHostMain,
       reconcileHostStatefulSet, hostForceRestart, waitHostRestart, hostScaleDown,
       ReconcileStatefulSet, waitForStatefulSetLaunch, reconcileHostTables, worldVars,
       ascendHostInClickHouseCluster, includeHost
  <2>3. cr.conf \in {x.conf : x \in Specs}
    BY <1>1
  <2> QED
    BY <1>1, <2>1, <2>2, <2>3 DEF TypeOK, WorldTypeOK
<1>5. schema' \subseteq Hosts
  <2>1. schema' = schema \/ schema' = HostCreateTables(th[s].host) \/ schema' = schema \ {th[s].host}
    BY HostCounts
  <2>2. schema \subseteq Hosts
    BY DEF TypeOK, WorldTypeOK
  <2> QED
    BY <1>1, <2>1, <2>2 DEF HostCreateTables
<1> QED
  BY <1>2, <1>3, <1>4, <1>5, WorldStill DEF TypeOK

LEMMA WorldHostStep ==
    ASSUME NEW s \in Shards, TypeOK, ThreadInv, HostStep(s)
    PROVE  WorldTypeOK'
<1> DEFINE h == th[s].host
<1>1. CASE reconcileHost(s)
  <2>1. UNCHANGED <<sts, pod, remote, conf, run, schema>>
    BY <1>1 DEF reconcileHost
  <2>2. mark' = mark \/ \E g : mark' = [mark EXCEPT ![g] = "out"]
    BY <1>1 DEF reconcileHost, excludeHostFromService
  <2> QED
    BY <2>1, <2>2 DEF TypeOK, WorldTypeOK
<1>2. CASE th[s].pc \in HostSteps /\ UNCHANGED <<sts, pod>>
  BY <1>2, WorldHostStill
<1>3. CASE th[s].pc \in HostSteps /\ (hostForceRestart(s) \/ hostScaleDown(s)) /\ ~UNCHANGED <<sts, pod>>
  <2>1. h \in Hosts /\ cr \in Specs
    BY <1>3, HostAt DEF TypeOK, CRTypeOK
  <2>2. <<cr.ver, "off">> \in Vers \X {"on", "off", "drained"}
    BY <2>1, SpecParts
  <2>3. UNCHANGED <<remote, conf, run, schema, mark>>
    BY <1>3 DEF hostForceRestart, hostScaleDown
  <2>4. \/ sts' = [sts EXCEPT ![h] = <<cr.ver, "off">>] /\ pod' = [pod EXCEPT ![h] = "none"]
        \/ sts' = sts /\ pod' = [pod EXCEPT ![h] = "down"] /\ pod[h] = "up"
    BY <1>3 DEF hostForceRestart, hostScaleDown
  <2> HIDE DEF h
  <2> QED
    BY <2>1, <2>2, <2>3, <2>4, PodsFollow DEF TypeOK
<1>4. CASE th[s].pc \in HostSteps /\ ReconcileStatefulSet(s) /\ ~UNCHANGED <<sts, pod>>
  <2>1. h \in Hosts /\ cr \in Specs
    BY <1>4, HostAt DEF TypeOK, CRTypeOK
  <2>2. UNCHANGED <<remote, conf, run, schema>>
    BY <1>4 DEF ReconcileStatefulSet
  <2>3. /\ Desired(cr) \in Vers \X {"on", "off", "drained"} /\ Desired(cr) # NoSts
        /\ cr.mode = "run" => Desired(cr)[2] = "on"
    BY <2>1, SpecParts
  <2>4. CASE Roll(h)
    <3>1. CASE cr.mode = "run"
      <4>1. /\ sts' = [sts EXCEPT ![h] = Desired(cr)] /\ pod' = [pod EXCEPT ![h] = "down"]
            /\ mark' = [mark EXCEPT ![h] = "in"]
        BY <2>4, <3>1 DEF Roll
      <4> HIDE DEF h
      <4> QED
        BY <2>1, <2>2, <2>3, <3>1, <4>1, PodsFollow DEF TypeOK
    <3>2. CASE cr.mode # "run"
      <4>1. /\ sts' = [sts EXCEPT ![h] = Desired(cr)] /\ pod' = [pod EXCEPT ![h] = "none"]
            /\ mark' = [mark EXCEPT ![h] = "in"]
        BY <2>4, <3>2 DEF Roll
      <4> HIDE DEF h
      <4> QED
        BY <2>1, <2>2, <2>3, <4>1, PodsFollow DEF TypeOK
    <3> QED
      BY <3>1, <3>2
  <2>5. CASE /\ sts[h] # NoSts /\ pod' = [pod EXCEPT ![h] = "none"] /\ mark' = mark
             /\ \/ sts' = [sts EXCEPT ![h] = Drained(@)]
                \/ sts' = [sts EXCEPT ![h] = NoSts]
    <3>1. sts[h] \in Vers \X {"on", "off", "drained"}
      BY <2>1, <2>5 DEF TypeOK, WorldTypeOK
    <3>2. Drained(sts[h]) \in Vers \X {"on", "off", "drained"}
      BY <3>1 DEF Drained
    <3>3. \/ sts' = [sts EXCEPT ![h] = Drained(sts[h])]
          \/ sts' = [sts EXCEPT ![h] = NoSts]
      BY <2>1, <2>5 DEF TypeOK, WorldTypeOK
    <3> HIDE DEF h
    <3> QED
      BY <2>1, <2>2, <2>5, <3>2, <3>3, PodsFollow DEF TypeOK
  <2> QED
    BY <1>4, <2>4, <2>5, WriteCases
<1>5. hostForceRestart(s) \/ hostScaleDown(s) \/ ReconcileStatefulSet(s) \/ UNCHANGED <<sts, pod>>
  BY DEF HostStep, reconcileHost, descendHostInClickHouseCluster, reconcileHostMain,
     reconcileHostStatefulSet, waitHostRestart, waitForStatefulSetLaunch, reconcileHostTables,
     worldVars, ascendHostInClickHouseCluster, includeHost
<1> QED
  BY <1>1, <1>2, <1>3, <1>4, <1>5, HostOrNext

\* The types and the places of the goroutines, for each kind of step.
LEMMA TypeShard ==
    ASSUME NEW s \in Shards, TypeOK, ThreadInv, reconcileShardWithHosts(s)
    PROVE  TypeOK' /\ ThreadInv'
<1>1. UNCHANGED <<crVars, worldVars, passVars>>
  BY DEF reconcileShardWithHosts
<1>2. cr' = cr
  BY <1>1 DEF passVars
<1> QED
  BY <1>1, <1>2, ThreadShard, SameTypes DEF TypeOK

LEMMA TypeBegins ==
    ASSUME TypeOK, ThreadInv, PassBegins \/ PassEnds \/ Restart
    PROVE  TypeOK' /\ ThreadInv'
<1>1. UNCHANGED worldVars
  BY DEF PassBegins, PassEnds, Restart
<1>2. WalkTypeOK' /\ ThreadInv' /\ PassTypeOK' /\ cr' \in Specs
  <2>1. CASE PassBegins
    <3> DEFINE attrs == [h \in Hosts |->
                   IF h \notin spec.hosts THEN ""
                   ELSE IF HasAncestor(h) \/ (anc = NoSpec /\ sts[h] # NoSts)
                   THEN "Modified" ELSE "Requested"]
    <3>1. StartPass(spec, attrs)
      BY <2>1 DEF PassBegins
    <3>2. spec \in Specs /\ attrs \in [Hosts -> Attrs]
      BY DEF TypeOK, CRTypeOK, Attrs
    <3> HIDE DEF attrs
    <3> QED
      BY <3>1, <3>2, StartPassType
  <2>2. CASE PassEnds \/ Restart
    BY <2>2, ForgetPassType DEF PassEnds, Restart
  <2> QED
    BY <2>1, <2>2
<1>3. CRTypeOK'
  <2>1. UNCHANGED <<spec, policy, anc, listed>> /\ status' \in {status, "InProgress"}
    BY DEF PassBegins, PassEnds, Restart, crVars
  <2> QED
    BY <1>2, <2>1 DEF TypeOK, CRTypeOK, Statuses
<1> QED
  BY <1>1, <1>2, <1>3, SameTypes DEF TypeOK

LEMMA TypeCR ==
    ASSUME TypeOK, OuterStep
    PROVE  CRTypeOK'
<1>1. CASE finalizeReconcileAndMarkCompleted
  BY <1>1 DEF finalizeReconcileAndMarkCompleted, TypeOK, CRTypeOK, PassTypeOK, crVars, Statuses
<1>2. CASE markReconcileCompletedUnsuccessfully
  BY <1>2 DEF markReconcileCompletedUnsuccessfully, TypeOK, CRTypeOK, PassTypeOK, Statuses
<1>3. CASE EditSpec
  BY <1>3 DEF EditSpec, TypeOK, CRTypeOK, passVars
<1>4. CASE UNCHANGED <<crVars, cr>>
  BY <1>4, SameTypes DEF TypeOK
<1> QED
  BY <1>1, <1>2, <1>3, <1>4 DEF OuterStep, reconcileCRAuxObjectsPreliminary, WalkEnds,
     reconcileCRAuxObjectsFinal, restartNewlyAddedHosts, FinalEnds, clean, Deliver, PodStarts,
     vars, passVars

LEMMA TypePass ==
    ASSUME TypeOK, OuterStep
    PROVE  PassTypeOK'
<1>1. UNCHANGED <<attr, low, added>>
  BY DEF OuterStep, reconcileCRAuxObjectsPreliminary, WalkEnds, reconcileCRAuxObjectsFinal,
     restartNewlyAddedHosts, FinalEnds, clean, finalizeReconcileAndMarkCompleted,
     markReconcileCompletedUnsuccessfully, EditSpec, Deliver, PodStarts, vars, passVars
<1>2. newly' \subseteq Hosts /\ pushed' \subseteq Hosts
  <2>1. newly' \subseteq newly \/ newly' \subseteq cr.hosts
    BY DEF OuterStep, reconcileCRAuxObjectsPreliminary, WalkEnds, reconcileCRAuxObjectsFinal,
       restartNewlyAddedHosts, FinalEnds, clean, finalizeReconcileAndMarkCompleted,
       markReconcileCompletedUnsuccessfully, EditSpec, Deliver, PodStarts, vars, passVars
  <2>2. pushed' = pushed \/ \E h \in newly : pushed' = pushed \cup {h}
    BY DEF OuterStep, reconcileCRAuxObjectsPreliminary, WalkEnds, reconcileCRAuxObjectsFinal,
       restartNewlyAddedHosts, FinalEnds, clean, finalizeReconcileAndMarkCompleted,
       markReconcileCompletedUnsuccessfully, EditSpec, Deliver, PodStarts, vars, passVars
  <2>3. cr \in Specs
    BY DEF TypeOK, CRTypeOK
  <2>4. cr.hosts \subseteq Hosts
    BY <2>3, SpecParts
  <2> QED
    BY <2>1, <2>2, <2>4 DEF TypeOK, PassTypeOK
<1> QED
  BY <1>1, <1>2 DEF TypeOK, PassTypeOK

LEMMA TypeWorld ==
    ASSUME TypeOK, OuterStep
    PROVE  WorldTypeOK'
<1>1. CASE UNCHANGED worldVars
  BY <1>1, SameTypes DEF TypeOK
<1>2. CASE reconcileCRAuxObjectsPreliminary \/ reconcileCRAuxObjectsFinal
  <2>1. remote' = remote \/ \E a, l, f : remote' = RemoteServers(a, l, f)
    BY <1>2 DEF reconcileCRAuxObjectsPreliminary, reconcileCRAuxObjectsFinal
  <2>2. UNCHANGED <<sts, pod, mark, conf, run, schema>>
    BY <1>2 DEF reconcileCRAuxObjectsPreliminary, reconcileCRAuxObjectsFinal
  <2>3. remote' \in [Hosts -> {Absent, "low", "normal"}]
    BY <2>1, RemoteType DEF TypeOK, WorldTypeOK
  <2> QED
    BY <2>2, <2>3 DEF TypeOK, WorldTypeOK
<1>3. CASE restartNewlyAddedHosts
  <2>1. PICK h \in newly :
           /\ run' = run \/ run' = [run EXCEPT ![h] = conf[h]]
           /\ schema' = schema \/ schema' = HostCreateTables(h)
           /\ pod' = pod \/ (pod[h] = "up" /\ pod' = [pod EXCEPT ![h] = "down"])
    BY <1>3 DEF restartNewlyAddedHosts
  <2>2. UNCHANGED <<sts, mark, remote, conf>>
    BY <1>3 DEF restartNewlyAddedHosts
  <2>3. h \in Hosts
    BY DEF TypeOK, PassTypeOK
  <2>4. run' \in [Hosts -> {s.conf : s \in Specs}]
    BY <2>1, <2>3 DEF TypeOK, WorldTypeOK
  <2>5. schema' \subseteq Hosts
    BY <2>1, <2>3 DEF TypeOK, WorldTypeOK, HostCreateTables
  <2>6. /\ pod' \in [Hosts -> {"none", "down", "up"}]
        /\ \A g \in Hosts : pod'[g] # "none" => sts[g] # NoSts /\ sts[g][2] = "on"
    BY <2>1, <2>3 DEF TypeOK, WorldTypeOK
  <2> QED
    BY <2>2, <2>4, <2>5, <2>6 DEF TypeOK, WorldTypeOK
<1>4. CASE clean
  <2>1. UNCHANGED <<mark, remote, conf, run>>
    BY <1>4 DEF clean
  <2>2. schema' \subseteq Hosts
    BY <1>4 DEF clean, TypeOK, WorldTypeOK
  <2>3. PICK keep : /\ sts' = [h \in Hosts |-> IF h \in keep THEN sts[h] ELSE NoSts]
                    /\ pod' = [h \in Hosts |-> IF h \in keep THEN pod[h] ELSE "none"]
    BY <1>4 DEF clean
  <2>4. /\ sts' \in [Hosts -> {NoSts} \cup (Vers \X {"on", "off", "drained"})]
        /\ pod' \in [Hosts -> {"none", "down", "up"}]
    BY <2>3 DEF TypeOK, WorldTypeOK
  <2>5. \A g \in Hosts : pod'[g] # "none" => sts'[g] # NoSts /\ sts'[g][2] = "on"
    BY <2>3 DEF TypeOK, WorldTypeOK
  <2> QED
    BY <2>1, <2>2, <2>4, <2>5 DEF TypeOK, WorldTypeOK
<1>5. CASE \E h \in Hosts : PodStarts(h)
  <2>1. PICK h \in Hosts : PodStarts(h)
    BY <1>5
  <2>2. /\ UNCHANGED <<sts, mark, remote, conf, schema>> /\ pod' = [pod EXCEPT ![h] = "up"]
        /\ run' = [run EXCEPT ![h] = conf[h]] /\ sts[h] # NoSts /\ sts[h][2] = "on"
    BY <2>1 DEF PodStarts, Starts
  <2>3. run' \in [Hosts -> {s.conf : s \in Specs}]
    BY <2>2 DEF TypeOK, WorldTypeOK
  <2>4. /\ pod' \in [Hosts -> {"none", "down", "up"}]
        /\ \A g \in Hosts : pod'[g] # "none" => sts[g] # NoSts /\ sts[g][2] = "on"
    BY <2>2 DEF TypeOK, WorldTypeOK
  <2> QED
    BY <2>2, <2>3, <2>4 DEF TypeOK, WorldTypeOK
<1> QED
  BY <1>1, <1>2, <1>3, <1>4, <1>5 DEF OuterStep, WalkEnds, FinalEnds, finalizeReconcileAndMarkCompleted,
     markReconcileCompletedUnsuccessfully, EditSpec, Deliver, vars, worldVars

\* A step begins or ends a pass, is one of a goroutine, or is another.
LEMMA StepCases ==
    ASSUME [Next]_vars
    PROVE  \/ PassBegins \/ PassEnds \/ Restart \/ OuterStep
           \/ \E s \in Shards : reconcileShardWithHosts(s) \/ HostStep(s)
BY DEF Next, PassStep, OuterStep

LEMMA TypeStep == ASSUME TypeOK, ThreadInv, [Next]_vars PROVE TypeOK' /\ ThreadInv'
<1>1. CASE PassBegins \/ PassEnds \/ Restart
  BY <1>1, TypeBegins
<1>2. CASE \E s \in Shards : reconcileShardWithHosts(s)
  BY <1>2, TypeShard
<1>3. CASE \E s \in Shards : HostStep(s)
  BY <1>3, ThreadHostStep, CRPassHostStep, WorldHostStep DEF TypeOK
<1>4. CASE OuterStep
  <2>1. CRTypeOK' /\ PassTypeOK' /\ WorldTypeOK'
    BY <1>4, TypeCR, TypePass, TypeWorld
  <2>2. WalkTypeOK' /\ ThreadInv'
    BY <1>4, ThreadRest
  <2> QED
    BY <2>1, <2>2 DEF TypeOK
<1> QED
  BY <1>1, <1>2, <1>3, <1>4, StepCases

LEMMA TypeInit == ASSUME Init PROVE TypeOK /\ ThreadInv
<1>1. First \in Specs /\ First.hosts \subseteq Hosts /\ First.conf \in {s.conf : s \in Specs}
  BY SpecAssumption, SpecParts
<1>2. CRTypeOK
  BY <1>1 DEF Init, Fresh, Steady, CRTypeOK, Statuses
<1>3. added = 0
  BY Zenon DEF Init
<1>4. 0 \in Nat
  OBVIOUS
<1>5. attr = [h \in Hosts |-> ""] /\ pushed = {} /\ low = {} /\ newly = {}
  BY Zenon DEF Init
<1>6. PassTypeOK
  BY <1>3, <1>4, <1>5 DEF PassTypeOK, Attrs
<1>7. th = [s \in Shards |-> Waiting] /\ deferred = {} /\ failed = {} /\ pc = "idle"
  BY Zenon DEF Init
<1>8. WalkTypeOK
  BY <1>7, IdleThreads DEF WalkTypeOK
<1>9. ThreadInv
  BY <1>7, IdleThreads DEF ThreadInv, ToWalk, HostSteps
<1>10. /\ mark = [h \in Hosts |-> "in"] /\ conf = [h \in Hosts |-> First.conf] /\ run = conf
       /\ schema \subseteq Hosts
  BY <1>1 DEF Init, Fresh, Steady
<1>11. remote \in [Hosts -> {Absent, "low", "normal"}]
  BY DEF Init, Fresh, Steady, Absent
<1>12. mark \in [Hosts -> {"in", "out", "lost"}] /\ {conf, run} \subseteq [Hosts -> {s.conf : s \in Specs}]
  BY <1>1, <1>10
<1>13. /\ sts \in [Hosts -> {NoSts} \cup (Vers \X {"on", "off", "drained"})]
       /\ pod \in [Hosts -> {"none", "down", "up"}]
       /\ \A h \in Hosts : pod[h] # "none" => sts[h] # NoSts /\ sts[h][2] = "on"
  <2>1. CASE Fresh
    BY <2>1 DEF Fresh
  <2>2. CASE Steady
    <3>1. /\ Desired(First) \in Vers \X {"on", "off", "drained"} /\ Desired(First) # NoSts
          /\ First.mode \in {"run", "stop"} /\ (First.mode = "run" => Desired(First)[2] = "on")
      BY <1>1, SpecParts
    <3>2. /\ sts = [h \in Hosts |-> IF h \in First.hosts THEN Desired(First) ELSE NoSts]
          /\ pod \in [Hosts -> {"none", "up", "down"}]
          /\ \A h \in Hosts : pod[h] = "none" <=> h \notin First.hosts \/ First.mode = "stop"
      BY <2>2 DEF Steady
    <3> QED
      BY <3>1, <3>2
  <2> QED
    BY <2>1, <2>2, Zenon DEF Init
<1> QED
  BY <1>2, <1>6, <1>8, <1>9, <1>10, <1>11, <1>12, <1>13 DEF TypeOK, WorldTypeOK

(* The variables keep their types; a pod has a StatefulSet that wants it.  *)
THEOREM PassTypeCorrect == Spec => []TypeOK
<1>1. Init => TypeOK /\ ThreadInv
  BY TypeInit
<1>2. TypeOK /\ ThreadInv /\ [Next]_vars => TypeOK' /\ ThreadInv'
  BY TypeStep
<1> QED
  BY <1>1, <1>2, PTL DEF Spec

-----------------------------------------------------------------------------
(* The hosts ahead, and what a deferral puts back                          *)

\* A host has a shard and is not the empty name.
LEMMA HostShard == ASSUME NEW h \in Hosts PROVE ShardOf[h] \in Shards /\ h # ""
BY HostAssumption DEF Shards

\* Hosts of other shards are as they were, and so are their goroutines.
LEMMA HostFar ==
    ASSUME NEW s \in Shards, TypeOK, ThreadInv, HostStep(s), NEW h \in Hosts, ShardOf[h] # s
    PROVE  /\ h # th[s].host /\ h # th'[s].host /\ th'[ShardOf[h]] = th[ShardOf[h]]
           /\ attr'[h] = attr[h] /\ sts'[h] = sts[h] /\ pod'[h] = pod[h] /\ conf'[h] = conf[h]
           /\ mark'[h] = mark[h]
<1>1. Shape(s)
  BY HostShape
<1>2. ShardOf[h] \in Shards /\ h # ""
  BY HostShard
<1>3. h # th[s].host
  BY <1>2 DEF ThreadInv, ShardHosts
<1>4. ThreadInv'
  BY ThreadHostStep
<1>5. h # th'[s].host
  <2>1. IF th'[s].pc \in HostSteps THEN th'[s].host \in ShardHosts(s)' ELSE th'[s].host = ""
    BY <1>4 DEF ThreadInv
  <2> QED
    BY <1>2, <2>1 DEF ShardHosts
<1> QED
  BY <1>1, <1>2, <1>3, <1>5 DEF Shape, Moves

\* A host that is ahead stays so until the goroutine leaves it.
LEMMA AheadHost ==
    ASSUME NEW s \in Shards, TypeOK, ThreadInv, HostStep(s), NEW h \in Hosts, ~cancelled,
           ShardOf[h] \notin failed', Ahead(h)
    PROVE  Ahead(h)' \/ (Leaves(s) /\ h = th[s].host)
<1>1. Shape(s)
  BY HostShape
<1>2. CASE ShardOf[h] # s
  <2>1. th'[ShardOf[h]] = th[ShardOf[h]]
    BY <1>2, HostFar
  <2> QED
    BY <2>1 DEF Ahead, ToWalk
<1>3. CASE ShardOf[h] = s
  <2>1. th[s].pc # "wait"
    <3>1. th[s].pc = "next" \/ th[s].pc \in HostSteps
      BY HostOrNext DEF reconcileHost
    <3> QED
      BY <3>1 DEF HostSteps
  <2>2. th[s].host = h \/ \E i \in ToWalk(s) : HostSeq[i] = h
    BY <1>3, <2>1 DEF Ahead
  <2>3. th[s].pc = "next" => th[s].host = ""
    BY DEF ThreadInv, HostSteps
  <2>4. h # ""
    BY HostShard
  <2>5. Quits(s) \/ Fails(s) \/ Arrives(s) \/ Goes(s) \/ Leaves(s)
    BY <1>1 DEF Shape, Moves
  <2>6. ~Quits(s) /\ ~Fails(s)
    BY <1>3, <2>2, <2>3, <2>4 DEF Quits, Fails
  <2>7. th'[s].host = h \/ (\E i \in th'[s].down \cup th'[s].rest : HostSeq[i] = h)
        \/ (Leaves(s) /\ h = th[s].host)
    <3>1. CASE Arrives(s)
      BY <2>2, <2>3, <2>4, <3>1 DEF Arrives, ToWalk
    <3>2. CASE Goes(s)
      BY <2>2, <3>2 DEF Goes, ToWalk
    <3>3. CASE Leaves(s)
      <4>1. th'[s].down = th[s].down /\ th'[s].rest = th[s].rest
        BY <3>3, NextHostType DEF Leaves, TypeOK
      <4> QED
        BY <2>2, <3>3, <4>1 DEF ToWalk
    <3> QED
      BY <2>5, <2>6, <3>1, <3>2, <3>3
  <2> QED
    BY <1>3, <2>7 DEF Ahead, ToWalk
<1> QED
  BY <1>2, <1>3

\* The walk of a shard starts with every host of it ahead.
LEMMA AheadShard ==
    ASSUME NEW s \in Shards, TypeOK, ThreadInv, reconcileShardWithHosts(s), NEW h \in Hosts,
           h \in cr.hosts, ShardOf[h] \notin failed', Ahead(h)
    PROVE  Ahead(h)'
<1>1. CASE ShardOf[h] # s
  <2>1. th'[ShardOf[h]] = th[ShardOf[h]]
    BY <1>1, HostShard, ThreadShard
  <2> QED
    BY <2>1 DEF Ahead, ToWalk
<1>2. CASE ShardOf[h] = s
  <2>1. \A i \in DOMAIN HostSeq :
           HostSeq[i] \in ShardHosts(s) => i \in th'[s].down \cup th'[s].rest
    BY <1>2, ThreadShard
  <2>2. PICK i \in DOMAIN HostSeq : HostSeq[i] = h
    BY DEF Hosts
  <2>3. h \in ShardHosts(s)
    BY <1>2 DEF ShardHosts
  <2> QED
    BY <1>2, <2>1, <2>2, <2>3 DEF Ahead, ToWalk
<1> QED
  BY <1>1, <1>2

\* Where each step of a goroutine leads.
LEMMA Destinations ==
    ASSUME NEW s \in Shards, TypeOK
    PROVE  /\ reconcileHost(s) => th'[s].pc \in {"done", "descend", "main"}
           /\ descendHostInClickHouseCluster(s) => th'[s].pc = "main"
           /\ reconcileHostMain(s) => th'[s].pc \in {"gate", "done"}
           /\ reconcileHostStatefulSet(s) => th'[s].pc \in {"ascend", "restart", "sts"}
           /\ hostForceRestart(s) => th'[s].pc \in {"sts", "back", "scale"}
           /\ waitHostRestart(s) => th'[s].pc \in {"sts", "scale"}
           /\ hostScaleDown(s) => th'[s].pc = "sts"
           /\ ReconcileStatefulSet(s) => th'[s].pc \in {"tables", "launch", "done"}
           /\ waitForStatefulSetLaunch(s) => th'[s].pc \in {"tables", "done"}
           /\ reconcileHostTables(s) => th'[s].pc \in {"ascend", "next"}
           /\ ascendHostInClickHouseCluster(s) => th'[s].pc = "include"
           /\ includeHost(s) => th'[s].pc = "next"
<1>1. WalkTypeOK /\ th[s] \in Threads
  BY DEF TypeOK, WalkTypeOK
<1>2. \A step \in Steps : Goto(s, step) => th'[s].pc = step
  BY <1>1, GotoType
<1>3. HardError(s) => th'[s].pc = "done"
  BY <1>1, IdleThreads, SetThread DEF HardError
<1>4. th' = [th EXCEPT ![s] = NextHost(s)] => th'[s].pc = "next"
  BY <1>1, NextHostType, SetThread
<1>5. ASSUME NEW a, Defer(s, a) PROVE th'[s].pc = IF a = "Requested" THEN "next" ELSE "ascend"
  <2>1. PICK t \in Threads : /\ th' = [th EXCEPT ![s] = t]
                             /\ \/ a # "Requested" /\ t.pc = "ascend"
                                \/ a = "Requested" /\ t = NextHost(s)
    BY <1>5, DeferThread
  <2>2. th'[s] = t
    BY <1>1, <2>1, SetThread
  <2> QED
    BY <1>1, <2>1, <2>2, NextHostType
<1>6. ASSUME reconcileHost(s) PROVE th'[s].pc \in {"done", "descend", "main"}
  <2>1. CASE HardError(s)
    BY <1>3, <2>1
  <2>2. CASE th' = [th EXCEPT ![s] = Over]
    BY <1>1, <2>2, IdleThreads, SetThread
  <2>3. CASE \E step \in {"descend", "main"} : \E h, d, r :
                th' = [th EXCEPT ![s] = Thread(step, h, d, r)]
    BY <1>1, <2>3 DEF Thread, WalkTypeOK
  <2> QED
    BY <1>6, <2>1, <2>2, <2>3 DEF reconcileHost
<1>7. ASSUME reconcileHostMain(s) PROVE th'[s].pc \in {"gate", "done"}
  <2>1. CASE HardError(s) \/ Goto(s, "gate")
    BY <1>2, <1>3, <2>1 DEF Steps
  <2>2. CASE th' = [th EXCEPT ![s] = [th[s] EXCEPT !.pc = "gate", !.recreate = TRUE, !.migrate = TRUE]]
    BY <1>1, <2>2 DEF WalkTypeOK, Threads
  <2> QED
    BY <1>7, <2>1, <2>2 DEF reconcileHostMain
<1>8. ASSUME reconcileHostStatefulSet(s) PROVE th'[s].pc \in {"ascend", "restart", "sts"}
  <2> DEFINE a == StatefulSetStatus(th[s].host, Desired(cr))
  <2>1. CASE a # "Requested" /\ Defer(s, a)
    BY <1>5, <2>1
  <2>2. CASE \E step \in {"restart", "sts"}, b \in BOOLEAN :
               th' = [th EXCEPT ![s] = [th[s] EXCEPT !.healthy = b, !.pc = step]]
    <3>1. PICK step \in {"restart", "sts"}, b \in BOOLEAN :
               th' = [th EXCEPT ![s] = [th[s] EXCEPT !.healthy = b, !.pc = step]]
      BY <2>2, Zenon
    <3>2. th'[s].pc = step
      BY <3>1 DEF TypeOK, WalkTypeOK, Threads
    <3> QED
      BY <3>2
  <2>3. isHostHealthyForReconcile(th[s].host, "") \in BOOLEAN
    BY HealthType
  <2> QED
    BY <1>8, <2>1, <2>2, <2>3, GateCases DEF hostDisruptionWouldDegradeShard
<1>9. ASSUME \/ descendHostInClickHouseCluster(s) \/ hostForceRestart(s) \/ waitHostRestart(s)
             \/ hostScaleDown(s) \/ ascendHostInClickHouseCluster(s)
      PROVE  /\ descendHostInClickHouseCluster(s) => th'[s].pc = "main"
             /\ hostForceRestart(s) => th'[s].pc \in {"sts", "back", "scale"}
             /\ waitHostRestart(s) => th'[s].pc \in {"sts", "scale"}
             /\ hostScaleDown(s) => th'[s].pc = "sts"
             /\ ascendHostInClickHouseCluster(s) => th'[s].pc = "include"
  BY <1>2 DEF descendHostInClickHouseCluster, hostForceRestart, waitHostRestart,
     hostScaleDown, ascendHostInClickHouseCluster, Steps
<1>10. ASSUME ReconcileStatefulSet(s) PROVE th'[s].pc \in {"tables", "launch", "done"}
  <2>1. CASE HardError(s) \/ Goto(s, "tables")
    BY <1>2, <1>3, <2>1 DEF Steps
  <2>2. CASE \E c \in BOOLEAN : th' = [th EXCEPT ![s] = [th[s] EXCEPT !.pc = "launch", !.create = c]]
    BY <1>1, <2>2 DEF WalkTypeOK, Threads
  <2> QED
    BY <1>10, <2>1, <2>2, WriteCases
<1>11. ASSUME waitForStatefulSetLaunch(s) PROVE th'[s].pc \in {"tables", "done"}
  BY <1>2, <1>3, <1>11 DEF waitForStatefulSetLaunch, Steps
<1>12. ASSUME reconcileHostTables(s) PROVE th'[s].pc \in {"ascend", "next"}
  BY <1>2, <1>4, <1>5, <1>12, TablesCases DEF Steps
<1>13. ASSUME includeHost(s) PROVE th'[s].pc = "next"
  BY <1>4, <1>13 DEF includeHost
<1> QED
  BY <1>6, <1>7, <1>8, <1>9, <1>10, <1>11, <1>12, <1>13

\* How a goroutine leaves a host: it is back in the Services, the write that
\* puts it back failed, or there is nothing to put back.
LEMMA LeaveCases ==
    ASSUME NEW s \in Shards, TypeOK, ThreadInv, HostStep(s), Leaves(s)
    PROVE  \/ includeHost(s) /\ mark'[th[s].host] # "out"
           \/ th[s].pc = "tables" /\ reconcileHostTables(s)
              /\ (cr.mode = "stop" \/ (attr[th[s].host] = "Requested" /\ s \in deferred'))
<1>1. th[s].pc \in {"gate", "tables", "include"} /\ th'[s].host = "" /\ th'[s].pc = "next"
  BY NextHostType DEF Leaves, TypeOK
<1>2. th[s].pc \in HostSteps
  BY <1>1 DEF HostSteps, Steps
<1>3. th[s].host \in Hosts /\ th[s].host # ""
  BY <1>2, HostAt
<1>4. CASE th[s].pc = "include"
  <2>1. includeHost(s)
    BY <1>4 DEF HostStep, reconcileHost, descendHostInClickHouseCluster, reconcileHostMain,
       reconcileHostStatefulSet, hostForceRestart, waitHostRestart, hostScaleDown,
       ReconcileStatefulSet, waitForStatefulSetLaunch, reconcileHostTables,
       ascendHostInClickHouseCluster
  <2>2. mark' = [mark EXCEPT ![th[s].host] = "in"]
        \/ mark' = [mark EXCEPT ![th[s].host] = IF @ = "in" THEN "in" ELSE "lost"]
    BY <2>1 DEF includeHost, includeHostIntoService
  <2>3. mark'[th[s].host] # "out"
    BY <1>3, <2>2 DEF TypeOK, WorldTypeOK
  <2> QED
    BY <2>1, <2>3
<1>5. CASE th[s].pc = "tables"
  <2>1. reconcileHostTables(s)
    BY <1>5 DEF HostStep, reconcileHost, descendHostInClickHouseCluster, reconcileHostMain,
       reconcileHostStatefulSet, hostForceRestart, waitHostRestart, hostScaleDown,
       ReconcileStatefulSet, waitForStatefulSetLaunch, includeHost,
       ascendHostInClickHouseCluster
  <2>2. CASE Goto(s, "ascend")
    <3>1. th'[s].pc = "ascend"
      BY <2>2 DEF Goto, TypeOK, WalkTypeOK, Threads
    <3> QED
      BY <1>1, <3>1
  <2>3. CASE Defer(s, attr[th[s].host])
    <3>1. PICK t \in Threads :
              /\ th' = [th EXCEPT ![s] = t]
              /\ \/ attr[th[s].host] # "Requested" /\ t.pc = "ascend"
                 \/ attr[th[s].host] = "Requested" /\ t = NextHost(s)
      BY <2>3, DeferThread
    <3>2. th'[s] = t
      BY <3>1, SetThread DEF TypeOK
    <3>3. attr[th[s].host] = "Requested" /\ s \in deferred'
      BY <1>1, <2>3, <3>1, <3>2 DEF Defer
    <3> QED
      BY <1>5, <2>1, <3>3
  <2> QED
    BY <1>5, <2>1, <2>2, <2>3, TablesCases
<1>6. th[s].pc # "gate"
  <2>1. th[s].pc = "gate" => reconcileHostStatefulSet(s)
    BY DEF HostStep, reconcileHost, descendHostInClickHouseCluster, reconcileHostMain,
       reconcileHostTables, hostForceRestart, waitHostRestart, hostScaleDown,
       ReconcileStatefulSet, waitForStatefulSetLaunch, includeHost,
       ascendHostInClickHouseCluster
  <2> QED
    BY <1>1, <2>1, Destinations
<1> QED
  BY <1>1, <1>4, <1>5, <1>6

\* What a step outside the goroutines leaves alone, and how it moves the pass.
LEMMA OuterFrame ==
    ASSUME OuterStep
    PROVE  /\ UNCHANGED <<th, cr, attr, mark, deferred>> /\ failed' \in {failed, Shards}
           /\ anc' # anc => pc' = "end"
           /\ failed' # failed => pc' = "newly"
           /\ cancelled' # cancelled => cancelled' = (pc # "idle") /\ pc' = pc
           /\ pc' # pc => \/ reconcileCRAuxObjectsPreliminary \/ WalkEnds
                          \/ reconcileCRAuxObjectsFinal \/ FinalEnds \/ clean \/ pc' = "end"
<1>1. UNCHANGED <<th, cr, attr, deferred>>
  BY DEF OuterStep, reconcileCRAuxObjectsPreliminary, WalkEnds, reconcileCRAuxObjectsFinal,
     restartNewlyAddedHosts, FinalEnds, clean, finalizeReconcileAndMarkCompleted,
     markReconcileCompletedUnsuccessfully, EditSpec, Deliver, PodStarts, vars, walkVars, passVars
<1>2. UNCHANGED mark /\ failed' \in {failed, Shards}
  BY DEF OuterStep, reconcileCRAuxObjectsPreliminary, WalkEnds, reconcileCRAuxObjectsFinal,
     restartNewlyAddedHosts, FinalEnds, clean, finalizeReconcileAndMarkCompleted, worldVars,
     markReconcileCompletedUnsuccessfully, EditSpec, Deliver, PodStarts, vars, walkVars
<1>3. (anc' # anc => pc' = "end") /\ (failed' # failed => pc' = "newly")
  BY DEF OuterStep, reconcileCRAuxObjectsPreliminary, WalkEnds, reconcileCRAuxObjectsFinal,
     restartNewlyAddedHosts, FinalEnds, clean, finalizeReconcileAndMarkCompleted, crVars,
     markReconcileCompletedUnsuccessfully, EditSpec, Deliver, PodStarts, vars, walkVars
<1>4. cancelled' # cancelled => cancelled' = (pc # "idle") /\ pc' = pc
  BY DEF OuterStep, reconcileCRAuxObjectsPreliminary, WalkEnds, reconcileCRAuxObjectsFinal,
     restartNewlyAddedHosts, FinalEnds, clean, finalizeReconcileAndMarkCompleted, queueVars,
     markReconcileCompletedUnsuccessfully, EditSpec, Deliver, PodStarts, vars, passVars
<1>5. pc' # pc => \/ reconcileCRAuxObjectsPreliminary \/ WalkEnds
                  \/ reconcileCRAuxObjectsFinal \/ FinalEnds \/ clean \/ pc' = "end"
  BY DEF OuterStep, restartNewlyAddedHosts, finalizeReconcileAndMarkCompleted,
     markReconcileCompletedUnsuccessfully, EditSpec, Deliver, PodStarts, vars, passVars
<1> QED
  BY <1>1, <1>2, <1>3, <1>4, <1>5

\* A pass that walks or is past the walk was so before, or starts to walk.
LEMMA OuterWalks ==
    ASSUME OuterStep, Walks'
    PROVE  ~cancelled /\ anc' = anc /\ (Walks \/ (pc = "prelim" /\ pc' = "shards"))
<1>1. ~cancelled
  BY OuterFrame DEF Walks
<1>2. anc' = anc
  BY OuterFrame DEF Walks
<1>3. CASE pc' = pc
  BY <1>1, <1>2, <1>3 DEF Walks
<1>4. CASE pc' # pc
  <2>1. \/ reconcileCRAuxObjectsPreliminary \/ WalkEnds \/ reconcileCRAuxObjectsFinal
        \/ FinalEnds \/ clean
    BY <1>4, OuterFrame DEF Walks
  <2> QED
    BY <1>1, <1>2, <2>1 DEF reconcileCRAuxObjectsPreliminary, WalkEnds, reconcileCRAuxObjectsFinal,
       FinalEnds, clean, Walks
<1> QED
  BY <1>1, <1>2, <1>3, <1>4

\* The steps of the walk are under the walk.
LEMMA InnerFrame ==
    ASSUME TypeOK, ThreadInv, NEW s \in Shards, reconcileShardWithHosts(s) \/ HostStep(s)
    PROVE  /\ UNCHANGED <<pc, cr, anc, cancelled, spec, run, status>> /\ pc = "shards"
           /\ failed \subseteq failed' /\ deferred \subseteq deferred'
<1>1. CASE reconcileShardWithHosts(s)
  <2>1. UNCHANGED <<pc, cr, anc, cancelled, spec, status>> /\ pc = "shards"
    BY <1>1 DEF reconcileShardWithHosts, passVars, crVars, queueVars
  <2>2. run' = run /\ failed \subseteq failed' /\ deferred \subseteq deferred'
    BY <1>1 DEF reconcileShardWithHosts, worldVars
  <2> QED
    BY <2>1, <2>2
<1>2. CASE HostStep(s)
  <2>1. Shape(s)
    BY <1>2, HostShape
  <2>2. UNCHANGED <<pc, cr, anc, cancelled, spec, status>>
    BY <2>1 DEF Shape, HostFrame, queueVars
  <2>3. th[s].pc \notin {"wait", "done"}
    BY <1>2, HostOrNext DEF reconcileHost, HostSteps
  <2>4. pc = "shards"
    BY <2>3 DEF ThreadInv
  <2> QED
    BY <2>1, <2>2, <2>4 DEF Shape
<1> QED
  BY <1>1, <1>2

\* Each invariant of the walk is preserved by every step.
LEMMA AfterStep ==
    ASSUME TypeOK, ThreadInv, AfterInv, [Next]_vars
    PROVE  AfterInv'
<1>1. CASE PassBegins \/ PassEnds \/ Restart
  <2>1. pc' \in {"prelim", "idle"} /\ \A s \in Shards : th'[s] = Waiting
    BY <1>1 DEF PassBegins, PassEnds, Restart, ForgetPass, StartPass
  <2> QED
    BY <2>1, IdleThreads DEF AfterInv, Walks
<1>2. CASE \E s \in Shards : reconcileShardWithHosts(s) \/ HostStep(s)
  <2>1. pc = "shards" /\ pc' = pc
    BY <1>2, InnerFrame
  <2> QED
    BY <2>1 DEF AfterInv
<1>3. CASE OuterStep
  <2>1. UNCHANGED th /\ failed' \in {failed, Shards}
    BY <1>3, OuterFrame
  <2>2. CASE WalkEnds
    <3>1. pc' # "prelim"
      BY <2>2 DEF WalkEnds
    <3>2. failed' = failed
      BY <2>2 DEF WalkEnds, walkVars
    <3>3. failed = {} => \A s \in Shards : th[s].pc = "done"
      BY <2>2 DEF WalkEnds, ShardsOver, Walking, Started
    <3>4. pc' \notin {"clean", "finalize"} /\ (pc' = "final" => failed = {})
      BY <2>2 DEF WalkEnds
    <3> QED
      BY <2>1, <3>1, <3>2, <3>3, <3>4 DEF AfterInv
  <2>3. CASE reconcileCRAuxObjectsPreliminary
    BY <2>3 DEF reconcileCRAuxObjectsPreliminary, AfterInv
  <2>4. CASE ~WalkEnds /\ ~reconcileCRAuxObjectsPreliminary
    <3>1. pc' = "prelim" => pc = "prelim"
      BY <1>3, <2>4, OuterFrame DEF reconcileCRAuxObjectsFinal, FinalEnds, clean
    <3>2. pc' = "shards" \/ pc # "shards"  \/ ~Walks'
      BY <1>3, <2>4, OuterFrame DEF reconcileCRAuxObjectsFinal, FinalEnds, clean, Walks
    <3>3. Walks' => Walks \/ pc = "prelim"
      BY <1>3, OuterWalks
    <3>4. pc = "prelim" /\ pc' # "prelim" => ~Walks'
      BY <1>3, <2>4, OuterFrame DEF reconcileCRAuxObjectsFinal, FinalEnds, clean, Walks
    <3>5. pc' = "final" => pc = "final" /\ failed' = failed
      BY <1>3, <2>4, OuterFrame DEF reconcileCRAuxObjectsFinal, FinalEnds, clean
    <3>6. deferred' = deferred
      BY <1>3, OuterFrame
    <3>7. pc' \in {"clean", "finalize"} =>
             (pc \in {"clean", "finalize"} \/ deferred \cup failed = {}) /\ failed' = failed
      BY <1>3, <2>4, OuterFrame DEF reconcileCRAuxObjectsFinal, FinalEnds, clean
    <3> QED
      BY <2>1, <3>1, <3>2, <3>3, <3>4, <3>5, <3>6, <3>7 DEF AfterInv, Walks
  <2> QED
    BY <2>2, <2>3, <2>4
<1> QED
  BY <1>1, <1>2, <1>3, StepCases

LEMMA AttrStep ==
    ASSUME TypeOK, ThreadInv, AttrInv, [Next]_vars, ThreadInv'
    PROVE  AttrInv'
<1>1. CASE pc' # "shards"
  BY <1>1 DEF ThreadInv, AttrInv
<1>2. CASE PassBegins \/ PassEnds \/ Restart
  <2>1. pc' \in {"prelim", "idle"}
    BY <1>2 DEF PassBegins, PassEnds, Restart
  <2> QED
    BY <1>1, <2>1
<1>3. CASE OuterStep /\ pc' = "shards"
  BY <1>3, OuterFrame DEF AttrInv, HasAncestor
<1>4. ASSUME NEW s \in Shards, reconcileShardWithHosts(s)
      PROVE  AttrInv'
  <2>1. /\ \A x \in Shards : x # s => th'[x] = th[x]
        /\ th'[s] = Over \/ th'[s].pc = "next"
    BY <1>4, ThreadShard
  <2>2. attr' = attr /\ anc' = anc
    BY <1>4 DEF reconcileShardWithHosts, passVars, crVars
  <2> QED
    BY <2>1, <2>2, IdleThreads DEF AttrInv, HasAncestor
<1>5. ASSUME NEW s \in Shards, HostStep(s)
      PROVE  AttrInv'
  <2>1. Shape(s) /\ anc' = anc
    BY <1>5, HostShape, InnerFrame
  <2>2. ASSUME NEW x \in Shards, x # s, th'[x].pc \in {"launch", "tables"}, HasAncestor(th'[x].host)
        PROVE  attr'[th'[x].host] # "Requested"
    <3>1. th'[x] = th[x]
      BY <2>1, <2>2 DEF Shape, Moves
    <3>2. th[x].host \in Hosts /\ ShardOf[th[x].host] = x
      BY <2>2, <3>1, HostAt DEF HostSteps, Steps
    <3>3. attr'[th[x].host] = attr[th[x].host]
      BY <1>5, <2>2, <3>2, HostFar
    <3> QED
      BY <2>2, <3>1, <3>3 DEF AttrInv
  <2>3. ASSUME th'[s].pc \in {"launch", "tables"}, HasAncestor(th'[s].host)
        PROVE  attr'[th'[s].host] # "Requested"
    <3>1. Goes(s)
      <4>1. Quits(s) \/ Fails(s) \/ Arrives(s) \/ Goes(s) \/ Leaves(s)
        BY <2>1 DEF Shape, Moves
      <4> QED
        BY <2>3, <4>1, IdleThreads, NextHostType DEF Quits, Fails, Arrives, Leaves, TypeOK
    <3>2. th'[s].host = th[s].host /\ th[s].pc \in HostSteps
      BY <3>1 DEF Goes
    <3>3. th[s].host \in Hosts
      BY <3>2, HostAt
    <3>4. CASE ReconcileStatefulSet(s)
      <4>1. attr' = [attr EXCEPT ![th[s].host] = StatefulSetStatus(th[s].host, Desired(cr))]
        BY <3>4 DEF ReconcileStatefulSet
      <4>2. StatefulSetStatus(th[s].host, Desired(cr)) # "Requested"
        BY <2>3, <3>2 DEF StatefulSetStatus
      <4> QED
        BY <3>2, <3>3, <4>1, <4>2 DEF TypeOK, PassTypeOK
    <3>5. CASE waitForStatefulSetLaunch(s)
      <4>1. attr' = attr /\ th[s].pc = "launch"
        BY <3>5 DEF waitForStatefulSetLaunch
      <4> QED
        BY <2>3, <3>2, <4>1 DEF AttrInv
    <3>6. ReconcileStatefulSet(s) \/ waitForStatefulSetLaunch(s)
      BY <1>5, <2>3, Destinations DEF HostStep
    <3> QED
      BY <3>4, <3>5, <3>6
  <2>4. ASSUME NEW x \in Shards, th'[x].pc \in {"launch", "tables"}, HasAncestor(th'[x].host)
        PROVE  attr'[th'[x].host] # "Requested"
    BY <2>2, <2>3, <2>4
  <2> QED
    BY <2>1, <2>4 DEF AttrInv, HasAncestor
<1> QED
  BY <1>1, <1>2, <1>3, <1>4, <1>5, StepCases

LEMMA RestoreStep ==
    ASSUME TypeOK, ThreadInv, AfterInv, AttrInv, RestoreInv, [Next]_vars
    PROVE  RestoreInv'
<1> SUFFICES ASSUME Walks', cr'.mode = "run", NEW h \in Hosts, Sound(h)', HasAncestor(h)'
             PROVE  mark'[h] # "out" \/ Ahead(h)'
  BY DEF RestoreInv
<1>1. ~(PassBegins \/ PassEnds \/ Restart)
  BY DEF PassBegins, PassEnds, Restart, Walks
<1>2. ASSUME OuterStep PROVE mark'[h] # "out" \/ Ahead(h)'
  <2>1. /\ UNCHANGED <<th, cr, mark>> /\ anc' = anc /\ failed' \in {failed, Shards}
        /\ Walks \/ pc = "prelim"
    BY <1>2, OuterFrame, OuterWalks
  <2>2. ShardOf[h] \in Shards
    BY HostShard
  <2>3. Ahead(h)' = Ahead(h)
    BY <2>1 DEF Ahead, ToWalk
  <2>4. Sound(h) /\ HasAncestor(h)
    BY <2>1, <2>2 DEF Sound, HasAncestor
  <2>5. CASE Walks
    BY <2>1, <2>3, <2>4, <2>5 DEF RestoreInv
  <2>6. CASE pc = "prelim"
    BY <2>2, <2>3, <2>6 DEF AfterInv, Ahead
  <2> QED
    BY <2>1, <2>5, <2>6
<1>3. ASSUME NEW s \in Shards, reconcileShardWithHosts(s) \/ HostStep(s)
      PROVE  mark'[h] # "out" \/ Ahead(h)'
  <2>1. /\ UNCHANGED <<pc, cr, anc, cancelled>> /\ failed \subseteq failed'
    BY <1>3, InnerFrame
  <2>2. Walks /\ Sound(h) /\ HasAncestor(h) /\ cr.mode = "run" /\ ShardOf[h] \notin failed'
        /\ h \in cr.hosts
    BY <2>1 DEF Walks, Sound, HasAncestor
  <2>3. mark[h] # "out" \/ Ahead(h)
    BY <2>2 DEF RestoreInv
  <2>4. CASE reconcileShardWithHosts(s)
    <3>1. mark' = mark
      BY <2>4 DEF reconcileShardWithHosts, worldVars
    <3> QED
      BY <2>2, <2>3, <2>4, <3>1, AheadShard
  <2>5. CASE HostStep(s)
    <3>1. Shape(s)
      BY <2>5, HostShape
    <3>2. CASE ~Ahead(h)
      <4>1. h # th[s].host
        <5>1. h # "" /\ (th[s].pc \in HostSteps => ShardOf[th[s].host] = s)
          BY HostShard, HostAt
        <5>2. th[s].host = h => th[s].pc \in HostSteps
          BY <5>1 DEF ThreadInv
        <5> QED
          BY <3>2, <5>1, <5>2 DEF Ahead
      <4>2. h # th'[s].host \/ Ahead(h)'
        <5>1. CASE ShardOf[h] = s
          BY <5>1 DEF Ahead
        <5>2. CASE ShardOf[h] # s
          BY <2>5, <5>2, HostFar
        <5> QED
          BY <5>1, <5>2
      <4>3. h # th'[s].host => mark'[h] = mark[h]
        BY <3>1, <4>1 DEF Shape
      <4> QED
        BY <2>3, <3>2, <4>2, <4>3
    <3>3. CASE Ahead(h)
      <4>1. ~cancelled
        BY <2>2 DEF Walks
      <4>2. Ahead(h)' \/ (Leaves(s) /\ h = th[s].host)
        BY <2>2, <2>5, <3>3, <4>1, AheadHost
      <4>3. ASSUME Leaves(s), h = th[s].host PROVE mark'[h] # "out"
        <5>1. \/ mark'[th[s].host] # "out" \/ cr.mode = "stop"
              \/ th[s].pc = "tables" /\ attr[th[s].host] = "Requested"
          BY <2>5, <4>3, LeaveCases
        <5> QED
          BY <2>2, <4>3, <5>1 DEF AttrInv
      <4> QED
        BY <4>2, <4>3
    <3> QED
      BY <3>2, <3>3
  <2> QED
    BY <1>3, <2>4, <2>5
<1> QED
  BY <1>1, <1>2, <1>3, StepCases

(* A pass given up for its deferrals alone has put every replica it         *)
(* drained back into the Services, whatever was rolled, restarted or        *)
(* failed on the way; one is left out only where the write of its own ready *)
(* mark failed.                                                             *)
THEOREM DeferralSafe == Spec => []DeferralRestores
<1> DEFINE I == TypeOK /\ ThreadInv /\ AfterInv /\ AttrInv /\ RestoreInv
<1>1. Init => I
  <2> SUFFICES ASSUME Init PROVE I
    OBVIOUS
  <2>1. TypeOK /\ ThreadInv
    BY TypeInit
  <2>2. pc = "idle"
    BY DEF Init
  <2>3. AfterInv /\ RestoreInv
    BY <2>2 DEF AfterInv, RestoreInv, Walks
  <2>4. AttrInv
    BY <2>1, <2>2 DEF ThreadInv, AttrInv
  <2> QED
    BY <2>1, <2>3, <2>4
<1>2. I /\ [Next]_vars => I'
  <2> SUFFICES ASSUME I, [Next]_vars PROVE I'
    OBVIOUS
  <2>1. TypeOK' /\ ThreadInv'
    BY TypeStep
  <2> QED
    BY <2>1, AfterStep, AttrStep, RestoreStep
<1>3. I => DeferralRestores
  <2> SUFFICES ASSUME I, pc = "fail", failed = {}, ~cancelled, cr.mode = "run",
                      NEW h \in cr.hosts, HasAncestor(h)
               PROVE  mark[h] # "out"
    BY DEF DeferralRestores
  <2>1. cr \in Specs
    BY DEF TypeOK, CRTypeOK
  <2>2. h \in Hosts
    BY <2>1, SpecParts
  <2>3. ShardOf[h] \in Shards /\ h # ""
    BY <2>2, HostShard
  <2>4. th[ShardOf[h]].pc = "done"
    BY <2>3 DEF AfterInv, Walks
  <2>5. ~Ahead(h)
    BY <2>3, <2>4 DEF Ahead, ThreadInv, HostSteps
  <2> QED
    BY <2>2, <2>5 DEF RestoreInv, Walks, Sound
<1>4. Spec => []I
  BY <1>1, <1>2, PTL DEF Spec
<1> QED
  BY <1>3, <1>4, PTL

-----------------------------------------------------------------------------
(* What remote_servers names                                               *)

\* While the walk lasts, such a step leaves StatefulSets and ancestor alone.
LEMMA OuterFiltered ==
    ASSUME OuterStep, Filtered'
    PROVE  /\ Filtered /\ UNCHANGED <<sts, anc, failed>>
           /\ pc' = pc \/ (pc = "prelim" /\ pc' = "shards") \/ (pc = "shards" /\ pc' = "final")
<1>1. ~cancelled /\ anc' = anc /\ failed' = failed
  <2>1. ~cancelled'
    BY DEF Filtered
  <2>2. pc' \notin {"end", "newly", "idle"}
    BY DEF Filtered
  <2>3. ~cancelled
    BY <2>1, <2>2, OuterFrame
  <2>4. anc' = anc
    BY <2>2, OuterFrame
  <2>5. failed' = failed
    BY <2>2, OuterFrame
  <2> QED
    BY <2>3, <2>4, <2>5
<1>2. sts' = sts
  <2>1. sts' # sts => pc' = "finalize"
    BY DEF OuterStep, reconcileCRAuxObjectsPreliminary, WalkEnds, reconcileCRAuxObjectsFinal,
       restartNewlyAddedHosts, FinalEnds, clean, finalizeReconcileAndMarkCompleted, worldVars,
       markReconcileCompletedUnsuccessfully, EditSpec, Deliver, PodStarts, vars
  <2> QED
    BY <2>1 DEF Filtered
<1>3. pc' = pc \/ (pc = "prelim" /\ pc' = "shards") \/ (pc = "shards" /\ pc' = "final")
  <2>1. /\ FinalEnds => pc' \in {"fail", "end", "clean"}
        /\ clean => pc' = "finalize"
        /\ reconcileCRAuxObjectsFinal => pc' = "newly"
        /\ WalkEnds => pc = "shards" /\ pc' \in {"fail", "final"}
        /\ reconcileCRAuxObjectsPreliminary => pc = "prelim" /\ pc' = "shards"
    BY DEF reconcileCRAuxObjectsPreliminary, WalkEnds, reconcileCRAuxObjectsFinal, FinalEnds, clean
  <2> QED
    BY <2>1, OuterFrame DEF Filtered
<1> QED
  BY <1>1, <1>2, <1>3 DEF Filtered

\* What the steps on a host do to its attribute and its StatefulSet.
LEMMA AttrCases ==
    ASSUME NEW s \in Shards, TypeOK, ThreadInv, HostStep(s), th[s].pc \in HostSteps, ~cancelled,
           th'[s].pc # "done"
    PROVE  LET h == th[s].host IN
           \/ /\ attr'[h] = StatefulSetStatus(h, Desired(cr)) /\ sts'[h] = sts[h]
              /\ th'[s].pc = "tables" => attr'[h] = "Same"
              /\ th'[s].pc \notin {"launch", "include"} /\ (th'[s].pc = "ascend" => s \in deferred')
           \/ attr'[h] = StatefulSetStatus(h, Desired(cr)) /\ sts'[h] # NoSts /\ th'[s].pc = "launch"
           \/ /\ th[s].pc = "tables" /\ attr'[h] # "Requested" /\ sts'[h] = sts[h]
              /\ th'[s].pc \notin {"launch", "tables"}
           \/ /\ attr'[h] = attr[h] /\ (sts'[h] = sts[h] \/ sts'[h] # NoSts)
              /\ th'[s].pc \in {"launch", "tables"} => th[s].pc = "launch" /\ sts'[h] = sts[h]
              /\ th'[s].pc = "ascend" => s \in deferred'
              /\ th'[s].pc = "include" => th[s].pc = "ascend"
<1> DEFINE h == th[s].host
           a == StatefulSetStatus(h, Desired(cr))
<1>1. h \in Hosts /\ cr \in Specs
  BY HostAt DEF TypeOK, CRTypeOK
<1>2. ~HardError(s)
  BY IdleThreads, SetThread DEF HardError, TypeOK
<1>3. CASE reconcileHostStatefulSet(s)
  <2>1. attr'[h] = a /\ sts' = sts
    BY <1>1, <1>3 DEF reconcileHostStatefulSet, worldVars, TypeOK, PassTypeOK
  <2>2. th'[s].pc \in {"ascend", "restart", "sts"}
    BY <1>3, Destinations
  <2>3. th'[s].pc = "ascend" => s \in deferred'
    <3>1. CASE Defer(s, a)
      BY <3>1 DEF Defer
    <3>2. CASE \E step \in {"restart", "sts"}, b \in BOOLEAN :
                 th' = [th EXCEPT ![s] = [th[s] EXCEPT !.healthy = b, !.pc = step]]
      <4>1. PICK step \in {"restart", "sts"}, b \in BOOLEAN :
                 th' = [th EXCEPT ![s] = [th[s] EXCEPT !.healthy = b, !.pc = step]]
        BY <3>2, Zenon
      <4>2. th'[s].pc = step
        BY <4>1 DEF TypeOK, WalkTypeOK, Threads
      <4> QED
        BY <4>2
    <3>3. isHostHealthyForReconcile(h, "") \in BOOLEAN
      BY HealthType
    <3> QED
      BY <1>3, <3>1, <3>2, <3>3, GateCases
  <2> HIDE DEF a
  <2> QED
    BY <2>1, <2>2, <2>3 DEF a
<1>4. CASE ReconcileStatefulSet(s)
  <2>1. attr'[h] = a
    BY <1>1, <1>4 DEF ReconcileStatefulSet, TypeOK, PassTypeOK
  <2>2. CASE a = "Same" /\ Goto(s, "tables") /\ UNCHANGED sts
    <3>1. th'[s].pc = "tables"
      BY <2>2, GotoType DEF TypeOK, Steps
    <3> QED
      BY <2>1, <2>2, <3>1
  <2>3. CASE Roll(h) /\ \E c \in BOOLEAN :
               th' = [th EXCEPT ![s] = [th[s] EXCEPT !.pc = "launch", !.create = c]]
    <3>1. th'[s].pc = "launch"
      <4>1. PICK c \in BOOLEAN :
                th' = [th EXCEPT ![s] = [th[s] EXCEPT !.pc = "launch", !.create = c]]
        BY <2>3, Zenon
      <4> QED
        BY <4>1 DEF TypeOK, WalkTypeOK, Threads
    <3>2. Desired(cr) # NoSts
      BY <1>1, SpecParts
    <3>3. sts'[h] = Desired(cr)
      BY <1>1, <2>3 DEF Roll, TypeOK, WorldTypeOK
    <3> QED
      BY <2>1, <3>1, <3>2, <3>3
  <2> QED
    BY <1>2, <1>4, <2>2, <2>3, WriteCases
<1>5. CASE reconcileHostTables(s)
  <2>1. sts' = sts /\ th[s].pc = "tables"
    BY <1>5 DEF reconcileHostTables
  <2>2. th'[s].pc \in {"ascend", "next"}
    BY <1>5, Destinations
  <2>3. CASE attr' = [attr EXCEPT ![h] = IF @ = "Requested" THEN "Created" ELSE @]
    <3>1. attr'[h] # "Requested"
      BY <1>1, <2>3 DEF TypeOK, PassTypeOK
    <3> QED
      BY <2>1, <2>2, <3>1
  <2>4. CASE UNCHANGED attr /\ Defer(s, attr[h])
    BY <2>1, <2>2, <2>4 DEF Defer
  <2> QED
    BY <1>5, <2>3, <2>4, TablesCases
<1>6. CASE hostScaleDown(s)
  <2>1. attr' = attr /\ th'[s].pc = "sts"
    BY <1>6, Destinations DEF hostScaleDown
  <2>2. sts' = sts \/ sts' = [sts EXCEPT ![h] = <<cr.ver, "off">>]
    BY <1>6 DEF hostScaleDown
  <2>3. <<cr.ver, "off">> # NoSts
    BY DEF NoSts
  <2>4. sts'[h] = sts[h] \/ sts'[h] # NoSts
    BY <1>1, <2>2, <2>3 DEF TypeOK, WorldTypeOK
  <2> QED
    BY <2>1, <2>4
<1>7. CASE \/ descendHostInClickHouseCluster(s) \/ reconcileHostMain(s) \/ hostForceRestart(s)
           \/ waitHostRestart(s) \/ waitForStatefulSetLaunch(s)
           \/ ascendHostInClickHouseCluster(s) \/ includeHost(s)
  <2>1. UNCHANGED <<attr, sts>>
    BY <1>7 DEF descendHostInClickHouseCluster, reconcileHostMain, hostForceRestart,
       waitHostRestart, waitForStatefulSetLaunch, ascendHostInClickHouseCluster, includeHost,
       worldVars
  <2>2. /\ th'[s].pc \in {"launch", "tables"} => th[s].pc = "launch"
        /\ th'[s].pc # "ascend"
        /\ th'[s].pc = "include" => th[s].pc = "ascend"
    BY <1>7, Destinations DEF waitForStatefulSetLaunch, ascendHostInClickHouseCluster
  <2> QED
    BY <2>1, <2>2
<1>8. ~reconcileHost(s)
  BY DEF reconcileHost, HostSteps
<1> QED
  BY <1>3, <1>4, <1>5, <1>6, <1>7, <1>8 DEF HostStep

\* The parts of NewInv.
Placed(h) == Sound(h) /\ ~HasAncestor(h) /\ attr[h] # "Requested" => sts[h] # NoSts
Known(h) == Sound(h) => attr[h] # "Requested" \/ Ahead(h)
Judged(s) == th[s].pc \in {"ascend", "include"} => attr[th[s].host] # "Requested"
Written(s) == th[s].pc \in {"launch", "tables"} => sts[th[s].host] # NoSts

\* NewInv by its parts, and its preservation by each kind of step.
LEMMA NewParts ==
    NewInv <=> (Filtered =>
        /\ \A h \in Hosts : Placed(h)
        /\ \A s \in Shards : Written(s)
        /\ pc # "prelim" /\ deferred = {} =>
              (\A h \in Hosts : Known(h)) /\ \A s \in Shards : Judged(s))
BY DEF NewInv, Placed, Known, Judged, Written

LEMMA NewHostStep ==
    ASSUME TypeOK, ThreadInv, NewInv, NEW s \in Shards, HostStep(s)
    PROVE  NewInv'
<1> SUFFICES ASSUME Filtered'
             PROVE  /\ \A h \in Hosts : Placed(h)'
                    /\ \A x \in Shards : Written(x)'
                    /\ deferred' = {} =>
                          (\A h \in Hosts : Known(h)') /\ \A x \in Shards : Judged(x)'
  BY DEF NewInv, Placed, Known, Judged, Written
<1>1. /\ UNCHANGED <<pc, cr, anc, cancelled>> /\ pc = "shards" /\ failed \subseteq failed'
      /\ deferred \subseteq deferred'
  BY InnerFrame
<1>2. Shape(s)
  BY HostShape
<1>3. Filtered /\ ~cancelled
  BY <1>1 DEF Filtered
<1>4. /\ \A h \in Hosts : Placed(h)
      /\ \A x \in Shards : Written(x)
      /\ deferred = {} => (\A h \in Hosts : Known(h)) /\ \A x \in Shards : Judged(x)
  BY <1>1, <1>3, NewParts
<1>5. Quits(s) \/ Fails(s) \/ Arrives(s) \/ Goes(s) \/ Leaves(s)
  BY <1>2 DEF Shape, Moves
<1>6. ASSUME NEW h \in Hosts, h = th[s].host, ShardOf[h] \notin failed'
      PROVE  /\ th[s].pc \in HostSteps /\ s = ShardOf[h] /\ th'[s].pc # "done"
             /\ Goes(s) \/ Leaves(s)
  <2>1. th[s].pc \in HostSteps
    BY <1>6, HostShard DEF ThreadInv
  <2>2. s = ShardOf[h]
    BY <1>6, <2>1, HostAt
  <2>3. Goes(s) \/ Leaves(s)
    BY <1>5, <1>6, <2>1, <2>2 DEF Quits, Fails, Arrives, HostSteps
  <2> QED
    BY <2>1, <2>2, <2>3, NextHostType DEF Goes, Leaves, HostSteps, TypeOK
<1>7. ASSUME NEW h \in Hosts PROVE Placed(h)'
  <2> SUFFICES ASSUME Sound(h)', ~HasAncestor(h), attr'[h] # "Requested" PROVE sts'[h] # NoSts
    BY <1>1 DEF Placed, HasAncestor
  <2>1. Sound(h) /\ ShardOf[h] \notin failed'
    BY <1>1 DEF Sound
  <2>2. CASE h # th[s].host
    BY <1>2, <1>4, <2>1, <2>2 DEF Shape, Placed
  <2>3. CASE h = th[s].host
    <3>1. th[s].pc \in HostSteps /\ th'[s].pc # "done"
      BY <1>6, <2>1, <2>3
    <3>2. StatefulSetStatus(h, Desired(cr)) # "Requested" => sts[h] # NoSts
      BY DEF StatefulSetStatus
    <3>3. th[s].pc = "tables" => sts[h] # NoSts
      BY <1>4, <2>3 DEF Written
    <3>4. attr[h] # "Requested" => sts[h] # NoSts
      BY <1>4, <2>1 DEF Placed
    <3>5. \/ attr'[h] = StatefulSetStatus(h, Desired(cr)) /\ (sts'[h] = sts[h] \/ sts'[h] # NoSts)
          \/ th[s].pc = "tables" /\ sts'[h] = sts[h]
          \/ attr'[h] = attr[h] /\ (sts'[h] = sts[h] \/ sts'[h] # NoSts)
      BY <1>3, <2>3, <3>1, AttrCases
    <3> QED
      BY <3>2, <3>3, <3>4, <3>5
  <2> QED
    BY <2>2, <2>3
<1>8. ASSUME NEW x \in Shards, x # s
      PROVE  /\ th'[x] = th[x]
             /\ th[x].pc \in HostSteps => /\ sts'[th[x].host] = sts[th[x].host]
                                          /\ attr'[th[x].host] = attr[th[x].host]
  <2>1. th'[x] = th[x]
    BY <1>2, <1>8 DEF Shape, Moves
  <2>2. th[x].pc \in HostSteps => th[x].host \in Hosts /\ ShardOf[th[x].host] = x
    BY HostAt
  <2> QED
    BY <1>8, <2>1, <2>2, HostFar
<1>9. ASSUME th'[s].pc \in {"launch", "tables", "ascend", "include"}
      PROVE  th[s].pc \in HostSteps /\ th'[s].host = th[s].host
  <2>1. Goes(s)
    BY <1>5, <1>9, IdleThreads, NextHostType DEF Quits, Fails, Arrives, Leaves, TypeOK
  <2> QED
    BY <2>1 DEF Goes
<1>10. ASSUME NEW x \in Shards PROVE Written(x)'
  <2> SUFFICES ASSUME th'[x].pc \in {"launch", "tables"} PROVE sts'[th'[x].host] # NoSts
    BY DEF Written
  <2>1. CASE x # s
    BY <1>4, <1>8, <2>1 DEF Written, HostSteps, Steps
  <2>2. CASE x = s
    <3> DEFINE h == th[s].host
    <3>1. th[s].pc \in HostSteps /\ th'[s].host = h
      BY <1>9, <2>2
    <3>2. \/ /\ attr'[h] = StatefulSetStatus(h, Desired(cr)) /\ sts'[h] = sts[h]
             /\ th'[s].pc = "tables" => attr'[h] = "Same"
             /\ th'[s].pc # "launch"
          \/ sts'[h] # NoSts
          \/ th'[s].pc \notin {"launch", "tables"}
          \/ th[s].pc = "launch" /\ sts'[h] = sts[h]
      BY <1>3, <2>2, <3>1, AttrCases
    <3>3. StatefulSetStatus(h, Desired(cr)) = "Same" => sts[h] # NoSts
      BY DEF StatefulSetStatus
    <3>4. th[s].pc = "launch" => sts[h] # NoSts
      BY <1>4 DEF Written
    <3> QED
      BY <2>2, <3>1, <3>2, <3>3, <3>4
  <2> QED
    BY <2>1, <2>2
<1>11. ASSUME deferred' = {}, NEW h \in Hosts PROVE Known(h)'
  <2> SUFFICES ASSUME Sound(h)' PROVE attr'[h] # "Requested" \/ Ahead(h)'
    BY DEF Known
  <2>1. Sound(h) /\ ShardOf[h] \notin failed' /\ deferred = {}
    BY <1>1, <1>11 DEF Sound
  <2>2. attr[h] # "Requested" \/ Ahead(h)
    BY <1>4, <2>1 DEF Known
  <2>3. CASE h # th[s].host
    <3>1. attr'[h] = attr[h]
      BY <1>2, <2>3 DEF Shape
    <3>2. Ahead(h) => Ahead(h)'
      BY <1>3, <2>1, <2>3, AheadHost
    <3> QED
      BY <2>2, <3>1, <3>2
  <2>4. CASE h = th[s].host /\ Goes(s)
    <3>1. ShardOf[h] = s
      BY <1>6, <2>1, <2>4
    <3> QED
      BY <2>4, <3>1 DEF Goes, Ahead
  <2>5. CASE h = th[s].host /\ Leaves(s)
    <3>1. CASE includeHost(s)
      <4>1. attr' = attr /\ th[s].pc = "include"
        BY <3>1 DEF includeHost
      <4> QED
        BY <1>4, <2>1, <2>5, <4>1 DEF Judged
    <3>2. CASE reconcileHostTables(s)
      <4>1. \/ attr' = [attr EXCEPT ![h] = IF @ = "Requested" THEN "Created" ELSE @]
            \/ s \in deferred'
        BY <2>5, <3>2, TablesCases DEF Defer
      <4> QED
        BY <1>11, <4>1 DEF TypeOK, PassTypeOK
    <3> QED
      BY <2>5, <3>1, <3>2, LeaveCases
  <2> QED
    BY <1>6, <2>1, <2>3, <2>4, <2>5
<1>12. ASSUME deferred' = {}, NEW x \in Shards PROVE Judged(x)'
  <2> SUFFICES ASSUME th'[x].pc \in {"ascend", "include"} PROVE attr'[th'[x].host] # "Requested"
    BY DEF Judged
  <2>1. deferred = {}
    BY <1>1, <1>12
  <2>2. CASE x # s
    BY <1>4, <1>8, <2>1, <2>2 DEF Judged, HostSteps, Steps
  <2>3. CASE x = s
    <3> DEFINE h == th[s].host
    <3>1. th[s].pc \in HostSteps /\ th'[s].host = h
      BY <1>9, <2>3
    <3>2. \/ attr'[h] = attr[h] /\ th[s].pc = "ascend"
          \/ attr'[h] # "Requested"
          \/ s \in deferred'
      BY <1>3, <2>3, <3>1, AttrCases
    <3>3. attr[h] # "Requested" \/ th[s].pc # "ascend"
      BY <1>4, <2>1 DEF Judged
    <3> QED
      BY <1>12, <2>3, <3>1, <3>2, <3>3
  <2> QED
    BY <2>2, <2>3
<1> QED
  BY <1>7, <1>10, <1>11, <1>12

LEMMA NewShard ==
    ASSUME TypeOK, ThreadInv, NewInv, NEW s \in Shards, reconcileShardWithHosts(s)
    PROVE  NewInv'
<1> SUFFICES ASSUME Filtered'
             PROVE  /\ \A h \in Hosts : Placed(h)'
                    /\ \A x \in Shards : Written(x)'
                    /\ deferred' = {} =>
                          (\A h \in Hosts : Known(h)') /\ \A x \in Shards : Judged(x)'
  BY DEF NewInv, Placed, Known, Judged, Written
<1>1. /\ UNCHANGED <<pc, cr, anc, cancelled>> /\ pc = "shards" /\ failed \subseteq failed'
  BY InnerFrame
<1>2. UNCHANGED <<attr, sts, deferred>>
  BY DEF reconcileShardWithHosts, passVars, worldVars
<1>3. /\ \A h \in Hosts : Placed(h)
      /\ \A x \in Shards : Written(x)
      /\ deferred = {} => (\A h \in Hosts : Known(h)) /\ \A x \in Shards : Judged(x)
  BY <1>1, NewParts DEF Filtered
<1>4. ASSUME NEW h \in Hosts, Sound(h)' PROVE Sound(h) /\ h \in cr.hosts /\ ShardOf[h] \notin failed'
  BY <1>1, <1>4 DEF Sound
<1>5. ASSUME NEW h \in Hosts PROVE Placed(h)'
  BY <1>1, <1>2, <1>3, <1>4 DEF Placed, HasAncestor
<1>6. ASSUME NEW x \in Shards PROVE Written(x)' /\ (deferred' = {} => Judged(x)')
  <2>1. CASE x # s
    <3>1. th'[x] = th[x]
      BY <2>1, ThreadShard
    <3> QED
      BY <1>2, <1>3, <3>1 DEF Written, Judged
  <2>2. CASE x = s
    <3>1. th'[s].pc \in {"next", "done"}
      BY ThreadShard, IdleThreads
    <3> QED
      BY <2>2, <3>1 DEF Written, Judged
  <2> QED
    BY <2>1, <2>2
<1>7. ASSUME deferred' = {}, NEW h \in Hosts PROVE Known(h)'
  <2> SUFFICES ASSUME Sound(h)' PROVE attr'[h] # "Requested" \/ Ahead(h)'
    BY DEF Known
  <2>1. attr[h] # "Requested" \/ Ahead(h)
    BY <1>2, <1>3, <1>4, <1>7 DEF Known
  <2> QED
    BY <1>2, <1>4, <2>1, AheadShard
<1> QED
  BY <1>5, <1>6, <1>7

LEMMA NewOuter ==
    ASSUME TypeOK, ThreadInv, AfterInv, NewInv, OuterStep
    PROVE  NewInv'
<1> SUFFICES ASSUME Filtered'
             PROVE  /\ \A h \in Hosts : Placed(h)'
                    /\ \A x \in Shards : Written(x)'
                    /\ pc' # "prelim" /\ deferred' = {} =>
                          (\A h \in Hosts : Known(h)') /\ \A x \in Shards : Judged(x)'
  BY DEF NewInv, Placed, Known, Judged, Written
<1>1. UNCHANGED <<th, cr, attr, deferred>>
  BY OuterFrame
<1>2. /\ Filtered /\ UNCHANGED <<sts, anc, failed>>
      /\ pc' = pc \/ (pc = "prelim" /\ pc' = "shards") \/ (pc = "shards" /\ pc' = "final")
  BY OuterFiltered
<1>3. /\ \A h \in Hosts : Placed(h)' = Placed(h) /\ Known(h)' = Known(h)
      /\ \A x \in Shards : Written(x)' = Written(x) /\ Judged(x)' = Judged(x)
  BY <1>1, <1>2 DEF Placed, Known, Written, Judged, Sound, HasAncestor, Ahead, ToWalk
<1>4. CASE pc = "prelim" /\ pc' = "shards"
  <2>1. \A x \in Shards : th[x].pc = "wait"
    BY <1>4 DEF AfterInv
  <2>2. (\A h \in Hosts : Known(h)) /\ \A x \in Shards : Judged(x)
    BY <2>1, HostShard DEF Known, Judged, Ahead
  <2>3. (\A h \in Hosts : Placed(h)) /\ \A x \in Shards : Written(x)
    BY <1>2, NewParts
  <2> QED
    BY <1>3, <2>2, <2>3
<1>5. CASE pc # "prelim"
  BY <1>1, <1>2, <1>3, <1>5, NewParts
<1>6. CASE pc = "prelim" /\ pc' = "prelim"
  BY <1>2, <1>3, <1>6, NewParts
<1> QED
  BY <1>2, <1>4, <1>5, <1>6

LEMMA NewBegins ==
    ASSUME TypeOK, PassBegins \/ PassEnds \/ Restart
    PROVE  NewInv'
<1>1. CASE PassEnds \/ Restart
  <2>1. pc' = "idle"
    BY <1>1 DEF PassEnds, Restart
  <2> QED
    BY <2>1 DEF NewInv, Filtered
<1>2. CASE PassBegins
  <2>1. pc' = "prelim" /\ UNCHANGED <<anc, sts>> /\ cr' = spec
    BY <1>2 DEF PassBegins, StartPass, worldVars
  <2>2. \A s \in Shards : th'[s] = Waiting
    BY <1>2 DEF PassBegins, StartPass
  <2>3. \A h \in Hosts : attr'[h] = IF h \notin spec.hosts THEN ""
                   ELSE IF HasAncestor(h) \/ (anc = NoSpec /\ sts[h] # NoSts)
                   THEN "Modified" ELSE "Requested"
    BY <1>2 DEF PassBegins, StartPass
  <2>4. \A h \in Hosts : Sound(h)' /\ ~HasAncestor(h)' /\ attr'[h] # "Requested" => sts'[h] # NoSts
    BY <2>1, <2>3 DEF Sound, HasAncestor
  <2> QED
    BY <2>1, <2>2, <2>4, IdleThreads DEF NewInv
<1> QED
  BY <1>1, <1>2

(* A host the last completed pass did not have enters remote_servers only   *)
(* once its StatefulSet exists and its own reconcile went through, unless   *)
(* the pass was cancelled or the host's shard has failed.                   *)
THEOREM AdvertisedSafe == Spec => AdvertisedExist
<1> DEFINE I == TypeOK /\ ThreadInv /\ AfterInv /\ NewInv
           A == \A h \in Hosts :
                  remote[h] = Absent /\ remote'[h] # Absent /\ ~HasAncestor(h)
                  => \/ sts[h] # NoSts /\ attr[h] # "Requested"
                     \/ cancelled \/ ShardOf[h] \in failed
<1>1. Init => I
  <2> SUFFICES ASSUME Init PROVE I
    OBVIOUS
  <2>1. TypeOK /\ ThreadInv
    BY TypeInit
  <2>2. pc = "idle"
    BY DEF Init
  <2> QED
    BY <2>1, <2>2 DEF AfterInv, NewInv, Walks, Filtered
<1>2. I /\ [Next]_vars => I'
  <2> SUFFICES ASSUME I, [Next]_vars PROVE I'
    OBVIOUS
  <2>1. TypeOK' /\ ThreadInv'
    BY TypeStep
  <2>2. NewInv'
    BY NewHostStep, NewShard, NewOuter, NewBegins, StepCases
  <2> QED
    BY <2>1, <2>2, AfterStep
<1>3. I /\ [Next]_vars => A
  <2> SUFFICES ASSUME I, [Next]_vars, NEW h \in Hosts, remote[h] = Absent, remote'[h] # Absent,
                      ~HasAncestor(h), ~cancelled, ShardOf[h] \notin failed
               PROVE  sts[h] # NoSts /\ attr[h] # "Requested"
    OBVIOUS
  <2>1. \/ reconcileCRAuxObjectsPreliminary \/ reconcileCRAuxObjectsFinal
        \/ \E s \in Shards : descendHostInClickHouseCluster(s) \/ ascendHostInClickHouseCluster(s)
    <3>1. remote' # remote
      OBVIOUS
    <3>2. ~(PassBegins \/ PassEnds \/ Restart \/ \E s \in Shards : reconcileShardWithHosts(s))
      BY <3>1 DEF PassBegins, PassEnds, Restart, reconcileShardWithHosts, worldVars
    <3>3. OuterStep => reconcileCRAuxObjectsPreliminary \/ reconcileCRAuxObjectsFinal
      BY <3>1 DEF OuterStep, WalkEnds, restartNewlyAddedHosts, FinalEnds, clean,
         finalizeReconcileAndMarkCompleted, markReconcileCompletedUnsuccessfully, EditSpec,
         Deliver, PodStarts, vars, worldVars
    <3>4. ASSUME NEW s \in Shards, HostStep(s)
          PROVE  descendHostInClickHouseCluster(s) \/ ascendHostInClickHouseCluster(s)
      BY <3>1, <3>4 DEF HostStep, reconcileHost, reconcileHostMain, reconcileHostStatefulSet,
         hostForceRestart, waitHostRestart, hostScaleDown, ReconcileStatefulSet,
         waitForStatefulSetLaunch, reconcileHostTables, includeHost, worldVars
    <3> QED
      BY <3>2, <3>3, <3>4, StepCases
  <2>2. \/ Filtered /\ \E l : remote' = RemoteServers(attr, l, TRUE)
        \/ /\ pc = "final" /\ deferred = {} /\ \E l, f : remote' = RemoteServers(attr, l, f)
    <3>1. CASE reconcileCRAuxObjectsPreliminary
      BY <3>1 DEF reconcileCRAuxObjectsPreliminary, Filtered
    <3>2. CASE reconcileCRAuxObjectsFinal
      BY <3>2 DEF reconcileCRAuxObjectsFinal, Filtered, finalRemoteServersOptions
    <3>3. ASSUME NEW s \in Shards,
                 descendHostInClickHouseCluster(s) \/ ascendHostInClickHouseCluster(s)
          PROVE  Filtered /\ \E l : remote' = RemoteServers(attr, l, TRUE)
      <4>1. \E l : remote' = RemoteServers(attr, l, TRUE)
        BY <3>3 DEF descendHostInClickHouseCluster, ascendHostInClickHouseCluster
      <4>2. pc = "shards"
        BY <3>3, InnerFrame DEF HostStep
      <4> QED
        BY <4>1, <4>2 DEF Filtered
    <3> QED
      BY <2>1, <3>1, <3>2, <3>3
  <2>3. h \in cr.hosts /\ (attr[h] = "Requested" => pc = "final" /\ deferred = {})
    BY <2>2 DEF RemoteServers, Absent
  <2>4. Filtered /\ Sound(h)
    BY <2>2, <2>3 DEF Filtered, Sound
  <2>5. attr[h] # "Requested"
    <3>1. SUFFICES ASSUME pc = "final", deferred = {} PROVE attr[h] # "Requested"
      BY <2>3
    <3>2. ShardOf[h] \in Shards /\ h # ""
      BY HostShard
    <3>3. th[ShardOf[h]].pc = "done"
      BY <3>1, <3>2 DEF AfterInv, Walks
    <3>4. ~Ahead(h)
      BY <3>2, <3>3 DEF Ahead, ThreadInv, HostSteps
    <3> QED
      BY <2>4, <3>1, <3>4 DEF NewInv
  <2> QED
    BY <2>4, <2>5 DEF NewInv
<1>4. Spec => []I
  BY <1>1, <1>2, PTL DEF Spec
<1>5. Spec => [][A]_vars
  BY <1>3, <1>4, PTL DEF Spec
<1> QED
  BY <1>5, PTL DEF AdvertisedExist

-----------------------------------------------------------------------------
(* The last replica of a shard                                             *)

\* A shard has finitely many hosts.
LEMMA ShardCount == ASSUME TypeOK, NEW s PROVE Cardinality(ShardHosts(s)) \in Nat
<1>1. HostSeq \in [1..Len(HostSeq) -> Hosts] /\ Len(HostSeq) \in Nat
  <2>1. HostSeq \in Seq(Hosts)
    BY HostAssumption, Zenon
  <2> QED
    BY <2>1
<1>2. IsFiniteSet(1..Len(HostSeq))
  BY <1>1, FS_Interval
<1>3. HostSeq \in Surjection(1..Len(HostSeq), Hosts)
  BY <1>1 DEF Surjection, Hosts
<1>4. IsFiniteSet(Hosts)
  BY <1>2, <1>3, FS_Surjection
<1>5. cr \in Specs
  BY DEF TypeOK, CRTypeOK
<1>6. ShardHosts(s) \in SUBSET Hosts
  BY <1>5, SpecParts DEF ShardHosts
<1> QED
  BY <1>4, <1>6, FS_Subset, FS_CardinalityType

\* A host let through the gate as healthy has a peer that is up, or is not
\* disrupted at all.
LEMMA GatePeer ==
    ASSUME TypeOK, ThreadInv, PodsReadable, NEW s \in Shards, reconcileHostStatefulSet(s),
           cr.mode = "run", Cardinality(ShardHosts(s)) > 1, th'[s].pc \in Disrupting,
           th'[s].healthy
    PROVE  \/ \E p \in ShardHosts(s) \ {th[s].host} : pod[p] = "up"
           \/ th'[s].pc = "sts" /\ StatefulSetStatus(th[s].host, Desired(cr)) = "Same"
<1> DEFINE h == th[s].host
           a == StatefulSetStatus(h, Desired(cr))
<1>1. th[s].pc = "gate" /\ th[s].pc \in HostSteps
  BY DEF reconcileHostStatefulSet, HostSteps, Steps
<1>2. h \in Hosts /\ h # "" /\ ShardOf[h] = s
  BY <1>1, HostAt
<1>3. PICK crushed \in BOOLEAN :
         LET force == shouldForceRestartHost(h, a, crushed)
             step == IF force /\ ~hostRequiresStatefulSetRollout(h) THEN "restart" ELSE "sts"
         IN  \/ a # "Requested" /\ Defer(s, a)
             \/ /\ ~hostDisruptionWouldDegradeShard(h, a, force, "")
                /\ th' = [th EXCEPT ![s] = [th[s] EXCEPT
                              !.healthy = isHostHealthyForReconcile(h, ""), !.pc = step]]
  BY GateCases DEF PodsReadable, hostDisruptionWouldDegradeShard
<1> DEFINE force == shouldForceRestartHost(h, a, crushed)
           step == IF force /\ ~hostRequiresStatefulSetRollout(h) THEN "restart" ELSE "sts"
           b == isHostHealthyForReconcile(h, "")
<1>4. ~(a # "Requested" /\ Defer(s, a))
  <2>1. SUFFICES ASSUME a # "Requested", Defer(s, a) PROVE FALSE
    OBVIOUS
  <2> HIDE DEF a
  <2>2. PICK t \in Threads : th' = [th EXCEPT ![s] = t] /\ t.pc = "ascend"
    BY <2>1, DeferThread
  <2>3. th'[s].pc = "ascend"
    BY <2>2, SetThread DEF TypeOK
  <2> QED
    BY <2>3 DEF Disrupting
<1>5. ~hostDisruptionWouldDegradeShard(h, a, force, "")
  BY <1>3, <1>4
<1>6. th'[s].healthy = b /\ th'[s].pc = step
  <2>1. th' = [th EXCEPT ![s] = [th[s] EXCEPT !.healthy = b, !.pc = step]]
    BY <1>3, <1>4
  <2>2. b \in BOOLEAN
    BY HealthType
  <2> HIDE DEF b, step
  <2> QED
    BY <2>1, <2>2 DEF TypeOK, WalkTypeOK, Threads
<1>7. b
  BY <1>6
<1>8. pod[h] = "up" /\ sts[h] # NoSts
  BY <1>2, <1>7 DEF isHostHealthyForReconcile, TypeOK, WorldTypeOK
<1>9. a # "Requested"
  BY <1>8 DEF StatefulSetStatus
<1>10. (a = "Same" /\ ~force) \/ isShardSafeToDisruptHost(h, "")
  BY <1>5, <1>7, <1>9 DEF hostDisruptionWouldDegradeShard
<1>11. CASE a = "Same" /\ ~force
  BY <1>6, <1>11
<1>12. CASE isShardSafeToDisruptHost(h, "")
  <2>1. ~(Cardinality(ShardHosts(ShardOf[h])) <= 1)
    <3>1. Cardinality(ShardHosts(s)) \in Nat
      BY ShardCount
    <3>2. ~(Cardinality(ShardHosts(s)) <= 1)
      BY <3>1
    <3> QED
      BY <1>2, <3>2
  <2>2. \E p \in ShardHosts(s) \ {h} : pod[p] = "up"
    BY <1>2, <1>12, <2>1 DEF isShardSafeToDisruptHost, isHostHealthyForReconcile
  <2> QED
    BY <2>2
<1> QED
  BY <1>10, <1>11, <1>12

\* The pods of a shard other than the host at hand are as they were.
LEMMA PeersStill ==
    ASSUME TypeOK, ThreadInv, NEW s \in Shards, HostStep(s), NEW x \in Shards,
           NEW p \in ShardHosts(x), p # th[x].host \/ x # s
    PROVE  p \in Hosts /\ pod'[p] = pod[p] /\ sts'[p] = sts[p]
<1>1. cr \in Specs
  BY DEF TypeOK, CRTypeOK
<1>2. p \in Hosts /\ ShardOf[p] = x
  BY <1>1, SpecParts DEF ShardHosts
<1>3. CASE x # s
  BY <1>2, <1>3, HostFar
<1>4. CASE x = s
  BY <1>2, <1>4, HostShape DEF Shape
<1> QED
  BY <1>3, <1>4

\* A goroutine never takes the peer of another disruption: a shard has one goroutine.
LEMMA PeerHostStep ==
    ASSUME TypeOK, ThreadInv, PodsReadable, PeerInv, NEW s \in Shards, HostStep(s)
    PROVE  PeerInv'
<1>1. UNCHANGED <<cr, anc>>
  BY InnerFrame
<1>2. Shape(s)
  BY HostShape
<1> SUFFICES ASSUME cr.mode = "run", NEW x \in Shards, th'[x].pc \in Disrupting, th'[x].healthy,
                    Cardinality(ShardHosts(x)) > 1
             PROVE  \/ \E p \in ShardHosts(x) \ {th'[x].host} : pod'[p] = "up"
                    \/ th'[x].pc = "sts" /\ StatefulSetStatus(th[x].host, Desired(cr))' = "Same"
  BY <1>1 DEF PeerInv, ShardHosts, Desired, StatefulSetStatus
<1>3. CASE x # s
  <2>1. th'[x] = th[x]
    BY <1>2, <1>3 DEF Shape, Moves
  <2>2. th[x].host \in ShardHosts(x)
    BY <2>1, HostAt DEF Disrupting, HostSteps, Steps
  <2>3. \/ \E p \in ShardHosts(x) \ {th[x].host} : pod[p] = "up"
        \/ th[x].pc = "sts" /\ StatefulSetStatus(th[x].host, Desired(cr)) = "Same"
    BY <2>1 DEF PeerInv
  <2>4. CASE \E p \in ShardHosts(x) \ {th[x].host} : pod[p] = "up"
    BY <1>3, <2>1, <2>4, PeersStill
  <2>5. CASE th[x].pc = "sts" /\ StatefulSetStatus(th[x].host, Desired(cr)) = "Same"
    <3>1. sts'[th[x].host] = sts[th[x].host]
      BY <1>3, <2>2, PeersStill
    <3>2. StatefulSetStatus(th[x].host, Desired(cr))' = "Same"
      BY <1>1, <2>1, <2>5, <3>1 DEF StatefulSetStatus, HasAncestor, Desired
    <3> QED
      BY <2>1, <2>5, <3>2
  <2> QED
    BY <2>3, <2>4, <2>5
<1>4. CASE x = s
  <2>1. Goes(s)
    <3>1. Quits(s) \/ Fails(s) \/ Arrives(s) \/ Goes(s) \/ Leaves(s)
      BY <1>2 DEF Shape, Moves
    <3> QED
      BY <1>4, <3>1, IdleThreads, NextHostType DEF Quits, Fails, Arrives, Leaves, Disrupting, TypeOK
  <2>2. th'[s].host = th[s].host /\ th[s].pc \in HostSteps
    BY <2>1 DEF Goes
  <2>3. CASE reconcileHostStatefulSet(s)
    <3>1. UNCHANGED <<pod, sts>>
      BY <2>3 DEF reconcileHostStatefulSet, worldVars
    <3>2. \/ \E p \in ShardHosts(s) \ {th[s].host} : pod[p] = "up"
          \/ th'[s].pc = "sts" /\ StatefulSetStatus(th[s].host, Desired(cr)) = "Same"
      BY <1>4, <2>3, GatePeer
    <3>3. StatefulSetStatus(th[s].host, Desired(cr))' = StatefulSetStatus(th[s].host, Desired(cr))
      BY <1>1, <2>2, <3>1 DEF StatefulSetStatus, HasAncestor, Desired
    <3> QED
      BY <1>4, <2>2, <3>1, <3>2, <3>3
  <2>4. CASE hostForceRestart(s) \/ waitHostRestart(s) \/ hostScaleDown(s)
    <3>1. th[s].pc \in {"restart", "back", "scale"} /\ th'[s].healthy = th[s].healthy
      <4>1. /\ th[s].pc \in {"restart", "back", "scale"}
            /\ \E step \in Steps : Goto(s, step)
        BY <2>4 DEF hostForceRestart, waitHostRestart, hostScaleDown, Steps
      <4> QED
        BY <4>1, GotoType DEF TypeOK
    <3>2. \E p \in ShardHosts(s) \ {th[s].host} : pod[p] = "up"
      BY <1>4, <3>1 DEF PeerInv, Disrupting
    <3> QED
      BY <1>4, <2>2, <3>2, PeersStill
  <2>5. reconcileHostStatefulSet(s) \/ hostForceRestart(s) \/ waitHostRestart(s) \/ hostScaleDown(s)
    BY <1>4, Destinations DEF HostStep, Disrupting
  <2> QED
    BY <2>3, <2>4, <2>5
<1> QED
  BY <1>3, <1>4

LEMMA PeerStep ==
    ASSUME TypeOK, ThreadInv, PodsReadable, PeerInv, [Next]_vars, ThreadInv'
    PROVE  PeerInv'
<1>1. CASE pc' # "shards" \/ pc # "shards"
  <2>1. ASSUME NEW x \in Shards, th'[x].pc \in Disrupting PROVE pc' = "shards" /\ th'[x].pc \in HostSteps
    <3>1. th'[x].pc \notin {"wait", "done", "next"} /\ th'[x].pc \in HostSteps
      BY <2>1 DEF Disrupting, HostSteps, Steps
    <3> QED
      BY <3>1 DEF ThreadInv
  <2>2. CASE pc' # "shards"
    BY <2>1, <2>2 DEF PeerInv
  <2>3. CASE pc' = "shards" /\ pc # "shards"
    <3>1. OuterStep
      BY <2>3, StepCases, InnerFrame DEF PassBegins, PassEnds, Restart
    <3>2. th' = th
      BY <3>1, OuterFrame
    <3>3. \A x \in Shards : th[x].pc \notin Disrupting
      BY <2>3 DEF ThreadInv, Disrupting
    <3> QED
      BY <3>2, <3>3 DEF PeerInv
  <2> QED
    BY <1>1, <2>2, <2>3
<1>2. CASE \E s \in Shards : HostStep(s)
  BY <1>2, PeerHostStep
<1>3. ASSUME NEW s \in Shards, reconcileShardWithHosts(s) PROVE PeerInv'
  <2>1. UNCHANGED <<cr, anc, sts, pod>>
    BY <1>3 DEF reconcileShardWithHosts, passVars, crVars, worldVars
  <2>2. ASSUME NEW x \in Shards PROVE th'[x] = th[x] \/ th'[x].pc \notin Disrupting
    BY <1>3, ThreadShard, IdleThreads DEF Disrupting
  <2> QED
    BY <2>1, <2>2 DEF PeerInv, ShardHosts, StatefulSetStatus, HasAncestor, Desired
<1>4. CASE OuterStep /\ pc = "shards" /\ pc' = "shards"
  <2>1. UNCHANGED <<th, cr, anc>>
    BY <1>4, OuterFrame
  <2>2. sts' = sts /\ \A h \in Hosts : pod[h] = "up" => pod'[h] = "up"
    <3>1. \/ UNCHANGED <<sts, pod>>
          \/ sts' = sts /\ \E h \in Hosts : pod' = [pod EXCEPT ![h] = "up"]
      BY <1>4 DEF OuterStep, reconcileCRAuxObjectsPreliminary, WalkEnds, reconcileCRAuxObjectsFinal,
         restartNewlyAddedHosts, FinalEnds, clean, finalizeReconcileAndMarkCompleted,
         markReconcileCompletedUnsuccessfully, EditSpec, Deliver, PodStarts, vars, worldVars
    <3> QED
      BY <3>1 DEF TypeOK, WorldTypeOK
  <2>3. \A x \in Shards : ShardHosts(x) \subseteq Hosts
    <3>1. cr \in Specs
      BY DEF TypeOK, CRTypeOK
    <3> QED
      BY <3>1, SpecParts DEF ShardHosts
  <2> QED
    BY <2>1, <2>2, <2>3 DEF PeerInv, ShardHosts, StatefulSetStatus, HasAncestor, Desired
<1>5. ~((PassBegins \/ PassEnds \/ Restart) /\ pc' = "shards")
  BY DEF PassBegins, PassEnds, Restart
<1> QED
  BY <1>1, <1>2, <1>3, <1>4, <1>5, StepCases

\* A pod that goes down during the walk is the one its goroutine disrupts.
LEMMA TakenDown ==
    ASSUME TypeOK, ThreadInv, [Next]_vars, pc = "shards", pc' = "shards",
           NEW h \in Hosts, h \in cr.hosts, pod[h] = "up", pod'[h] # "up"
    PROVE  LET s == ShardOf[h] IN
           /\ HostStep(s) /\ h = th[s].host /\ th[s].pc \in Disrupting
           /\ ~(th[s].pc = "sts" /\ StatefulSetStatus(h, Desired(cr)) = "Same")
<1>1. ~(PassBegins \/ PassEnds \/ Restart)
  BY DEF PassBegins, PassEnds, Restart
<1>2. ~OuterStep
  <2>1. SUFFICES ASSUME OuterStep PROVE FALSE
    OBVIOUS
  <2>2. UNCHANGED pod \/ \E g \in Hosts : pod' = [pod EXCEPT ![g] = "up"]
    BY <2>1 DEF OuterStep, reconcileCRAuxObjectsPreliminary, WalkEnds, reconcileCRAuxObjectsFinal,
       restartNewlyAddedHosts, FinalEnds, clean, finalizeReconcileAndMarkCompleted,
       markReconcileCompletedUnsuccessfully, EditSpec, Deliver, PodStarts, vars, worldVars
  <2> QED
    BY <2>2 DEF TypeOK, WorldTypeOK
<1>3. ~\E s \in Shards : reconcileShardWithHosts(s)
  BY DEF reconcileShardWithHosts, worldVars
<1>4. PICK s \in Shards : HostStep(s)
  BY <1>1, <1>2, <1>3, StepCases
<1>5. ShardOf[h] = s
  BY <1>4, HostFar
<1>6. h = th[s].host
  BY <1>4, HostShape DEF Shape
<1>7. hostForceRestart(s) \/ hostScaleDown(s) \/ ReconcileStatefulSet(s)
  BY <1>4 DEF HostStep, reconcileHost, descendHostInClickHouseCluster, reconcileHostMain,
     reconcileHostStatefulSet, waitHostRestart, waitForStatefulSetLaunch, reconcileHostTables,
     worldVars, ascendHostInClickHouseCluster, includeHost
<1>8. th[s].pc \in Disrupting
  BY <1>7 DEF hostForceRestart, hostScaleDown, ReconcileStatefulSet, Disrupting
<1>9. ~(th[s].pc = "sts" /\ StatefulSetStatus(h, Desired(cr)) = "Same")
  <2>1. SUFFICES ASSUME th[s].pc = "sts", StatefulSetStatus(h, Desired(cr)) = "Same" PROVE FALSE
    OBVIOUS
  <2>2. ReconcileStatefulSet(s)
    BY <1>7, <2>1 DEF hostForceRestart, hostScaleDown
  <2>3. UNCHANGED pod
    BY <1>6, <2>1, <2>2, WriteCases
  <2> QED
    BY <2>3
<1> QED
  BY <1>4, <1>5, <1>6, <1>8, <1>9

(* Where pods can be read, a pass never takes down the last replica of a    *)
(* shard that serves: any layout, any mix of rolls, restarts, deferrals and *)
(* failures, shards walked side by side.                                    *)
THEOREM LastReplicaKept == PodsReadable /\ Spec => ShardServes
<1> DEFINE I == TypeOK /\ ThreadInv /\ PeerInv
           A == \A s \in Shards :
                  (/\ pc = "shards" /\ pc' = "shards" /\ cr.mode = "run"
                   /\ Cardinality(ShardHosts(s)) > 1 /\ ServingReplicas(s) # {})
                  => \E h \in ShardHosts(s) : pod'[h] = "up"
<1>1. Init => I
  <2> SUFFICES ASSUME Init PROVE I
    OBVIOUS
  <2>1. TypeOK /\ ThreadInv
    BY TypeInit
  <2>2. pc = "idle"
    BY DEF Init
  <2> QED
    BY <2>1, <2>2 DEF ThreadInv, PeerInv, Disrupting
<1>2. PodsReadable /\ I /\ [Next]_vars => I'
  <2> SUFFICES ASSUME PodsReadable, I, [Next]_vars PROVE I'
    OBVIOUS
  <2>1. TypeOK' /\ ThreadInv'
    BY TypeStep
  <2> QED
    BY <2>1, PeerStep
<1>3. I /\ [Next]_vars => A
  <2> SUFFICES ASSUME I, [Next]_vars, NEW s \in Shards, pc = "shards", pc' = "shards",
                      cr.mode = "run", Cardinality(ShardHosts(s)) > 1, NEW r \in ServingReplicas(s)
               PROVE  \E h \in ShardHosts(s) : pod'[h] = "up"
    OBVIOUS
  <2>1. r \in ShardHosts(s) /\ pod[r] = "up" /\ (r = th[s].host => th[s].healthy)
    BY DEF ServingReplicas
  <2>2. cr \in Specs
    BY DEF TypeOK, CRTypeOK
  <2>3. r \in Hosts /\ r \in cr.hosts /\ ShardOf[r] = s
    BY <2>1, <2>2, SpecParts DEF ShardHosts
  <2>4. CASE pod'[r] = "up"
    BY <2>1, <2>4
  <2>5. CASE pod'[r] # "up"
    <3>1. /\ HostStep(s) /\ r = th[s].host /\ th[s].pc \in Disrupting
          /\ ~(th[s].pc = "sts" /\ StatefulSetStatus(r, Desired(cr)) = "Same")
      BY <2>1, <2>3, <2>5, TakenDown
    <3>2. PICK p \in ShardHosts(s) \ {th[s].host} : pod[p] = "up"
      BY <2>1, <3>1 DEF PeerInv
    <3>3. pod'[p] = "up"
      BY <3>1, <3>2, PeersStill
    <3> QED
      BY <3>3
  <2> QED
    BY <2>4, <2>5
<1>4. PodsReadable => PodsReadable'
  BY DEF PodsReadable
<1>5. PodsReadable /\ Spec => []I
  BY <1>1, <1>2, <1>4, PTL DEF Spec
<1>6. PodsReadable /\ Spec => [][A]_vars
  BY <1>3, <1>5, PTL DEF Spec
<1> QED
  BY <1>6, PTL DEF ShardServes

-----------------------------------------------------------------------------
(* The restarts                                                            *)

\* A step has at most one failure, and failures are used up.
LEMMA ErrorStep == ASSUME [Next]_vars PROVE errors' = errors \/ errors' = errors + 1
<1>1. CASE PassBegins \/ PassEnds \/ Restart \/ OuterStep
  BY <1>1 DEF PassBegins, PassEnds, Restart, OuterStep, reconcileCRAuxObjectsPreliminary, WalkEnds,
     reconcileCRAuxObjectsFinal, restartNewlyAddedHosts, FinalEnds, clean,
     finalizeReconcileAndMarkCompleted, markReconcileCompletedUnsuccessfully, EditSpec, Deliver,
     PodStarts, vars, countVars, NoError, Fault
<1>2. ASSUME NEW s \in Shards, reconcileShardWithHosts(s) \/ HostStep(s)
      PROVE  errors' = errors \/ errors' = errors + 1
  BY <1>2 DEF HostStep, reconcileHost, descendHostInClickHouseCluster, reconcileHostMain,
     reconcileHostStatefulSet, hostForceRestart, waitHostRestart, hostScaleDown,
     ReconcileStatefulSet, waitForStatefulSetLaunch, reconcileHostTables,
     ascendHostInClickHouseCluster, includeHost, reconcileShardWithHosts, NoError, Fault,
     excludeHostFromService, includeHostIntoService
<1> QED
  BY <1>1, <1>2, StepCases

LEMMA ErrorsCount == ASSUME errors \in Nat, [Next]_vars PROVE errors' \in Nat /\ (Spent => Spent')
<1>1. errors' = errors \/ errors' = errors + 1
  BY ErrorStep
<1>2. MaxErrors \in Nat
  BY BoundAssumption
<1>3. errors' \in Nat /\ (~(errors < MaxErrors) => ~(errors' < MaxErrors))
  BY <1>1, <1>2
<1> QED
  BY <1>3 DEF Spent

\* The fault of a shutdown was the last one, or a StatefulSet's write has none.
LEMMA ShutdownSpends ==
    ASSUME RestartsReliable, errors \in Nat, Fault("shutdown")
    PROVE  Spent'
<1>1. errors < MaxErrors /\ errors' = errors + 1 /\ "shutdown" \in Faults
  BY Zenon DEF Fault
<1>2. MaxErrors \in Nat
  BY BoundAssumption
<1>3. MaxErrors <= 1 => ~(errors' < MaxErrors)
  <2>1. errors < MaxErrors /\ errors' = errors + 1
    BY <1>1, Zenon
  <2> QED
    BY <1>2, <2>1
<1>4. "sts" \notin Faults \/ MaxErrors <= 1
  BY <1>1, Zenon DEF RestartsReliable
<1> QED
  BY <1>3, <1>4, Zenon DEF Spent

LEMMA SpentFails == ASSUME Spent PROVE ~Fault("sts")
BY Zenon DEF Spent, Fault

\* A StatefulSet of another version than the pass asks for is not the same.
LEMMA OtherVersion ==
    ASSUME TypeOK, NEW h \in Hosts, StatefulSetStatus(h, Desired(cr)) = "Same"
    PROVE  /\ sts[h] # NoSts /\ sts[h][1] = cr.ver
           /\ cr.mode = "stop" => pod[h] = "none"
<1>1. sts[h] # NoSts /\ ObjectVersion(sts[h]) = Desired(cr)
  BY DEF StatefulSetStatus
<1>2. sts[h] \in Vers \X {"on", "off", "drained"}
  BY <1>1 DEF TypeOK, WorldTypeOK
<1>3. sts[h][1] = cr.ver
  BY <1>1, <1>2 DEF ObjectVersion, Desired
<1>4. cr.mode = "stop" => sts[h][2] # "on"
  BY <1>1, <1>2 DEF ObjectVersion, Desired
<1>5. pod[h] # "none" => sts[h][2] = "on"
  BY DEF TypeOK, WorldTypeOK
<1> QED
  BY <1>1, <1>3, <1>4, <1>5

\* The gate sends a host to the StatefulSet alone when that replaces its pod,
\* or when no pod runs.
LEMMA GateRuns ==
    ASSUME TypeOK, ThreadInv, NEW s \in Shards, reconcileHostStatefulSet(s), s \notin deferred',
           Restarting(th[s].host), th'[s].pc = "sts"
    PROVE  Runs(th[s].host) \/ StatefulSetStatus(th[s].host, Desired(cr)) # "Same"
<1> DEFINE h == th[s].host
           a == StatefulSetStatus(h, Desired(cr))
<1>1. th[s].pc \in HostSteps
  BY DEF reconcileHostStatefulSet, HostSteps, Steps
<1>2. h \in Hosts /\ cr \in Specs
  BY <1>1, HostAt DEF TypeOK, CRTypeOK
<1>3. PICK crushed \in BOOLEAN :
         th' = [th EXCEPT ![s] = [th[s] EXCEPT !.healthy = isHostHealthyForReconcile(h, ""),
                   !.pc = IF shouldForceRestartHost(h, a, crushed)
                             /\ ~hostRequiresStatefulSetRollout(h) THEN "restart" ELSE "sts"]]
  BY GateCases DEF Defer
<1> DEFINE force == shouldForceRestartHost(h, a, crushed)
           step == IF force /\ ~hostRequiresStatefulSetRollout(h) THEN "restart" ELSE "sts"
<1>4. th'[s].pc = step
  <2> DEFINE b == isHostHealthyForReconcile(h, "")
  <2>1. th' = [th EXCEPT ![s] = [th[s] EXCEPT !.healthy = b, !.pc = step]]
    BY <1>3
  <2> HIDE DEF b, step
  <2> QED
    BY <2>1 DEF TypeOK, WalkTypeOK, Threads
<1>5. ~force \/ hostRequiresStatefulSetRollout(h)
  BY <1>4
<1> SUFFICES ASSUME a = "Same" PROVE Runs(h)
  OBVIOUS
<1>6. sts[h] # NoSts /\ sts[h][1] = cr.ver /\ (cr.mode = "stop" => pod[h] = "none")
  BY <1>2, OtherVersion
<1>7. ~hostRequiresStatefulSetRollout(h) /\ ~isImageChangeRequested(h)
  BY <1>6 DEF hostRequiresStatefulSetRollout, isImageChangeRequested
<1>8. cr.mode # "run"
  BY <1>5, <1>7 DEF shouldForceRestartHost, Restarting
<1>9. cr.mode = "stop"
  BY <1>2, <1>8, SpecParts
<1> QED
  BY <1>6, <1>9 DEF Runs

\* The host at hand, step by step.
LEMMA RunsOwn ==
    ASSUME TypeOK, ThreadInv, RestartsReliable, errors \in Nat, NEW s \in Shards, HostStep(s),
           ~cancelled, NEW h \in Hosts, h = th[s].host, ShardOf[h] = s, th[s].pc \in HostSteps,
           th'[s].pc # "done", s \notin deferred', Restarting(h), Restarted(h)
    PROVE  /\ th'[s].pc \notin {"descend", "main"} => conf'[h] = cr.conf
           /\ th'[s].pc \in {"back", "launch", "tables", "ascend", "include", "next"} => Runs(h)'
           /\ th'[s].pc = "scale" => Runs(h)' \/ Spent'
           /\ th'[s].pc = "sts" => Runs(h)' \/ StatefulSetStatus(h, Desired(cr))' # "Same"
<1>1. UNCHANGED <<cr, anc, run>>
  BY InnerFrame
<1>2. /\ th[s].pc \in HostSteps \ {"descend", "main"} => conf[h] = cr.conf
      /\ th[s].pc \in {"back", "launch", "tables", "ascend", "include"} => Runs(h)
      /\ th[s].pc = "scale" => Runs(h) \/ Spent
      /\ th[s].pc = "sts" => Runs(h) \/ StatefulSetStatus(h, Desired(cr)) # "Same"
  BY DEF Restarted
<1>3. th'[s].pc \notin {"descend", "main"} => conf'[h] = cr.conf
  <2>1. CASE descendHostInClickHouseCluster(s)
    BY <2>1, Destinations
  <2>2. CASE reconcileHostMain(s)
    <3>1. conf' = [conf EXCEPT ![h] = cr.conf] \/ HardError(s)
      BY <2>2 DEF reconcileHostMain
    <3>2. ~HardError(s)
      BY IdleThreads, SetThread DEF HardError, TypeOK
    <3> QED
      BY <3>1, <3>2 DEF TypeOK, WorldTypeOK
  <2>3. CASE ~descendHostInClickHouseCluster(s) /\ ~reconcileHostMain(s)
    <3>1. conf' = conf /\ th[s].pc \notin {"descend", "main"}
      BY <2>3 DEF HostStep, reconcileHost, reconcileHostStatefulSet, hostForceRestart,
         waitHostRestart, hostScaleDown, ReconcileStatefulSet, waitForStatefulSetLaunch,
         reconcileHostTables, ascendHostInClickHouseCluster, includeHost, worldVars
    <3> QED
      BY <1>2, <3>1
  <2> QED
    BY <2>1, <2>2, <2>3
<1>4. Runs(h)' <=> (pod'[h] = "up" => run[h] = cr.conf)
  BY <1>1 DEF Runs
<1>5. CASE descendHostInClickHouseCluster(s) \/ reconcileHostMain(s)
  <2>1. th'[s].pc \in {"main", "gate", "done"}
    BY <1>5, Destinations
  <2> QED
    BY <1>3, <2>1
<1>6. CASE reconcileHostStatefulSet(s)
  <2>1. th'[s].pc \in {"restart", "sts"}
    <3>1. th'[s].pc # "ascend"
      <4>1. th[s].pc = "gate"
        BY <1>6 DEF reconcileHostStatefulSet
      <4> QED
        BY <4>1, AttrCases
    <3> QED
      BY <1>6, <3>1, Destinations
  <2>2. UNCHANGED <<pod, sts>>
    BY <1>6 DEF reconcileHostStatefulSet, worldVars
  <2>3. StatefulSetStatus(h, Desired(cr))' = StatefulSetStatus(h, Desired(cr))
    BY <1>1, <2>2 DEF StatefulSetStatus, HasAncestor, Desired
  <2>4. th'[s].pc = "sts" => Runs(h) \/ StatefulSetStatus(h, Desired(cr)) # "Same"
    BY <1>6, GateRuns
  <2>5. Runs(h)' = Runs(h)
    BY <1>1, <2>2 DEF Runs
  <2> QED
    BY <1>3, <2>1, <2>3, <2>4, <2>5
<1>7. CASE hostForceRestart(s)
  <2>1. \/ pod'[h] = "down" /\ th'[s].pc = "back"
        \/ /\ pod' = pod /\ th'[s].pc = "scale"
           /\ IF pod[h] = "up" THEN Fault("shutdown") ELSE NoError
    <3>1. \/ pod' = [pod EXCEPT ![h] = "down"] /\ Goto(s, "back")
          \/ /\ pod' = pod /\ Goto(s, "scale")
             /\ IF pod[h] = "up" THEN Fault("shutdown") ELSE NoError
      BY <1>7 DEF hostForceRestart
    <3>2. {"back", "scale"} \subseteq Steps
      BY DEF Steps
    <3> QED
      BY <3>1, <3>2, GotoType DEF TypeOK, WorldTypeOK
  <2>2. CASE pod'[h] = "down" /\ th'[s].pc = "back"
    BY <1>3, <1>4, <2>2
  <2>3. CASE pod' = pod /\ th'[s].pc = "scale" /\ pod[h] # "up"
    BY <1>3, <1>4, <2>3
  <2>4. CASE pod' = pod /\ th'[s].pc = "scale" /\ Fault("shutdown")
    <3>1. Spent'
      BY <2>4, ShutdownSpends
    <3> QED
      BY <1>3, <2>4, <3>1
  <2> QED
    BY <2>1, <2>2, <2>3, <2>4
<1>8. CASE hostScaleDown(s)
  <2>1. th'[s].pc = "sts" /\ th[s].pc = "scale"
    BY <1>8, Destinations DEF hostScaleDown
  <2>2. CASE pod' = [pod EXCEPT ![h] = "none"]
    <3>1. pod'[h] = "none"
      BY <2>2 DEF TypeOK, WorldTypeOK
    <3> QED
      BY <1>3, <1>4, <2>1, <3>1
  <2>3. CASE pod' = pod /\ pod[h] # "up"
    BY <1>3, <1>4, <2>1, <2>3
  <2>4. CASE pod' = pod /\ Fault("sts")
    <3>1. Runs(h)
      BY <1>2, <2>1, <2>4, SpentFails
    <3>2. Runs(h)'
      BY <1>4, <2>4, <3>1 DEF Runs
    <3> QED
      BY <1>3, <2>1, <3>2
  <2> QED
    BY <1>8, <2>2, <2>3, <2>4 DEF hostScaleDown
<1>9. CASE ReconcileStatefulSet(s)
  <2>1. th'[s].pc \in {"tables", "launch"} /\ th[s].pc = "sts"
    BY <1>9, Destinations DEF ReconcileStatefulSet
  <2>2. ~HardError(s)
    BY IdleThreads, SetThread DEF HardError, TypeOK
  <2>3. CASE StatefulSetStatus(h, Desired(cr)) = "Same" /\ UNCHANGED pod
    <3>1. Runs(h)'
      BY <1>2, <1>4, <2>1, <2>3 DEF Runs
    <3> QED
      BY <1>3, <2>1, <3>1
  <2>4. CASE Roll(h)
    <3>1. pod'[h] # "up"
      BY <2>4 DEF Roll, TypeOK, WorldTypeOK
    <3> QED
      BY <1>3, <1>4, <2>1, <3>1
  <2> QED
    BY <1>9, <2>2, <2>3, <2>4, WriteCases
<1>10. CASE \/ waitHostRestart(s) \/ waitForStatefulSetLaunch(s) \/ reconcileHostTables(s)
            \/ ascendHostInClickHouseCluster(s) \/ includeHost(s)
  <2>1. pod' = pod /\ th[s].pc \in {"back", "launch", "tables", "ascend", "include"}
    BY <1>10 DEF waitHostRestart, waitForStatefulSetLaunch, reconcileHostTables,
       ascendHostInClickHouseCluster, includeHost, worldVars
  <2>2. Runs(h)'
    BY <1>2, <1>4, <2>1 DEF Runs
  <2> QED
    BY <1>3, <2>2
<1>11. ~reconcileHost(s)
  BY DEF reconcileHost, HostSteps
<1> QED
  BY <1>5, <1>6, <1>7, <1>8, <1>9, <1>10, <1>11 DEF HostStep

\* A restart comes one step further, or the pass fails.
LEMMA RunsHostStep ==
    ASSUME TypeOK, ThreadInv, RestartsReliable, errors \in Nat, RunsInv, [Next]_vars,
           NEW s \in Shards, HostStep(s)
    PROVE  RunsInv'
<1>1. /\ UNCHANGED <<pc, cr, anc, cancelled, run>> /\ failed \subseteq failed'
      /\ deferred \subseteq deferred'
  BY InnerFrame
<1>2. Shape(s)
  BY HostShape
<1> SUFFICES ASSUME Walks', NEW h \in Hosts, Restarting(h)'
             PROVE  Restarted(h)'
  BY DEF RunsInv
<1>3. ~cancelled /\ Walks
  BY <1>1 DEF Walks
<1>4. Restarting(h) /\ ShardOf[h] \notin failed' /\ ShardOf[h] \notin deferred'
  BY <1>1 DEF Restarting, Sound, HasAncestor
<1>5. Restarted(h)
  BY <1>3, <1>4 DEF RunsInv
<1>6. CASE h # th[s].host
  <2>1. /\ sts'[h] = sts[h] /\ pod'[h] = pod[h] /\ conf'[h] = conf[h]
    BY <1>2, <1>6 DEF Shape
  <2>2. Ahead(h) => Ahead(h)'
    BY <1>3, <1>4, <1>6, AheadHost
  <2>3. Runs(h)' = Runs(h) /\ (Spent => Spent')
    BY <1>1, <2>1, ErrorsCount DEF Runs
  <2>4. StatefulSetStatus(h, Desired(cr))' = StatefulSetStatus(h, Desired(cr))
    BY <1>1, <2>1 DEF StatefulSetStatus, HasAncestor, Desired
  <2>5. CASE ShardOf[h] # s
    <3>1. th'[ShardOf[h]] = th[ShardOf[h]]
      BY <2>5, HostFar
    <3> QED
      BY <1>1, <1>5, <2>1, <2>2, <2>3, <2>4, <3>1 DEF Restarted
  <2>6. CASE ShardOf[h] = s
    <3>1. Quits(s) \/ Fails(s) \/ Arrives(s) \/ Goes(s) \/ Leaves(s)
      BY <1>2 DEF Shape, Moves
    <3>2. th'[s].host = h => th'[s].pc \in {"descend", "main"}
      BY <1>6, <3>1, HostShard, IdleThreads, NextHostType
      DEF Quits, Fails, Arrives, Goes, Leaves, TypeOK
    <3> QED
      BY <1>1, <1>5, <2>1, <2>2, <2>3, <2>6, <3>2 DEF Restarted
  <2> QED
    BY <2>5, <2>6
<1>7. CASE h = th[s].host
  <2>1. th[s].pc \in HostSteps
    BY <1>7, HostShard DEF ThreadInv
  <2>2. ShardOf[h] = s
    BY <1>7, <2>1, HostAt
  <2>3. Goes(s) \/ Leaves(s)
    BY <1>2, <1>4, <2>1, <2>2 DEF Shape, Moves, Quits, Fails, Arrives, HostSteps
  <2>4. th'[s].pc # "done"
    BY <2>3, NextHostType DEF Goes, Leaves, HostSteps, TypeOK
  <2>5. /\ th'[s].pc \notin {"descend", "main"} => conf'[h] = cr.conf
        /\ th'[s].pc \in {"back", "launch", "tables", "ascend", "include", "next"} => Runs(h)'
        /\ th'[s].pc = "scale" => Runs(h)' \/ Spent'
        /\ th'[s].pc = "sts" => Runs(h)' \/ StatefulSetStatus(h, Desired(cr))' # "Same"
    BY <1>3, <1>4, <1>5, <1>7, <2>1, <2>2, <2>4, RunsOwn
  <2>6. CASE Goes(s)
    <3>1. Ahead(h)'
      BY <1>7, <2>2, <2>6 DEF Goes, Ahead
    <3> QED
      BY <1>1, <2>2, <2>5, <3>1 DEF Restarted, HostSteps
  <2>7. CASE Leaves(s)
    <3>1. th'[s].pc = "next" /\ th'[s].host = ""
      BY <2>7, NextHostType DEF Leaves, TypeOK
    <3> QED
      BY <1>1, <2>2, <2>5, <3>1, HostShard DEF Restarted
  <2> QED
    BY <2>3, <2>6, <2>7
<1> QED
  BY <1>6, <1>7

\* A host that is ahead has nothing to answer for yet.
LEMMA RunsShard ==
    ASSUME TypeOK, ThreadInv, errors \in Nat, RunsInv, [Next]_vars,
           NEW s \in Shards, reconcileShardWithHosts(s)
    PROVE  RunsInv'
<1>1. UNCHANGED <<pc, cr, anc, cancelled, run>> /\ failed \subseteq failed' /\ deferred \subseteq deferred'
  BY InnerFrame
<1>2. UNCHANGED <<sts, pod, conf>>
  BY DEF reconcileShardWithHosts, worldVars
<1> SUFFICES ASSUME Walks', NEW h \in Hosts, Restarting(h)'
             PROVE  Restarted(h)'
  BY DEF RunsInv
<1>3. Restarting(h) /\ ShardOf[h] \notin failed' /\ h \in cr.hosts /\ Walks
  BY <1>1 DEF Restarting, Sound, HasAncestor, Walks
<1>4. Restarted(h)
  BY <1>3 DEF RunsInv
<1>5. Ahead(h) => Ahead(h)'
  BY <1>3, AheadShard
<1>6. Runs(h)' = Runs(h) /\ (Spent => Spent')
  BY <1>1, <1>2, ErrorsCount DEF Runs
<1>7. StatefulSetStatus(h, Desired(cr))' = StatefulSetStatus(h, Desired(cr))
  BY <1>1, <1>2 DEF StatefulSetStatus, HasAncestor, Desired
<1>8. CASE ShardOf[h] # s
  <2>1. th'[ShardOf[h]] = th[ShardOf[h]]
    BY <1>8, HostShard, ThreadShard
  <2> QED
    BY <1>1, <1>2, <1>4, <1>5, <1>6, <1>7, <2>1 DEF Restarted
<1>9. CASE ShardOf[h] = s
  <2>1. th'[s].pc \in {"next", "done"}
    BY ThreadShard, IdleThreads
  <2> QED
    BY <1>1, <1>2, <1>4, <1>5, <1>6, <1>9, <2>1 DEF Restarted, HostSteps
<1> QED
  BY <1>8, <1>9

\* Outside the steps on the hosts, a pod that is up runs what it ran, or what is mounted.
LEMMA OuterRuns ==
    ASSUME TypeOK, OuterStep, NEW h \in Hosts
    PROVE  /\ conf' = conf
           /\ pod'[h] = "up" => run'[h] = conf[h] \/ (pod[h] = "up" /\ run'[h] = run[h])
           /\ pc' = "shards" => sts' = sts
<1>1. conf' = conf
  BY DEF OuterStep, reconcileCRAuxObjectsPreliminary, WalkEnds, reconcileCRAuxObjectsFinal,
     restartNewlyAddedHosts, FinalEnds, clean, finalizeReconcileAndMarkCompleted, worldVars,
     markReconcileCompletedUnsuccessfully, EditSpec, Deliver, PodStarts, vars
<1>2. pc' = "shards" => sts' = sts
  BY DEF OuterStep, reconcileCRAuxObjectsPreliminary, WalkEnds, reconcileCRAuxObjectsFinal,
     restartNewlyAddedHosts, FinalEnds, clean, finalizeReconcileAndMarkCompleted, worldVars,
     markReconcileCompletedUnsuccessfully, EditSpec, Deliver, PodStarts, vars
<1>3. \/ UNCHANGED <<pod, run>>
      \/ \E g \in Hosts : /\ run' = run \/ run' = [run EXCEPT ![g] = conf[g]]
                          /\ pod' = pod \/ pod' = [pod EXCEPT ![g] = "down"]
      \/ \E g \in Hosts : run' = [run EXCEPT ![g] = conf[g]] /\ pod' = [pod EXCEPT ![g] = "up"]
      \/ run' = run /\ \A g \in Hosts : pod'[g] \in {pod[g], "none"}
  <2>1. CASE restartNewlyAddedHosts
    BY <2>1 DEF restartNewlyAddedHosts, TypeOK, PassTypeOK
  <2>2. CASE clean
    BY <2>2 DEF clean
  <2>3. CASE \E g \in Hosts : PodStarts(g)
    BY <2>3 DEF PodStarts
  <2> QED
    BY <2>1, <2>2, <2>3 DEF OuterStep, reconcileCRAuxObjectsPreliminary, WalkEnds,
       reconcileCRAuxObjectsFinal, FinalEnds, finalizeReconcileAndMarkCompleted, worldVars,
       markReconcileCompletedUnsuccessfully, EditSpec, Deliver, vars
<1>4. pod'[h] = "up" => run'[h] = conf[h] \/ (pod[h] = "up" /\ run'[h] = run[h])
  BY <1>3 DEF TypeOK, WorldTypeOK
<1> QED
  BY <1>1, <1>2, <1>4

LEMMA RunsOuter ==
    ASSUME TypeOK, ThreadInv, AfterInv, errors \in Nat, RunsInv, [Next]_vars, OuterStep
    PROVE  RunsInv'
<1> SUFFICES ASSUME Walks', NEW h \in Hosts, Restarting(h)'
             PROVE  Restarted(h)'
  BY DEF RunsInv
<1>1. /\ UNCHANGED <<th, cr, anc, deferred>> /\ failed' \in {failed, Shards}
      /\ Walks \/ pc = "prelim"
  BY OuterFrame, OuterWalks
<1>2. ShardOf[h] \in Shards /\ h # ""
  BY HostShard
<1>3. Ahead(h)' = Ahead(h)
  BY <1>1 DEF Ahead, ToWalk
<1>4. CASE pc = "prelim"
  <2>1. Ahead(h)
    BY <1>2, <1>4 DEF AfterInv, Ahead
  <2>2. th[ShardOf[h]].host # h
    BY <1>2, <1>4 DEF AfterInv, ThreadInv, HostSteps
  <2> QED
    BY <1>1, <1>3, <2>1, <2>2 DEF Restarted
<1>5. CASE Walks
  <2>1. Restarting(h)
    BY <1>1, <1>2 DEF Restarting, Sound, HasAncestor
  <2>2. Restarted(h)
    BY <1>5, <2>1 DEF RunsInv
  <2>3. conf' = conf /\ (conf[h] = cr.conf /\ Runs(h) => Runs(h)')
    BY <1>1, OuterRuns DEF Runs
  <2>4. CASE th[ShardOf[h]].host # h
    BY <1>1, <1>3, <2>2, <2>3, <2>4 DEF Restarted
  <2>5. CASE th[ShardOf[h]].host = h
    <3> DEFINE t == th[ShardOf[h]]
    <3>1. t.pc \in HostSteps
      BY <1>2, <2>5 DEF ThreadInv
    <3>2. pc = "shards"
      BY <1>2, <3>1, HostAt
    <3>3. Ahead(h)'
      BY <1>1, <2>5 DEF Ahead
    <3>4. CASE t.pc \in {"descend", "main"}
      BY <1>1, <3>3, <3>4 DEF Restarted
    <3>5. CASE t.pc \notin {"descend", "main"}
      <4>1. conf[h] = cr.conf
        BY <2>2, <2>5, <3>1, <3>5 DEF Restarted
      <4>2. Spent => Spent'
        BY ErrorsCount
      <4>3. pc' = "shards"
        <5>1. pc' # "shards" => t.pc \in {"wait", "done"}
          BY <1>1, <1>2, ThreadRest DEF ThreadInv
        <5> QED
          BY <3>1, <5>1 DEF HostSteps
      <4>4. StatefulSetStatus(h, Desired(cr))' = StatefulSetStatus(h, Desired(cr))
        BY <1>1, <4>3, OuterRuns DEF StatefulSetStatus, HasAncestor, Desired
      <4>5. Runs(h) => Runs(h)'
        BY <2>3, <4>1
      <4> QED
        BY <1>1, <2>2, <2>3, <2>5, <3>3, <4>1, <4>2, <4>4, <4>5 DEF Restarted
    <3> QED
      BY <3>4, <3>5
  <2> QED
    BY <2>4, <2>5
<1> QED
  BY <1>1, <1>4, <1>5

(* A pass that completes has every server that it knew as running and whose *)
(* settings it changed run the new ones or none, through restarts that      *)
(* fail, pods that time out, deferrals and crashes, as long as a shutdown   *)
(* and the scale-down that stands in for it do not both fail.               *)
THEOREM RestartsDone == RestartsReliable /\ Spec => RestartsHappen
<1> DEFINE I == TypeOK /\ ThreadInv /\ AfterInv /\ RunsInv /\ errors \in Nat
           A == status # "Completed" /\ status' = "Completed" =>
                  \A h \in cr.hosts :
                     HasAncestor(h) /\ anc.mode = "run" /\ cr.conf # anc.conf /\ pod[h] = "up"
                     => run[h] = cr.conf
<1>1. Init => I
  <2> SUFFICES ASSUME Init PROVE I
    OBVIOUS
  <2>1. TypeOK /\ ThreadInv
    BY TypeInit
  <2>2. pc = "idle"
    BY DEF Init
  <2>3. errors = 0
    BY Zenon DEF Init
  <2>4. AfterInv /\ RunsInv
    BY <2>2 DEF AfterInv, RunsInv, Walks
  <2>5. errors \in Nat
    BY <2>3
  <2> QED
    BY <2>1, <2>4, <2>5
<1>2. RestartsReliable /\ I /\ [Next]_vars => I'
  <2> SUFFICES ASSUME RestartsReliable, I, [Next]_vars PROVE I'
    OBVIOUS
  <2>1. TypeOK' /\ ThreadInv'
    BY TypeStep
  <2>2. errors' \in Nat
    BY ErrorsCount
  <2>3. PassBegins \/ PassEnds \/ Restart => RunsInv'
    BY DEF PassBegins, PassEnds, Restart, RunsInv, Walks
  <2>4. RunsInv'
    BY <2>3, StepCases, RunsHostStep, RunsShard, RunsOuter
  <2> QED
    BY <2>1, <2>2, <2>4, AfterStep
<1>3. I /\ [Next]_vars => A
  <2> SUFFICES ASSUME I, [Next]_vars, status # "Completed", status' = "Completed", NEW h \in cr.hosts,
                      HasAncestor(h), anc.mode = "run", cr.conf # anc.conf, pod[h] = "up"
               PROVE  run[h] = cr.conf
    OBVIOUS
  <2>1. pc = "finalize" /\ ~cancelled
    <3>1. finalizeReconcileAndMarkCompleted
      <4>1. ~(PassBegins \/ PassEnds \/ Restart)
        BY DEF PassBegins, PassEnds, Restart, crVars
      <4>2. ~\E s \in Shards : reconcileShardWithHosts(s) \/ HostStep(s)
        BY InnerFrame
      <4>3. OuterStep
        BY <4>1, <4>2, StepCases
      <4> QED
        BY <4>3 DEF OuterStep, reconcileCRAuxObjectsPreliminary, WalkEnds,
           reconcileCRAuxObjectsFinal, restartNewlyAddedHosts, FinalEnds, clean, crVars,
           markReconcileCompletedUnsuccessfully, EditSpec, Deliver, PodStarts, vars
    <3> QED
      BY <3>1 DEF finalizeReconcileAndMarkCompleted, crVars
  <2>2. failed = {} /\ deferred = {} /\ Walks
    BY <2>1 DEF AfterInv, Walks
  <2>3. cr \in Specs
    BY DEF TypeOK, CRTypeOK
  <2>4. h \in Hosts
    BY <2>3, SpecParts
  <2>5. ShardOf[h] \in Shards /\ h # ""
    BY <2>4, HostShard
  <2>6. th[ShardOf[h]].pc = "done"
    BY <2>1, <2>2, <2>5 DEF AfterInv
  <2>7. ~Ahead(h)
    BY <2>5, <2>6 DEF Ahead, ThreadInv, HostSteps
  <2>8. Restarting(h)
    BY <2>2 DEF Restarting, Sound
  <2>9. Runs(h)
    BY <2>2, <2>4, <2>7, <2>8 DEF RunsInv, Restarted
  <2> QED
    BY <2>9 DEF Runs
<1>4. RestartsReliable => RestartsReliable'
  BY DEF RestartsReliable
<1>5. RestartsReliable /\ Spec => []I
  BY <1>1, <1>2, <1>4, PTL DEF Spec
<1>6. RestartsReliable /\ Spec => [][A]_vars
  BY <1>3, <1>5, PTL DEF Spec
<1> QED
  BY <1>6, PTL DEF RestartsHappen

=============================================================================
