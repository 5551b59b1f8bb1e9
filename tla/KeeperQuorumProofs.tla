------------------------- MODULE KeeperQuorumProofs -------------------------
(***************************************************************************)
(* The Raft majority of an ensemble of any size survives every roll: the   *)
(* unbounded counterpart of the invariant MajorityHeld.                    *)
(***************************************************************************)
EXTENDS KeeperReconcileProofs

\* The circumstances under which the operator alone is accountable for the
\* majority: a completed CR whose membership is fixed and which is never
\* stopped, and no pod or StatefulSet that fails by itself.
FixedEnsemble ==
    /\ InitKinds = {"steady"}
    /\ MaxFaults = 0
    /\ \A s \in Specs : s.members = Hosts /\ s.stop = FALSE
    /\ Cardinality(Hosts) >= 3

Q == raftQuorumSize(Cardinality(Hosts))

\* The worker passed the gate and is about to take its host down.
aboutToDisrupt ==
    \/ pc = "proceed" /\ (st # "Same" \/ shouldForceRestartHost(host, st))
    \/ pc = "apply" /\ st # "Same"

\* The majority is there, and it is still there without the host that is
\* about to go.
QuorumInv ==
    /\ anc \in Specs
    /\ Cardinality(ready) >= Q
    /\ aboutToDisrupt => Cardinality(ready \ {host}) >= Q
    /\ pc = "gate" => snap.rolling /\ snap.members = Cardinality(Hosts)
    /\ pc \in {"gate", "proceed", "apply"} => st # "Requested"

-----------------------------------------------------------------------------
(* Cardinalities                                                           *)

\* A set of hosts is finite, a larger one has no fewer members, and removing
\* a host costs at most that host.
LEMMA HostSets ==
    ASSUME NEW R, NEW S, R \subseteq S, S \subseteq Hosts, NEW h
    PROVE  /\ Cardinality(R) \in Nat /\ Cardinality(S) \in Nat
           /\ Cardinality(R) <= Cardinality(S)
           /\ Cardinality(S \ {h}) \in Nat
           /\ Cardinality(S \ {h}) >= Cardinality(S) - 1
           /\ h \notin S => S \ {h} = S
<1>1. IsFiniteSet(S) /\ IsFiniteSet(R)
  BY HostsAssumption, FS_Subset
<1>2. /\ Cardinality(R) \in Nat /\ Cardinality(S) \in Nat
      /\ Cardinality(R) <= Cardinality(S)
  BY <1>1, FS_CardinalityType, FS_Subset
<1>3. IsFiniteSet(S \ {h}) /\ Cardinality(S \ {h}) \in Nat
  BY <1>1, FS_Subset, FS_CardinalityType
<1>4. h \notin S => S \ {h} = S
  OBVIOUS
<1>5. Cardinality(S \ {h}) >= Cardinality(S) - 1
  <2>1. CASE h \in S
    BY <1>1, <1>2, <1>3, <2>1, FS_RemoveElement
  <2>2. CASE h \notin S
    BY <1>2, <1>4, <2>2
  <2> QED
    BY <2>1, <2>2
<1> QED
  BY <1>2, <1>3, <1>4, <1>5

\* The quorum of the fixed ensemble is a number, and the gate sizes against
\* the whole ensemble.
LEMMA FixedFacts ==
    ASSUME FixedEnsemble, Inv, QuorumInv
    PROVE  /\ Cardinality(Hosts) \in Nat /\ Q \in Nat
           /\ cr.members = Hosts /\ cr.stop = FALSE
           /\ ancMembers = Hosts
           /\ quorumSizingEnsemble = Hosts
           /\ countReady(Hosts) = Cardinality(ready)
           /\ ensembleHasQuorumHeadroom(Cardinality(Hosts))
           /\ hasAncestor(host)
           /\ ready \subseteq Hosts /\ Cardinality(ready) \in Nat
<1>1. Cardinality(Hosts) \in Nat
  BY HostsAssumption, FS_CardinalityType
<1>2. Q \in Nat
  BY <1>1 DEF Q, raftQuorumSize
<1>3. cr.members = Hosts /\ cr.stop = FALSE
  BY DEF FixedEnsemble, Inv, TypeOK, WalkTypeOK
<1>4. ancMembers = Hosts
  BY SpecsAssumption DEF QuorumInv, FixedEnsemble, ancMembers
<1>5. ensembleHasQuorumHeadroom(Cardinality(Hosts))
  BY DEF FixedEnsemble, ensembleHasQuorumHeadroom, raftFaultTolerantMinMembers
<1>6. quorumSizingEnsemble = Hosts
  BY <1>4, <1>5 DEF quorumSizingEnsemble
<1>7. ready \subseteq Hosts
  BY DEF Inv, TypeOK, ClusterTypeOK
<1>8. countReady(Hosts) = Cardinality(ready)
  <2>1. ready \cap Hosts = ready
    BY <1>7
  <2> QED
    BY <2>1 DEF countReady
<1>9. hasAncestor(host)
  BY <1>4 DEF hasAncestor, Inv, TypeOK, WalkTypeOK
<1>10. Cardinality(ready) \in Nat
  BY <1>7, HostSets
<1> QED
  BY <1>1, <1>2, <1>3, <1>4, <1>5, <1>6, <1>7, <1>8, <1>9, <1>10

-----------------------------------------------------------------------------
(* The gate                                                                *)

\* What the gate computes: behind it, a host that is going to be disrupted
\* leaves a majority.  cur is what the refresh read for the host.
LEMMA GateLeavesMajority ==
    ASSUME FixedEnsemble, Inv, QuorumInv,
           NEW status_ \in StsStatuses, status_ # "Requested", NEW force,
           NEW sn, sn.rolling, sn.members = Cardinality(Hosts),
           sn.readyCount = Cardinality(ready),
           NEW cur, host \in cur <=> host \in ready,
           ~hostDisruptionWouldBreakQuorum(host, status_, force, sn, cur),
           status_ # "Same" \/ shouldForceRestartHost(host, status_)
    PROVE  Cardinality(ready \ {host}) >= Q
<1>1. CASE host \notin ready
  BY <1>1, FixedFacts, HostSets DEF QuorumInv
<1>2. CASE host \in ready
  <2>1. ensembleQuorumSafeAfterDisrupt(host, sn, cur)
    BY <1>2, FixedFacts DEF hostDisruptionWouldBreakQuorum, hostContributesReady
  <2>2. Cardinality(ready) >= Q + 1
    BY <1>2, <2>1, FixedFacts
       DEF ensembleQuorumSafeAfterDisrupt, hostContributesReady, Q
  <2> QED
    BY <2>2, FixedFacts, HostSets
<1> QED
  BY <1>1, <1>2

\* The snapshot of an ensemble that has its majority calls it rolling.
LEMMA SnapshotRolls ==
    ASSUME FixedEnsemble, Inv, QuorumInv
    PROVE  /\ snapshotHostEnsemble.rolling
           /\ snapshotHostEnsemble.members = Cardinality(Hosts)
           /\ snapshotHostEnsemble.readyCount = Cardinality(ready)
BY FixedFacts DEF snapshotHostEnsemble, QuorumInv, Q

\* A refresh reads the reconciled host.
LEMMA RefreshReadsHost ==
    ASSUME Inv, RefreshCurStatefulSets, FixedEnsemble, QuorumInv
    PROVE  host \in curReady' <=> host \in ready
BY FixedFacts DEF RefreshCurStatefulSets, Inv, TypeOK, WalkTypeOK

\* A host of the ensemble is never reported as new.
LEMMA NotRequested ==
    ASSUME FixedEnsemble, Inv, QuorumInv
    PROVE  getStatefulSetStatus(host, cr, cr.stop) # "Requested"
BY FixedFacts DEF getStatefulSetStatus

-----------------------------------------------------------------------------
(* Steps                                                                   *)

\* A write takes down no more than its host.
LEMMA WriteTakesHost ==
    ASSUME Inv,
           \/ \E l : StsWritten(l)
           \/ StsScaledToZero \/ StsGone \/ StsUntouched
    PROVE  /\ ready' \subseteq ready
           /\ ready \ {host} \subseteq ready'
           /\ ready' \ {host} = ready \ {host}
BY DEF StsWritten, StsScaledToZero, StsGone, StsUntouched, stsVars

\* Clean has nothing to purge: every host is declared and registered.
LEMMA CleanKeepsAll ==
    ASSUME FixedEnsemble, Inv, QuorumInv, Clean
    PROVE  ready' = ready
<1>1. cr.members \subseteq done
  BY DEF Clean, Inv, WalkInv
<1>2. has \ done = {}
  BY <1>1, FixedFacts DEF Inv, TypeOK, ClusterTypeOK
<1> QED
  BY <1>2 DEF Clean

\* Every step keeps the majority.
LEMMA QuorumStep ==
    ASSUME FixedEnsemble, Inv, QuorumInv, Next
    PROVE  QuorumInv'
<1> USE DEF QuorumInv
<1>1. CASE Snapshot
  <2>1. PICK status_ \in StsStatuses :
           /\ status_ = getStatefulSetStatus(host, cr, cr.stop) \/ status_ = "Unknown"
           /\ \/ /\ ~ensureQuorumSafeToDisruptHost(host, status_, snapshotHostEnsemble, curReady')
                 /\ pc' = "proceed"
              \/ pc' = "gate"
           /\ st' = status_
           /\ snap' = snapshotHostEnsemble
    BY <1>1 DEF Snapshot
  <2>2. status_ # "Requested"
    BY <2>1, NotRequested
  <2>3. UNCHANGED <<anc, ready, host, cr, recreate>>
    BY <1>1 DEF Snapshot, crVars, stsVars, walkVars
  <2>4. host \in curReady' <=> host \in ready
    BY <1>1, RefreshReadsHost DEF Snapshot
  <2>5. CASE pc' = "gate"
    BY <2>1, <2>2, <2>3, <2>5, SnapshotRolls DEF aboutToDisrupt
  <2>6. CASE /\ pc' = "proceed"
             /\ ~ensureQuorumSafeToDisruptHost(host, status_, snapshotHostEnsemble, curReady')
    <3>1. ~hostDisruptionWouldBreakQuorum(host, status_, recreate, snapshotHostEnsemble, curReady')
      BY <2>6, SnapshotRolls, FixedFacts DEF ensureQuorumSafeToDisruptHost
    <3>2. shouldForceRestartHost(host, st)' <=> shouldForceRestartHost(host, status_)
      BY <2>1, <2>3 DEF shouldForceRestartHost, hasAncestor, ancMembers
    <3>3. aboutToDisrupt' => Cardinality(ready \ {host}) >= Q
      <4> SUFFICES ASSUME aboutToDisrupt' PROVE Cardinality(ready \ {host}) >= Q
        OBVIOUS
      <4>1. status_ # "Same" \/ shouldForceRestartHost(host, status_)
        BY <2>1, <2>6, <3>2 DEF aboutToDisrupt
      <4> QED
        BY <2>2, <2>4, <3>1, <4>1, SnapshotRolls, GateLeavesMajority
    <3> QED
      BY <2>1, <2>2, <2>3, <2>6, <3>3
  <2> QED
    BY <2>1, <2>5, <2>6
<1>2. CASE GatePoll
  <2>1. UNCHANGED <<anc, ready, host, cr, recreate, st>>
    BY <1>2 DEF GatePoll, crVars, stsVars, walkVars
  <2>2. /\ pc = "gate" /\ snap' = GateRefreshed
        /\ pc' = "gate" \/ (pc' = "proceed" /\ ~GateBlocks)
    BY <1>2 DEF GatePoll
  <2>3. /\ GateRefreshed.rolling /\ GateRefreshed.members = Cardinality(Hosts)
        /\ GateRefreshed.readyCount = Cardinality(ready)
    <3>1. snap \in [rolling : BOOLEAN, members : Nat, readyCount : Nat]
      BY DEF Inv, TypeOK, GateTypeOK
    <3> QED
      BY <2>2, <3>1, FixedFacts DEF GateRefreshed
  <2>4. host \in curReady' <=> host \in ready
    BY <1>2, RefreshReadsHost DEF GatePoll
  <2>5. CASE pc' = "gate"
    BY <2>1, <2>2, <2>3, <2>5 DEF aboutToDisrupt
  <2>6. CASE pc' = "proceed" /\ ~GateBlocks
    <3>1. shouldForceRestartHost(host, st)' <=> shouldForceRestartHost(host, st)
      BY <2>1 DEF shouldForceRestartHost, hasAncestor, ancMembers
    <3>2. aboutToDisrupt' => Cardinality(ready \ {host}) >= Q
      <4> SUFFICES ASSUME aboutToDisrupt' PROVE Cardinality(ready \ {host}) >= Q
        OBVIOUS
      <4>1. st # "Same" \/ shouldForceRestartHost(host, st)
        BY <2>1, <2>6, <3>1 DEF aboutToDisrupt
      <4>2. st \in StsStatuses /\ st # "Requested"
        BY <2>2 DEF Inv, TypeOK, GateTypeOK
      <4> QED
        BY <2>3, <2>4, <2>6, <4>1, <4>2, GateLeavesMajority DEF GateBlocks
    <3> QED
      BY <2>1, <2>2, <2>6, <3>2
  <2> QED
    BY <2>2, <2>5, <2>6
<1>3. CASE ForceRestart
  <2>1. /\ UNCHANGED <<anc, host>>
        /\ pc = "proceed" /\ shouldForceRestartHost(host, st) /\ pc' = "apply"
        /\ st' = "Modified"
        /\ (\E l : StsWritten(l)) \/ StsScaledToZero \/ StsGone \/ StsUntouched
    BY <1>3 DEF ForceRestart, StsWriteFails, crVars, walkVars
  <2>2. Cardinality(ready \ {host}) >= Q
    BY <2>1 DEF aboutToDisrupt
  <2>3. ready' \subseteq ready /\ ready \ {host} \subseteq ready' /\ ready' \ {host} = ready \ {host}
    BY <2>1, WriteTakesHost
  <2>4. Cardinality(ready') >= Q
    BY <2>2, <2>3, FixedFacts, HostSets
  <2> QED
    BY <2>1, <2>2, <2>3, <2>4
<1>4. CASE ApplyWrite \/ ApplyFails
  <2>1. /\ UNCHANGED anc
        /\ pc = "apply" /\ st # "Same" /\ pc' \in {"launch", "fail", "shard"}
        /\ (\E l : StsWritten(l)) \/ StsScaledToZero \/ StsGone \/ StsUntouched
    BY <1>4 DEF ApplyWrite, ApplyFails, HostFails, StsWriteFails, crVars
  <2>2. Cardinality(ready \ {host}) >= Q
    BY <2>1 DEF aboutToDisrupt
  <2>3. ready' \subseteq ready /\ ready \ {host} \subseteq ready'
    BY <2>1, WriteTakesHost
  <2>4. Cardinality(ready') >= Q
    BY <2>2, <2>3, FixedFacts, HostSets
  <2> QED
    BY <2>1, <2>4 DEF aboutToDisrupt
<1>5. CASE Clean
  BY <1>5, CleanKeepsAll DEF Clean, crVars, aboutToDisrupt
<1>6. CASE Finalize
  BY <1>6 DEF Finalize, WorkerDies, stsVars, aboutToDisrupt, Inv, TypeOK, ClusterTypeOK
<1>7. ASSUME NEW h \in Hosts, PodReady(h) PROVE QuorumInv'
  <2>1. UNCHANGED <<anc, cr, host, pc, st, snap>> /\ ready' = ready \cup {h}
    BY <1>7 DEF PodReady, crVars, passVars, walkVars, gateVars
  <2>2. /\ ready \subseteq ready' /\ ready' \subseteq Hosts
        /\ ready \ {host} \subseteq ready' \ {host}
    BY <2>1, FixedFacts
  <2>3. Cardinality(ready') >= Q
    <3>1. ready \cup {h} \subseteq Hosts
      BY FixedFacts
    <3>2. /\ Cardinality(ready \cup {h}) \in Nat
          /\ Cardinality(ready) <= Cardinality(ready \cup {h})
      BY <3>1, HostSets
    <3>3. Cardinality(ready') = Cardinality(ready \cup {h})
      BY <2>1, Zenon
    <3>4. Cardinality(ready) \in Nat /\ Q \in Nat
      BY FixedFacts
    <3> QED
      BY <3>2, <3>3, <3>4
  <2>4. aboutToDisrupt' <=> aboutToDisrupt
    BY <2>1 DEF aboutToDisrupt, shouldForceRestartHost, hasAncestor, ancMembers
  <2>5. Cardinality(ready \ {host}) >= Q => Cardinality(ready' \ {host}) >= Q
    <3>1. /\ ready \ {host} \subseteq (ready \cup {h}) \ {host}
          /\ (ready \cup {h}) \ {host} \subseteq Hosts
      BY FixedFacts
    <3>2. /\ Cardinality(ready \ {host}) \in Nat
          /\ Cardinality((ready \cup {h}) \ {host}) \in Nat
          /\ Cardinality(ready \ {host}) <= Cardinality((ready \cup {h}) \ {host})
      BY <3>1, HostSets
    <3>3. Cardinality(ready' \ {host}) = Cardinality((ready \cup {h}) \ {host})
      BY <2>1, Zenon
    <3>4. Cardinality(ready) \in Nat /\ Q \in Nat
      BY FixedFacts
    <3> QED
      BY <3>2, <3>3, <3>4
  <2> QED
    BY <2>1, <2>3, <2>4, <2>5
<1>8. ASSUME NEW h \in Hosts, PodFails(h) \/ StatefulSetLost(h) PROVE FALSE
  BY <1>8 DEF PodFails, StatefulSetLost, FixedEnsemble, Inv, TypeOK, OutcomeTypeOK
<1>9. CASE NoForceRestart
  BY <1>9 DEF NoForceRestart, crVars, stsVars, passVars, walkVars, gateVars, aboutToDisrupt
<1>10. CASE ReconcileNothing \/ ReconcileRefused \/ ReconcileStartFails \/ Shutdown \/
   (\E s \in Specs : EditSpec(s))
  <2>1. UNCHANGED <<anc, ready, cr, host, pc, st, snap>>
    BY <1>10 DEF ReconcileNothing, ReconcileRefused, ReconcileStartFails, EditSpec,
       Shutdown, crVars, stsVars, passVars, walkVars, gateVars
  <2>2. aboutToDisrupt' <=> aboutToDisrupt
    BY <2>1 DEF aboutToDisrupt, shouldForceRestartHost, hasAncestor, ancMembers
  <2> QED
    BY <2>1, <2>2
<1>11. CASE ReconcileStart \/ ReconcileAuxPreliminary \/ ShardStart \/ ShardEnd \/
   ShardsEnd \/ HostMainFails \/ HostMain \/ SnapshotFails \/ SnapshotDefers \/
   GateDefers \/ GateFails \/ ApplyNothing \/ LaunchOk \/ LaunchFails \/ AuxFinal \/
   Fail \/ FinalizeFails \/ PassCancelled \/ Crash \/ Restart \/ (\E h \in Hosts :
   HostSkipped(h) \/ HostStart(h))
  <2>1. UNCHANGED <<anc, ready>> /\ pc' \notin {"gate", "proceed", "apply"}
    BY <1>11 DEF ReconcileStart, ReconcileAuxPreliminary, ShardStart, ShardEnd,
       ShardsEnd, HostSkipped, HostStart, HostMainFails, HostMain, SnapshotFails,
       SnapshotDefers, GateDefers, GateFails, ApplyNothing, LaunchOk, LaunchFails,
       AuxFinal, Fail, FinalizeFails, PassCancelled, Crash, Restart, crVars, stsVars,
       HostSucceeds, HostDeferred, HostFails, WorkerDies
  <2> QED
    BY <2>1 DEF aboutToDisrupt
<1> QED
  BY <1>1, <1>2, <1>3, <1>4, <1>5, <1>6, <1>7, <1>8, <1>9, <1>10, <1>11
     DEF Next, WorkerNext, ClusterNext

\* A steady ensemble starts with everyone ready.
LEMMA QuorumInit ==
    ASSUME FixedEnsemble, Init
    PROVE  QuorumInv
<1>1. SteadyCluster /\ spec \in Specs /\ pc = "idle"
  BY DEF Init, FixedEnsemble
<1>2. anc \in Specs /\ ready = Hosts
  BY <1>1 DEF SteadyCluster, FixedEnsemble
<1>3. Cardinality(Hosts) >= Q
  BY HostsAssumption, FS_CardinalityType DEF Q, raftQuorumSize, FixedEnsemble
<1> QED
  BY <1>1, <1>2, <1>3 DEF QuorumInv, aboutToDisrupt

\* However many hosts, template revisions, edits, failed API calls, shutdowns
\* and crashes there are: the operator never takes an ensemble of at least
\* three members below its Raft majority (worker-raft-safety.go).
THEOREM QuorumSafe == FixedEnsemble => (Spec => []MajorityHeld)
<1> SUFFICES ASSUME FixedEnsemble PROVE Spec => []MajorityHeld
  OBVIOUS
<1>1. Init => QuorumInv
  BY QuorumInit
<1>2. Inv /\ QuorumInv /\ [Next]_vars => QuorumInv'
  <2>1. ASSUME Inv, QuorumInv, UNCHANGED vars PROVE QuorumInv'
    BY <2>1 DEF QuorumInv, aboutToDisrupt, shouldForceRestartHost, hasAncestor,
       ancMembers, vars, crVars, stsVars, passVars, walkVars, gateVars
  <2> QED
    BY <2>1, QuorumStep
<1>3. Inv /\ QuorumInv => MajorityHeld
  <2> SUFFICES ASSUME Inv, QuorumInv PROVE MajorityHeld
    OBVIOUS
  <2>1. 2 * Cardinality(ready) > Cardinality(Hosts)
    <3>1. Cardinality(ready) >= Q
      BY DEF QuorumInv
    <3>2. Cardinality(ready) \in Nat /\ Cardinality(Hosts) \in Nat
      BY FixedFacts
    <3>3. Q = Cardinality(Hosts) \div 2 + 1
      BY <3>2 DEF Q, raftQuorumSize, FixedEnsemble
    <3> QED
      BY <3>1, <3>2, <3>3
  <2>2. ancMembers = Hosts /\ ready \cap Hosts = ready
    BY FixedFacts
  <2> QED
    BY <2>1, <2>2 DEF MajorityHeld, IsMajority
<1> QED
  BY <1>1, <1>2, <1>3, Invariance, PTL DEF Spec

-----------------------------------------------------------------------------
(* With failing pods, lost StatefulSets, edits of the membership and        *)
(* ensembles of any size, the gate answers for what it saw.                 *)

\* The host the worker is at: a member the gate saw Ready, of an ensemble that
\* was rolling and can afford to lose one.
atRisk ==
    /\ snap.rolling /\ ensembleHasQuorumHeadroom(snap.members) /\ ~cr.stop
    /\ host \in quorumSizingEnsemble /\ host \in ready \ moved

\* Behind the gate a majority is left without the host, but for members whose
\* readiness changed since.
HeadroomInv ==
    /\ pc = "gate" => st # "Requested"
    /\ pc \in {"gate", "proceed", "apply"} => snap.members = Cardinality(quorumSizingEnsemble)
    /\ aboutToDisrupt /\ atRisk =>
          IsMajority((ready \ {host}) \cup moved, quorumSizingEnsemble)

\* What the sizing of an ensemble and the need to restart depend on.
LEMMA SizingFrame ==
    ASSUME UNCHANGED <<anc, cr>>
    PROVE  quorumSizingEnsemble' = quorumSizingEnsemble
BY DEF quorumSizingEnsemble, ancMembers

LEMMA RestartFrame ==
    ASSUME UNCHANGED <<anc, cr, host>>
    PROVE  shouldForceRestartHost(host, st)' <=> shouldForceRestartHost(host, st')
BY DEF shouldForceRestartHost, hasAncestor, ancMembers

\* The ensemble is a finite set of hosts.
LEMMA SizingFinite ==
    ASSUME Inv
    PROVE  quorumSizingEnsemble \subseteq Hosts /\ Cardinality(quorumSizingEnsemble) \in Nat
<1>1. quorumSizingEnsemble \subseteq Hosts
  BY SpecFields DEF Inv, TypeOK, ClusterTypeOK, WalkTypeOK, quorumSizingEnsemble, ancMembers
<1> QED
  BY <1>1, HostSets

\* A larger set has the majority a smaller one has.
LEMMA MajorityGrows ==
    ASSUME NEW R, NEW S, NEW E, R \subseteq S, E \subseteq Hosts, IsMajority(R, E)
    PROVE  IsMajority(S, E)
<1>1. R \cap E \subseteq S \cap E /\ S \cap E \subseteq Hosts
  OBVIOUS
<1>2. /\ Cardinality(R \cap E) \in Nat /\ Cardinality(S \cap E) \in Nat
      /\ Cardinality(R \cap E) <= Cardinality(S \cap E)
  BY <1>1, HostSets
<1>3. Cardinality(E) \in Nat
  BY HostSets
<1> QED
  BY <1>2, <1>3 DEF IsMajority

\* A majority with one member to spare survives the loss of one.
LEMMA MajorityToSpare ==
    ASSUME NEW R, NEW E, E \subseteq Hosts, NEW h, ensembleHasQuorumHeadroom(Cardinality(E)),
           Cardinality(R \cap E) >= raftQuorumSize(Cardinality(E)) + 1
    PROVE  IsMajority((R \ {h}) \cup {}, E)
<1>1. Cardinality(E) \in Nat /\ R \cap E \subseteq Hosts
  BY HostSets
<1>2. Cardinality(R \cap E) \in Nat /\ Cardinality((R \cap E) \ {h}) \in Nat
      /\ Cardinality((R \cap E) \ {h}) >= Cardinality(R \cap E) - 1
  BY <1>1, HostSets
<1>3. ((R \ {h}) \cup {}) \cap E = (R \cap E) \ {h}
  OBVIOUS
<1>4. Cardinality((R \cap E) \ {h}) >= Cardinality(E) \div 2 + 1
  BY <1>1, <1>2 DEF raftQuorumSize, ensembleHasQuorumHeadroom, raftFaultTolerantMinMembers
<1>5. 2 * Cardinality((R \cap E) \ {h}) > Cardinality(E)
  BY <1>1, <1>2, <1>4
<1> QED
  BY <1>3, <1>5 DEF IsMajority

\* The refresh of the gate reads the host if it is of the ensemble.
LEMMA RefreshReadsMember ==
    ASSUME Inv, RefreshCurStatefulSets, host \in quorumSizingEnsemble
    PROVE  host \in curReady' <=> host \in ready
<1>1. CASE ensembleHasQuorumHeadroom(Cardinality(ancMembers))
  BY <1>1 DEF RefreshCurStatefulSets
<1>2. CASE ~ensembleHasQuorumHeadroom(Cardinality(ancMembers))
  <2>1. host \in cr.members
    BY <1>2 DEF quorumSizingEnsemble
  <2> QED
    BY <1>2, <2>1 DEF RefreshCurStatefulSets
<1> QED
  BY <1>1, <1>2

\* Where the gate lets a Ready member go, one member is to spare.
LEMMA GateLeavesSpare ==
    ASSUME NEW status_, status_ # "Requested",
           NEW force, NEW sn, NEW cur, host \in cur, ~cr.stop,
           sn.rolling, ensembleHasQuorumHeadroom(sn.members),
           status_ # "Same" \/ shouldForceRestartHost(host, status_),
           ~hostDisruptionWouldBreakQuorum(host, status_, force, sn, cur)
    PROVE  sn.readyCount >= raftQuorumSize(sn.members) + 1
BY DEF hostDisruptionWouldBreakQuorum, hostContributesReady, ensembleQuorumSafeAfterDisrupt

\* A pod that changes is accounted for.
LEMMA MovedStep ==
    ASSUME Inv, HeadroomInv, NEW h,
           UNCHANGED <<anc, cr, host, pc, st, snap>>, moved' = sinceGate(h),
           ready' = ready \cup {h} \/ ready' = ready \ {h}
    PROVE  HeadroomInv'
<1>1. quorumSizingEnsemble' = quorumSizingEnsemble
  BY SizingFrame
<1>2. aboutToDisrupt' <=> aboutToDisrupt
  BY RestartFrame DEF aboutToDisrupt
<1>3. ASSUME aboutToDisrupt', atRisk'
      PROVE  IsMajority((ready' \ {host'}) \cup moved', quorumSizingEnsemble')
  <2>1. moved' = moved \cup {h}
    BY <1>2, <1>3 DEF aboutToDisrupt, sinceGate
  <2>2. aboutToDisrupt /\ atRisk
    BY <1>1, <1>2, <1>3, <2>1 DEF atRisk
  <2>3. IsMajority((ready \ {host}) \cup moved, quorumSizingEnsemble)
    BY <2>2 DEF HeadroomInv
  <2>4. (ready \ {host}) \cup moved \subseteq (ready' \ {host}) \cup moved'
    BY <2>1
  <2>5. IsMajority((ready' \ {host}) \cup moved', quorumSizingEnsemble)
    BY <2>3, <2>4, SizingFinite, MajorityGrows
  <2> QED
    BY <1>1, <2>5
<1> QED
  BY <1>1, <1>3 DEF HeadroomInv

\* A step that changes neither the ensemble nor the pods.
LEMMA HeadroomFrame ==
    ASSUME HeadroomInv, UNCHANGED <<anc, cr, host, pc, st, snap, ready, moved>>
    PROVE  HeadroomInv'
<1>1. quorumSizingEnsemble' = quorumSizingEnsemble
  BY SizingFrame
<1>2. aboutToDisrupt' <=> aboutToDisrupt
  BY RestartFrame DEF aboutToDisrupt
<1> QED
  BY <1>1, <1>2 DEF HeadroomInv, atRisk

\* The gate opens, at its first look or after a wait.
LEMMA GateOpens ==
    ASSUME Inv, RefreshCurStatefulSets, UNCHANGED <<anc, cr, host, ready>>, moved' = {},
           st' = "Requested" => host \notin ready,
           snap'.members = Cardinality(quorumSizingEnsemble),
           snap'.readyCount = countReady(quorumSizingEnsemble),
           pc' = "proceed",
           snap'.rolling /\ ensembleHasQuorumHeadroom(snap'.members) =>
              ~hostDisruptionWouldBreakQuorum(host, st', recreate, snap', curReady')
    PROVE  HeadroomInv'
<1>1. quorumSizingEnsemble' = quorumSizingEnsemble
  BY SizingFrame
<1>2. ASSUME aboutToDisrupt', atRisk'
      PROVE  IsMajority((ready' \ {host'}) \cup moved', quorumSizingEnsemble')
  <2>1. st' # "Same" \/ shouldForceRestartHost(host, st')
    BY <1>2, RestartFrame DEF aboutToDisrupt
  <2>2. /\ snap'.rolling /\ ensembleHasQuorumHeadroom(snap'.members) /\ ~cr.stop
        /\ host \in quorumSizingEnsemble /\ host \in ready
    BY <1>1, <1>2 DEF atRisk
  <2>3. host \in curReady' /\ st' # "Requested"
    BY <2>2, RefreshReadsMember
  <2>4. snap'.readyCount >= raftQuorumSize(snap'.members) + 1
    BY <2>1, <2>2, <2>3, GateLeavesSpare
  <2>5. Cardinality(ready \cap quorumSizingEnsemble) >=
           raftQuorumSize(Cardinality(quorumSizingEnsemble)) + 1
    BY <2>4 DEF countReady
  <2>6. IsMajority((ready \ {host}) \cup {}, quorumSizingEnsemble)
    BY <2>2, <2>5, SizingFinite, MajorityToSpare
  <2> QED
    BY <1>1, <2>6
<1> QED
  BY <1>1, <1>2 DEF HeadroomInv

\* Every step keeps what the gate answers for.
LEMMA HeadroomStep ==
    ASSUME Inv, HeadroomInv, [Next]_vars
    PROVE  HeadroomInv'
<1>1. CASE Snapshot
  <2>1. PICK status_ \in StsStatuses :
           /\ status_ = getStatefulSetStatus(host, cr, cr.stop) \/ status_ = "Unknown"
           /\ \/ /\ ~ensureQuorumSafeToDisruptHost(host, status_, snapshotHostEnsemble, curReady')
                 /\ pc' = "proceed"
              \/ /\ ensureQuorumSafeToDisruptHost(host, status_, snapshotHostEnsemble, curReady')
                 /\ pc' = "gate"
           /\ st' = status_
           /\ snap' = snapshotHostEnsemble
    BY <1>1 DEF Snapshot
  <2>2. UNCHANGED <<anc, ready, host, cr, recreate>> /\ moved' = {} /\ RefreshCurStatefulSets
    BY <1>1 DEF Snapshot, crVars, stsVars, walkVars
  <2>3. /\ snap'.members = Cardinality(quorumSizingEnsemble)
        /\ snap'.readyCount = countReady(quorumSizingEnsemble)
    BY <2>1 DEF snapshotHostEnsemble
  <2>4. quorumSizingEnsemble' = quorumSizingEnsemble
    BY <2>2, SizingFrame
  <2>5. CASE pc' = "gate"
    <3>1. st' # "Requested"
      BY <2>1, <2>5 DEF ensureQuorumSafeToDisruptHost, hostDisruptionWouldBreakQuorum
    <3>2. ~aboutToDisrupt'
      BY <2>5 DEF aboutToDisrupt
    <3> QED
      BY <2>3, <2>4, <3>1, <3>2 DEF HeadroomInv
  <2>6. CASE pc' = "proceed"
    <3>1. st' = "Requested" => host \notin ready
      BY <2>1 DEF getStatefulSetStatus, Inv, TypeOK, ClusterTypeOK
    <3>2. snap'.rolling /\ ensembleHasQuorumHeadroom(snap'.members) =>
             ~hostDisruptionWouldBreakQuorum(host, st', recreate, snap', curReady')
      BY <2>1, <2>6 DEF ensureQuorumSafeToDisruptHost
    <3> QED
      BY <2>2, <2>3, <2>6, <3>1, <3>2, GateOpens
  <2> QED
    BY <2>1, <2>5, <2>6
<1>2. CASE GatePoll
  <2>1. /\ UNCHANGED <<anc, ready, host, cr, recreate, st>> /\ moved' = {}
        /\ RefreshCurStatefulSets
    BY <1>2 DEF GatePoll, crVars, stsVars, walkVars
  <2>2. /\ pc = "gate" /\ snap' = GateRefreshed
        /\ pc' = "gate" \/ (pc' = "proceed" /\ ~GateBlocks)
    BY <1>2 DEF GatePoll
  <2>3. /\ snap'.members = Cardinality(quorumSizingEnsemble)
        /\ snap'.readyCount = countReady(quorumSizingEnsemble)
    <3>1. snap \in [rolling : BOOLEAN, members : Nat, readyCount : Nat]
      BY DEF Inv, TypeOK, GateTypeOK
    <3>2. snap.members = Cardinality(quorumSizingEnsemble)
      BY <2>2 DEF HeadroomInv
    <3> QED
      BY <2>2, <3>1, <3>2 DEF GateRefreshed
  <2>4. quorumSizingEnsemble' = quorumSizingEnsemble
    BY <2>1, SizingFrame
  <2>5. st' # "Requested"
    BY <2>1, <2>2 DEF HeadroomInv
  <2>6. CASE pc' = "gate"
    <3>1. ~aboutToDisrupt'
      BY <2>6 DEF aboutToDisrupt
    <3> QED
      BY <2>3, <2>4, <2>5, <3>1 DEF HeadroomInv
  <2>7. CASE pc' = "proceed" /\ ~GateBlocks
    <3>1. ~hostDisruptionWouldBreakQuorum(host, st', recreate, snap', curReady')
      BY <2>1, <2>2, <2>7 DEF GateBlocks
    <3> QED
      BY <2>1, <2>3, <2>5, <2>7, <3>1, GateOpens
  <2> QED
    BY <2>2, <2>6, <2>7
<1>3. CASE ForceRestart
  <2>1. /\ UNCHANGED <<anc, cr, host, snap, moved>>
        /\ pc = "proceed" /\ shouldForceRestartHost(host, st) /\ pc' = "apply"
        /\ (\E l : StsWritten(l)) \/ StsScaledToZero \/ StsGone \/ StsUntouched
    BY <1>3 DEF ForceRestart, StsWriteFails, crVars, walkVars
  <2>2. ready' \subseteq ready /\ ready' \ {host} = ready \ {host}
    BY <2>1, WriteTakesHost
  <2>3. quorumSizingEnsemble' = quorumSizingEnsemble
    BY <2>1, SizingFrame
  <2>4. aboutToDisrupt /\ (atRisk' => atRisk)
    BY <2>1, <2>2, <2>3 DEF aboutToDisrupt, atRisk
  <2> QED
    BY <2>1, <2>2, <2>3, <2>4 DEF HeadroomInv
<1>4. CASE NoForceRestart
  <2>1. /\ UNCHANGED <<anc, cr, host, snap, moved, ready, st>>
        /\ pc = "proceed" /\ pc' = "apply"
    BY <1>4 DEF NoForceRestart, crVars, stsVars, passVars, walkVars, gateVars
  <2>2. quorumSizingEnsemble' = quorumSizingEnsemble
    BY <2>1, SizingFrame
  <2>3. (aboutToDisrupt' => aboutToDisrupt) /\ (atRisk' => atRisk)
    BY <2>1, <2>2 DEF aboutToDisrupt, atRisk
  <2> QED
    BY <2>1, <2>2, <2>3 DEF HeadroomInv
<1>5. ASSUME NEW h \in Hosts, PodReady(h) \/ PodFails(h) \/ StatefulSetLost(h)
      PROVE  HeadroomInv'
  <2>1. /\ UNCHANGED <<anc, cr, host, pc, st, snap>> /\ moved' = sinceGate(h)
        /\ ready' = ready \cup {h} \/ ready' = ready \ {h}
    BY <1>5 DEF PodReady, PodFails, StatefulSetLost, crVars, passVars, walkVars, gateVars
  <2> QED
    BY <2>1, MovedStep
<1>6. CASE ReconcileNothing \/ ReconcileRefused \/ ReconcileStartFails \/ Shutdown \/
   (\E s \in Specs : EditSpec(s)) \/ UNCHANGED vars
  <2>1. UNCHANGED <<anc, cr, host, pc, st, snap, ready, moved>>
    BY <1>6 DEF ReconcileNothing, ReconcileRefused, ReconcileStartFails, EditSpec,
       Shutdown, crVars, stsVars, passVars, walkVars, gateVars, vars
  <2> QED
    BY <2>1, HeadroomFrame
<1>7. ASSUME pc' \notin {"gate", "proceed", "apply"} PROVE HeadroomInv'
  BY <1>7 DEF HeadroomInv, aboutToDisrupt
<1>8. CASE ReconcileStart \/ ReconcileAuxPreliminary \/ ShardStart \/ ShardEnd \/
   ShardsEnd \/ HostMainFails \/ HostMain \/ SnapshotFails \/ SnapshotDefers \/
   GateDefers \/ GateFails \/ ApplyNothing \/ ApplyWrite \/ ApplyFails \/ LaunchOk \/
   LaunchFails \/ AuxFinal \/ Fail \/ Clean \/ Finalize \/ FinalizeFails \/ PassCancelled \/
   Crash \/ Restart \/ (\E h \in Hosts : HostSkipped(h) \/ HostStart(h))
  BY <1>7, <1>8 DEF ReconcileStart, ReconcileAuxPreliminary, ShardStart, ShardEnd,
     ShardsEnd, HostSkipped, HostStart, HostMainFails, HostMain, SnapshotFails,
     SnapshotDefers, GateDefers, GateFails, ApplyNothing, ApplyWrite, ApplyFails, LaunchOk,
     LaunchFails, AuxFinal, Fail, Clean, Finalize, FinalizeFails, PassCancelled, Crash,
     Restart, HostSucceeds, HostDeferred, HostFails, WorkerDies
<1> QED
  BY <1>1, <1>2, <1>3, <1>4, <1>5, <1>6, <1>8 DEF Next, WorkerNext, ClusterNext

\* A worker's step that takes its own host down is a restart or a write, and
\* takes down nothing else.
LEMMA DisruptingStep ==
    ASSUME Inv, Next, pc \in {"proceed", "apply"}, pc' # pc, ready' # ready
    PROVE  aboutToDisrupt /\ ready \ {host} \subseteq ready'
<1>1. ForceRestart \/ ApplyWrite \/ ApplyFails
  BY DEF Next, WorkerNext, ClusterNext, ReconcileNothing, ReconcileRefused,
     ReconcileStartFails, ReconcileStart, ReconcileAuxPreliminary, ShardStart, ShardEnd,
     ShardsEnd, HostSkipped, HostStart, HostMainFails, HostMain, SnapshotFails, Snapshot,
     SnapshotDefers, GatePoll, GateDefers, GateFails, NoForceRestart, ApplyNothing, LaunchOk,
     LaunchFails, AuxFinal, Fail, Clean, Finalize, FinalizeFails, PassCancelled, PodReady,
     PodFails, StatefulSetLost, EditSpec, Shutdown, Crash, Restart, stsVars
<1>2. aboutToDisrupt
  BY <1>1 DEF ForceRestart, ApplyWrite, ApplyFails, aboutToDisrupt
<1>3. (\E l : StsWritten(l)) \/ StsScaledToZero \/ StsGone \/ StsUntouched
  BY <1>1 DEF ForceRestart, ApplyWrite, ApplyFails, StsWriteFails
<1> QED
  BY <1>2, <1>3, WriteTakesHost

\* Whatever fails meanwhile, for ensembles of any size whose membership may
\* change between passes, shrink below three and grow again: when the worker
\* takes down a member of a rolling ensemble that the gate saw Ready, a majority
\* is left but for members whose readiness changed after the gate's last look
\* (ensureQuorumSafeToDisruptHost).
THEOREM DisruptionsAccounted == Spec => DisruptAccounted
<1>1. Init => HeadroomInv
  BY DEF Init, HeadroomInv, aboutToDisrupt
<1>2. Inv /\ HeadroomInv /\ [Next]_vars => HeadroomInv'
  BY HeadroomStep
<1>3. Inv /\ HeadroomInv /\ [Next]_vars => [DisruptsWithHeadroom]_vars
  <2> SUFFICES ASSUME Inv, HeadroomInv, Next,
                      pc \in {"proceed", "apply"}, pc' # pc,
                      host \in (ready \ ready') \ moved,
                      snap.rolling, ensembleHasQuorumHeadroom(snap.members), ~cr.stop,
                      host \in quorumSizingEnsemble
               PROVE  IsMajority(ready' \cup moved, quorumSizingEnsemble)
    BY DEF DisruptsWithHeadroom
  <2>1. aboutToDisrupt /\ ready \ {host} \subseteq ready'
    BY DisruptingStep
  <2>2. IsMajority((ready \ {host}) \cup moved, quorumSizingEnsemble)
    BY <2>1 DEF HeadroomInv, atRisk
  <2>3. (ready \ {host}) \cup moved \subseteq ready' \cup moved
    BY <2>1
  <2> QED
    BY <2>2, <2>3, SizingFinite, MajorityGrows
<1> QED
  BY <1>1, <1>2, <1>3, Invariance, PTL DEF Spec, DisruptAccounted

=============================================================================
