----------------------- MODULE KeeperReconcileProofs -----------------------
(***************************************************************************)
(* Proofs about KeeperReconcile for every set of hosts, every set of       *)
(* specifications and every bound.                                         *)
(***************************************************************************)
EXTENDS KeeperReconcile, FiniteSetTheorems, TLAPS

-----------------------------------------------------------------------------
(* The inductive invariant                                                 *)

HostPCs == {"main", "snapshot", "gate", "proceed", "apply", "launch"}

\* The walk starts at the first shard, while hosts are walked the shard exists,
\* and while the gate waits there is budget left.
ControlInv ==
    /\ pc = "aux" => shard = 1
    /\ pc \in HostPCs \cup {"pick"} => shard <= NShards
    /\ pc = "gate" => spent < WaitBudget

\* Unless something was deferred, failed or cancelled, every declared host of
\* the shards behind is registered, and of the current shard all but those
\* still to come.
WalkInv ==
    /\ (pc \in HostPCs \cup {"shard", "pick"} /\ ~hard /\ ~deferred /\ ~ctxDone) =>
          \A h \in cr.members : ShardOf[h] < shard => h \in done
    /\ (pc \in HostPCs \cup {"pick"} /\ ~hard /\ ~deferred /\ ~ctxDone) =>
          \A h \in cr.members : ShardOf[h] = shard => h \in done \cup todo
    /\ (pc \in {"final", "clean", "finalize"} /\ ~ctxDone) => cr.members \subseteq done

Inv == TypeOK /\ ControlInv /\ WalkInv

-----------------------------------------------------------------------------
(* Lemmas about the operators                                              *)

\* A specification declares hosts and a template and nothing outside their types.
LEMMA SpecFields ==
    ASSUME NEW s \in Specs
    PROVE  /\ s.members \subseteq Hosts
           /\ IsFiniteSet(s.members)
           /\ s.tmpl \in Tmpls
           /\ s.stop \in BOOLEAN
<1>1. s.members \subseteq Hosts /\ s.tmpl \in Tmpls /\ s.stop \in BOOLEAN
  BY SpecsAssumption DEF SpecType
<1>2. IsFiniteSet(s.members)
  BY <1>1, HostsAssumption, FS_Subset
<1> QED
  BY <1>1, <1>2

\* The object version a pass wants is an object version.
LEMMA LabelTyped ==
    ASSUME NEW s \in Specs, NEW off \in BOOLEAN
    PROVE  desiredLabel(s, off) \in LabelType
BY SpecFields DEF desiredLabel, LabelType

\* The snapshot of an ensemble is a snapshot.
LEMMA SnapshotTyped ==
    ASSUME TypeOK
    PROVE  /\ snapshotHostEnsemble \in [rolling : BOOLEAN, members : Nat, readyCount : Nat]
           /\ countReady(quorumSizingEnsemble) \in Nat
<1>1. quorumSizingEnsemble \subseteq Hosts
  BY SpecFields DEF TypeOK, ClusterTypeOK, WalkTypeOK, quorumSizingEnsemble, ancMembers
<1>2. /\ Cardinality(quorumSizingEnsemble) \in Nat
      /\ Cardinality(ready \cap quorumSizingEnsemble) \in Nat
  BY <1>1, HostsAssumption, FS_Subset, FS_CardinalityType
     DEF TypeOK, ClusterTypeOK
<1> QED
  BY <1>2 DEF snapshotHostEnsemble, countReady

\* The status of a StatefulSet is one of the four.
LEMMA StatusTyped ==
    ASSUME NEW h, NEW s, NEW off
    PROVE  getStatefulSetStatus(h, s, off) \in StsStatuses
BY DEF getStatefulSetStatus, StsStatuses

-----------------------------------------------------------------------------
(* Initial states and steps                                                *)

\* Every initial state satisfies the invariant.
LEMMA InitInv == Init => Inv
<1> SUFFICES ASSUME Init PROVE Inv
  OBVIOUS
<1>1. TypeOK
  <2>1. label \in [Hosts -> LabelType]
    BY LabelTyped, SpecFields DEF Init
  <2>2. spec \in Specs
    BY DEF Init
  <2>3. ClusterTypeOK
    <3>1. CASE FreshCluster
      BY <2>1, <2>2, <3>1 DEF FreshCluster, ClusterTypeOK
    <3>2. CASE SteadyCluster
      BY <2>1, <2>2, <3>2, SpecFields DEF SteadyCluster, ClusterTypeOK
    <3> QED
      BY <3>1, <3>2 DEF Init
  <2>4. WalkTypeOK
    BY OrderAssumption DEF Init, WalkTypeOK, PCs
  <2>5. GateTypeOK
    BY BoundsAssumption DEF Init, GateTypeOK, NoSnap, StsStatuses
  <2>6. OutcomeTypeOK
    BY BoundsAssumption DEF Init, OutcomeTypeOK
  <2>7. FlagsTypeOK
    BY DEF Init, FlagsTypeOK
  <2> QED
    BY <2>3, <2>4, <2>5, <2>6, <2>7 DEF TypeOK
<1>2. ControlInv /\ WalkInv
  BY DEF Init, ControlInv, WalkInv, HostPCs
<1> QED
  BY <1>1, <1>2 DEF Inv

-----------------------------------------------------------------------------
(* One step, one lemma per part of the invariant                           *)

\* Every way a write can end leaves well-typed StatefulSets.
LEMMA StsWriteTyped ==
    ASSUME Inv,
           \/ \E s \in Specs, off \in BOOLEAN : StsWritten(desiredLabel(s, off))
           \/ StsScaledToZero \/ StsGone \/ StsUntouched
    PROVE  /\ has' \subseteq Hosts /\ up' \subseteq has' /\ ready' \subseteq up'
           /\ label' \in [Hosts -> LabelType]
<1>1. ASSUME NEW s \in Specs, NEW off \in BOOLEAN, StsWritten(desiredLabel(s, off))
      PROVE  /\ has' \subseteq Hosts /\ up' \subseteq has' /\ ready' \subseteq up'
             /\ label' \in [Hosts -> LabelType]
  <2>1. desiredLabel(s, off) \in LabelType
    BY LabelTyped
  <2> QED
    BY <1>1, <2>1 DEF StsWritten, Inv, TypeOK, ClusterTypeOK, WalkTypeOK
<1>2. CASE StsScaledToZero \/ StsGone \/ StsUntouched
  BY <1>2 DEF StsScaledToZero, StsGone, StsUntouched, stsVars, Inv, TypeOK, ClusterTypeOK
<1> QED
  BY <1>1, <1>2

\* The objects on the API server stay well typed.
LEMMA ClusterStep ==
    ASSUME Inv, Next
    PROVE  ClusterTypeOK'
<1>1. CASE ReconcileRefused
  BY <1>1 DEF ReconcileRefused, Inv, TypeOK, ClusterTypeOK, crVars, stsVars
<1>2. CASE ReconcileStart
  BY <1>2 DEF ReconcileStart, Inv, TypeOK, ClusterTypeOK, crVars, stsVars
<1>3. CASE ReconcileAuxPreliminary
  BY <1>3 DEF ReconcileAuxPreliminary, Inv, TypeOK, ClusterTypeOK, crVars, stsVars,
     PublishBestEffort, WalkTypeOK
<1>4. ASSUME NEW h \in Hosts, HostStart(h) PROVE ClusterTypeOK'
  BY <1>4 DEF HostStart, Inv, TypeOK, ClusterTypeOK, crVars, stsVars,
     PublishBestEffort, WalkTypeOK
<1>5. CASE ForceRestart
  <2>1. cr \in Specs /\ cr.stop \in BOOLEAN
    BY SpecFields DEF Inv, TypeOK, WalkTypeOK
  <2>2. \/ \E s \in Specs, off \in BOOLEAN : StsWritten(desiredLabel(s, off))
        \/ StsScaledToZero \/ StsGone \/ StsUntouched
    BY <1>5, <2>1 DEF ForceRestart, StsWriteFails
  <2>3. UNCHANGED crVars
    BY <1>5 DEF ForceRestart
  <2> QED
    BY <2>2, <2>3, StsWriteTyped DEF Inv, TypeOK, ClusterTypeOK, crVars
<1>6. CASE ApplyWrite
  <2>1. cr \in Specs /\ cr.stop \in BOOLEAN
    BY SpecFields DEF Inv, TypeOK, WalkTypeOK
  <2>2. \/ \E s \in Specs, off \in BOOLEAN : StsWritten(desiredLabel(s, off))
        \/ StsScaledToZero \/ StsGone \/ StsUntouched
    BY <1>6, <2>1 DEF ApplyWrite, StsWriteFails
  <2>3. UNCHANGED crVars
    BY <1>6 DEF ApplyWrite
  <2> QED
    BY <2>2, <2>3, StsWriteTyped DEF Inv, TypeOK, ClusterTypeOK, crVars
<1>7. CASE ApplyFails
  <2>1. cr \in Specs /\ cr.stop \in BOOLEAN
    BY SpecFields DEF Inv, TypeOK, WalkTypeOK
  <2>2. \/ \E s \in Specs, off \in BOOLEAN : StsWritten(desiredLabel(s, off))
        \/ StsScaledToZero \/ StsGone \/ StsUntouched
    BY <1>7, <2>1 DEF ApplyFails, StsWriteFails
  <2>3. UNCHANGED crVars
    BY <1>7 DEF ApplyFails
  <2> QED
    BY <2>2, <2>3, StsWriteTyped DEF Inv, TypeOK, ClusterTypeOK, crVars
<1>8. CASE AuxFinal
  BY <1>8 DEF AuxFinal, Inv, TypeOK, ClusterTypeOK, crVars, stsVars, WalkTypeOK
<1>9. CASE Fail
  BY <1>9 DEF Fail, Inv, TypeOK, ClusterTypeOK, crVars, stsVars
<1>10. CASE Clean
  BY <1>10 DEF Clean, Inv, TypeOK, ClusterTypeOK, crVars, stsVars
<1>11. CASE Finalize
  BY <1>11 DEF Finalize, Inv, TypeOK, ClusterTypeOK, crVars, stsVars
<1>12. ASSUME NEW h \in Hosts, PodReady(h) PROVE ClusterTypeOK'
  BY <1>12 DEF PodReady, Inv, TypeOK, ClusterTypeOK, crVars, stsVars
<1>13. ASSUME NEW h \in Hosts, PodFails(h) PROVE ClusterTypeOK'
  BY <1>13 DEF PodFails, Inv, TypeOK, ClusterTypeOK, crVars, stsVars
<1>14. ASSUME NEW h \in Hosts, StatefulSetLost(h) PROVE ClusterTypeOK'
  BY <1>14 DEF StatefulSetLost, Inv, TypeOK, ClusterTypeOK, crVars, stsVars
<1>15. ASSUME NEW s \in Specs, EditSpec(s) PROVE ClusterTypeOK'
  BY <1>15 DEF EditSpec, Inv, TypeOK, ClusterTypeOK, crVars, stsVars
<1>16. CASE ReconcileNothing \/ ReconcileStartFails \/ ShardStart \/ ShardEnd \/
   ShardsEnd \/ HostMainFails \/ HostMain \/ SnapshotFails \/ Snapshot \/
   SnapshotDefers \/ GatePoll \/ GateDefers \/ GateFails \/ NoForceRestart \/
   ApplyNothing \/ LaunchOk \/ LaunchFails \/ FinalizeFails \/ PassCancelled \/
   Shutdown \/ Crash \/ Restart \/ (\E h \in Hosts : HostSkipped(h))
  BY <1>16 DEF ReconcileNothing, ReconcileStartFails, ShardStart, ShardEnd, ShardsEnd,
     HostSkipped, HostMainFails, HostMain, SnapshotFails, Snapshot, SnapshotDefers,
     GatePoll, GateDefers, GateFails, NoForceRestart, ApplyNothing, LaunchOk,
     LaunchFails, FinalizeFails, PassCancelled, Shutdown, Crash, Restart, Inv, TypeOK,
     ClusterTypeOK, crVars, stsVars
<1> QED
  BY <1>1, <1>2, <1>3, <1>4, <1>5, <1>6, <1>7, <1>8, <1>9, <1>10, <1>11, <1>12, <1>13,
     <1>14, <1>15, <1>16 DEF Next, WorkerNext, ClusterNext

\* The walk over shards and hosts stays well typed.
LEMMA WalkStep ==
    ASSUME Inv, Next
    PROVE  WalkTypeOK'
<1>1. CASE ReconcileStart
  BY <1>1, OrderAssumption DEF ReconcileStart, Inv, TypeOK, WalkTypeOK, PCs,
     ClusterTypeOK
<1>2. CASE ReconcileAuxPreliminary
  BY <1>2 DEF ReconcileAuxPreliminary, Inv, TypeOK, WalkTypeOK, PCs, passVars,
     walkVars
<1>3. CASE ShardStart
  BY <1>3, SpecFields DEF ShardStart, Inv, TypeOK, WalkTypeOK, PCs, shardHosts
<1>4. CASE ShardEnd
  BY <1>4, OrderAssumption DEF ShardEnd, Inv, TypeOK, WalkTypeOK, PCs, ControlInv,
     HostPCs
<1>5. CASE ShardsEnd
  BY <1>5 DEF ShardsEnd, Inv, TypeOK, WalkTypeOK, PCs, passVars, walkVars
<1>6. ASSUME NEW h \in Hosts, HostSkipped(h) PROVE WalkTypeOK'
  BY <1>6 DEF HostSkipped, Inv, TypeOK, WalkTypeOK, PCs
<1>7. ASSUME NEW h \in Hosts, HostStart(h) PROVE WalkTypeOK'
  BY <1>7 DEF HostStart, Inv, TypeOK, WalkTypeOK, PCs
<1>8. CASE HostMainFails \/ SnapshotFails \/ GateFails \/ ApplyFails \/ LaunchFails
  BY <1>8, OrderAssumption DEF HostMainFails, SnapshotFails, GateFails, ApplyFails,
     LaunchFails, Inv, TypeOK, WalkTypeOK, PCs, HostFails, HostLocalsDie, ControlInv,
     HostPCs
<1>9. CASE ApplyNothing \/ LaunchOk \/ SnapshotDefers \/ GateDefers
  BY <1>9 DEF ApplyNothing, LaunchOk, SnapshotDefers, GateDefers, Inv, TypeOK,
     WalkTypeOK, PCs, HostSucceeds, HostDeferred, HostLocalsDie
<1>10. CASE Fail \/ Finalize \/ FinalizeFails \/ PassCancelled \/ Crash \/ Restart
  BY <1>10, OrderAssumption DEF Fail, Finalize, FinalizeFails, PassCancelled, Crash,
     Restart, Inv, TypeOK, WalkTypeOK, PCs, WorkerDies
<1>11. CASE HostMain \/ Snapshot \/ GatePoll \/ ForceRestart \/ NoForceRestart \/
   ApplyWrite \/ AuxFinal \/ Clean
  BY <1>11 DEF HostMain, Snapshot, GatePoll, ForceRestart, NoForceRestart, ApplyWrite,
     AuxFinal, Clean, Inv, TypeOK, WalkTypeOK, PCs, walkVars, passVars
<1>12. CASE ReconcileNothing \/ ReconcileRefused \/ ReconcileStartFails \/ Shutdown \/
   (\E h \in Hosts : PodReady(h) \/ PodFails(h) \/ StatefulSetLost(h)) \/ (\E s \in
   Specs : EditSpec(s))
  BY <1>12 DEF ReconcileNothing, ReconcileRefused, ReconcileStartFails, PodReady,
     PodFails, StatefulSetLost, EditSpec, Shutdown, Inv, TypeOK, WalkTypeOK, PCs,
     passVars, walkVars
<1> QED
  BY <1>1, <1>2, <1>3, <1>4, <1>5, <1>6, <1>7, <1>8, <1>9, <1>10, <1>11, <1>12 DEF
     Next, WorkerNext, ClusterNext

\* The gate's state stays well typed and the wait budget is not overdrawn.
LEMMA GateStep ==
    ASSUME Inv, Next
    PROVE  GateTypeOK'
<1>1. CASE ReconcileStart
  BY <1>1, SpecFields, BoundsAssumption DEF ReconcileStart, Inv, TypeOK, GateTypeOK,
     curVars, gateVars, passVars, ClusterTypeOK
<1>2. CASE Snapshot
  BY <1>2, SnapshotTyped, StatusTyped, SpecFields DEF Snapshot, Inv, TypeOK,
     GateTypeOK, curVars, gateVars, passVars, RefreshCurStatefulSets,
     prepareStsReconcileOptsWaitSection, WalkTypeOK, ClusterTypeOK
<1>3. CASE SnapshotDefers
  BY <1>3, SpecFields DEF SnapshotDefers, Inv, TypeOK, GateTypeOK, curVars, gateVars,
     passVars, RefreshCurStatefulSets, WalkTypeOK, ClusterTypeOK, HostDeferred,
     HostLocalsDie, NoSnap, StsStatuses
<1>4. CASE GatePoll
  BY <1>4, SnapshotTyped, SpecFields, BoundsAssumption DEF GatePoll, Inv, TypeOK,
     GateTypeOK, curVars, gateVars, passVars, RefreshCurStatefulSets, GateRefreshed,
     WalkTypeOK, ClusterTypeOK, ControlInv
<1>5. CASE GateDefers
  BY <1>5, SpecFields, BoundsAssumption DEF GateDefers, Inv, TypeOK, GateTypeOK,
     curVars, gateVars, passVars, RefreshCurStatefulSets, WalkTypeOK, ClusterTypeOK,
     ControlInv, HostDeferred, HostLocalsDie, NoSnap, StsStatuses
<1>6. CASE ForceRestart
  BY <1>6 DEF ForceRestart, Inv, TypeOK, GateTypeOK, curVars, gateVars, passVars,
     StsStatuses
<1>7. CASE HostMainFails \/ SnapshotFails \/ GateFails \/ ApplyFails \/ LaunchFails \/
   ApplyNothing \/ LaunchOk
  <2>1. /\ UNCHANGED <<curReady, curNil, spent>>
        /\ snap' = NoSnap /\ st' = "Unknown" /\ waits' = {}
    BY <1>7 DEF HostMainFails, SnapshotFails, GateFails, ApplyFails, LaunchFails,
       ApplyNothing, LaunchOk, HostFails, HostSucceeds, HostLocalsDie, curVars
  <2> QED
    BY <2>1 DEF Inv, TypeOK, GateTypeOK, NoSnap, StsStatuses
<1>8. CASE Fail \/ Finalize \/ FinalizeFails \/ PassCancelled \/ Crash \/ Restart
  <2>1. /\ curReady' = {} /\ curNil' = {} /\ spent' = 0
        /\ snap' = NoSnap /\ st' = "Unknown" /\ waits' = {}
    BY <1>8 DEF Fail, Finalize, FinalizeFails, PassCancelled, Crash, Restart, WorkerDies
  <2> QED
    BY <2>1, BoundsAssumption DEF GateTypeOK, NoSnap, StsStatuses
<1>9. CASE ReconcileNothing \/ ReconcileRefused \/ ReconcileStartFails \/
   ReconcileAuxPreliminary \/ ShardStart \/ ShardEnd \/ ShardsEnd \/ HostMain \/
   NoForceRestart \/ ApplyWrite \/ AuxFinal \/ Clean \/ Shutdown \/ (\E h \in Hosts :
   HostSkipped(h) \/ HostStart(h) \/ PodReady(h) \/ PodFails(h) \/ StatefulSetLost(h))
   \/ (\E s \in Specs : EditSpec(s))
  BY <1>9 DEF ReconcileNothing, ReconcileRefused, ReconcileStartFails,
     ReconcileAuxPreliminary, ShardStart, ShardEnd, ShardsEnd, HostSkipped, HostStart,
     HostMain, NoForceRestart, ApplyWrite, AuxFinal, Clean, PodReady, PodFails,
     StatefulSetLost, EditSpec, Shutdown, Inv, TypeOK, GateTypeOK, curVars, gateVars,
     passVars
<1> QED
  BY <1>1, <1>2, <1>3, <1>4, <1>5, <1>6, <1>7, <1>8, <1>9 DEF Next, WorkerNext,
     ClusterNext

\* The registry and the bounded counters stay well typed.
LEMMA OutcomeStep ==
    ASSUME Inv, Next
    PROVE  OutcomeTypeOK'
<1>1. CASE ReconcileRefused
  BY <1>1, BoundsAssumption DEF ReconcileRefused, Inv, TypeOK, OutcomeTypeOK, outVars,
     envVars, passVars, ApiWorks, ApiFails
<1>2. CASE ReconcileStartFails
  BY <1>2, BoundsAssumption DEF ReconcileStartFails, Inv, TypeOK, OutcomeTypeOK,
     outVars, envVars, passVars, ApiFails
<1>3. CASE ReconcileStart
  BY <1>3, BoundsAssumption DEF ReconcileStart, Inv, TypeOK, OutcomeTypeOK, outVars,
     envVars, passVars, ApiWorks, ApiFails
<1>4. CASE ReconcileAuxPreliminary
  BY <1>4, BoundsAssumption DEF ReconcileAuxPreliminary, Inv, TypeOK, OutcomeTypeOK,
     outVars, envVars, passVars, PublishBestEffort, ApiWorks, ApiFails
<1>5. ASSUME NEW h \in Hosts, HostStart(h) PROVE OutcomeTypeOK'
  BY <1>5, BoundsAssumption DEF HostStart, Inv, TypeOK, OutcomeTypeOK, outVars,
     envVars, passVars, PublishBestEffort, ApiWorks, ApiFails
<1>6. CASE Snapshot
  BY <1>6, BoundsAssumption DEF Snapshot, Inv, TypeOK, OutcomeTypeOK, outVars,
     envVars, passVars, ApiWorks, ApiFails
<1>7. CASE SnapshotDefers
  BY <1>7, BoundsAssumption DEF SnapshotDefers, Inv, TypeOK, OutcomeTypeOK, outVars,
     envVars, passVars, ApiWorks, ApiFails, HostDeferred, HostLocalsDie
<1>8. CASE ForceRestart
  <2>1. errors' = errors \/ (errors < MaxErrors /\ errors' = errors + 1)
    BY <1>8 DEF ForceRestart, ApiWorks, ApiFails, StsWriteFails
  <2>2. UNCHANGED <<outVars, envVars, moved>>
    BY <1>8 DEF ForceRestart
  <2> QED
    BY <2>1, <2>2, BoundsAssumption DEF Inv, TypeOK, OutcomeTypeOK, outVars, envVars
<1>9. CASE ApplyFails
  BY <1>9, BoundsAssumption DEF ApplyFails, Inv, TypeOK, OutcomeTypeOK, outVars,
     envVars, passVars, ApiFails, StsWriteFails, HostFails, HostLocalsDie
<1>10. CASE AuxFinal
  BY <1>10, BoundsAssumption DEF AuxFinal, Inv, TypeOK, OutcomeTypeOK, outVars,
     envVars, passVars, ApiWorks, ApiFails
<1>11. CASE Clean
  BY <1>11, BoundsAssumption DEF Clean, Inv, TypeOK, OutcomeTypeOK, outVars, envVars,
     passVars, ApiWorks, ApiFails
<1>12. ASSUME NEW h \in Hosts, PodReady(h) PROVE OutcomeTypeOK'
  BY <1>12 DEF PodReady, Inv, TypeOK, OutcomeTypeOK, outVars, envVars, passVars,
     sinceGate
<1>13. ASSUME NEW h \in Hosts, PodFails(h) PROVE OutcomeTypeOK'
  BY <1>13, BoundsAssumption DEF PodFails, Inv, TypeOK, OutcomeTypeOK, outVars,
     envVars, passVars, sinceGate
<1>14. ASSUME NEW h \in Hosts, StatefulSetLost(h) PROVE OutcomeTypeOK'
  BY <1>14, BoundsAssumption DEF StatefulSetLost, Inv, TypeOK, OutcomeTypeOK, outVars,
     envVars, passVars, sinceGate
<1>15. ASSUME NEW s \in Specs, EditSpec(s) PROVE OutcomeTypeOK'
  BY <1>15, BoundsAssumption DEF EditSpec, Inv, TypeOK, OutcomeTypeOK, outVars,
     envVars, passVars
<1>16. CASE Shutdown
  BY <1>16, BoundsAssumption DEF Shutdown, Inv, TypeOK, OutcomeTypeOK, outVars,
     envVars, passVars
<1>17. CASE Crash
  BY <1>17, BoundsAssumption DEF Crash, Inv, TypeOK, OutcomeTypeOK, outVars, envVars,
     passVars, WorkerDies
<1>18. CASE HostMainFails \/ SnapshotFails \/ GateFails \/ LaunchFails
  BY <1>18, BoundsAssumption DEF HostMainFails, SnapshotFails, GateFails, LaunchFails,
     Inv, TypeOK, OutcomeTypeOK, outVars, envVars, passVars, HostFails, HostLocalsDie,
     ApiFails
<1>19. CASE ApplyNothing \/ LaunchOk \/ GateDefers
  BY <1>19, BoundsAssumption DEF ApplyNothing, LaunchOk, GateDefers, Inv, TypeOK,
     OutcomeTypeOK, outVars, envVars, passVars, HostSucceeds, HostDeferred,
     HostLocalsDie, ApiWorks, WalkTypeOK
<1>20. CASE Fail \/ Finalize \/ FinalizeFails \/ PassCancelled \/ Restart
  BY <1>20, BoundsAssumption DEF Fail, Finalize, FinalizeFails, PassCancelled,
     Restart, Inv, TypeOK, OutcomeTypeOK, outVars, envVars, passVars, WorkerDies,
     ApiWorks, ApiFails
<1>21. CASE ReconcileNothing \/ ShardStart \/ ShardEnd \/ ShardsEnd \/ HostMain \/
   GatePoll \/ NoForceRestart \/ ApplyWrite \/ (\E h \in Hosts : HostSkipped(h))
  BY <1>21 DEF ReconcileNothing, ShardStart, ShardEnd, ShardsEnd, HostSkipped,
     HostMain, GatePoll, NoForceRestart, ApplyWrite, Inv, TypeOK, OutcomeTypeOK,
     outVars, envVars, passVars, ApiWorks
<1> QED
  BY <1>1, <1>2, <1>3, <1>4, <1>5, <1>6, <1>7, <1>8, <1>9, <1>10, <1>11, <1>12, <1>13,
     <1>14, <1>15, <1>16, <1>17, <1>18, <1>19, <1>20, <1>21 DEF Next, WorkerNext,
     ClusterNext

\* The flags stay Boolean.
LEMMA FlagsStep ==
    ASSUME Inv, Next
    PROVE  FlagsTypeOK'
<1>1. CASE ReconcileNothing
  BY <1>1 DEF ReconcileNothing, Inv, TypeOK, FlagsTypeOK, passVars, walkVars,
     gateVars, outVars
<1>2. CASE ReconcileRefused
  BY <1>2 DEF ReconcileRefused, Inv, TypeOK, FlagsTypeOK, passVars, walkVars,
     gateVars, outVars
<1>3. CASE ReconcileStart
  BY <1>3 DEF ReconcileStart, Inv, TypeOK, FlagsTypeOK, passVars, walkVars, gateVars,
     outVars
<1>4. CASE HostMain
  BY <1>4 DEF HostMain, Inv, TypeOK, FlagsTypeOK, passVars, walkVars, gateVars,
     outVars
<1>5. CASE ForceRestart
  BY <1>5 DEF ForceRestart, Inv, TypeOK, FlagsTypeOK, passVars, walkVars, gateVars,
     outVars, StsWritten, StsWriteFails, StsScaledToZero, StsGone, StsUntouched
<1>6. CASE ApplyWrite
  BY <1>6 DEF ApplyWrite, Inv, TypeOK, FlagsTypeOK, passVars, walkVars, gateVars,
     outVars, StsWritten, StsWriteFails, StsScaledToZero, StsGone, StsUntouched
<1>7. CASE ApplyFails
  BY <1>7 DEF ApplyFails, Inv, TypeOK, FlagsTypeOK, passVars, walkVars, gateVars,
     outVars, StsWritten, StsWriteFails, StsScaledToZero, StsGone, StsUntouched,
     HostFails, HostLocalsDie
<1>8. CASE AuxFinal
  BY <1>8 DEF AuxFinal, Inv, TypeOK, FlagsTypeOK, passVars, walkVars, gateVars,
     outVars
<1>9. CASE Clean
  BY <1>9 DEF Clean, Inv, TypeOK, FlagsTypeOK, passVars, walkVars, gateVars, outVars
<1>10. ASSUME NEW h \in Hosts, PodReady(h) PROVE FlagsTypeOK'
  BY <1>10 DEF PodReady, Inv, TypeOK, FlagsTypeOK, passVars, walkVars, gateVars,
     outVars
<1>11. ASSUME NEW h \in Hosts, PodFails(h) PROVE FlagsTypeOK'
  BY <1>11 DEF PodFails, Inv, TypeOK, FlagsTypeOK, passVars, walkVars, gateVars,
     outVars
<1>12. ASSUME NEW h \in Hosts, StatefulSetLost(h) PROVE FlagsTypeOK'
  BY <1>12 DEF StatefulSetLost, Inv, TypeOK, FlagsTypeOK, passVars, walkVars,
     gateVars, outVars
<1>13. ASSUME NEW s \in Specs, EditSpec(s) PROVE FlagsTypeOK'
  BY <1>13 DEF EditSpec, Inv, TypeOK, FlagsTypeOK, passVars, walkVars, gateVars,
     outVars
<1>14. CASE Shutdown
  BY <1>14 DEF Shutdown, Inv, TypeOK, FlagsTypeOK, passVars, walkVars, gateVars,
     outVars
<1>15. CASE HostMainFails \/ SnapshotFails \/ GateFails \/ LaunchFails
  BY <1>15 DEF HostMainFails, SnapshotFails, GateFails, LaunchFails, Inv, TypeOK,
     FlagsTypeOK, passVars, walkVars, gateVars, outVars, HostFails, HostLocalsDie
<1>16. CASE ApplyNothing \/ LaunchOk \/ SnapshotDefers \/ GateDefers
  BY <1>16 DEF ApplyNothing, LaunchOk, SnapshotDefers, GateDefers, Inv, TypeOK,
     FlagsTypeOK, passVars, walkVars, gateVars, outVars, HostSucceeds, HostDeferred,
     HostLocalsDie
<1>17. CASE Fail \/ Finalize \/ FinalizeFails \/ PassCancelled \/ Crash \/ Restart
  BY <1>17 DEF Fail, Finalize, FinalizeFails, PassCancelled, Crash, Restart, Inv,
     TypeOK, FlagsTypeOK, passVars, walkVars, gateVars, outVars, WorkerDies
<1>18. CASE ReconcileStartFails \/ ReconcileAuxPreliminary \/ ShardStart \/ ShardEnd
   \/ ShardsEnd \/ Snapshot \/ GatePoll \/ NoForceRestart \/ (\E h \in Hosts :
   HostSkipped(h) \/ HostStart(h))
  BY <1>18 DEF ReconcileStartFails, ReconcileAuxPreliminary, ShardStart, ShardEnd,
     ShardsEnd, HostSkipped, HostStart, Snapshot, GatePoll, NoForceRestart, Inv,
     TypeOK, FlagsTypeOK, passVars, walkVars, gateVars, outVars
<1> QED
  BY <1>1, <1>2, <1>3, <1>4, <1>5, <1>6, <1>7, <1>8, <1>9, <1>10, <1>11, <1>12, <1>13,
     <1>14, <1>15, <1>16, <1>17, <1>18 DEF Next, WorkerNext, ClusterNext

\* While hosts are walked the shard exists; the gate waits only with budget left.
LEMMA ControlStep ==
    ASSUME Inv, Next
    PROVE  ControlInv'
<1>1. CASE ShardStart
  BY <1>1, OrderAssumption DEF ShardStart, Inv, TypeOK, WalkTypeOK, ControlInv,
     HostPCs
<1>2. CASE ShardEnd
  BY <1>2 DEF ShardEnd, Inv, TypeOK, WalkTypeOK, ControlInv, HostPCs
<1>3. ASSUME NEW h \in Hosts, HostSkipped(h) PROVE ControlInv'
  BY <1>3 DEF HostSkipped, Inv, TypeOK, WalkTypeOK, ControlInv, HostPCs, gateVars
<1>4. ASSUME NEW h \in Hosts, HostStart(h) PROVE ControlInv'
  BY <1>4 DEF HostStart, Inv, TypeOK, WalkTypeOK, ControlInv, HostPCs, gateVars
<1>5. CASE HostMain
  BY <1>5 DEF HostMain, Inv, TypeOK, WalkTypeOK, ControlInv, HostPCs, walkVars
<1>6. CASE Snapshot
  BY <1>6 DEF Snapshot, Inv, TypeOK, WalkTypeOK, ControlInv, HostPCs, walkVars,
     quorumWaitBudgetLeft
<1>7. CASE GatePoll
  BY <1>7 DEF GatePoll, Inv, TypeOK, WalkTypeOK, ControlInv, HostPCs, walkVars,
     quorumWaitBudgetLeft
<1>8. CASE ForceRestart
  BY <1>8 DEF ForceRestart, Inv, TypeOK, WalkTypeOK, ControlInv, HostPCs, walkVars
<1>9. CASE NoForceRestart
  BY <1>9 DEF NoForceRestart, Inv, TypeOK, WalkTypeOK, ControlInv, HostPCs, passVars,
     walkVars
<1>10. CASE ApplyWrite
  BY <1>10 DEF ApplyWrite, Inv, TypeOK, WalkTypeOK, ControlInv, HostPCs, passVars,
     walkVars
<1>11. CASE HostMainFails \/ SnapshotFails \/ GateFails \/ ApplyFails \/ LaunchFails
  BY <1>11 DEF HostMainFails, SnapshotFails, GateFails, ApplyFails, LaunchFails, Inv,
     TypeOK, WalkTypeOK, ControlInv, HostPCs, HostFails
<1>12. CASE ApplyNothing \/ LaunchOk \/ SnapshotDefers \/ GateDefers
  BY <1>12 DEF ApplyNothing, LaunchOk, SnapshotDefers, GateDefers, Inv, TypeOK,
     WalkTypeOK, ControlInv, HostPCs, HostSucceeds, HostDeferred
<1>13. CASE Fail \/ Finalize \/ FinalizeFails \/ PassCancelled \/ Crash \/ Restart
  BY <1>13 DEF Fail, Finalize, FinalizeFails, PassCancelled, Crash, Restart, Inv,
     TypeOK, WalkTypeOK, ControlInv, HostPCs, WorkerDies
<1>14. CASE ReconcileStart \/ ReconcileAuxPreliminary \/ ShardsEnd \/ AuxFinal \/
   Clean
  BY <1>14 DEF ReconcileStart, ReconcileAuxPreliminary, ShardsEnd, AuxFinal, Clean,
     Inv, TypeOK, WalkTypeOK, ControlInv, HostPCs
<1>15. CASE ReconcileNothing \/ ReconcileRefused \/ ReconcileStartFails \/ Shutdown \/
   (\E h \in Hosts : PodReady(h) \/ PodFails(h) \/ StatefulSetLost(h)) \/ (\E s \in
   Specs : EditSpec(s))
  BY <1>15 DEF ReconcileNothing, ReconcileRefused, ReconcileStartFails, PodReady,
     PodFails, StatefulSetLost, EditSpec, Shutdown, Inv, TypeOK, WalkTypeOK,
     ControlInv, HostPCs, passVars, walkVars, gateVars
<1> QED
  BY <1>1, <1>2, <1>3, <1>4, <1>5, <1>6, <1>7, <1>8, <1>9, <1>10, <1>11, <1>12, <1>13,
     <1>14, <1>15 DEF Next, WorkerNext, ClusterNext

\* The registry keeps up with the walk.
LEMMA WalkInvStep ==
    ASSUME Inv, Next
    PROVE  WalkInv'
<1>1. CASE ReconcileStart
  BY <1>1, OrderAssumption DEF ReconcileStart, Inv, TypeOK, WalkTypeOK, WalkInv,
     HostPCs
<1>2. CASE ReconcileAuxPreliminary
  BY <1>2, SpecFields, OrderAssumption DEF ReconcileAuxPreliminary, Inv, TypeOK,
     WalkTypeOK, WalkInv, HostPCs, ControlInv, passVars, walkVars, outVars
<1>3. CASE ShardStart
  BY <1>3 DEF ShardStart, Inv, TypeOK, WalkTypeOK, WalkInv, HostPCs, shardHosts,
     outVars
<1>4. CASE ShardEnd
  BY <1>4, SpecFields, OrderAssumption DEF ShardEnd, Inv, TypeOK, WalkTypeOK, WalkInv,
     HostPCs, outVars
<1>5. CASE ShardsEnd
  BY <1>5, SpecFields, OrderAssumption DEF ShardsEnd, Inv, TypeOK, WalkTypeOK,
     WalkInv, HostPCs, passVars, walkVars, outVars
<1>6. ASSUME NEW h \in Hosts, HostSkipped(h) PROVE WalkInv'
  BY <1>6 DEF HostSkipped, Inv, TypeOK, WalkTypeOK, WalkInv, HostPCs, outVars
<1>7. ASSUME NEW h \in Hosts, HostStart(h) PROVE WalkInv'
  BY <1>7 DEF HostStart, Inv, TypeOK, WalkTypeOK, WalkInv, HostPCs, outVars
<1>8. CASE HostMain
  BY <1>8 DEF HostMain, Inv, TypeOK, WalkTypeOK, WalkInv, HostPCs, walkVars, outVars
<1>9. CASE Snapshot
  BY <1>9 DEF Snapshot, Inv, TypeOK, WalkTypeOK, WalkInv, HostPCs, walkVars, outVars
<1>10. CASE GatePoll
  BY <1>10 DEF GatePoll, Inv, TypeOK, WalkTypeOK, WalkInv, HostPCs, walkVars, outVars
<1>11. CASE ForceRestart
  BY <1>11 DEF ForceRestart, Inv, TypeOK, WalkTypeOK, WalkInv, HostPCs, walkVars,
     outVars
<1>12. CASE NoForceRestart
  BY <1>12 DEF NoForceRestart, Inv, TypeOK, WalkTypeOK, WalkInv, HostPCs, passVars,
     walkVars, outVars
<1>13. CASE ApplyWrite
  BY <1>13 DEF ApplyWrite, Inv, TypeOK, WalkTypeOK, WalkInv, HostPCs, passVars,
     walkVars, outVars
<1>14. CASE AuxFinal
  BY <1>14 DEF AuxFinal, Inv, TypeOK, WalkTypeOK, WalkInv, HostPCs, walkVars
<1>15. CASE Clean
  BY <1>15 DEF Clean, Inv, TypeOK, WalkTypeOK, WalkInv, HostPCs, passVars, walkVars,
     outVars
<1>16. CASE HostMainFails \/ SnapshotFails \/ GateFails \/ ApplyFails \/ LaunchFails
  BY <1>16 DEF HostMainFails, SnapshotFails, GateFails, ApplyFails, LaunchFails, Inv,
     TypeOK, WalkTypeOK, WalkInv, HostPCs, HostFails, HostLocalsDie
<1>17. CASE ApplyNothing \/ LaunchOk
  BY <1>17 DEF ApplyNothing, LaunchOk, Inv, TypeOK, WalkTypeOK, WalkInv, HostPCs,
     HostSucceeds, HostLocalsDie
<1>18. CASE SnapshotDefers \/ GateDefers
  BY <1>18 DEF SnapshotDefers, GateDefers, Inv, TypeOK, WalkTypeOK, WalkInv, HostPCs,
     HostDeferred, HostLocalsDie
<1>19. CASE Fail \/ Finalize \/ FinalizeFails \/ PassCancelled \/ Crash \/ Restart
  BY <1>19 DEF Fail, Finalize, FinalizeFails, PassCancelled, Crash, Restart, Inv,
     TypeOK, WalkTypeOK, WalkInv, HostPCs, WorkerDies
<1>20. CASE ReconcileNothing \/ ReconcileRefused \/ ReconcileStartFails \/ Shutdown \/
   (\E h \in Hosts : PodReady(h) \/ PodFails(h) \/ StatefulSetLost(h)) \/ (\E s \in
   Specs : EditSpec(s))
  BY <1>20 DEF ReconcileNothing, ReconcileRefused, ReconcileStartFails, PodReady,
     PodFails, StatefulSetLost, EditSpec, Shutdown, Inv, TypeOK, WalkTypeOK, WalkInv,
     HostPCs, passVars, walkVars, outVars
<1> QED
  BY <1>1, <1>2, <1>3, <1>4, <1>5, <1>6, <1>7, <1>8, <1>9, <1>10, <1>11, <1>12, <1>13,
     <1>14, <1>15, <1>16, <1>17, <1>18, <1>19, <1>20 DEF Next, WorkerNext, ClusterNext

-----------------------------------------------------------------------------
(* The invariant and what follows from it                                  *)

\* The invariant is inductive.
LEMMA InvStep == Inv /\ [Next]_vars => Inv'
<1>1. ASSUME Inv, Next PROVE Inv'
  BY <1>1, ClusterStep, WalkStep, GateStep, OutcomeStep, FlagsStep, ControlStep,
     WalkInvStep DEF Inv, TypeOK
<1>2. ASSUME Inv, UNCHANGED vars PROVE Inv'
  <2>1. TypeOK'
    <3>1. ClusterTypeOK'
      BY <1>2 DEF Inv, TypeOK, ClusterTypeOK, vars, crVars, stsVars
    <3>2. WalkTypeOK'
      BY <1>2 DEF Inv, TypeOK, WalkTypeOK, vars, passVars, walkVars
    <3>3. GateTypeOK'
      BY <1>2 DEF Inv, TypeOK, GateTypeOK, vars, passVars, curVars, gateVars
    <3>4. OutcomeTypeOK'
      BY <1>2 DEF Inv, TypeOK, OutcomeTypeOK, vars, passVars, outVars, envVars
    <3>5. FlagsTypeOK'
      BY <1>2 DEF Inv, TypeOK, FlagsTypeOK, vars, passVars, walkVars, gateVars, outVars
    <3> QED
      BY <3>1, <3>2, <3>3, <3>4, <3>5 DEF TypeOK
  <2>2. ControlInv' /\ WalkInv'
    BY <1>2 DEF Inv, ControlInv, WalkInv, vars, passVars, walkVars, gateVars, outVars
  <2> QED
    BY <2>1, <2>2 DEF Inv
<1> QED
  BY <1>1, <1>2

\* The invariant holds throughout every behaviour.
LEMMA Invariance == Spec => []Inv
<1>1. Init => Inv
  BY InitInv
<1>2. Inv /\ [Next]_vars => Inv'
  BY InvStep
<1> QED
  BY <1>1, <1>2, PTL DEF Spec

\* Every variable keeps its type, a ready StatefulSet exists and asks for a
\* replica, and the quorum wait budget (quorumWaitSpent) is never overdrawn.
THEOREM TypeCorrect == Spec => []TypeOK
<1>1. Inv => TypeOK
  BY DEF Inv
<1> QED
  BY <1>1, Invariance, PTL

\* The pass leaves clean for finalize by clean alone.
LEMMA NextFrom ==
    ASSUME Inv, Next, pc = "clean", pc' = "finalize"
    PROVE  Clean
BY DEF Next, WorkerNext, ClusterNext, ReconcileNothing, ReconcileRefused,
   ReconcileStartFails, ReconcileStart, ReconcileAuxPreliminary, ShardStart, ShardEnd,
   ShardsEnd, HostSkipped, HostStart, HostMainFails, HostMain, SnapshotFails,
   Snapshot, SnapshotDefers, GatePoll, GateDefers, GateFails, ForceRestart,
   NoForceRestart, ApplyNothing, ApplyWrite, ApplyFails, LaunchOk, LaunchFails,
   AuxFinal, Fail, Finalize, FinalizeFails, PassCancelled, PodReady, PodFails,
   StatefulSetLost, EditSpec, Shutdown, Crash, Restart, HostSucceeds, HostDeferred,
   HostFails, WorkerDies

\* clean (worker-deleter.go) never deletes the StatefulSet of a host that the
\* pass declares.
THEOREM PurgeSafe == Spec => PurgeOnlyDeparted
<1>1. Inv /\ [Next]_vars =>
         [(pc = "clean" /\ pc' = "finalize") => (has \ has') \cap cr.members = {}]_vars
  <2> SUFFICES ASSUME Inv, Next, pc = "clean", pc' = "finalize"
               PROVE  (has \ has') \cap cr.members = {}
    BY DEF vars
  <2>1. Clean
    BY NextFrom
  <2>2. cr.members \subseteq done
    BY <2>1 DEF Clean, Inv, WalkInv
  <2> QED
    BY <2>1, <2>2 DEF Clean
<1> QED
  BY <1>1, Invariance, PTL DEF Spec, PurgeOnlyDeparted

\* Only finalizeCR moves the ancestor or completes the status.
LEMMA OnlyFinalizeStamps ==
    ASSUME Inv, Next, anc' # anc \/ (status' = "Completed" /\ status # "Completed")
    PROVE  Finalize
BY DEF Next, WorkerNext, ClusterNext, ReconcileNothing, ReconcileRefused,
   ReconcileStartFails, ReconcileStart, ReconcileAuxPreliminary, ShardStart, ShardEnd,
   ShardsEnd, HostSkipped, HostStart, HostMainFails, HostMain, SnapshotFails,
   Snapshot, SnapshotDefers, GatePoll, GateDefers, GateFails, ForceRestart,
   NoForceRestart, ApplyNothing, ApplyWrite, ApplyFails, LaunchOk, LaunchFails,
   AuxFinal, Fail, Clean, FinalizeFails, PassCancelled, PodReady, PodFails,
   StatefulSetLost, EditSpec, Shutdown, Crash, Restart, crVars

\* Only a pass that reconciled every host it declares moves the ancestor or
\* turns the status into Completed (worker.go, finalizeReconcileAndMarkCompleted).
THEOREM CompletionSound == Spec => CompletedMeansWalked
<1>1. Inv /\ [Next]_vars =>
         [(anc' # anc \/ (status' = "Completed" /\ status # "Completed"))
             => cr.members \subseteq done]_vars
  <2> SUFFICES ASSUME Inv, Next,
                      anc' # anc \/ (status' = "Completed" /\ status # "Completed")
               PROVE  cr.members \subseteq done
    OBVIOUS
  <2>1. Finalize
    BY OnlyFinalizeStamps
  <2> QED
    BY <2>1 DEF Finalize, ApiWorks, Inv, WalkInv
<1> QED
  BY <1>1, Invariance, PTL DEF Spec, CompletedMeansWalked

=============================================================================
