-------------------------- MODULE HostObjectsProofs --------------------------
(***************************************************************************)
(* The objects of a host, for any volumes, specifications and policies and *)
(* any number of edits, errors, restarts and losses: the types, a host     *)
(* that needs nothing is left alone, claims in use are kept, and a loss is *)
(* recovered before a pass completes.                                      *)
(***************************************************************************)
EXTENDS HostObjects, TLAPS

\* The steps of a pass up to its end, and those of the deletion.
PassSteps == {"pvcs", "status", "sts", "delete", "drain", "remove", "create",
              "launch", "tables", "clean", "purge", "stamp"}
DeleteSteps == {"delsts", "delpvc", "finalizer"}

\* Claims can be read, and one that could not be updated is retained, as the
\* defaults say.
ClaimsSafe ==
    /\ "claimread" \notin Faults
    /\ \A p \in Policies : p.failed # "Delete"

\* A volume that is to be retained is in every specification.
RetainedMounted == \A s \in Specs : Retained \subseteq s.vols

\* A deletion is of a CR that is to go, and works on the mounts of a StatefulSet.
CurrentInv ==
    /\ pc \in DeleteSteps => phase # "live"
    /\ pc \in {"delsts", "delpvc"} => \E s \in Specs : cur = s.vols

\* The first walk is past the volume.
Visited(v) == pc = "pvcs" /\ leg = "first" => \A i \in todo : VolumeSeq[i] # v

\* Every claim in use that the first walk has been at is in a registry.
CoveredInv ==
    pc \in PassSteps /\ ~cancelled /\ cr.there =>
        \A v \in cr.vols : Visited(v) /\ (v \in tagged \/ well) => v \in reconciled \cup failed

\* What the cleanup is to delete, from the discovery on, is not what the pass is
\* for: cancelled or not, it purges no claim in use that its CR asks for.
DoomedInv ==
    pc = "purge" =>
        /\ doomed.sts => ~cr.there
        /\ \A v \in doomed.claims \cap cr.vols :
              /\ ~well
              /\ v \in tagged => ~cr.there /\ v \notin Retained

\* Where a pass can be while the host is well.
WellInv ==
    well => /\ cr.there
            /\ pc \in {"pvcs", "status", "sts", "tables", "clean", "purge", "stamp", "fail"}
            /\ pc = "pvcs" => leg \in {"first", "polish"}
            /\ pc = "pvcs" /\ leg = "first" =>
                  verdict = "" /\ \A i \in todo : VolumeSeq[i] \in cr.vols
            /\ pc \in {"status", "sts"} => ~opts.recreate

\* The steps from the end of the first walk to the tables.
MiddleSteps == {"status", "sts", "delete", "drain", "remove", "create", "launch", "tables"}

Severe == {"lost", "missed"}

\* While a loss is not recovered, the pass knows of it.
LossInv ==
    ~cancelled /\ (\E v \in Volumes : owed[v] = "now") =>
        /\ pc \notin {"clean", "purge", "stamp"}
        /\ pc = "pvcs" /\ leg = "first" => verdict \in Severe
        /\ pc \in MiddleSteps \/ (pc = "pvcs" /\ leg # "first") => opts.drop /\ opts.migrate

-----------------------------------------------------------------------------
(* StatefulSets, claims and walks                                          *)

\* What a StatefulSet consists of, and the one a specification asks for.
LEMMA SetParts ==
    ASSUME NEW x \in Sets
    PROVE  x # NoSts /\ [x EXCEPT !.reps = 0] \in Sets /\ x.vols \subseteq Volumes
<1>1. x # NoSts
  BY DEF Sets, NoSts
<1>2. [x EXCEPT !.reps = 0] \in Sets
  BY DEF Sets
<1>3. x.vols \subseteq Volumes
  BY HostSpecAssumption DEF Sets
<1> QED
  BY <1>1, <1>2, <1>3

LEMMA DesiredType ==
    ASSUME NEW s \in Specs
    PROVE  Desired(s) \in Sets /\ Desired(s) # NoSts
<1>1. Desired(s) \in Sets
  BY DEF Desired, Sets
<1> QED
  BY <1>1, SetParts

\* Of each volume the walk has an index.
LEMMA VolumeIndex ==
    /\ \A i \in DOMAIN VolumeSeq : VolumeSeq[i] \in Volumes
    /\ \A v \in Volumes : \E i \in DOMAIN VolumeSeq : VolumeSeq[i] = v
BY DEF Volumes

\* A pass moves to a step, or to the start of a walk.
LEMMA GotoType ==
    ASSUME PassTypeOK, NEW step \in Steps, Goto(step)
    PROVE  /\ pc' \in Steps /\ leg' \in {"first", "middle", "polish"}
           /\ todo' \subseteq DOMAIN VolumeSeq /\ verdict' \in {"", "new", "missed", "lost"}
BY DEF Goto, walkVars, PassTypeOK

LEMMA StartWalkType ==
    ASSUME NEW which \in {"first", "middle", "polish"}, NEW vols, StartWalk(which, vols)
    PROVE  /\ pc' \in Steps /\ leg' \in {"first", "middle", "polish"}
           /\ todo' \subseteq DOMAIN VolumeSeq /\ verdict' \in {"", "new", "missed", "lost"}
BY DEF StartWalk, Steps

\* The history of a recovery given up, and claims after a deletion.
LEMMA GivenUpType ==
    ASSUME PassTypeOK
    PROVE  GivenUp \in [Volumes -> {"no", "now", "before", "kept"}]
BY DEF GivenUp, PassTypeOK

LEMMA WithDeletedType ==
    ASSUME KubeTypeOK, NEW gone, NEW users
    PROVE  WithDeleted(gone, users) \in [Volumes -> Claims]
BY DEF WithDeleted, KubeTypeOK, Claims

\* A loss ranks above a new volume and above nothing, in moreSevere.
LEMMA SeverityOrder ==
    ASSUME NEW e \in {"", "new", "missed", "lost"}
    PROVE  errSeverity(e) \in IF e \in Severe THEN {2, 3} ELSE {0, 1}
<1>1. /\ e = "" => errSeverity(e) = 0
      /\ e = "new" => errSeverity(e) = 1
      /\ e = "missed" => errSeverity(e) = 2
      /\ e = "lost" => errSeverity(e) = 3
  BY DEF errSeverity
<1>2. e \in Severe <=> e \in {"missed", "lost"}
  BY DEF Severe
<1>3. e \in Severe => errSeverity(e) \in {2, 3}
  BY <1>1, <1>2
<1>4. e \notin Severe => errSeverity(e) \in {0, 1}
  BY <1>1, <1>2
<1> QED
  BY <1>3, <1>4

LEMMA Ranks == \A m \in {0, 1}, n \in {2, 3} : n > m /\ ~(m > n)
OBVIOUS

\* What is found on one volume never hides what is found on another.
LEMMA VerdictType ==
    ASSUME NEW a \in {"", "new", "missed", "lost"}, NEW b \in {"", "new", "missed", "lost"}
    PROVE  /\ moreSevere(a, b) \in {a, b}
           /\ a \in Severe \/ b \in Severe => moreSevere(a, b) \in Severe
<1>1. moreSevere(a, b) \in {a, b}
  BY DEF moreSevere
<1>2. \A m \in {0, 1}, n \in {2, 3} : n > m /\ ~(m > n)
  BY Ranks
<1>3. /\ a \notin Severe /\ b \in Severe => errSeverity(b) > errSeverity(a)
      /\ a \in Severe /\ b \notin Severe => ~(errSeverity(b) > errSeverity(a))
  BY <1>2, SeverityOrder, Zenon
<1>4. /\ errSeverity(b) > errSeverity(a) => moreSevere(a, b) = b
      /\ ~(errSeverity(b) > errSeverity(a)) => moreSevere(a, b) = a
  BY DEF moreSevere
<1> QED
  BY <1>1, <1>2, <1>3, <1>4, Zenon

\* What is said of a volume.
LEMMA VolumeVerdictType ==
    ASSUME NEW v PROVE VolumeVerdict(v) \in {"", "new", "missed", "lost"}
BY DEF VolumeVerdict

-----------------------------------------------------------------------------
(* Types                                                                   *)

\* Each part of the types is about its own variables.
LEMMA SameTypes ==
    /\ CRTypeOK /\ UNCHANGED <<crVars, cr>> => CRTypeOK'
    /\ KubeTypeOK /\ UNCHANGED kubeVars => KubeTypeOK'
    /\ PassTypeOK /\ UNCHANGED <<passVars, owed>> => PassTypeOK'
<1>1. CRTypeOK /\ UNCHANGED <<crVars, cr>> => CRTypeOK'
  BY DEF CRTypeOK, crVars
<1>2. KubeTypeOK /\ UNCHANGED kubeVars => KubeTypeOK'
  BY DEF KubeTypeOK, kubeVars
<1>3. PassTypeOK /\ UNCHANGED <<passVars, owed>> => PassTypeOK'
  BY DEF PassTypeOK, passVars, walkVars, hostVars, registryVars
<1> QED
  BY <1>1, <1>2, <1>3

\* Most steps of a pass leave the CR alone, but for its status and its tables.
LEMMA FrameType ==
    ASSUME CRTypeOK, Frame, status' = status, listed' \in BOOLEAN
    PROVE  CRTypeOK'
BY DEF CRTypeOK, Frame

\* The StatefulSet is removed, or brought to what the pass asks for.
LEMMA RemovedType ==
    ASSUME KubeTypeOK, UNCHANGED <<claim, tagged>>,
           Removed \/ UNCHANGED <<sts, pod>> \/ (sts' \in Sets /\ pod' \in {"starting", "up", "none", "stopping"})
    PROVE  KubeTypeOK'
BY SetParts DEF KubeTypeOK, Removed

\* The types hold at first and after each action.
LEMMA TypeInit == Init => TypeOK
<1> SUFFICES ASSUME Init PROVE TypeOK
  OBVIOUS
<1>1. CRTypeOK
  BY HostSpecAssumption DEF Init, CRTypeOK
<1>2. KubeTypeOK
  <2>1. CASE sts = NoSts /\ pod = "none" /\ tagged = {} /\ claim = [v \in Volumes |-> "none"]
    BY <2>1 DEF KubeTypeOK, Claims
  <2>2. CASE sts = Desired(First) /\ pod = "up" /\ tagged = First.vols
             /\ claim = [v \in Volumes |-> IF v \in First.vols THEN "bound" ELSE "none"]
    BY <2>2, DesiredType, HostSpecAssumption DEF KubeTypeOK, Claims
  <2> QED
    BY <2>1, <2>2 DEF Init
<1>3. PassTypeOK
  BY DEF Init, PassTypeOK, Steps, NoOptions, NothingDoomed
<1> QED
  BY <1>1, <1>2, <1>3 DEF TypeOK

LEMMA TypePassBegins == TypeOK /\ PassBegins => TypeOK'
<1> SUFFICES ASSUME TypeOK, PassBegins PROVE TypeOK'
  OBVIOUS
<1>1. CRTypeOK'
  BY DEF TypeOK, CRTypeOK, PassBegins
<1>2. PassTypeOK'
  <2>1. /\ pc' \in Steps /\ leg' \in {"first", "middle", "polish"}
        /\ todo' \subseteq DOMAIN VolumeSeq /\ verdict' \in {"", "new", "missed", "lost"}
    BY StartWalkType, GotoType DEF TypeOK, PassBegins, Steps
  <2>2. opts' \in [recreate : BOOLEAN, migrate : BOOLEAN, drop : BOOLEAN]
    BY DEF PassBegins, NoOptions
  <2>3. owed' \in [Volumes -> {"no", "now", "before", "kept"}]
    BY GivenUpType DEF TypeOK, PassBegins
  <2> QED
    BY <2>1, <2>2, <2>3 DEF PassBegins, PassTypeOK, NothingDoomed
<1> QED
  BY <1>1, <1>2, SameTypes DEF TypeOK, PassBegins

\* The pass at one claim.
LEMMA ClaimType ==
    ASSUME TypeOK, NEW v \in Volumes, reconcilePVCFromVolumeMount(v), UNCHANGED <<sts, pod>>
    PROVE  /\ KubeTypeOK'
           /\ verdict' \in {"", "new", "missed", "lost"}
           /\ reconciled' \cup failed' \subseteq Volumes
           /\ owed' \in [Volumes -> {"no", "now", "before", "kept"}]
<1>1. verdict' \in {"", "new", "missed", "lost"}
  <2>1. \/ verdict' = verdict
        \/ verdict' = moreSevere(verdict, VolumeVerdict(v))
        \/ verdict' = moreSevere(verdict, "lost")
    BY DEF reconcilePVCFromVolumeMount
  <2>2. verdict \in {"", "new", "missed", "lost"} /\ "lost" \in {"", "new", "missed", "lost"}
    BY DEF TypeOK, PassTypeOK
  <2>3. moreSevere(verdict, VolumeVerdict(v)) \in {verdict, VolumeVerdict(v)}
    BY <2>2, VerdictType, VolumeVerdictType
  <2>4. moreSevere(verdict, "lost") \in {verdict, "lost"}
    BY <2>2, VerdictType
  <2> QED
    BY <2>1, <2>2, <2>3, <2>4, VolumeVerdictType
<1>2. reconciled' \cup failed' \subseteq Volumes
  BY DEF reconcilePVCFromVolumeMount, registryVars, TypeOK, PassTypeOK
<1>3. owed' \in [Volumes -> {"no", "now", "before", "kept"}]
  <2>1. owed' = owed \/ owed' = [owed EXCEPT ![v] = "now"]
    BY DEF reconcilePVCFromVolumeMount
  <2> QED
    BY <2>1 DEF TypeOK, PassTypeOK
<1>4. KubeTypeOK'
  <2>1. CASE UNCHANGED <<claim, tagged>>
    BY <2>1 DEF TypeOK, KubeTypeOK
  <2>2. CASE \E c \in {"bound", "terminating", "lost"} :
               claim' = [claim EXCEPT ![v] = c] /\ tagged' = tagged \cup {v}
    BY <2>2 DEF TypeOK, KubeTypeOK, Claims
  <2>3. CASE claim' = [claim EXCEPT ![v] = "none"] /\ tagged' = tagged \ {v}
    BY <2>3 DEF TypeOK, KubeTypeOK, Claims
  <2>4. CASE /\ claim' = [claim EXCEPT ![v] = IF @ = "lost" THEN "none" ELSE @]
             /\ tagged' = {u \in tagged : claim'[u] # "none"}
    <3>1. claim' \in [Volumes -> Claims]
      BY <2>4 DEF TypeOK, KubeTypeOK, Claims
    <3> QED
      BY <2>4, <3>1 DEF TypeOK, KubeTypeOK
  <2> QED
    BY <2>1, <2>2, <2>3, <2>4 DEF reconcilePVCFromVolumeMount
<1> QED
  BY <1>1, <1>2, <1>3, <1>4

LEMMA TypeReconcilePVCs == TypeOK /\ ReconcilePVCs => TypeOK'
<1> SUFFICES ASSUME TypeOK, ReconcilePVCs PROVE TypeOK'
  OBVIOUS
<1>1. PICK i \in todo : todo' = todo \ {i} /\ reconcilePVCFromVolumeMount(VolumeSeq[i])
  BY DEF ReconcilePVCs
<1>2. VolumeSeq[i] \in Volumes
  BY VolumeIndex DEF TypeOK, PassTypeOK
<1>3. /\ KubeTypeOK'
      /\ verdict' \in {"", "new", "missed", "lost"}
      /\ reconciled' \cup failed' \subseteq Volumes
      /\ owed' \in [Volumes -> {"no", "now", "before", "kept"}]
  BY <1>1, <1>2, ClaimType DEF ReconcilePVCs
<1>4. CRTypeOK'
  BY DEF ReconcilePVCs, Frame, TypeOK, CRTypeOK
<1>5. PassTypeOK'
  BY <1>1, <1>3 DEF ReconcilePVCs, hostVars, TypeOK, PassTypeOK
<1> QED
  BY <1>3, <1>4, <1>5 DEF TypeOK

\* A record of three flags is a record of options.
LEMMA OptionsType ==
    \A r, m, d \in BOOLEAN : [recreate |-> r, migrate |-> m, drop |-> d]
                               \in [recreate : BOOLEAN, migrate : BOOLEAN, drop : BOOLEAN]
OBVIOUS

LEMMA TypeVolumesWalked == TypeOK /\ VolumesWalked => TypeOK'
<1> SUFFICES ASSUME TypeOK, VolumesWalked PROVE TypeOK'
  OBVIOUS
<1>1. opts' \in [recreate : BOOLEAN, migrate : BOOLEAN, drop : BOOLEAN]
  <2>1. (verdict # "") \in BOOLEAN /\ (verdict \in {"lost", "missed"}) \in BOOLEAN
    OBVIOUS
  <2>2. \/ UNCHANGED opts
        \/ opts' = [recreate |-> verdict # "", migrate |-> verdict # "",
                    drop |-> verdict \in {"lost", "missed"}]
    BY DEF VolumesWalked
  <2>3. CASE UNCHANGED opts
    BY <2>3 DEF TypeOK, PassTypeOK
  <2>4. CASE opts' = [recreate |-> verdict # "", migrate |-> verdict # "",
                      drop |-> verdict \in {"lost", "missed"}]
    BY <2>1, <2>4, OptionsType, Zenon
  <2> QED
    BY <2>2, <2>3, <2>4
<1>2. \E step \in Steps : Goto(step)
  BY DEF VolumesWalked, Steps
<1>3. CRTypeOK'
  BY DEF VolumesWalked, Frame, TypeOK, CRTypeOK
<1>4. PassTypeOK'
  BY <1>1, <1>2, GotoType DEF VolumesWalked, registryVars, ghostVars, TypeOK, PassTypeOK
<1> QED
  BY <1>3, <1>4, SameTypes DEF VolumesWalked, TypeOK

LEMMA TypePrepare == TypeOK /\ PrepareHostStatefulSetWithStatus => TypeOK'
<1> SUFFICES ASSUME TypeOK, PrepareHostStatefulSetWithStatus PROVE TypeOK'
  OBVIOUS
<1>1. CRTypeOK'
  BY DEF PrepareHostStatefulSetWithStatus, Frame, TypeOK, CRTypeOK
<1>2. "sts" \in Steps /\ Goto("sts")
  BY DEF PrepareHostStatefulSetWithStatus, Steps
<1>3. PassTypeOK'
  BY <1>2, GotoType
  DEF PrepareHostStatefulSetWithStatus, registryVars, ghostVars, TypeOK, PassTypeOK
<1> QED
  BY <1>1, <1>3, SameTypes DEF PrepareHostStatefulSetWithStatus, TypeOK

\* A step that goes on or starts a walk, and leaves the rest of the pass alone.
Moves == (\E step \in Steps : Goto(step))
         \/ (\E which \in {"first", "middle", "polish"} : \E vols \in SUBSET Volumes : StartWalk(which, vols))

\* A step that only moves the pass on keeps the pass's types.
LEMMA MoveType ==
    ASSUME TypeOK, Moves, UNCHANGED <<opts, registryVars>>,
           owed' \in [Volumes -> {"no", "now", "before", "kept"}]
    PROVE  PassTypeOK'
<1>1. /\ pc' \in Steps /\ leg' \in {"first", "middle", "polish"}
      /\ todo' \subseteq DOMAIN VolumeSeq /\ verdict' \in {"", "new", "missed", "lost"}
  BY GotoType, StartWalkType DEF Moves, TypeOK
<1> QED
  BY <1>1 DEF registryVars, TypeOK, PassTypeOK

LEMMA DoneMoves == CRTypeOK /\ StatefulSetDone => Moves
BY HostSpecAssumption DEF StatefulSetDone, Moves, CRTypeOK

LEMMA OwedType == TypeOK /\ UNCHANGED owed => owed' \in [Volumes -> {"no", "now", "before", "kept"}]
BY DEF TypeOK, PassTypeOK

LEMMA TypeReconcileStatefulSet == TypeOK /\ ReconcileStatefulSet => TypeOK'
<1> SUFFICES ASSUME TypeOK, ReconcileStatefulSet PROVE TypeOK'
  OBVIOUS
<1>1. CRTypeOK'
  BY DEF ReconcileStatefulSet, Frame, TypeOK, CRTypeOK
<1>2. StatefulSetDone \/ \E step \in {"delete", "create", "fail", "launch"} : Goto(step)
  BY DEF ReconcileStatefulSet, AfterFailedUpdate
<1>3. Moves
  BY <1>2, DoneMoves DEF Moves, Steps, TypeOK
<1>4. PassTypeOK'
  BY <1>3, MoveType, OwedType DEF ReconcileStatefulSet
<1>5. UNCHANGED <<sts, pod>> \/ (sts' = Desired(cr) /\ pod' = "starting")
  BY DEF ReconcileStatefulSet
<1>6. cr \in Specs
  BY DEF TypeOK, CRTypeOK
<1>7. KubeTypeOK'
  BY <1>5, <1>6, DesiredType, RemovedType DEF ReconcileStatefulSet, TypeOK
<1> QED
  BY <1>1, <1>4, <1>7 DEF TypeOK

LEMMA TypeDoDelete == TypeOK /\ doDeleteStatefulSet => TypeOK'
<1> SUFFICES ASSUME TypeOK, doDeleteStatefulSet PROVE TypeOK'
  OBVIOUS
<1>1. CRTypeOK'
  BY DEF doDeleteStatefulSet, Frame, TypeOK, CRTypeOK
<1>2. \/ StatefulSetDone \/ StartWalk("middle", cr.vols)
      \/ \E step \in {"fail", "drain", "remove"} : Goto(step)
  BY DEF doDeleteStatefulSet
<1>3. cr.vols \subseteq Volumes
  BY HostSpecAssumption DEF TypeOK, CRTypeOK
<1>4. Moves
  BY <1>2, <1>3, DoneMoves DEF Moves, Steps, TypeOK
<1>5. PassTypeOK'
  BY <1>4, MoveType, OwedType DEF doDeleteStatefulSet, ghostVars
<1>6. \/ UNCHANGED <<sts, pod>>
      \/ /\ sts # NoSts /\ sts' = [sts EXCEPT !.reps = 0]
         /\ pod' = IF pod = "none" THEN "none" ELSE "stopping"
  BY DEF doDeleteStatefulSet
<1>7. UNCHANGED <<sts, pod>> \/ (sts' \in Sets /\ pod' \in {"starting", "up", "none", "stopping"})
  BY <1>6, SetParts DEF TypeOK, KubeTypeOK
<1>8. KubeTypeOK'
  BY <1>7, RemovedType DEF doDeleteStatefulSet, TypeOK
<1> QED
  BY <1>1, <1>5, <1>8 DEF TypeOK

LEMMA TypeScaledDown == TypeOK /\ waitScaledDown => TypeOK'
<1> SUFFICES ASSUME TypeOK, waitScaledDown PROVE TypeOK'
  OBVIOUS
<1>1. CRTypeOK'
  BY DEF waitScaledDown, Frame, TypeOK, CRTypeOK
<1>2. Moves
  BY DEF waitScaledDown, Moves, Steps
<1>3. PassTypeOK'
  BY <1>2, MoveType, OwedType DEF waitScaledDown, ghostVars, hostVars
<1>4. KubeTypeOK'
  BY DEF waitScaledDown, TypeOK, KubeTypeOK
<1> QED
  BY <1>1, <1>3, <1>4 DEF TypeOK

LEMMA TypeDeleteStatefulSet == TypeOK /\ deleteStatefulSet => TypeOK'
<1> SUFFICES ASSUME TypeOK, deleteStatefulSet PROVE TypeOK'
  OBVIOUS
<1>1. CRTypeOK'
  BY DEF deleteStatefulSet, Frame, TypeOK, CRTypeOK
<1>2. cr.vols \subseteq Volumes
  BY HostSpecAssumption DEF TypeOK, CRTypeOK
<1>3. Moves
  BY <1>2 DEF deleteStatefulSet, Moves, Steps
<1>4. PassTypeOK'
  BY <1>3, MoveType, OwedType DEF deleteStatefulSet, ghostVars, hostVars
<1>5. KubeTypeOK'
  BY RemovedType DEF deleteStatefulSet, TypeOK
<1> QED
  BY <1>1, <1>4, <1>5 DEF TypeOK

LEMMA TypeCreate == TypeOK /\ createStatefulSet => TypeOK'
<1> SUFFICES ASSUME TypeOK, createStatefulSet PROVE TypeOK'
  OBVIOUS
<1>1. CRTypeOK' /\ cr \in Specs
  BY DEF createStatefulSet, Frame, TypeOK, CRTypeOK
<1>2. Moves
  BY DEF createStatefulSet, Moves, Steps
<1>3. PassTypeOK'
  BY <1>2, MoveType, OwedType DEF createStatefulSet, ghostVars
<1>4. UNCHANGED <<sts, pod>> \/ (sts' = Desired(cr) /\ pod' = "starting")
  BY DEF createStatefulSet
<1>5. KubeTypeOK'
  BY <1>1, <1>4, DesiredType, RemovedType DEF createStatefulSet, TypeOK
<1> QED
  BY <1>1, <1>3, <1>5 DEF TypeOK

LEMMA TypeLaunch == TypeOK /\ waitHostStatefulSetToLaunch => TypeOK'
<1> SUFFICES ASSUME TypeOK, waitHostStatefulSetToLaunch PROVE TypeOK'
  OBVIOUS
<1>1. CRTypeOK'
  BY DEF waitHostStatefulSetToLaunch, Frame, TypeOK, CRTypeOK
<1>2. StatefulSetDone \/ Goto("fail")
  BY DEF waitHostStatefulSetToLaunch
<1>3. Moves
  BY <1>2, DoneMoves DEF Moves, Steps, TypeOK
<1>4. PassTypeOK'
  BY <1>3, MoveType, OwedType DEF waitHostStatefulSetToLaunch, ghostVars, hostVars
<1> DEFINE deleted == {v \in Volumes : HostCanDeletePVC(v)}
<1>5. CASE UNCHANGED <<sts, pod, claim, tagged>>
  BY <1>1, <1>4, <1>5, SameTypes DEF TypeOK, kubeVars
<1>6. CASE Removed /\ claim' = WithDeleted(deleted, {}) /\ tagged' = tagged \ deleted
  <2>1. claim' \in [Volumes -> Claims]
    BY <1>6, WithDeletedType DEF TypeOK
  <2>2. \A v \in tagged \ deleted : claim'[v] = claim[v]
    BY <1>6 DEF WithDeleted, TypeOK, KubeTypeOK
  <2>3. KubeTypeOK'
    BY <1>6, <2>1, <2>2 DEF Removed, TypeOK, KubeTypeOK
  <2> QED
    BY <1>1, <1>4, <2>3 DEF TypeOK
<1> QED
  BY <1>5, <1>6 DEF waitHostStatefulSetToLaunch

LEMMA TypeTables == TypeOK /\ reconcileHostTables => TypeOK'
<1> SUFFICES ASSUME TypeOK, reconcileHostTables PROVE TypeOK'
  OBVIOUS
<1>1. CRTypeOK'
  BY DEF reconcileHostTables, Frame, TypeOK, CRTypeOK
<1>2. Moves
  BY DEF reconcileHostTables, Moves, Steps
<1>3. owed' \in [Volumes -> {"no", "now", "before", "kept"}]
  <2>1. owed' \in {owed, GivenUp} \/ \E d \in BOOLEAN : owed' = AfterDrop(d)
    BY DEF reconcileHostTables
  <2>2. \A d \in BOOLEAN : AfterDrop(d) \in [Volumes -> {"no", "now", "before", "kept"}]
    BY DEF AfterDrop
  <2> QED
    BY <2>1, <2>2, GivenUpType DEF TypeOK, PassTypeOK
<1>4. PassTypeOK'
  BY <1>2, <1>3, MoveType DEF reconcileHostTables, hostVars
<1> QED
  BY <1>1, <1>4, SameTypes DEF reconcileHostTables, TypeOK

\* What is to be purged is a flag and volumes.
LEMMA DoomedType ==
    \A f \in BOOLEAN : \A c \in SUBSET Volumes :
        [sts |-> f, claims |-> c] \in [sts : BOOLEAN, claims : SUBSET Volumes]
OBVIOUS

LEMMA TypeClean == TypeOK /\ clean => TypeOK'
<1> SUFFICES ASSUME TypeOK, clean PROVE TypeOK'
  OBVIOUS
<1>1. CRTypeOK'
  BY FrameType DEF clean, TypeOK, CRTypeOK
<1>2. doomed' \in [sts : BOOLEAN, claims : SUBSET Volumes]
  <2>1. CASE UNCHANGED doomed
    BY <2>1 DEF TypeOK, PassTypeOK
  <2>2. CASE \E found \in BOOLEAN, kept \in SUBSET Purged :
               doomed' = [sts |-> found /\ sts # NoSts /\ ~cr.there, claims |-> Purged \ kept]
    <3>1. PICK found \in BOOLEAN, kept \in SUBSET Purged :
            doomed' = [sts |-> found /\ sts # NoSts /\ ~cr.there, claims |-> Purged \ kept]
      BY <2>2
    <3>2. (found /\ sts # NoSts /\ ~cr.there) \in BOOLEAN /\ Purged \ kept \in SUBSET Volumes
      BY DEF Purged
    <3> QED
      BY <3>1, <3>2, DoomedType, Zenon
  <2> QED
    BY <2>1, <2>2 DEF clean
<1>3. \E step \in Steps : Goto(step)
  BY DEF clean, Steps
<1>4. PassTypeOK'
  BY <1>2, <1>3, GotoType DEF clean, hostVars, ghostVars, TypeOK, PassTypeOK
<1> QED
  BY <1>1, <1>4, SameTypes DEF clean, TypeOK

LEMMA TypePurge == TypeOK /\ purge => TypeOK'
<1> SUFFICES ASSUME TypeOK, purge PROVE TypeOK'
  OBVIOUS
<1>1. listed' \in BOOLEAN
  BY HostSpecAssumption DEF purge, TypeOK, CRTypeOK
<1>2. CRTypeOK'
  BY <1>1, FrameType DEF purge, TypeOK
<1>3. doomed' \in [sts : BOOLEAN, claims : SUBSET Volumes]
  BY DEF purge, TypeOK, PassTypeOK
<1>4. \E step \in Steps : Goto(step)
  BY DEF purge, Steps
<1>5. PassTypeOK'
  BY <1>3, <1>4, GotoType DEF purge, hostVars, ghostVars, TypeOK, PassTypeOK
<1>6. CASE (Removed \/ UNCHANGED <<sts, pod>>) /\ UNCHANGED <<claim, tagged>>
  <2>1. KubeTypeOK'
    BY <1>6, RemovedType DEF TypeOK
  <2> QED
    BY <1>2, <1>5, <2>1 DEF TypeOK
<1>7. CASE /\ claim' = claim \/ \E gone, users : claim' = WithDeleted(gone, users)
           /\ tagged' = {v \in tagged : claim'[v] # "none"} /\ UNCHANGED <<sts, pod>>
  <2>1. claim' \in [Volumes -> Claims]
    BY <1>7, WithDeletedType DEF TypeOK, KubeTypeOK
  <2>2. KubeTypeOK'
    BY <1>7, <2>1 DEF TypeOK, KubeTypeOK
  <2> QED
    BY <1>2, <1>5, <2>2 DEF TypeOK
<1> QED
  BY <1>6, <1>7 DEF purge, kubeVars

\* The end of a pass, however it comes.
LEMMA PassOverType ==
    ASSUME TypeOK, PassOver, UNCHANGED <<spec, policy, listed, owed>>,
           anc' \in Specs \cup {NoSpec}, phase' \in {"live", "deleting", "held", "gone"},
           status' \in {"", "InProgress", "Completed", "Aborted"}
    PROVE  CRTypeOK' /\ PassTypeOK'
<1>1. CRTypeOK'
  BY DEF PassOver, TypeOK, CRTypeOK
<1>2. opts' \in [recreate : BOOLEAN, migrate : BOOLEAN, drop : BOOLEAN]
  BY DEF PassOver, NoOptions
<1>3. PassTypeOK'
  BY <1>2 DEF PassOver, TypeOK, PassTypeOK, Steps, NothingDoomed
<1> QED
  BY <1>1, <1>3

LEMMA TypePassEnds ==
    ASSUME TypeOK, \/ finalizeReconcileAndMarkCompleted \/ markReconcileCompletedUnsuccessfully
                   \/ uninstallFinalizer \/ Restart
    PROVE  TypeOK'
<1>1. PassOver /\ UNCHANGED <<spec, policy, listed, owed>> /\ UNCHANGED kubeVars
  BY DEF finalizeReconcileAndMarkCompleted, markReconcileCompletedUnsuccessfully,
         uninstallFinalizer, Restart, crVars
<1>2. anc' \in Specs \cup {NoSpec}
  BY DEF finalizeReconcileAndMarkCompleted, markReconcileCompletedUnsuccessfully,
         uninstallFinalizer, Restart, crVars, TypeOK, CRTypeOK
<1>3. status' \in {"", "InProgress", "Completed", "Aborted"}
  BY DEF finalizeReconcileAndMarkCompleted, markReconcileCompletedUnsuccessfully,
         uninstallFinalizer, Restart, crVars, TypeOK, CRTypeOK
<1>4. phase' \in {"live", "deleting", "held", "gone"}
  BY DEF finalizeReconcileAndMarkCompleted, markReconcileCompletedUnsuccessfully,
         uninstallFinalizer, Restart, crVars, TypeOK, CRTypeOK
<1> QED
  BY <1>1, <1>2, <1>3, <1>4, PassOverType, SameTypes DEF TypeOK

LEMMA TypeDeleteHost == TypeOK /\ deleteHost => TypeOK'
<1> SUFFICES ASSUME TypeOK, deleteHost PROVE TypeOK'
  OBVIOUS
<1>1. CRTypeOK'
  BY DEF deleteHost, crVars, TypeOK, CRTypeOK
<1>2. Moves
  BY DEF deleteHost, Moves, Steps
<1>3. PassTypeOK'
  BY <1>2, MoveType, OwedType DEF deleteHost, ghostVars
<1> QED
  BY <1>1, <1>3, SameTypes DEF deleteHost, TypeOK

LEMMA TypeDeleteHostStatefulSet == TypeOK /\ deleteHostStatefulSet => TypeOK'
<1> SUFFICES ASSUME TypeOK, deleteHostStatefulSet PROVE TypeOK'
  OBVIOUS
<1>1. CRTypeOK'
  BY DEF deleteHostStatefulSet, Frame, TypeOK, CRTypeOK
<1>2. Moves
  BY DEF deleteHostStatefulSet, Moves, Steps
<1>3. PassTypeOK'
  BY <1>2, MoveType, OwedType DEF deleteHostStatefulSet, ghostVars, hostVars
<1>4. KubeTypeOK'
  BY RemovedType DEF deleteHostStatefulSet, TypeOK
<1> QED
  BY <1>1, <1>3, <1>4 DEF TypeOK

LEMMA TypeDeletePVC == TypeOK /\ DeletePVC => TypeOK'
<1> SUFFICES ASSUME TypeOK, DeletePVC PROVE TypeOK'
  OBVIOUS
<1>1. CRTypeOK'
  BY DEF DeletePVC, Frame, TypeOK, CRTypeOK
<1>2. Moves
  BY DEF DeletePVC, Moves, Steps
<1>3. PassTypeOK'
  BY <1>2, MoveType, OwedType DEF DeletePVC, ghostVars, hostVars
<1>4. claim' \in [Volumes -> Claims]
  BY WithDeletedType DEF DeletePVC, TypeOK
<1>5. KubeTypeOK'
  BY <1>4 DEF DeletePVC, TypeOK, KubeTypeOK
<1> QED
  BY <1>1, <1>3, <1>5 DEF TypeOK

LEMMA TypeClients == ASSUME TypeOK, EditSpec \/ DeleteCR PROVE TypeOK'
<1>1. CRTypeOK'
  BY HostSpecAssumption DEF EditSpec, DeleteCR, passVars, TypeOK, CRTypeOK
<1> QED
  BY <1>1, SameTypes DEF EditSpec, DeleteCR, ghostVars, TypeOK

\* The steps that only take a CR from the queue or put it there.
LEMMA TypeQueue ==
    ASSUME TypeOK, updateCHINotFound \/ gateNothingToDo \/ Deliver PROVE TypeOK'
BY SameTypes DEF updateCHINotFound, gateNothingToDo, Deliver, passVars, ghostVars, TypeOK

LEMMA TypeCluster ==
    ASSUME TypeOK, Cluster \/ LoseVolume \/ PodFails
    PROVE  TypeOK'
<1>1. UNCHANGED <<crVars, passVars, owed>> /\ UNCHANGED cr
  BY DEF Cluster, PodStarts, ClaimProvisioned, PodStops, ClaimGoes, LoseVolume, PodFails,
         ghostVars, passVars
<1>2. CRTypeOK' /\ PassTypeOK'
  BY <1>1, SameTypes DEF TypeOK
<1>3. CASE PodStarts \/ PodStops \/ PodFails
  <2>1. KubeTypeOK'
    BY <1>3 DEF PodStarts, PodStops, PodFails, TypeOK, KubeTypeOK
  <2> QED
    BY <1>2, <2>1 DEF TypeOK
<1>4. CASE ClaimProvisioned
  <2>1. PICK v : claim' = [claim EXCEPT ![v] = "bound"]
    BY <1>4 DEF ClaimProvisioned
  <2>2. KubeTypeOK'
    BY <1>4, <2>1 DEF ClaimProvisioned, TypeOK, KubeTypeOK, Claims
  <2> QED
    BY <1>2, <2>2 DEF TypeOK
<1>5. CASE ClaimGoes
  <2>1. PICK v \in Volumes : claim' = [claim EXCEPT ![v] = "none"] /\ tagged' = tagged \ {v}
    BY <1>5 DEF ClaimGoes
  <2>2. KubeTypeOK'
    BY <1>5, <2>1 DEF ClaimGoes, TypeOK, KubeTypeOK, Claims
  <2> QED
    BY <1>2, <2>2 DEF TypeOK
<1>6. CASE LoseVolume
  <2>1. PICK v \in Volumes, c \in {"lost", "none"} :
          /\ claim' = [claim EXCEPT ![v] = c]
          /\ tagged' = IF c = "none" THEN tagged \ {v} ELSE tagged
          /\ pod' = IF pod = "up" /\ v \in Mounted THEN "starting" ELSE pod
    BY <1>6 DEF LoseVolume
  <2>2. KubeTypeOK'
    BY <1>6, <2>1 DEF LoseVolume, TypeOK, KubeTypeOK, Claims
  <2> QED
    BY <1>2, <2>2 DEF TypeOK
<1> QED
  BY <1>3, <1>4, <1>5, <1>6 DEF Cluster

LEMMA TypeStep == TypeOK /\ [Next]_vars => TypeOK'
<1>1. TypeOK /\ UNCHANGED vars => TypeOK'
  BY SameTypes DEF TypeOK, vars, passVars, ghostVars
<1> QED
  BY <1>1, TypePassBegins, TypeReconcilePVCs, TypeVolumesWalked, TypePrepare,
     TypeReconcileStatefulSet, TypeDoDelete, TypeScaledDown, TypeDeleteStatefulSet,
     TypeCreate, TypeLaunch, TypeTables, TypeClean, TypePurge, TypePassEnds, TypeDeleteHost,
     TypeDeleteHostStatefulSet, TypeDeletePVC, TypeClients, TypeQueue, TypeCluster
  DEF Next, Worker

\* The objects of the host keep to their types: a StatefulSet has the volumes of
\* some specification, a pod its StatefulSet, and a tagged claim is there.
THEOREM HostTypeCorrect == Spec => []TypeOK
<1> QED
  BY TypeInit, TypeStep, PTL DEF Spec

-----------------------------------------------------------------------------
(* Losses are recovered                                                    *)

NoneOwed == \A v \in Volumes : owed[v] # "now"

\* LossInv, action by action: between the walk and the tables the options carry the loss.
LEMMA LossMiddle ==
    ASSUME LossInv, pc \in MiddleSteps, UNCHANGED <<owed, opts, cancelled>>,
           pc' \in MiddleSteps \cup {"fail"} \/ (pc' = "pvcs" /\ leg' # "first")
    PROVE  LossInv'
BY DEF LossInv, MiddleSteps

LEMMA LossPassBegins == TypeOK /\ PassBegins => LossInv'
<1> SUFFICES ASSUME TypeOK, PassBegins PROVE NoneOwed'
  BY DEF NoneOwed, LossInv
<1> QED
  BY DEF PassBegins, GivenUp, NoneOwed

\* During the walk the verdict carries it, whatever the other volumes say.
LEMMA LossReconcilePVCs == TypeOK /\ LossInv /\ ReconcilePVCs => LossInv'
<1> SUFFICES ASSUME TypeOK, LossInv, ReconcilePVCs, ~NoneOwed' PROVE LossInv'
  BY DEF NoneOwed, LossInv
<1>1. PICK i \in todo : reconcilePVCFromVolumeMount(VolumeSeq[i])
  BY DEF ReconcilePVCs
<1> DEFINE v == VolumeSeq[i]
<1>2. /\ ~cancelled /\ cancelled' = cancelled /\ pc = "pvcs" /\ pc' = "pvcs" /\ leg' = leg
      /\ opts' = opts
  BY DEF ReconcilePVCs, Frame, queueVars, hostVars
<1>3. v \in Volumes /\ verdict \in {"", "new", "missed", "lost"}
  BY VolumeIndex DEF TypeOK, PassTypeOK
<1>4. CASE leg # "first"
  <2>1. owed' = owed
    BY <1>1, <1>4 DEF reconcilePVCFromVolumeMount
  <2> QED
    BY <1>2, <1>4, <2>1 DEF LossInv, MiddleSteps
<1>5. CASE leg = "first"
  <2>1. ~NoneOwed => verdict \in Severe
    BY <1>2, <1>5 DEF LossInv, NoneOwed
  <2>2. CASE UNCHANGED <<verdict, owed>>
    BY <1>2, <1>5, <2>1, <2>2 DEF LossInv, NoneOwed, MiddleSteps
  <2>3. CASE ~UNCHANGED <<verdict, owed>>
    <3>1. /\ verdict' \in {moreSevere(verdict, VolumeVerdict(v)), moreSevere(verdict, "lost")}
          /\ owed' = IF leg = "first" /\ listed /\ VolumeVerdict(v) \in {"lost", "missed"}
                     THEN [owed EXCEPT ![v] = "now"] ELSE owed
      BY <1>1, <2>3 DEF reconcilePVCFromVolumeMount
    <3>2. ~NoneOwed \/ VolumeVerdict(v) \in Severe
      BY <3>1 DEF NoneOwed, Severe
    <3>3. /\ moreSevere(verdict, "lost") \in Severe
          /\ verdict \in Severe \/ VolumeVerdict(v) \in Severe =>
                moreSevere(verdict, VolumeVerdict(v)) \in Severe
      <4>1. "lost" \in {"", "new", "missed", "lost"} /\ "lost" \in Severe
        BY DEF Severe
      <4>2. VolumeVerdict(v) \in {"", "new", "missed", "lost"}
        BY VolumeVerdictType, Zenon
      <4>3. moreSevere(verdict, "lost") \in Severe
        BY <1>3, <4>1, VerdictType, Zenon
      <4>4. verdict \in Severe \/ VolumeVerdict(v) \in Severe =>
                moreSevere(verdict, VolumeVerdict(v)) \in Severe
        BY <1>3, <4>2, VerdictType, Zenon
      <4> QED
        BY <4>3, <4>4, Zenon
    <3>4. verdict' \in Severe
      BY <2>1, <3>1, <3>2, <3>3, Zenon
    <3> QED
      BY <1>2, <1>5, <3>4 DEF LossInv, MiddleSteps
  <2> QED
    BY <2>2, <2>3
<1> QED
  BY <1>4, <1>5

LEMMA LossVolumesWalked == TypeOK /\ LossInv /\ VolumesWalked => LossInv'
<1> SUFFICES ASSUME TypeOK, LossInv, VolumesWalked, ~NoneOwed, ~cancelled PROVE LossInv'
  <2>1. TypeOK /\ VolumesWalked => owed' = owed /\ cancelled' = cancelled
    BY DEF VolumesWalked, ghostVars, Frame, queueVars
  <2> QED
    BY <2>1 DEF NoneOwed, LossInv
<1>1. pc = "pvcs" /\ leg' = leg
  BY DEF VolumesWalked, Goto, walkVars
<1>2. CASE leg = "first"
  <2>1. verdict \in Severe
    BY <1>1, <1>2 DEF LossInv, NoneOwed
  <2>2. \/ pc' = "fail"
        \/ pc' = "status" /\ opts' = [recreate |-> verdict # "", migrate |-> verdict # "",
                                      drop |-> verdict \in {"lost", "missed"}]
    BY <1>2 DEF VolumesWalked, Goto
  <2>3. verdict # "" /\ verdict \in {"lost", "missed"}
    BY <2>1 DEF Severe
  <2>4. CASE pc' = "fail"
    BY <2>4 DEF LossInv, MiddleSteps
  <2>5. CASE pc' = "status" /\ opts' = [recreate |-> verdict # "", migrate |-> verdict # "",
                                        drop |-> verdict \in {"lost", "missed"}]
    <3>1. opts'.drop /\ opts'.migrate
      BY <2>3, <2>5, Zenon
    <3> QED
      BY <2>5, <3>1 DEF LossInv, MiddleSteps
  <2> QED
    BY <2>2, <2>4, <2>5
<1>3. CASE leg # "first"
  <2>1. opts.drop /\ opts.migrate
    BY <1>1, <1>3 DEF LossInv, NoneOwed
  <2>2. opts' = opts /\ pc' \in {"create", "tables"}
    BY <1>3 DEF VolumesWalked, Goto
  <2> QED
    BY <2>1, <2>2 DEF LossInv, MiddleSteps
<1> QED
  BY <1>2, <1>3

\* The StatefulSet's steps go on, or end the pass.
LEMMA StatefulSetMoves ==
    ASSUME \/ PrepareHostStatefulSetWithStatus \/ ReconcileStatefulSet
           \/ doDeleteStatefulSet \/ waitScaledDown \/ deleteStatefulSet
           \/ createStatefulSet \/ waitHostStatefulSetToLaunch
    PROVE  \/ \E step \in MiddleSteps \cup {"fail"} : Goto(step)
           \/ StatefulSetDone \/ StartWalk("middle", cr.vols)
<1>1. CASE ReconcileStatefulSet
  BY <1>1 DEF ReconcileStatefulSet, AfterFailedUpdate, MiddleSteps
<1>2. CASE \/ PrepareHostStatefulSetWithStatus
           \/ doDeleteStatefulSet \/ waitScaledDown \/ deleteStatefulSet
           \/ createStatefulSet \/ waitHostStatefulSetToLaunch
  BY <1>2
  DEF PrepareHostStatefulSetWithStatus, doDeleteStatefulSet, waitScaledDown,
      deleteStatefulSet, createStatefulSet, waitHostStatefulSetToLaunch, MiddleSteps
<1> QED
  BY <1>1, <1>2

LEMMA LossStatefulSet ==
    ASSUME LossInv, \/ PrepareHostStatefulSetWithStatus \/ ReconcileStatefulSet
                    \/ doDeleteStatefulSet \/ waitScaledDown \/ deleteStatefulSet
                    \/ createStatefulSet \/ waitHostStatefulSetToLaunch
    PROVE  LossInv'
<1>1. pc \in MiddleSteps /\ UNCHANGED <<owed, opts, cancelled>>
  BY DEF PrepareHostStatefulSetWithStatus, ReconcileStatefulSet, doDeleteStatefulSet,
         waitScaledDown, deleteStatefulSet, createStatefulSet, waitHostStatefulSetToLaunch,
         MiddleSteps, Frame, queueVars, ghostVars, hostVars
<1>2. \/ \E step \in MiddleSteps \cup {"fail"} : Goto(step)
      \/ StatefulSetDone \/ StartWalk("middle", cr.vols)
  BY StatefulSetMoves
<1>3. pc' \in MiddleSteps \cup {"fail"} \/ (pc' = "pvcs" /\ leg' # "first")
  BY <1>2 DEF Goto, StatefulSetDone, StartWalk
<1> QED
  BY <1>1, <1>3, LossMiddle

\* The tables are created anew, or the host does not answer; nothing else goes on.
LEMMA LossTables == LossInv /\ reconcileHostTables => LossInv'
<1> SUFFICES ASSUME LossInv, reconcileHostTables, ~cancelled PROVE LossInv'
  <2>1. reconcileHostTables => cancelled' = cancelled
    BY DEF reconcileHostTables, Frame, queueVars
  <2> QED
    BY <2>1 DEF LossInv
<1>1. ~NoneOwed => opts.drop /\ opts.migrate
  BY DEF reconcileHostTables, LossInv, NoneOwed, MiddleSteps
<1>2. \/ pc' = "fail"
      \/ pc' = "clean" /\ ~shouldMigrateTables /\ owed' = owed
      \/ owed' \in IF opts.drop THEN {AfterDrop(d) : d \in BOOLEAN} ELSE {owed}
      \/ owed' = GivenUp
  BY DEF reconcileHostTables, Goto
<1>3. pc' = "fail" \/ NoneOwed'
  BY <1>1, <1>2 DEF NoneOwed, shouldMigrateTables, GivenUp, AfterDrop
<1> QED
  BY <1>3 DEF LossInv, NoneOwed, MiddleSteps

\* The rest of the steps are past the recovery, end the pass, or cancel it.
LEMMA LossOther ==
    ASSUME LossInv,
           \/ clean \/ purge \/ finalizeReconcileAndMarkCompleted
           \/ markReconcileCompletedUnsuccessfully
           \/ deleteHost \/ deleteHostStatefulSet \/ DeletePVC \/ uninstallFinalizer
           \/ updateCHINotFound \/ gateNothingToDo \/ Deliver
           \/ Cluster \/ EditSpec \/ DeleteCR \/ LoseVolume \/ PodFails \/ Restart
           \/ UNCHANGED vars
    PROVE  LossInv'
<1>1. CASE clean \/ purge
  <2>1. /\ pc \in {"clean", "purge"} /\ pc' \in {"purge", "stamp"}
        /\ UNCHANGED <<owed, cancelled>>
    BY <1>1 DEF clean, purge, Goto, Frame, queueVars, ghostVars
  <2> QED
    BY <2>1 DEF LossInv, MiddleSteps
<1>2. CASE \/ finalizeReconcileAndMarkCompleted \/ markReconcileCompletedUnsuccessfully
           \/ uninstallFinalizer \/ Restart
  BY <1>2 DEF finalizeReconcileAndMarkCompleted, markReconcileCompletedUnsuccessfully,
     uninstallFinalizer, Restart, PassOver, LossInv, MiddleSteps
<1>3. CASE deleteHost \/ deleteHostStatefulSet \/ DeletePVC
  BY <1>3 DEF deleteHost, deleteHostStatefulSet, DeletePVC, Goto, LossInv, MiddleSteps
<1>4. CASE \/ Cluster \/ EditSpec \/ DeleteCR \/ LoseVolume \/ PodFails
           \/ updateCHINotFound \/ gateNothingToDo \/ UNCHANGED vars
  <2>1. UNCHANGED <<owed, cancelled, pc, leg, verdict, opts>>
    BY <1>4 DEF EditSpec, DeleteCR, updateCHINotFound, gateNothingToDo, Cluster, PodStarts, ClaimProvisioned, PodStops, ClaimGoes, LoseVolume, PodFails,
       vars, passVars, walkVars, hostVars, queueVars, ghostVars
  <2> QED
    BY <2>1 DEF LossInv
<1>5. CASE Deliver
  <2>1. UNCHANGED pc /\ (~cancelled' => pc = "idle")
    BY <1>5 DEF Deliver, passVars
  <2> QED
    BY <2>1 DEF LossInv, MiddleSteps
<1> QED
  BY <1>1, <1>2, <1>3, <1>4, <1>5

LEMMA LossStep == TypeOK /\ LossInv /\ [Next]_vars => LossInv'
BY LossPassBegins, LossReconcilePVCs, LossVolumesWalked, LossStatefulSet, LossTables, LossOther
DEF Next, Worker

\* No pass completes with a volume it found lost before the replica was told to go,
\* whether or not it did, and the tables were created anew: what it found on other
\* volumes does not hide the loss, nor does any step in between forget it
\* (moreSevere, reconcileHostMain, reconcileHostTables).
THEOREM LossesRecovered == Spec => LossRecovered
<1>1. Init => LossInv
  BY DEF Init, LossInv, MiddleSteps
<1>2. TypeOK /\ LossInv /\ [Next]_vars =>
        [status # "Completed" /\ status' = "Completed" => \A v \in cr.vols : owed[v] # "now"]_vars
  <2> SUFFICES ASSUME TypeOK, LossInv, Next, status # "Completed", status' = "Completed"
               PROVE  NoneOwed
    <3>1. TypeOK => cr.vols \subseteq Volumes
      BY HostSpecAssumption DEF TypeOK, CRTypeOK
    <3> QED
      BY <3>1 DEF NoneOwed
  <2>1. finalizeReconcileAndMarkCompleted
    BY DEF Next, Worker, Cluster, PassBegins, ReconcilePVCs, VolumesWalked,
       PrepareHostStatefulSetWithStatus, ReconcileStatefulSet, doDeleteStatefulSet,
       waitScaledDown, deleteStatefulSet, createStatefulSet, waitHostStatefulSetToLaunch,
       reconcileHostTables, clean, purge, markReconcileCompletedUnsuccessfully, deleteHost,
       deleteHostStatefulSet, DeletePVC, uninstallFinalizer, PodStarts, ClaimProvisioned,
       PodStops, ClaimGoes, EditSpec, DeleteCR, Deliver, updateCHINotFound, gateNothingToDo,
       LoseVolume, PodFails, Restart, crVars
  <2> QED
    BY <2>1 DEF finalizeReconcileAndMarkCompleted, LossInv, NoneOwed
<1> QED
  BY <1>1, <1>2, LossStep, HostTypeCorrect, PTL DEF Spec, LossRecovered

-----------------------------------------------------------------------------
(* Where a pass stands                                                     *)

\* A step of the pass past the walk over the claims: it tags nothing, takes
\* nothing off the registries and starts no first walk.
Onward ==
    /\ Frame /\ pc \in PassSteps /\ pc' \in PassSteps \cup {"fail"}
    /\ tagged' \subseteq tagged /\ UNCHANGED <<reconciled, failed>> /\ (well' => well)
    /\ pc = "pvcs" => todo = {} \/ cancelled
    /\ pc' = "pvcs" => leg' # "first"

\* Where the steps behind the first walk go.
LEMMA MoveOnward ==
    /\ \A step : Goto(step) => pc' = step
    /\ \A vols : StartWalk("middle", vols) => pc' = "pvcs" /\ leg' # "first"
    /\ StatefulSetDone => pc' = "pvcs" /\ leg' # "first"
BY DEF Goto, StartWalk, StatefulSetDone

LEMMA OnwardStatefulSet ==
    ASSUME \/ PrepareHostStatefulSetWithStatus \/ ReconcileStatefulSet
           \/ doDeleteStatefulSet \/ waitScaledDown \/ deleteStatefulSet
           \/ createStatefulSet \/ waitHostStatefulSetToLaunch
    PROVE  Onward
<1>1. pc \in PassSteps \ {"pvcs"}
  BY DEF PrepareHostStatefulSetWithStatus, ReconcileStatefulSet, doDeleteStatefulSet,
         waitScaledDown, deleteStatefulSet, createStatefulSet, waitHostStatefulSetToLaunch,
         PassSteps
<1>2. Frame /\ UNCHANGED <<reconciled, failed>>
  BY DEF PrepareHostStatefulSetWithStatus, ReconcileStatefulSet, doDeleteStatefulSet,
         waitScaledDown, deleteStatefulSet, createStatefulSet, waitHostStatefulSetToLaunch,
         registryVars
<1>3. tagged' \subseteq tagged
  BY DEF PrepareHostStatefulSetWithStatus, ReconcileStatefulSet, doDeleteStatefulSet,
         waitScaledDown, deleteStatefulSet, createStatefulSet, waitHostStatefulSetToLaunch,
         kubeVars
<1>4. well' => well
  BY DEF PrepareHostStatefulSetWithStatus, ReconcileStatefulSet, doDeleteStatefulSet,
         waitScaledDown, deleteStatefulSet, createStatefulSet, waitHostStatefulSetToLaunch,
         ghostVars
<1>5. \/ \E step \in MiddleSteps \cup {"fail"} : Goto(step)
      \/ StatefulSetDone \/ StartWalk("middle", cr.vols)
  BY StatefulSetMoves
<1>6. pc' \in PassSteps \cup {"fail"} /\ (pc' = "pvcs" => leg' # "first")
  BY <1>5, MoveOnward DEF MiddleSteps, PassSteps
<1> QED
  BY <1>1, <1>2, <1>3, <1>4, <1>6 DEF Onward

LEMMA OnwardRest ==
    ASSUME TypeOK, VolumesWalked \/ reconcileHostTables \/ clean \/ purge
    PROVE  Onward
<1>1. CASE VolumesWalked
  BY <1>1 DEF VolumesWalked, Goto, Onward, PassSteps, kubeVars, ghostVars, registryVars
<1>2. CASE reconcileHostTables
  BY <1>2 DEF reconcileHostTables, Goto, Onward, PassSteps, kubeVars, registryVars
<1>3. CASE clean
  BY <1>3 DEF clean, Goto, Onward, PassSteps, kubeVars, ghostVars
<1>4. CASE purge
  <2>1. tagged' \subseteq tagged
    BY <1>4 DEF purge, kubeVars
  <2> QED
    BY <1>4, <2>1 DEF purge, Goto, Onward, PassSteps, ghostVars
<1> QED
  BY <1>1, <1>2, <1>3, <1>4

\* Such steps keep the registries and the CR of the pass.
LEMMA OnwardInv ==
    ASSUME CurrentInv, CoveredInv, Onward
    PROVE  CurrentInv' /\ CoveredInv'
<1>1. pc' \notin DeleteSteps
  BY DEF Onward, PassSteps, DeleteSteps
<1>2. CurrentInv'
  BY <1>1 DEF CurrentInv, Onward, Frame, DeleteSteps
<1>3. CoveredInv'
  <2> SUFFICES ASSUME ~cancelled, cr.there, NEW v \in cr.vols, v \in tagged' \/ well'
               PROVE  v \in reconciled' \cup failed'
    BY DEF CoveredInv, Onward, Frame, queueVars
  <2>1. Visited(v)
    BY DEF Onward, Visited
  <2> QED
    BY <2>1 DEF CoveredInv, Onward
<1> QED
  BY <1>2, <1>3

\* The other steps: a pass begins or ends, the deletion, and the world around.
LEMMA CurrentOther ==
    ASSUME TypeOK, CurrentInv, CoveredInv,
           \/ PassBegins \/ finalizeReconcileAndMarkCompleted
           \/ markReconcileCompletedUnsuccessfully \/ deleteHost \/ deleteHostStatefulSet
           \/ DeletePVC \/ uninstallFinalizer \/ updateCHINotFound \/ gateNothingToDo
           \/ Deliver \/ Cluster \/ EditSpec \/ DeleteCR
           \/ LoseVolume \/ PodFails \/ Restart \/ UNCHANGED vars
    PROVE  CurrentInv' /\ CoveredInv'
<1>1. CASE PassBegins
  <2>1. CurrentInv'
    BY <1>1 DEF PassBegins, StartWalk, Goto, CurrentInv, DeleteSteps
  <2>2. CASE spec.there
    <3> SUFFICES ASSUME NEW v \in spec.vols PROVE ~Visited(v)'
      BY <1>1, <2>1 DEF PassBegins, CoveredInv
    <3>1. PICK i \in DOMAIN VolumeSeq : VolumeSeq[i] = v
      BY HostSpecAssumption, VolumeIndex DEF TypeOK, CRTypeOK
    <3>2. StartWalk("first", spec.vols)
      BY <1>1, <2>2 DEF PassBegins
    <3> QED
      BY <3>1, <3>2 DEF StartWalk, Visited
  <2>3. CASE ~spec.there
    BY <1>1, <2>1, <2>3 DEF PassBegins, CoveredInv
  <2> QED
    BY <2>2, <2>3
<1>2. CASE \/ finalizeReconcileAndMarkCompleted \/ markReconcileCompletedUnsuccessfully
           \/ uninstallFinalizer \/ Restart
  BY <1>2 DEF finalizeReconcileAndMarkCompleted, markReconcileCompletedUnsuccessfully,
     uninstallFinalizer, Restart, PassOver, CurrentInv, CoveredInv, PassSteps, DeleteSteps
<1>3. CASE deleteHost
  <2>1. pc' = "delsts" => cur' = sts.vols /\ sts \in Sets
    BY <1>3 DEF deleteHost, Goto, TypeOK, KubeTypeOK
  <2>2. \A x \in Sets : \E s \in Specs : x.vols = s.vols
    BY DEF Sets
  <2>3. pc' \in {"delsts", "finalizer"} /\ phase' # "live"
    BY <1>3 DEF deleteHost, Goto, crVars
  <2> QED
    BY <2>1, <2>2, <2>3 DEF CurrentInv, CoveredInv, PassSteps, DeleteSteps
<1>4. CASE deleteHostStatefulSet \/ DeletePVC
  BY <1>4 DEF deleteHostStatefulSet, DeletePVC, Goto, Frame, hostVars, CurrentInv, CoveredInv,
     PassSteps, DeleteSteps
<1>5. CASE \/ Cluster \/ EditSpec \/ DeleteCR \/ LoseVolume \/ PodFails
           \/ updateCHINotFound \/ gateNothingToDo \/ UNCHANGED vars
  <2>1. /\ UNCHANGED <<cancelled, cr, pc, leg, todo, cur, reconciled, failed>>
        /\ phase' = phase \/ phase' # "live"
    BY <1>5 DEF EditSpec, DeleteCR, updateCHINotFound, gateNothingToDo, Cluster, PodStarts, ClaimProvisioned, PodStops, ClaimGoes, LoseVolume, PodFails,
       vars, crVars, passVars, walkVars, hostVars, queueVars, registryVars
  <2>2. tagged' \subseteq tagged
    BY <1>5 DEF EditSpec, DeleteCR, updateCHINotFound, gateNothingToDo, Cluster, PodStarts, ClaimProvisioned, PodStops, ClaimGoes, LoseVolume, PodFails,
       vars, kubeVars
  <2>3. well' => well
    BY <1>5 DEF EditSpec, DeleteCR, updateCHINotFound, gateNothingToDo, Cluster, PodStarts, ClaimProvisioned, PodStops, ClaimGoes, LoseVolume, PodFails,
       vars, ghostVars
  <2> QED
    BY <2>1, <2>2, <2>3 DEF CurrentInv, CoveredInv, Visited
<1>6. CASE Deliver
  <2>1. UNCHANGED <<pc, cr, cur, phase>> /\ (~cancelled' => pc = "idle")
    BY <1>6 DEF Deliver, crVars, passVars, hostVars
  <2> QED
    BY <2>1 DEF CurrentInv, CoveredInv, PassSteps
<1> QED
  BY <1>1, <1>2, <1>3, <1>4, <1>5, <1>6

\* A claim in use that the walk comes to goes into a registry; only an unread one
\* would not.
LEMMA CurrentReconcilePVCs ==
    ASSUME TypeOK, ClaimsSafe, CurrentInv, CoveredInv, WellUntouched, ReconcilePVCs
    PROVE  CurrentInv' /\ CoveredInv'
<1>1. PICK i \in todo : todo' = todo \ {i} /\ reconcilePVCFromVolumeMount(VolumeSeq[i])
  BY DEF ReconcilePVCs
<1>2. /\ Frame /\ pc = "pvcs" /\ pc' = "pvcs" /\ UNCHANGED <<leg, cur, well>>
      /\ UNCHANGED <<cr, spec, phase, cancelled>>
  BY DEF ReconcilePVCs, hostVars, Frame, queueVars
<1>3. CurrentInv'
  BY <1>2 DEF CurrentInv, PassSteps, DeleteSteps
<1> DEFINE u == VolumeSeq[i]
<1>4. u \in Volumes
  BY VolumeIndex DEF TypeOK, PassTypeOK
<1>5. /\ reconciled \cup failed \subseteq reconciled' \cup failed'
      /\ tagged' \subseteq tagged \cup {u}
      /\ u \in tagged' \/ claim[u] = "bound" => u \in reconciled' \cup failed'
  <2>1. ~Fault("claimread")
    BY DEF ClaimsSafe, Fault
  <2> HIDE DEF u
  <2>2. reconcilePVCFromVolumeMount(u)
    BY <1>1 DEF u
  <2> QED
    BY <2>1, <2>2 DEF reconcilePVCFromVolumeMount, registryVars
<1>6. CoveredInv'
  <2> SUFFICES ASSUME ~cancelled, cr.there, NEW v \in cr.vols, Visited(v)', v \in tagged' \/ well
               PROVE  v \in reconciled' \cup failed'
    BY <1>2 DEF CoveredInv
  <2>1. CASE v = u
    BY <1>5, <2>1 DEF WellUntouched
  <2>2. CASE v # u
    <3>1. Visited(v)
      BY <1>1, <1>2, <2>2 DEF Visited
    <3> QED
      BY <1>2, <1>5, <2>2, <3>1 DEF CoveredInv, PassSteps
  <2> QED
    BY <2>1, <2>2
<1> QED
  BY <1>3, <1>6

\* Every claim in use stays covered by the registries.
LEMMA CurrentStep ==
    ASSUME TypeOK, ClaimsSafe, CurrentInv, CoveredInv, WellUntouched, [Next]_vars
    PROVE  CurrentInv' /\ CoveredInv'
BY CurrentReconcilePVCs, OnwardStatefulSet, OnwardRest, OnwardInv, CurrentOther DEF Next, Worker

-----------------------------------------------------------------------------
(* A host that needs nothing is left alone                                 *)

\* The host is as the pass wants it.
LEMMA WellParts ==
    ASSUME TypeOK, well, WellUntouched
    PROVE  /\ pod = "up" /\ sts # NoSts /\ sts = Desired(cr) /\ sts.vols = cr.vols
           /\ IsStatefulSetReady /\ Updatable /\ cr.vols \subseteq Volumes
<1>1. pod = "up" /\ sts = Desired(cr) /\ cr \in Specs
  BY DEF WellUntouched, TypeOK, CRTypeOK
<1>2. sts # NoSts
  BY <1>1, DesiredType
<1>3. sts.vols = cr.vols /\ sts.reps = 1
  BY <1>1 DEF Desired
<1>4. cr.vols \subseteq Volumes
  BY <1>1, HostSpecAssumption
<1>5. IsStatefulSetReady
  BY <1>1, <1>3 DEF IsStatefulSetReady
<1> QED
  BY <1>1, <1>2, <1>3, <1>4, <1>5 DEF Updatable

\* A sound host that no step touches stays sound.
LEMMA WellSame ==
    ASSUME WellUntouched, UNCHANGED <<sts, pod, claim, cr>>, well' => well
    PROVE  WellUntouched'
BY DEF WellUntouched

LEMMA WellPassBegins == PassBegins => WellUntouched' /\ WellInv'
<1> SUFFICES ASSUME PassBegins PROVE WellUntouched' /\ WellInv'
  OBVIOUS
<1>1. WellUntouched'
  BY DEF PassBegins, kubeVars, WellUntouched, Desired
<1>2. spec.there => StartWalk("first", spec.vols) /\ cr' = spec
  BY DEF PassBegins
<1>3. well' => spec.there
  BY DEF PassBegins
<1>4. WellInv'
  BY <1>2, <1>3 DEF StartWalk, WellInv
<1> QED
  BY <1>1, <1>4

\* The walk takes every claim of a sound host as it is.
LEMMA WellReconcilePVCs ==
    ASSUME TypeOK, WellUntouched, WellInv, ReconcilePVCs
    PROVE  WellUntouched' /\ WellInv'
<1> SUFFICES ASSUME well PROVE WellUntouched' /\ WellInv'
  <2>1. well' = well
    BY DEF ReconcilePVCs
  <2> QED
    BY <2>1 DEF WellUntouched, WellInv
<1>1. PICK i \in todo : todo' = todo \ {i} /\ reconcilePVCFromVolumeMount(VolumeSeq[i])
  BY DEF ReconcilePVCs
<1>2. /\ pc = "pvcs" /\ pc' = "pvcs" /\ UNCHANGED <<leg, well, cr, sts, pod, opts>>
  BY DEF ReconcilePVCs, hostVars, Frame
<1> DEFINE u == VolumeSeq[i]
<1>3. u \in Volumes /\ claim \in [Volumes -> Claims]
  BY VolumeIndex DEF TypeOK, PassTypeOK, KubeTypeOK
<1>4. reconcilePVCFromVolumeMount(u)
  BY <1>1
<1> HIDE DEF u
<1>5. claim[u] = "bound" => claim' = claim
  BY <1>3, <1>4 DEF reconcilePVCFromVolumeMount
<1>6. \A v \in Volumes : v # u => claim'[v] = claim[v]
  BY <1>3, <1>4 DEF reconcilePVCFromVolumeMount
<1>7. WellUntouched'
  <2> SUFFICES ASSUME NEW v \in cr.vols PROVE claim'[v] = "bound"
    BY <1>2 DEF WellUntouched
  <2>1. v \in Volumes /\ claim[v] = "bound"
    BY WellParts DEF WellUntouched
  <2> QED
    BY <1>5, <1>6, <2>1
<1>8. WellInv'
  <2>1. CASE leg # "first"
    BY <1>2, <2>1 DEF WellInv
  <2>2. CASE leg = "first"
    <3>1. u \in cr.vols /\ verdict = ""
      BY <1>2, <2>2 DEF WellInv, u
    <3>2. claim[u] = "bound"
      BY <3>1 DEF WellUntouched
    <3>3. VolumeVerdict(u) = ""
      BY <3>2 DEF VolumeVerdict
    <3>4. verdict' \in {verdict, moreSevere(verdict, VolumeVerdict(u))}
      BY <1>4, <3>2 DEF reconcilePVCFromVolumeMount
    <3>5. verdict' = ""
      BY <3>1, <3>3, <3>4 DEF moreSevere
    <3> QED
      BY <1>1, <1>2, <3>5 DEF WellInv
  <2> QED
    BY <2>1, <2>2
<1> QED
  BY <1>7, <1>8

LEMMA WellVolumesWalked ==
    ASSUME TypeOK, WellUntouched, WellInv, VolumesWalked
    PROVE  WellUntouched' /\ WellInv'
<1>1. WellUntouched'
  BY WellSame DEF VolumesWalked, kubeVars, ghostVars, Frame
<1> SUFFICES ASSUME well PROVE WellInv'
  BY <1>1 DEF VolumesWalked, ghostVars, WellInv
<1>2. cr.there /\ cr' = cr /\ pc = "pvcs" /\ (leg = "first" => verdict = "") /\ leg # "middle"
  BY DEF VolumesWalked, Frame, WellInv
<1>3. \/ pc' \in {"fail", "tables"}
      \/ /\ pc' = "status" /\ verdict = ""
         /\ opts' = [recreate |-> verdict # "", migrate |-> verdict # "",
                     drop |-> verdict \in {"lost", "missed"}]
  BY <1>2 DEF VolumesWalked, Goto
<1>4. pc' \in {"fail", "tables", "status"} /\ (pc' = "status" => ~opts'.recreate)
  <2>1. ASSUME verdict = "",
               opts' = [recreate |-> verdict # "", migrate |-> verdict # "",
                        drop |-> verdict \in {"lost", "missed"}]
        PROVE  ~opts'.recreate
    <3>1. opts'.recreate = (verdict # "")
      BY <2>1, Zenon
    <3> QED
      BY <2>1, <3>1, Zenon
  <2> QED
    BY <1>3, <2>1
<1> QED
  BY <1>2, <1>4 DEF WellInv

\* A StatefulSet that is as desired is not written.
LEMMA WellReconcileStatefulSet ==
    ASSUME TypeOK, WellUntouched, WellInv, ReconcileStatefulSet
    PROVE  WellUntouched' /\ WellInv'
<1> SUFFICES ASSUME well, well' PROVE WellUntouched' /\ WellInv'
  BY OnwardStatefulSet DEF Onward, WellUntouched, WellInv
<1>1. cr' = cr /\ claim' = claim /\ opts' = opts /\ cr.there /\ pc = "sts" /\ ~opts.recreate
  BY DEF ReconcileStatefulSet, Frame, WellInv
<1>2. Arm(TRUE) = "error" /\ Arm(FALSE) = "update"
  BY <1>1, WellParts DEF Arm
<1>3. (StatefulSetDone \/ Goto("fail")) /\ UNCHANGED <<sts, pod>>
  <2>1. CASE (cancelled \/ attr = "Same") /\ StatefulSetDone /\ UNCHANGED <<sts, pod>>
    BY <2>1
  <2>2. CASE \E unread \in BOOLEAN :
           /\ CASE Arm(unread) = "update" /\ Updatable /\ sts # Desired(cr) ->
                      Goto("launch") /\ sts' = Desired(cr) /\ pod' = "starting"
                [] Arm(unread) = "update" /\ Updatable /\ sts = Desired(cr) ->
                      StatefulSetDone /\ UNCHANGED <<sts, pod>>
                [] Arm(unread) = "update" /\ ~Updatable ->
                      (IF AfterFailedUpdate = "done" THEN StatefulSetDone
                       ELSE Goto(AfterFailedUpdate)) /\ UNCHANGED <<sts, pod>>
                [] OTHER ->
                      LET step == CASE Arm(unread) = "recreate" -> "delete"
                                    [] Arm(unread) = "replace" -> AfterFailedUpdate
                                    [] Arm(unread) = "create" -> "create"
                                    [] OTHER -> "fail"
                      IN (IF step = "done" THEN StatefulSetDone ELSE Goto(step))
                         /\ UNCHANGED <<sts, pod>>
    BY <1>2, <2>2, WellParts
  <2> QED
    BY <2>1, <2>2 DEF ReconcileStatefulSet
<1>4. WellUntouched'
  BY <1>1, <1>3, WellSame
<1>5. (pc' = "pvcs" /\ leg' = "polish") \/ pc' = "fail"
  BY <1>3 DEF StatefulSetDone, StartWalk, Goto
<1> QED
  BY <1>1, <1>4, <1>5 DEF WellInv

\* While the host is well, the steps that replace its StatefulSet are not reached.
LEMMA WellUnreached ==
    ASSUME TypeOK, WellUntouched, WellInv,
           \/ doDeleteStatefulSet \/ waitScaledDown \/ deleteStatefulSet
           \/ createStatefulSet \/ waitHostStatefulSetToLaunch
           \/ deleteHost \/ deleteHostStatefulSet \/ DeletePVC
    PROVE  WellUntouched' /\ WellInv'
<1>1. ~well
  BY DEF WellInv, doDeleteStatefulSet, waitScaledDown, deleteStatefulSet, createStatefulSet,
         waitHostStatefulSetToLaunch, deleteHost, deleteHostStatefulSet, DeletePVC
<1>2. well' = well
  BY DEF doDeleteStatefulSet, waitScaledDown, deleteStatefulSet, createStatefulSet,
         waitHostStatefulSetToLaunch, deleteHost, deleteHostStatefulSet, DeletePVC, ghostVars
<1> QED
  BY <1>1, <1>2 DEF WellUntouched, WellInv

\* A claim that is in a registry is not purged, unless failed claims are to be.
LEMMA CoveredNotPurged ==
    ASSUME TypeOK, ClaimsSafe, NEW v \in reconciled \cup failed
    PROVE  v \notin Purged
<1>1. policy.failed # "Delete"
  BY DEF ClaimsSafe, TypeOK, CRTypeOK
<1> QED
  BY <1>1 DEF Purged, shouldPurgePVC

\* The discovery finds the claims in use in the registries; what it dooms stays
\* outside what the pass is for, whatever happens until it is purged.
LEMMA DoomedClean ==
    ASSUME TypeOK, ClaimsSafe, CoveredInv, WellInv, clean
    PROVE  DoomedInv'
<1> SUFFICES ASSUME pc' = "purge" PROVE DoomedInv'
  BY DEF DoomedInv
<1>1. ~cancelled /\ pc = "clean" /\ UNCHANGED <<cr, well, tagged>>
  BY DEF clean, Goto, Frame, kubeVars, ghostVars
<1>2. PICK found \in BOOLEAN, kept \in SUBSET Purged :
        doomed' = [sts |-> found /\ sts # NoSts /\ ~cr.there, claims |-> Purged \ kept]
  BY <1>1 DEF clean
<1>3. (doomed'.sts => ~cr.there) /\ doomed'.claims \subseteq Purged
  BY <1>2, Zenon
<1>4. ASSUME NEW v \in Purged \cap cr.vols
      PROVE  ~well /\ (v \in tagged => ~cr.there /\ v \notin Retained)
  <2>1. v \notin reconciled \cup failed
    BY <1>4, CoveredNotPurged
  <2>2. cr.there => v \notin tagged /\ ~well
    BY <1>1, <1>4, <2>1 DEF CoveredInv, Visited, PassSteps
  <2>3. v \in tagged => v \notin Retained
    BY <1>4 DEF Purged, GetReclaimPolicy
  <2>4. well => cr.there
    BY DEF WellInv
  <2> QED
    BY <2>2, <2>3, <2>4
<1> QED
  BY <1>1, <1>3, <1>4 DEF DoomedInv

LEMMA DoomedPurge ==
    ASSUME TypeOK, DoomedInv, purge
    PROVE  DoomedInv'
<1>1. pc = "purge" /\ UNCHANGED <<cr, well>> /\ tagged' \subseteq tagged
  BY DEF purge, Frame, kubeVars, ghostVars
<1>2. (doomed'.sts => doomed.sts) /\ doomed'.claims \subseteq doomed.claims
  BY DEF purge, TypeOK, PassTypeOK
<1> QED
  BY <1>1, <1>2 DEF DoomedInv

LEMMA DoomedStep ==
    ASSUME TypeOK, ClaimsSafe, CoveredInv, WellInv, DoomedInv, [Next]_vars
    PROVE  DoomedInv'
<1>1. CASE clean
  BY <1>1, DoomedClean
<1>2. CASE purge
  BY <1>2, DoomedPurge
<1>3. CASE \/ Cluster \/ EditSpec \/ DeleteCR \/ Deliver \/ LoseVolume \/ PodFails
           \/ UNCHANGED vars
  <2>1. UNCHANGED <<pc, cr, doomed>>
    BY <1>3 DEF EditSpec, DeleteCR, Deliver, Cluster, PodStarts, ClaimProvisioned, PodStops,
       ClaimGoes, LoseVolume, PodFails, vars, passVars, registryVars
  <2>2. tagged' \subseteq tagged
    BY <1>3 DEF EditSpec, DeleteCR, Deliver, Cluster, PodStarts, ClaimProvisioned, PodStops,
       ClaimGoes, LoseVolume, PodFails, vars, kubeVars
  <2>3. well' => well
    BY <1>3 DEF EditSpec, DeleteCR, Deliver, Cluster, PodStarts, ClaimProvisioned, PodStops,
       ClaimGoes, LoseVolume, PodFails, vars, ghostVars
  <2> QED
    BY <2>1, <2>2, <2>3 DEF DoomedInv
<1>4. CASE updateCHINotFound \/ gateNothingToDo
  BY <1>4 DEF updateCHINotFound, gateNothingToDo, passVars, DoomedInv
<1>5. CASE \/ PrepareHostStatefulSetWithStatus \/ ReconcileStatefulSet
           \/ doDeleteStatefulSet \/ waitScaledDown \/ deleteStatefulSet
           \/ createStatefulSet \/ waitHostStatefulSetToLaunch
  <2>1. \/ \E step \in MiddleSteps \cup {"fail"} : Goto(step)
        \/ StatefulSetDone \/ StartWalk("middle", cr.vols)
    BY <1>5, StatefulSetMoves
  <2> QED
    BY <2>1, MoveOnward DEF MiddleSteps, DoomedInv
<1>6. CASE VolumesWalked \/ ReconcilePVCs \/ reconcileHostTables \/ PassBegins
  BY <1>6 DEF VolumesWalked, ReconcilePVCs, reconcileHostTables, PassBegins, Goto, StartWalk,
     DoomedInv
<1>7. CASE deleteHost \/ deleteHostStatefulSet \/ DeletePVC
  BY <1>7 DEF deleteHost, deleteHostStatefulSet, DeletePVC, Goto, DoomedInv
<1>8. CASE \/ finalizeReconcileAndMarkCompleted \/ markReconcileCompletedUnsuccessfully
           \/ uninstallFinalizer \/ Restart
  BY <1>8 DEF finalizeReconcileAndMarkCompleted, markReconcileCompletedUnsuccessfully,
     uninstallFinalizer, Restart, PassOver, DoomedInv
<1> QED
  BY <1>1, <1>2, <1>3, <1>4, <1>5, <1>6, <1>7, <1>8 DEF Next, Worker

\* Cleanup leaves a sound host alone.
LEMMA WellRest ==
    ASSUME TypeOK, DoomedInv, WellUntouched, WellInv,
           PrepareHostStatefulSetWithStatus \/ reconcileHostTables \/ clean \/ purge
    PROVE  WellUntouched' /\ WellInv'
<1>1. CASE PrepareHostStatefulSetWithStatus
  <2>1. WellUntouched'
    BY <1>1, WellSame DEF PrepareHostStatefulSetWithStatus, kubeVars, ghostVars, Frame
  <2> QED
    BY <1>1, <2>1 DEF PrepareHostStatefulSetWithStatus, ghostVars, Frame, Goto, WellInv
<1>2. CASE reconcileHostTables
  <2>1. WellUntouched'
    BY <1>2, WellSame DEF reconcileHostTables, kubeVars, Frame
  <2> QED
    BY <1>2, <2>1 DEF reconcileHostTables, hostVars, Frame, Goto, WellInv
<1>3. CASE clean
  <2>1. WellUntouched'
    BY <1>3, WellSame DEF clean, kubeVars, ghostVars, Frame
  <2> QED
    BY <1>3, <2>1 DEF clean, hostVars, ghostVars, Frame, Goto, WellInv
<1>4. CASE purge
  <2> SUFFICES ASSUME well PROVE WellUntouched' /\ WellInv'
    BY <1>4 DEF purge, ghostVars, WellUntouched, WellInv
  <2>1. pc = "purge" /\ pc' \in {"purge", "stamp"} /\ UNCHANGED <<cr, well>> /\ cr.there
    BY <1>4 DEF purge, Goto, Frame, ghostVars, WellInv
  <2>2. ~doomed.sts /\ doomed.claims \cap cr.vols = {}
    BY <2>1 DEF DoomedInv
  <2>3. UNCHANGED <<sts, pod>>
    BY <1>4, <2>2 DEF purge, kubeVars
  <2>4. ASSUME NEW v \in cr.vols PROVE claim'[v] = "bound"
    <3>1. v \in Volumes /\ claim[v] = "bound" /\ v \notin doomed.claims
      BY <2>2, <2>4, WellParts DEF WellUntouched
    <3>2. \/ claim' = claim
          \/ \E u \in doomed.claims : \E users : claim' = WithDeleted({u}, users)
      BY <1>4 DEF purge, kubeVars
    <3> QED
      BY <3>1, <3>2 DEF WithDeleted
  <2>5. WellUntouched'
    BY <2>1, <2>3, <2>4 DEF WellUntouched
  <2> QED
    BY <2>1, <2>5 DEF WellInv
<1> QED
  BY <1>1, <1>2, <1>3, <1>4

LEMMA WellOther ==
    ASSUME TypeOK, WellUntouched, WellInv,
           \/ finalizeReconcileAndMarkCompleted \/ markReconcileCompletedUnsuccessfully
           \/ uninstallFinalizer \/ updateCHINotFound \/ gateNothingToDo \/ Deliver
           \/ Cluster \/ EditSpec \/ DeleteCR
           \/ LoseVolume \/ PodFails \/ Restart \/ UNCHANGED vars
    PROVE  WellUntouched' /\ WellInv'
<1>1. CASE \/ finalizeReconcileAndMarkCompleted \/ markReconcileCompletedUnsuccessfully
           \/ uninstallFinalizer \/ Restart \/ LoseVolume \/ PodFails
  BY <1>1 DEF finalizeReconcileAndMarkCompleted, markReconcileCompletedUnsuccessfully,
     uninstallFinalizer, Restart, PassOver, LoseVolume, PodFails, WellUntouched, WellInv
<1>2. CASE \/ Cluster \/ EditSpec \/ DeleteCR \/ Deliver
           \/ updateCHINotFound \/ gateNothingToDo \/ UNCHANGED vars
  <2>1. UNCHANGED <<well, cr, pc, leg, todo, verdict, opts>>
    BY <1>2 DEF Cluster, PodStarts, ClaimProvisioned, PodStops, ClaimGoes, EditSpec, DeleteCR,
       Deliver, updateCHINotFound, gateNothingToDo,
       vars, passVars, walkVars, hostVars, ghostVars
  <2>2. WellInv'
    BY <2>1 DEF WellInv
  <2> SUFFICES ASSUME well PROVE WellUntouched'
    BY <2>1, <2>2 DEF WellUntouched
  <2>3. UNCHANGED <<sts, pod>> /\ (claim' = claim \/ ClaimGoes)
    BY <1>2 DEF WellUntouched, Cluster, PodStarts, ClaimProvisioned, PodStops, ClaimGoes,
       EditSpec, DeleteCR, Deliver, updateCHINotFound, gateNothingToDo, vars, kubeVars
  <2>4. CASE claim' = claim
    BY <2>1, <2>3, <2>4, WellSame
  <2>5. CASE ClaimGoes
    <3>1. PICK u \in Volumes : claim[u] = "terminating" /\ claim' = [claim EXCEPT ![u] = "none"]
      BY <2>5 DEF ClaimGoes
    <3>2. \A v \in cr.vols : v \in Volumes /\ claim[v] = "bound" /\ v # u
      BY <3>1, WellParts DEF WellUntouched
    <3>3. \A v \in cr.vols : claim'[v] = "bound"
      BY <3>1, <3>2 DEF TypeOK, KubeTypeOK
    <3> QED
      BY <2>1, <2>3, <3>3 DEF WellUntouched
  <2> QED
    BY <2>3, <2>4, <2>5
<1> QED
  BY <1>1, <1>2

LEMMA WellStep ==
    ASSUME TypeOK, DoomedInv, WellUntouched, WellInv, [Next]_vars
    PROVE  WellUntouched' /\ WellInv'
BY WellPassBegins, WellReconcilePVCs, WellVolumesWalked, WellReconcileStatefulSet,
   WellUnreached, WellRest, WellOther
DEF Next, Worker

\* What a host keeps through a pass.
HostInv == CurrentInv /\ CoveredInv /\ DoomedInv /\ WellUntouched /\ WellInv

\* With claims that can be read the invariant holds throughout.
LEMMA HostInvHolds == ClaimsSafe /\ Spec => []HostInv
<1>1. Init => HostInv
  BY DEF Init, HostInv, CurrentInv, CoveredInv, DoomedInv, WellUntouched, WellInv, PassSteps,
     DeleteSteps
<1>2. ClaimsSafe /\ TypeOK /\ HostInv /\ [Next]_vars => HostInv'
  BY CurrentStep, DoomedStep, WellStep DEF HostInv
<1>3. ClaimsSafe => ClaimsSafe'
  BY DEF ClaimsSafe
<1> QED
  BY <1>1, <1>2, <1>3, HostTypeCorrect, PTL DEF Spec

\* With claims that can be read, and failed ones retained, a pass leaves a host
\* alone that is as the CR asks and that nobody else disturbs: whichever other
\* calls fail, its pod stays up and its StatefulSet and claims stay (Arm,
\* reconcilePVCFromVolumeMount, shouldPurgePVC).
THEOREM HostLeftAlone == ClaimsSafe /\ Spec => []WellUntouched
<1>1. HostInv => WellUntouched
  BY DEF HostInv
<1> QED
  BY <1>1, HostInvHolds, PTL

-----------------------------------------------------------------------------
(* Claims in use are kept                                                  *)

CountInv == losses \in Nat

\* A loss is counted, so that DataKept tells it from a deletion.
LEMMA Losses == CountInv /\ [Next]_vars => CountInv' /\ (LoseVolume => losses' # losses)
<1> SUFFICES ASSUME CountInv, [Next]_vars PROVE CountInv' /\ (LoseVolume => losses' # losses)
  OBVIOUS
<1>1. CASE LoseVolume
  BY <1>1 DEF LoseVolume, CountInv
<1>2. CASE ~LoseVolume
  <2>1. UNCHANGED losses
    BY <1>2 DEF Next, Worker, Cluster, PassBegins, ReconcilePVCs, VolumesWalked,
       PrepareHostStatefulSetWithStatus, ReconcileStatefulSet, doDeleteStatefulSet,
       waitScaledDown, deleteStatefulSet, createStatefulSet, waitHostStatefulSetToLaunch,
       reconcileHostTables, clean, purge, updateCHINotFound, gateNothingToDo, Deliver,
       finalizeReconcileAndMarkCompleted,
       markReconcileCompletedUnsuccessfully, deleteHost, deleteHostStatefulSet, DeletePVC,
       uninstallFinalizer, PodStarts, ClaimProvisioned, PodStops, ClaimGoes, EditSpec, DeleteCR,
       PodFails, Restart, Frame, countVars, vars
  <2> QED
    BY <1>2, <2>1 DEF CountInv
<1> QED
  BY <1>1, <1>2

\* One claim in use is deleted.
Deletes(v) == v \in tagged /\ claim[v] = "bound" /\ claim'[v] \in {"none", "terminating"}

\* What excuses it.
May(v) == \/ v \notin cr.vols
          \/ (~cr.there \/ phase # "live") /\ v \notin Retained
          \/ pc = "launch" /\ policy.create = "delete"

\* The actions that delete claims.
LEMMA Deleters ==
    ASSUME TypeOK, Next, ~LoseVolume, NEW v, Deletes(v)
    PROVE  waitHostStatefulSetToLaunch \/ purge \/ DeletePVC
<1> SUFFICES ASSUME claim' # claim PROVE waitHostStatefulSetToLaunch \/ purge \/ DeletePVC
  BY DEF Deletes
<1>1. v \in Volumes /\ claim \in [Volumes -> Claims]
  BY DEF TypeOK, KubeTypeOK, Deletes
<1>2. ~ReconcilePVCs
  <2> SUFFICES ASSUME ReconcilePVCs PROVE FALSE
    OBVIOUS
  <2>1. PICK i \in todo : reconcilePVCFromVolumeMount(VolumeSeq[i])
    BY DEF ReconcilePVCs
  <2> DEFINE u == VolumeSeq[i]
  <2>2. u \in Volumes /\ reconcilePVCFromVolumeMount(u)
    BY <2>1, VolumeIndex DEF TypeOK, PassTypeOK
  <2> HIDE DEF u
  <2>3. claim[u] = "bound" => claim' = claim
    BY <1>1, <2>2 DEF reconcilePVCFromVolumeMount
  <2>4. v # u => claim'[v] = claim[v]
    BY <1>1, <2>2 DEF reconcilePVCFromVolumeMount
  <2> QED
    BY <2>3, <2>4 DEF Deletes
<1>3. ~ClaimGoes /\ ~ClaimProvisioned
  BY <1>1 DEF ClaimGoes, ClaimProvisioned, Deletes
<1> QED
  BY <1>2, <1>3
  DEF Next, Worker, Cluster, PassBegins, VolumesWalked,
      PrepareHostStatefulSetWithStatus, ReconcileStatefulSet, doDeleteStatefulSet,
      waitScaledDown, deleteStatefulSet, createStatefulSet, reconcileHostTables, clean,
      updateCHINotFound, gateNothingToDo, Deliver, finalizeReconcileAndMarkCompleted, markReconcileCompletedUnsuccessfully, deleteHost,
      deleteHostStatefulSet, uninstallFinalizer, PodStarts, PodStops, EditSpec, DeleteCR,
      PodFails, Restart, kubeVars

\* onFailure "delete" is a choice for the creation alone.
LEMMA LaunchMay ==
    ASSUME TypeOK, waitHostStatefulSetToLaunch, NEW v, Deletes(v)
    PROVE  May(v)
<1>1. policy.update # "delete"
  BY HostPolicyAssumption DEF TypeOK, CRTypeOK
<1>2. claim' # claim
  BY DEF Deletes
<1> QED
  BY <1>1, <1>2 DEF waitHostStatefulSetToLaunch, May

\* The cleanup and the deletion of a host delete only what DataKept allows.
LEMMA PurgeMay ==
    ASSUME TypeOK, HostInv, purge, NEW v, Deletes(v)
    PROVE  May(v)
<1>1. pc = "purge"
  BY DEF purge
<1>2. v \in Volumes
  BY DEF TypeOK, KubeTypeOK, Deletes
<1>3. \/ claim' = claim
      \/ \E u \in doomed.claims : \E users : claim' = WithDeleted({u}, users)
  BY DEF purge, kubeVars
<1>4. v \in doomed.claims
  BY <1>2, <1>3 DEF WithDeleted, Deletes
<1> QED
  BY <1>1, <1>4 DEF HostInv, DoomedInv, Deletes, May

LEMMA DeletePVCMay ==
    ASSUME TypeOK, RetainedMounted, HostInv, DeletePVC, NEW v, Deletes(v)
    PROVE  May(v)
<1>1. PICK kept, users :
        claim' = WithDeleted({u \in Volumes : HostCanDeletePVC(u)} \ kept, users)
  BY DEF DeletePVC
<1>2. v \in Volumes
  BY DEF TypeOK, KubeTypeOK, Deletes
<1>3. HostCanDeletePVC(v)
  BY <1>1, <1>2 DEF WithDeleted, Deletes
<1>4. pc = "delpvc"
  BY DEF DeletePVC
<1>5. phase # "live"
  BY <1>4 DEF HostInv, CurrentInv, DeleteSteps
<1>6. Retained \subseteq cur
  BY <1>4 DEF HostInv, CurrentInv, RetainedMounted
<1> QED
  BY <1>3, <1>5, <1>6 DEF HostCanDeletePVC, May

\* With claims that can be read, failed ones retained, and the retained volumes in
\* every specification, the operator deletes no claim in use that the CR of its pass
\* asks for: neither the cleanup, however late its purge comes, nor the deletion of
\* the CR, nor a replaced StatefulSet (clean, purge, DeletePVC,
\* waitHostStatefulSetToLaunch).
THEOREM ClaimsKept == ClaimsSafe /\ RetainedMounted /\ Spec => DataKept
<1>1. Init => CountInv
  <2>1. Init => losses = 0
    BY Zenon DEF Init
  <2>2. 0 \in Nat
    OBVIOUS
  <2> QED
    BY <2>1, <2>2, Zenon DEF CountInv
<1>2. CountInv /\ [Next]_vars => CountInv'
  BY Losses
<1>3. TypeOK /\ ClaimsSafe /\ RetainedMounted /\ HostInv /\ CountInv /\ [Next]_vars =>
        [\A v \in tagged :
          claim[v] = "bound" /\ claim'[v] \in {"none", "terminating"} /\ losses' = losses =>
             \/ v \notin cr.vols
             \/ (~cr.there \/ phase # "live") /\ v \notin Retained
             \/ pc = "launch" /\ policy.create = "delete"]_vars
  <2> SUFFICES ASSUME TypeOK, ClaimsSafe, RetainedMounted, HostInv, CountInv, Next,
                      NEW v \in tagged, Deletes(v), losses' = losses
               PROVE  May(v)
    BY DEF Deletes, May
  <2>1. ~LoseVolume
    BY Losses
  <2> QED
    BY <2>1, Deleters, LaunchMay, PurgeMay, DeletePVCMay
<1>4. (ClaimsSafe => ClaimsSafe') /\ (RetainedMounted => RetainedMounted')
  BY DEF ClaimsSafe, RetainedMounted
<1> QED
  BY <1>1, <1>2, <1>3, <1>4, HostInvHolds, HostTypeCorrect, PTL DEF Spec, DataKept

=============================================================================
