-------------------------- MODULE KeeperLinkProofs --------------------------
(***************************************************************************)
(* A CHI and the keepers it refers to, for any layouts and any number of   *)
(* edits and faults: the types, and that the files of a CHI that says      *)
(* Completed have the endpoints of its ancestor, unless a lookup, a write   *)
(* or the ancestor itself was lost.                                        *)
(***************************************************************************)
EXTENDS KeeperLink, TLAPS

\* No pass works on a revision that is yet to come, nor does the worker of the
\* Endpoints hold one; what the CHK has left to do belongs to a pass at its hosts.
ProgressInv ==
    /\ cr.rev <= rev /\ (ehold # NoAncestor => ehold.rev <= rev)
    /\ kpc # "hosts" => ktodo = {}

\* A pass that writes the files has said so, unless what it said was lost.
MarkedInv ==
    /\ pc = "hosts" /\ status = "Completed" => cancelled \/ "mark" \in lost
    /\ pc \in {"finalize", "rebuild", "stamp", "complete"} /\ status = "Completed" => "mark" \in lost

\* What the pass goes by: the keepers' Services, while they stay and until it has
\* looked them up a second time; then the ancestor is what the files have.
LookedUpInv ==
    "lookup" \notin lost =>
        /\ pc = "hosts" /\ ~cancelled => cr.nodes = svc /\ svc # {}
        /\ pc \in {"finalize", "rebuild"} => conf = svc /\ svc # {}
        /\ pc \in {"stamp", "complete"} => conf = cr.nodes /\ conf # {}

StampedInv ==
    pc = "complete" /\ "lookup" \notin lost /\ "ancestor" \notin lost =>
        anc \in Ancestors /\ anc.nodes = conf /\ conf # {}

LinkInv == TypeOK /\ ProgressInv

FilesInv == MarkedInv /\ LookedUpInv /\ StampedInv /\ FilesAsStamped

-----------------------------------------------------------------------------
(* The operators.                                                          *)

\* Layouts are nonempty sets of keepers; the bounds are numbers.
LEMMA LayoutFacts ==
    /\ First \in Layouts /\ First \subseteq Keepers /\ First # {}
    /\ \A l \in Layouts : l \subseteq Keepers
    /\ MaxEdits \in Nat /\ MaxFaults \in Nat
  BY LinkAssumption DEF Keepers

\* A lookup yields endpoints.
LEMMA ResolvedType ==
    ASSUME KeeperTypeOK, NEW listed \in BOOLEAN
    PROVE  resolveKeeperNodes(listed) \in Endpoints
  BY DEF KeeperTypeOK, resolveKeeperNodes, Endpoints

\* No CR is of revision 0.
LEMMA NoCRType == NoCR \in Ancestors /\ NoCR.rev = 0
  BY DEF NoCR, Ancestors, Endpoints

-----------------------------------------------------------------------------
(* A step on the CHK's side leaves the CHI's variables alone, and the other *)
(* way round: each group of conjuncts is preserved on its own.              *)

\* The types of the CHK are about its own variables, those of the CHI about its.
LEMMA KeeperTypeFrame ==
    ASSUME KeeperTypeOK, UNCHANGED <<keeperVars, kpassVars>>
    PROVE  KeeperTypeOK'
  BY DEF KeeperTypeOK, keeperVars, kpassVars

LEMMA CHITypeFrame ==
    ASSUME CHITypeOK, UNCHANGED <<chiVars, passVars, endsVars>>
    PROVE  CHITypeOK'
  BY DEF CHITypeOK, chiVars, passVars, endsVars

\* The counters within their bounds, one of them a step further or none.
LEMMA FaultType ==
    ASSUME WatchTypeOK, NoFault \/ Fault
    PROVE  faults' \in 0..MaxFaults
  BY LayoutFacts DEF WatchTypeOK, NoFault, Fault

-----------------------------------------------------------------------------
(* The CHK.                                                                *)

KeeperSide == KeeperTypeOK /\ (kpc # "hosts" => ktodo = {})

\* The steps that leave the CHK alone.
KeeperStill ==
    Watcher \/ Relist \/ CHIPass \/ EditCHI \/ updateEndpoints \/ updateEndpointsWrites

\* The watcher and the passes of the CHI leave the CHK alone.
LEMMA KeeperStillStep ==
    ASSUME KeeperStill
    PROVE  UNCHANGED <<keeperVars, kpassVars>>
<1>1. CASE Watcher
  BY <1>1 DEF Watcher, onCHKUpdate, shouldReconcileOnKeeperUpdate
<1>2. CASE Relist
  BY <1>2 DEF Relist
<1>3. CASE CHIPass
  BY <1>3 DEF CHIPass, PassBegins, buildCR, markReconcileStart, reconcileConfigMapHost,
     finalizeReconcileAndMarkCompleted, finalizeCR, statusUpdateCM, statusUpdateCR, PassFrame
<1>4. CASE EditCHI \/ updateEndpoints \/ updateEndpointsWrites
  BY <1>4 DEF EditCHI, updateEndpoints, updateEndpointsWrites
<1>5. QED
  BY <1>1, <1>2, <1>3, <1>4 DEF KeeperStill

\* A pass of the CHK that is over has nothing left to do.
LEMMA KeeperSideStep ==
    ASSUME KeeperSide, [Next]_vars
    PROVE  KeeperSide'
<1>1. ASSUME UNCHANGED <<keeperVars, kpassVars>> PROVE KeeperSide'
  BY <1>1, KeeperTypeFrame DEF KeeperSide, kpassVars
<1>2. CASE KeeperStill
  BY <1>1, <1>2, KeeperStillStep
<1>3. CASE UNCHANGED vars
  BY <1>1, <1>3 DEF vars
<1>4. CASE KeeperBegins
  BY <1>4, LayoutFacts DEF KeeperSide, KeeperTypeOK, KeeperBegins, SetKeeperStatus, Statuses
<1>5. CASE KeeperHost
  <2>1. PICK h \in ktodo :
           \/ h \notin svc /\ svc' = svc \cup {h} /\ UNCHANGED <<pods, ktodo>>
           \/ pods' = pods \cup {h} /\ ktodo' = ktodo \ {h} /\ UNCHANGED svc
    BY <1>5 DEF KeeperHost, MoveServices
  <2>2. UNCHANGED <<layout, completed, kstatus, front, running, kpending, kpc, kcr>>
    BY <1>5 DEF KeeperHost
  <2>3. h \in Keepers
    BY <2>1, LayoutFacts DEF KeeperSide, KeeperTypeOK
  <2>4. kpc = "hosts"
    BY <1>5 DEF KeeperHost
  <2>5. QED
    BY <2>1, <2>2, <2>3, <2>4 DEF KeeperSide, KeeperTypeOK
<1>6. CASE KeeperClean
  BY <1>6 DEF KeeperSide, KeeperTypeOK, KeeperClean, MoveServices
<1>7. CASE KeeperCompletes
  <2>1. ktodo = {}
    BY <1>7 DEF KeeperSide, KeeperCompletes
  <2>2. QED
    BY <1>7, <2>1 DEF KeeperSide, KeeperTypeOK, KeeperCompletes, SetKeeperStatus, Statuses
<1>8. CASE KeeperFails
  BY <1>8 DEF KeeperSide, KeeperTypeOK, KeeperFails, SetKeeperStatus, Statuses
<1>9. CASE EditKeeper
  BY <1>9 DEF KeeperSide, KeeperTypeOK, EditKeeper
<1>10. CASE PodRuns
  <2>1. PICK h \in pods \ running : running' = running \cup {h}
    BY <1>10 DEF PodRuns
  <2>2. UNCHANGED <<layout, completed, kstatus, front, svc, pods, kpassVars>>
    BY <1>10 DEF PodRuns
  <2>3. QED
    BY <2>1, <2>2 DEF KeeperSide, KeeperTypeOK, kpassVars
<1>11. CASE PodFlips
  <2>1. PICK h \in running : running' = running \ {h}
    BY <1>11 DEF PodFlips
  <2>2. UNCHANGED <<layout, completed, kstatus, front, svc, pods, kpassVars>>
    BY <1>11 DEF PodFlips
  <2>3. QED
    BY <2>1, <2>2 DEF KeeperSide, KeeperTypeOK, kpassVars
<1>12. CASE Restart
  BY <1>12 DEF KeeperSide, KeeperTypeOK, Restart, keeperVars
<1>13. QED
  BY <1>2, <1>3, <1>4, <1>5, <1>6, <1>7, <1>8, <1>9, <1>10, <1>11, <1>12
     DEF Next, KeeperPass, KeeperStill

-----------------------------------------------------------------------------
(* The CHI.                                                                *)

CHISide == CHITypeOK /\ cr.rev <= rev /\ (ehold # NoAncestor => ehold.rev <= rev)

\* The steps that leave the CHI alone, its pass included.
CHIStill ==
    \/ KeeperPass \/ KeeperFails \/ onCHKUpdate \/ Relist \/ EditKeeper \/ PodRuns \/ PodFlips

\* The CHK and what the watcher is told leave the CHI alone.
LEMMA CHIStillStep ==
    ASSUME CHIStill
    PROVE  UNCHANGED <<chiVars, passVars, endsVars>>
<1>1. CASE KeeperPass
  BY <1>1 DEF KeeperPass, KeeperBegins, KeeperHost, KeeperClean, KeeperCompletes
<1>2. QED
  BY <1>1 DEF CHIStill, KeeperFails, onCHKUpdate, Relist, EditKeeper, PodRuns, PodFlips

\* A record of a pass with other endpoints, or of another revision.
LEMMA CRWith ==
    ASSUME NEW c \in Ancestors, NEW nodes \in Endpoints, NEW r \in Nat
    PROVE  /\ [c EXCEPT !.nodes = nodes] \in Ancestors
           /\ [c EXCEPT !.nodes = nodes].rev = c.rev
           /\ [c EXCEPT !.nodes = nodes].nodes = nodes
           /\ [c EXCEPT !.rev = r] \in Ancestors
           /\ [c EXCEPT !.rev = r].rev = r
           /\ [rev |-> r, nodes |-> nodes] \in Ancestors
           /\ c.rev \in Nat /\ c.nodes \in Endpoints
  BY DEF Ancestors

LEMMA NoCRRev == \A r \in Nat : NoCR.rev <= r
  BY NoCRType

\* Neither the ancestor nor the pass is ahead of the CHI's revision.
LEMMA CHISideStep ==
    ASSUME CHISide, [Next]_vars
    PROVE  CHISide'
<1>0. rev \in Nat /\ cr \in Ancestors /\ cr.rev \in Nat /\ cr.nodes \in Endpoints
      /\ cr.rev <= rev /\ {} \in Endpoints
  <2>1. rev \in Nat /\ cr \in Ancestors /\ cr.rev <= rev
    BY Zenon DEF CHISide, CHITypeOK
  <2>2. cr.rev \in Nat /\ cr.nodes \in Endpoints
    BY <2>1 DEF Ancestors
  <2>3. {} \in Endpoints
    BY DEF Endpoints
  <2>4. QED
    BY <2>1, <2>2, <2>3
<1>p. ASSUME UNCHANGED rev, PassOver PROVE cr' \in Ancestors /\ cr'.rev <= rev'
  BY <1>p, <1>0, NoCRType, NoCRRev DEF PassOver
<1>b. ASSUME PassOver PROVE {pending, cancelled}' \subseteq BOOLEAN /\ pc' = "idle"
  BY <1>b DEF PassOver, CHISide, CHITypeOK
<1>1. ASSUME UNCHANGED <<chiVars, passVars, endsVars>> PROVE CHISide'
  BY <1>1, CHITypeFrame DEF CHISide, chiVars, passVars, endsVars
<1>e. ASSUME UNCHANGED <<rev, endsVars>>
      PROVE  /\ epc' \in {"idle", "write"} /\ ehold' \in Ancestors \cup {NoAncestor}
             /\ ehold' # NoAncestor => ehold'.rev <= rev'
  BY <1>e DEF CHISide, CHITypeOK, endsVars
<1>2. CASE CHIStill
  BY <1>1, <1>2, CHIStillStep
<1>3. CASE UNCHANGED vars
  BY <1>1, <1>3 DEF vars
<1>4. CASE shouldReconcileOnKeeperUpdate
  <2>1. UNCHANGED <<chiVars, endsVars>>
    BY <1>4 DEF shouldReconcileOnKeeperUpdate
  <2>2. Enqueue \/ UNCHANGED passVars
    BY <1>4 DEF shouldReconcileOnKeeperUpdate
  <2>3. CASE Enqueue
    BY <2>1, <2>3, <1>e DEF CHISide, CHITypeOK, Enqueue, chiVars
  <2>4. QED
    BY <2>1, <2>2, <2>3, <1>1
<1>5. CASE PassBegins
  <2>1. cr' = [rev |-> rev, nodes |-> {}] /\ rev' = rev
    BY <1>5 DEF PassBegins, PassFrame
  <2>2. cr' \in Ancestors
    BY <2>1, <1>0, CRWith
  <2>3. cr'.rev <= rev'
    BY <2>1, <1>0
  <2>4. UNCHANGED <<anc, status, conf, cancelled>> /\ pending' = FALSE /\ pc' = "build"
    BY <1>5 DEF PassBegins
  <2>e. UNCHANGED endsVars
    BY <1>5 DEF PassBegins, PassFrame
  <2>5. QED
    BY <2>1, <2>2, <2>3, <2>4, <2>e, <1>e DEF CHISide, CHITypeOK
<1>6. CASE buildCR
  <2>1. PICK nodes \in Endpoints :
          \/ PassOver
          \/ pc' = "mark" /\ cr' = [cr EXCEPT !.nodes = nodes] /\ UNCHANGED <<pending, cancelled>>
    BY <1>6 DEF buildCR
  <2>2. UNCHANGED <<rev, anc, status, conf, endsVars>>
    BY <1>6 DEF buildCR, PassFrame
  <2>3. cr' \in Ancestors /\ cr'.rev <= rev'
    <3>1. CASE PassOver
      BY <3>1, <2>2, <1>p
    <3>2. CASE cr' = [cr EXCEPT !.nodes = nodes]
      <4>1. cr' \in Ancestors /\ cr'.rev = cr.rev
        BY <3>2, <1>0, CRWith
      <4>2. QED
        BY <4>1, <2>2, <1>0
    <3>3. QED
      BY <2>1, <3>1, <3>2
  <2>4. pc' \in {"idle", "mark"} /\ {pending, cancelled}' \subseteq BOOLEAN
    BY <2>1, <1>b DEF CHISide, CHITypeOK
  <2>6. QED
    BY <2>2, <2>3, <2>4, <1>e DEF CHISide, CHITypeOK
<1>m. CASE markReconcileStart
  <2>1. /\ UNCHANGED <<rev, anc, conf, pending, cancelled, cr, endsVars>> /\ pc' = "hosts"
        /\ status' \in {status, "InProgress"}
    BY <1>m DEF markReconcileStart, PassFrame
  <2>2. QED
    BY <2>1, <1>e DEF CHISide, CHITypeOK, Statuses
<1>7. CASE reconcileConfigMapHost
  <2>1. UNCHANGED <<rev, anc, endsVars>>
    BY <1>7 DEF reconcileConfigMapHost, PassFrame
  <2>2. \/ PassOver /\ status' \in {status, "Aborted"} /\ UNCHANGED conf
        \/ conf' = cr.nodes /\ pc' = "finalize" /\ UNCHANGED <<status, pending, cancelled, cr>>
    BY <1>7 DEF reconcileConfigMapHost
  <2>3. cr' \in Ancestors /\ cr'.rev <= rev'
    BY <2>1, <2>2, <1>0, <1>p
  <2>4. pc' \in {"idle", "finalize"} /\ {pending, cancelled}' \subseteq BOOLEAN
    BY <2>2, <1>b DEF CHISide, CHITypeOK
  <2>5. status' \in Statuses /\ conf' \in Endpoints
    BY <2>2, <1>0 DEF CHISide, CHITypeOK, Statuses
  <2>6. QED
    BY <2>1, <2>3, <2>4, <2>5, <1>e DEF CHISide, CHITypeOK
<1>8. CASE finalizeReconcileAndMarkCompleted
  <2>1. UNCHANGED <<rev, anc, status, conf, endsVars>>
    BY <1>8 DEF finalizeReconcileAndMarkCompleted, PassFrame
  <2>2. \/ PassOver
        \/ pc' = "rebuild" /\ cr' = [cr EXCEPT !.rev = rev] /\ UNCHANGED <<pending, cancelled>>
    BY <1>8 DEF finalizeReconcileAndMarkCompleted
  <2>3. cr' \in Ancestors /\ cr'.rev <= rev'
    <3>1. CASE PassOver
      BY <3>1, <2>1, <1>p
    <3>2. CASE cr' = [cr EXCEPT !.rev = rev]
      <4>1. cr' \in Ancestors /\ cr'.rev = rev
        BY <3>2, <1>0, CRWith
      <4>2. QED
        BY <4>1, <2>1, <1>0
    <3>3. QED
      BY <2>2, <3>1, <3>2
  <2>4. pc' \in {"idle", "rebuild"} /\ {pending, cancelled}' \subseteq BOOLEAN
    BY <2>2, <1>b DEF CHISide, CHITypeOK
  <2>5. QED
    BY <2>1, <2>3, <2>4, <1>e DEF CHISide, CHITypeOK
<1>9. CASE finalizeCR
  <2>1. PICK nodes \in Endpoints : cr' = [cr EXCEPT !.nodes = nodes]
    BY <1>9 DEF finalizeCR
  <2>2. UNCHANGED <<rev, anc, status, conf, pending, cancelled, endsVars>> /\ pc' = "stamp"
    BY <1>9 DEF finalizeCR, PassFrame
  <2>3. cr' \in Ancestors /\ cr'.rev <= rev'
    BY <2>1, <2>2, <1>0, CRWith
  <2>4. QED
    BY <2>2, <2>3, <1>e DEF CHISide, CHITypeOK
<1>10. CASE statusUpdateCM
  <2>1. UNCHANGED <<rev, status, conf, endsVars>>
    BY <1>10 DEF statusUpdateCM, PassFrame
  <2>2. \/ PassOver /\ UNCHANGED anc
        \/ pc' = "complete" /\ UNCHANGED <<pending, cancelled, cr>> /\ anc' \in {anc, cr}
    BY <1>10 DEF statusUpdateCM
  <2>3. cr' \in Ancestors /\ cr'.rev <= rev'
    BY <2>1, <2>2, <1>0, <1>p
  <2>4. anc' \in {anc, cr}
    BY <2>2
  <2>5. anc' \in Ancestors \cup {NoAncestor}
    BY <2>4, <1>0 DEF CHISide, CHITypeOK
  <2>6. anc' # NoAncestor => anc'.rev <= rev'
    BY <2>1, <2>4, <1>0 DEF CHISide, CHITypeOK
  <2>7. pc' \in {"idle", "complete"} /\ {pending, cancelled}' \subseteq BOOLEAN
    BY <2>2, <1>b DEF CHISide, CHITypeOK
  <2>8. QED
    BY <2>1, <2>3, <2>5, <2>6, <2>7, <1>e DEF CHISide, CHITypeOK
<1>s. CASE statusUpdateCR
  <2>1. UNCHANGED <<rev, anc, conf, endsVars>>
    BY <1>s DEF statusUpdateCR, PassFrame
  <2>2. \/ PassOver
        \/ pc' = "stamp" /\ UNCHANGED <<pending, cancelled, cr>>
    BY <1>s DEF statusUpdateCR
  <2>3. cr' \in Ancestors /\ cr'.rev <= rev'
    BY <2>1, <2>2, <1>0, <1>p
  <2>4. status' \in Statuses
    BY <1>s DEF statusUpdateCR, CHISide, CHITypeOK, Statuses
  <2>5. pc' \in {"idle", "stamp"} /\ {pending, cancelled}' \subseteq BOOLEAN
    BY <2>2, <1>b DEF CHISide, CHITypeOK
  <2>6. QED
    BY <2>1, <2>3, <2>4, <2>5, <1>e DEF CHISide, CHITypeOK
<1>u. CASE updateEndpoints
  <2>1. UNCHANGED <<chiVars, passVars>> /\ epc' = "write" /\ ehold' = anc
    BY <1>u DEF updateEndpoints
  <2>2. QED
    BY <2>1 DEF CHISide, CHITypeOK, chiVars, passVars
<1>w. CASE updateEndpointsWrites
  <2>1. /\ UNCHANGED <<rev, status, conf, passVars>> /\ epc' = "idle" /\ ehold' = NoAncestor
        /\ anc' = ehold
    BY <1>w DEF updateEndpointsWrites
  <2>2. QED
    BY <2>1 DEF CHISide, CHITypeOK, passVars
<1>11. CASE EditCHI
  <2>1. rev' = rev + 1 /\ Enqueue /\ UNCHANGED <<anc, status, conf, endsVars>>
    BY <1>11 DEF EditCHI
  <2>2. cr' = cr /\ pc' = pc /\ {pending, cancelled}' \subseteq BOOLEAN
    BY <2>1 DEF Enqueue
  <2>3. rev' \in Nat /\ cr'.rev <= rev'
    BY <2>1, <2>2, <1>0
  <2>4. anc' # NoAncestor => anc'.rev <= rev'
    <3>1. SUFFICES ASSUME anc # NoAncestor PROVE anc.rev <= rev'
      BY <2>1
    <3>2. anc \in Ancestors /\ anc.rev <= rev
      BY <3>1, Zenon DEF CHISide, CHITypeOK
    <3>3. anc.rev \in Nat
      BY <3>2 DEF Ancestors
    <3>4. QED
      BY <3>2, <3>3, <2>1, <1>0
  <2>e. ehold' \in Ancestors \cup {NoAncestor} /\ (ehold' # NoAncestor => ehold'.rev <= rev')
    <3>0. ehold' = ehold /\ ehold \in Ancestors \cup {NoAncestor}
      BY <2>1 DEF endsVars, CHISide, CHITypeOK
    <3>1. SUFFICES ASSUME ehold # NoAncestor PROVE ehold.rev <= rev'
      BY <3>0
    <3>2. ehold \in Ancestors /\ ehold.rev <= rev
      BY <3>0, <3>1, Zenon DEF CHISide
    <3>3. ehold.rev \in Nat
      BY <3>2 DEF Ancestors
    <3>4. QED
      BY <3>2, <3>3, <2>1, <1>0
  <2>5. QED
    BY <2>1, <2>2, <2>3, <2>4, <2>e DEF CHISide, CHITypeOK, endsVars
<1>12. CASE Restart
  <2>1. /\ UNCHANGED <<rev, anc, status, conf>> /\ cr' = NoCR /\ pc' = "idle"
        /\ pending' = TRUE /\ cancelled' = FALSE /\ epc' = "idle" /\ ehold' = NoAncestor
    BY <1>12 DEF Restart, chiVars
  <2>2. cr' \in Ancestors /\ cr'.rev <= rev'
    BY <2>1, <1>0, NoCRType, NoCRRev
  <2>3. QED
    BY <2>1, <2>2 DEF CHISide, CHITypeOK
<1>13. QED
  BY <1>2, <1>3, <1>4, <1>5, <1>6, <1>m, <1>7, <1>8, <1>9, <1>10, <1>s, <1>u, <1>w, <1>11, <1>12
     DEF Next, Watcher, CHIPass, CHIStill

-----------------------------------------------------------------------------
(* The watcher.                                                            *)

\* A new status of the CHK is appended to the watch.
LEMMA StreamType ==
    ASSUME KeeperTypeOK, WatchTypeOK, NEW s \in Statuses, SetKeeperStatus(s)
    PROVE  stream' \in Seq(Statuses) /\ UNCHANGED <<cache, wpc, held>>
<1>1. stream \in Seq(Statuses)
  BY DEF WatchTypeOK
<1>2. Append(stream, s) \in Seq(Statuses)
  BY <1>1
<1>3. QED
  BY <1>1, <1>2 DEF SetKeeperStatus

\* The conjuncts that no fault and no edit is about.
WatchKinds ==
    /\ wpc \in {"idle", "compare"} /\ cache \in Statuses /\ stream \in Seq(Statuses)
    /\ held \in Ancestors \cup {NoAncestor} /\ lost \subseteq Losses

\* The watcher's variables, when a step leaves them alone and for every step.
LEMMA WatchFrame ==
    ASSUME WatchTypeOK, UNCHANGED <<watchVars, lost>>
    PROVE  WatchKinds'
  BY DEF WatchTypeOK, WatchKinds, watchVars

LEMMA WatchKindsStep ==
    ASSUME TypeOK, [Next]_vars
    PROVE  WatchKinds'
<1>0. KeeperTypeOK /\ CHITypeOK /\ WatchTypeOK
  BY DEF TypeOK
<1>1. ASSUME NEW s \in Statuses, SetKeeperStatus(s), UNCHANGED lost PROVE WatchKinds'
  <2>1. stream' \in Seq(Statuses) /\ UNCHANGED <<cache, wpc, held>>
    BY <1>0, <1>1, StreamType
  <2>2. QED
    BY <1>0, <1>1, <2>1 DEF WatchTypeOK, WatchKinds
<1>2. ASSUME UNCHANGED watchVars, lost' \subseteq Losses PROVE WatchKinds'
  BY <1>0, <1>2 DEF WatchTypeOK, WatchKinds, watchVars
<1>3. CASE UNCHANGED vars
  BY <1>0, <1>3, WatchFrame DEF vars
<1>4. CASE KeeperBegins
  <2>1. UNCHANGED lost
    BY <1>4 DEF KeeperBegins
  <2>2. SetKeeperStatus("InProgress") \/ UNCHANGED watchVars
    BY <1>4 DEF KeeperBegins
  <2>3. QED
    BY <2>1, <2>2, <1>0, <1>1, WatchFrame DEF Statuses
<1>5. CASE KeeperHost
  <2>1. UNCHANGED watchVars
    BY <1>5 DEF KeeperHost, watchVars
  <2>2. lost' = lost \/ lost' = lost \cup {"lookup"}
    BY <1>5 DEF KeeperHost, MoveServices
  <2>3. QED
    BY <2>1, <2>2, <1>0, <1>2 DEF WatchTypeOK, Losses
<1>6. CASE KeeperClean
  <2>1. UNCHANGED watchVars /\ (lost' = lost \/ lost' = lost \cup {"lookup"})
    BY <1>6 DEF KeeperClean, MoveServices
  <2>2. QED
    BY <2>1, <1>0, <1>2 DEF WatchTypeOK, Losses
<1>7. CASE KeeperCompletes
  <2>1. SetKeeperStatus("Completed") /\ UNCHANGED lost
    BY <1>7 DEF KeeperCompletes
  <2>2. QED
    BY <2>1, <1>1 DEF Statuses
<1>8. CASE KeeperFails
  <2>1. SetKeeperStatus("Aborted") /\ UNCHANGED lost
    BY <1>8 DEF KeeperFails
  <2>2. QED
    BY <2>1, <1>1 DEF Statuses
<1>9. CASE onCHKUpdate
  <2>1. stream \in Seq(Statuses) /\ stream # <<>>
    BY <1>0, <1>9 DEF onCHKUpdate, WatchTypeOK
  <2>2. Tail(stream) \in Seq(Statuses) /\ Head(stream) \in Statuses
    BY <2>1
  <2>3. stream' \in Seq(Statuses) /\ cache' \in Statuses
    BY <1>9, <2>2 DEF onCHKUpdate
  <2>4. /\ wpc' \in {wpc, "compare"} /\ held' \in {held, anc, NoAncestor}
        /\ lost' \in {lost, lost \cup {"event"}}
    BY <1>9 DEF onCHKUpdate, enqueueDependentCHIs, NotOfInterest
  <2>5. QED
    BY <1>0, <2>3, <2>4 DEF WatchKinds, WatchTypeOK, CHITypeOK, Losses
<1>10. CASE shouldReconcileOnKeeperUpdate
  <2>1. wpc' = "idle" /\ held' = NoAncestor /\ UNCHANGED <<stream, cache, lost>>
    BY <1>10 DEF shouldReconcileOnKeeperUpdate
  <2>2. QED
    BY <1>0, <2>1 DEF WatchKinds, WatchTypeOK
<1>11. CASE Relist
  <2>1. stream' = <<kstatus>> /\ UNCHANGED <<cache, wpc, held>>
    BY <1>11 DEF Relist
  <2>2. stream' \in Seq(Statuses)
    BY <1>0, <2>1 DEF KeeperTypeOK
  <2>3. lost' \subseteq Losses
    BY <1>0, <1>11 DEF Relist, WatchTypeOK, Losses
  <2>4. QED
    BY <1>0, <2>1, <2>2, <2>3 DEF WatchKinds, WatchTypeOK
<1>12. CASE CHIPass
  <2>1. UNCHANGED watchVars
    BY <1>12 DEF CHIPass, PassBegins, buildCR, markReconcileStart, reconcileConfigMapHost,
       finalizeReconcileAndMarkCompleted, finalizeCR, statusUpdateCM, statusUpdateCR, PassFrame
  <2>2. \A nodes : LookupLoss(nodes) \subseteq Losses
    BY DEF LookupLoss, Losses
  <2>3. lost' \subseteq Losses
    <3>1. CASE markReconcileStart \/ finalizeCR
      BY <1>0, <2>2, <3>1 DEF WatchTypeOK, markReconcileStart, finalizeCR, Losses
    <3>2. QED
      BY <1>0, <1>12, <3>1 DEF WatchTypeOK, CHIPass, PassBegins, buildCR, reconcileConfigMapHost,
         finalizeReconcileAndMarkCompleted, statusUpdateCM, statusUpdateCR, Losses
  <2>4. QED
    BY <2>1, <2>3, <1>2
<1>w. CASE updateEndpoints \/ updateEndpointsWrites
  <2>1. UNCHANGED watchVars /\ lost' \subseteq Losses
    BY <1>0, <1>w DEF WatchTypeOK, updateEndpoints, updateEndpointsWrites, Losses
  <2>2. QED
    BY <2>1, <1>2
<1>13. CASE EditKeeper \/ EditCHI \/ PodRuns \/ PodFlips
  BY <1>0, <1>13, WatchFrame DEF EditKeeper, EditCHI, PodRuns, PodFlips
<1>14. CASE Restart
  <2>1. /\ stream' = <<>> /\ cache' = kstatus /\ wpc' = "idle" /\ held' = NoAncestor
        /\ lost' = lost \ {"event"}
    BY <1>14 DEF Restart
  <2>2. stream' \in Seq(Statuses)
    BY <2>1
  <2>3. cache' \in Statuses
    BY <1>0, <2>1 DEF KeeperTypeOK
  <2>4. QED
    BY <1>0, <2>1, <2>2, <2>3 DEF WatchKinds, WatchTypeOK
<1>15. QED
  BY <1>3, <1>4, <1>5, <1>6, <1>7, <1>8, <1>9, <1>10, <1>11, <1>12, <1>w, <1>13, <1>14
     DEF Next, KeeperPass, Watcher

\* Every fault and every edit is counted, and none goes past its bound.
LEMMA CountsStep ==
    ASSUME WatchTypeOK, [Next]_vars
    PROVE  edits' \in 0..MaxEdits /\ faults' \in 0..MaxFaults
<1>1. edits \in 0..MaxEdits /\ faults \in 0..MaxFaults
  BY Zenon DEF WatchTypeOK
<1>2. UNCHANGED edits \/ (edits < MaxEdits /\ edits' = edits + 1)
  BY DEF Next, KeeperPass, KeeperBegins, KeeperHost, KeeperClean, KeeperCompletes, KeeperFails,
     Watcher, onCHKUpdate, shouldReconcileOnKeeperUpdate, Relist, CHIPass, PassBegins, buildCR,
     markReconcileStart, reconcileConfigMapHost, finalizeReconcileAndMarkCompleted, finalizeCR,
     statusUpdateCM, statusUpdateCR, updateEndpoints, updateEndpointsWrites, PassFrame, EditKeeper, EditCHI, PodRuns, PodFlips, Restart, countVars, vars
<1>3. NoFault \/ Fault
  <2>1. CASE KeeperPass
    BY <2>1 DEF KeeperPass, KeeperBegins, KeeperHost, KeeperClean, KeeperCompletes, countVars,
       NoFault
  <2>2. CASE Watcher
    BY <2>2 DEF Watcher, onCHKUpdate, enqueueDependentCHIs, NotOfInterest,
       shouldReconcileOnKeeperUpdate
  <2>3. CASE CHIPass
    BY <2>3 DEF CHIPass, PassBegins, buildCR, markReconcileStart, reconcileConfigMapHost,
       resolveKeeperReference, finalizeReconcileAndMarkCompleted, finalizeCR, statusUpdateCM,
       statusUpdateCR
  <2>4. QED
    BY <2>1, <2>2, <2>3 DEF Next, KeeperFails, Relist, EditKeeper, EditCHI, PodRuns, PodFlips,
       updateEndpoints, updateEndpointsWrites, Restart, countVars, vars, NoFault
<1>4. faults' \in 0..MaxFaults
  BY <1>3, FaultType
<1>5. edits' \in 0..MaxEdits
  BY <1>1, <1>2, LayoutFacts
<1>6. QED
  BY <1>4, <1>5

-----------------------------------------------------------------------------
\* The invariant holds at first and after every step.
LEMMA LinkInvInit == Init => LinkInv
<1> SUFFICES ASSUME Init PROVE LinkInv
  OBVIOUS
<1>1. KeeperTypeOK /\ ktodo = {}
  BY LayoutFacts DEF Init, KeeperTypeOK, Statuses
<1>2. CHITypeOK
  <2>1. rev = 1 /\ cr = NoCR
    BY Zenon DEF Init
  <2>2. [rev |-> 1, nodes |-> First] \in Ancestors /\ First \in Endpoints /\ {} \in Endpoints
    BY LayoutFacts DEF Ancestors, Endpoints
  <2>3. \/ anc = NoAncestor /\ conf = {} /\ status = "" /\ pending = TRUE
        \/ /\ anc = [rev |-> 1, nodes |-> First] /\ conf = First /\ status = "Completed"
           /\ pending = FALSE
    BY Zenon DEF Init
  <2>4. anc # NoAncestor => anc.rev <= rev
    <3>1. SUFFICES ASSUME anc # NoAncestor PROVE anc.rev <= rev
      OBVIOUS
    <3>2. anc = [rev |-> 1, nodes |-> First]
      BY <2>3, <3>1, Zenon
    <3>3. QED
      BY <3>2, <2>1
  <2>5. rev \in Nat /\ cr \in Ancestors
    BY <2>1, NoCRType
  <2>6. anc \in Ancestors \cup {NoAncestor} /\ conf \in Endpoints /\ status \in Statuses
    BY <2>2, <2>3 DEF Statuses
  <2>7. /\ pc = "idle" /\ {pending, cancelled} \subseteq BOOLEAN
        /\ epc = "idle" /\ ehold = NoAncestor
    BY <2>3 DEF Init
  <2>8. QED
    BY <2>4, <2>5, <2>6, <2>7 DEF CHITypeOK
<1>3. WatchTypeOK
  <2>1. edits \in 0..MaxEdits /\ faults \in 0..MaxFaults
    <3>1. edits = 0 /\ faults = 0
      BY Zenon DEF Init
    <3>2. QED
      BY <3>1, LayoutFacts
  <2>2. stream \in Seq(Statuses)
    <3>1. stream = <<>>
      BY Zenon DEF Init
    <3>2. QED
      BY <3>1
  <2>3. cache \in Statuses
    BY DEF Init, Statuses
  <2>4. wpc = "idle" /\ held = NoAncestor /\ lost = {}
    BY DEF Init
  <2>5. QED
    BY <2>1, <2>2, <2>3, <2>4 DEF WatchTypeOK
<1>4. cr.rev <= rev /\ (ehold # NoAncestor => ehold.rev <= rev)
  <2>1. rev = 1 /\ cr = NoCR /\ ehold = NoAncestor
    BY Zenon DEF Init
  <2>2. QED
    BY <2>1, NoCRRev
<1>5. QED
  BY <1>1, <1>2, <1>3, <1>4 DEF LinkInv, ProgressInv, TypeOK

LEMMA LinkInvStep == LinkInv /\ [Next]_vars => LinkInv'
<1> SUFFICES ASSUME LinkInv, [Next]_vars PROVE LinkInv'
  OBVIOUS
<1>1. KeeperSide /\ CHISide /\ WatchTypeOK /\ TypeOK
  BY DEF LinkInv, ProgressInv, TypeOK, KeeperSide, CHISide
<1>2. KeeperSide' /\ CHISide'
  BY <1>1, KeeperSideStep, CHISideStep
<1>3. WatchTypeOK'
  <2>1. WatchKinds'
    BY <1>1, WatchKindsStep
  <2>2. edits' \in 0..MaxEdits /\ faults' \in 0..MaxFaults
    BY <1>1, CountsStep
  <2>3. QED
    BY <2>1, <2>2, Zenon DEF WatchKinds, WatchTypeOK
<1>4. QED
  BY <1>2, <1>3 DEF LinkInv, ProgressInv, TypeOK, KeeperSide, CHISide

(* Whatever the layouts and however many edits and faults: the variables of *)
(* both passes and of the watcher keep their types, what a pass of the CHK  *)
(* has left is part of what it works on, and neither the ancestor nor the   *)
(* pass of the CHI is of a revision that is yet to come.                    *)
THEOREM LinkTypeCorrect == Spec => []TypeOK
<1>1. LinkInv => TypeOK
  BY DEF LinkInv
<1>2. QED
  BY <1>1, LinkInvInit, LinkInvStep, PTL DEF Spec

-----------------------------------------------------------------------------
(* The files and the ancestor.                                             *)

\* The files of a new CHI make no promise, those of a completed one are its ancestor's.
LEMMA FilesInit == Init => FilesInv
<1> SUFFICES ASSUME Init PROVE FilesInv
  OBVIOUS
<1>1. MarkedInv /\ LookedUpInv /\ StampedInv
  BY DEF Init, MarkedInv, LookedUpInv, StampedInv
<1>2. FilesAsStamped
  <2>1. SUFFICES ASSUME status = "Completed"
                 PROVE  anc \in Ancestors /\ anc.nodes = conf /\ conf # {}
    BY DEF FilesAsStamped
  <2>2. anc = [rev |-> 1, nodes |-> First] /\ conf = First
    BY <2>1 DEF Init
  <2>3. QED
    BY <2>2, LayoutFacts DEF Ancestors, Endpoints
<1>3. QED
  BY <1>1, <1>2 DEF FilesInv

\* What parts the files from the ancestor.
LEMMA FileLossesAre == FileLosses = {"lookup", "mark", "ancestor"}
  BY DEF FileLosses, Losses

\* Steps beside the pass; an edit may cancel it, and a loss excuses more.
LEMMA FilesFrame ==
    ASSUME FilesInv, UNCHANGED <<anc, status, conf, pc, cr>>,
           cancelled' = cancelled \/ (pc # "idle" /\ cancelled' = TRUE),
           lost \ {"event"} \subseteq lost',
           svc' = svc \/ "lookup" \in lost' \/ pc \notin UnderWay
    PROVE  FilesInv'
<1>1. MarkedInv'
  BY DEF FilesInv, MarkedInv
<1>2. LookedUpInv'
  BY DEF FilesInv, LookedUpInv, UnderWay
<1>3. StampedInv' /\ FilesAsStamped'
  BY FileLossesAre DEF FilesInv, StampedInv, FilesAsStamped
<1>4. QED
  BY <1>1, <1>2, <1>3 DEF FilesInv

\* A pass that ends without a stamp.
LEMMA FilesPassOver ==
    ASSUME FilesInv, UNCHANGED <<anc, conf, lost>>, PassOver,
           status' = status \/ status' = "Aborted"
    PROVE  FilesInv'
<1>1. MarkedInv' /\ LookedUpInv' /\ StampedInv'
  BY DEF MarkedInv, LookedUpInv, StampedInv, PassOver
<1>2. FilesAsStamped'
  BY DEF FilesInv, FilesAsStamped
<1>3. QED
  BY <1>1, <1>2 DEF FilesInv

\* The files change only in a pass that said InProgress or lost it; the ancestor
\* they are compared with is what the pass looked up both times.
LEMMA FilesStep == LinkInv /\ FilesInv /\ [Next]_vars => FilesInv'
<1> SUFFICES ASSUME LinkInv, FilesInv, [Next]_vars PROVE FilesInv'
  OBVIOUS
<1>0. cr \in Ancestors
  BY DEF LinkInv, TypeOK, CHITypeOK
<1>1. CASE KeeperHost \/ KeeperClean
  <2>1. UNCHANGED <<chiVars, passVars>>
    BY <1>1 DEF KeeperHost, KeeperClean
  <2>2. \/ UNCHANGED <<svc, lost>>
        \/ \E new : MoveServices(new)
    BY <1>1 DEF KeeperHost, KeeperClean
  <2>3. lost \subseteq lost' /\ (svc' = svc \/ "lookup" \in lost' \/ pc \notin UnderWay)
    BY <2>2 DEF MoveServices
  <2>4. QED
    BY <2>1, <2>3, FilesFrame DEF chiVars, passVars
<1>2. CASE KeeperBegins \/ KeeperCompletes \/ KeeperFails \/ EditKeeper \/ PodRuns \/ PodFlips
  <2>1. UNCHANGED <<chiVars, passVars, lost, svc>>
    BY <1>2 DEF KeeperBegins, KeeperCompletes, KeeperFails, EditKeeper, PodRuns, PodFlips
  <2>2. QED
    BY <2>1, FilesFrame DEF chiVars, passVars
<1>3. CASE onCHKUpdate \/ Relist
  <2>1. UNCHANGED <<chiVars, passVars, keeperVars>> /\ lost \subseteq lost'
    BY <1>3 DEF onCHKUpdate, enqueueDependentCHIs, Relist
  <2>2. QED
    BY <2>1, FilesFrame DEF chiVars, passVars, keeperVars
<1>4. CASE UNCHANGED vars
  BY <1>4, FilesFrame DEF vars, chiVars, passVars, keeperVars
<1>5. CASE shouldReconcileOnKeeperUpdate
  <2>1. UNCHANGED <<chiVars, keeperVars, lost>> /\ (Enqueue \/ UNCHANGED passVars)
    BY <1>5 DEF shouldReconcileOnKeeperUpdate
  <2>2. UNCHANGED <<pc, cr>> /\ (cancelled' = cancelled \/ (pc # "idle" /\ cancelled' = TRUE)
                                 \/ (pc = "idle" /\ cancelled' = FALSE))
    BY <2>1 DEF Enqueue, passVars
  <2>3. CASE pc = "idle" /\ cancelled' = FALSE
    BY <2>1, <2>2, <2>3 DEF FilesInv, MarkedInv, LookedUpInv, StampedInv, FilesAsStamped, chiVars
  <2>4. QED
    BY <2>1, <2>2, <2>3, FilesFrame DEF chiVars, keeperVars
<1>6. CASE EditCHI
  <2>1. UNCHANGED <<anc, status, conf, keeperVars, lost>> /\ Enqueue
    BY <1>6 DEF EditCHI
  <2>2. UNCHANGED <<pc, cr>> /\ ((pc # "idle" /\ cancelled' = TRUE) \/ (pc = "idle" /\ cancelled' = FALSE))
    BY <2>1 DEF Enqueue
  <2>3. CASE pc = "idle" /\ cancelled' = FALSE
    BY <2>1, <2>2, <2>3 DEF FilesInv, MarkedInv, LookedUpInv, StampedInv, FilesAsStamped
  <2>4. QED
    BY <2>1, <2>2, <2>3, FilesFrame DEF keeperVars
<1>7. CASE PassBegins
  <2>1. UNCHANGED <<anc, status, conf>> /\ pc' = "build" /\ lost' = lost \ {"event"}
    BY <1>7 DEF PassBegins
  <2>2. QED
    BY <2>1, FileLossesAre DEF FilesInv, MarkedInv, LookedUpInv, StampedInv, FilesAsStamped
<1>8. CASE buildCR
  <2>1. UNCHANGED <<anc, status, conf, lost>> /\ pc' \in {"idle", "mark"}
    BY <1>8 DEF buildCR, PassOver
  <2>2. QED
    BY <2>1 DEF FilesInv, MarkedInv, LookedUpInv, StampedInv, FilesAsStamped
<1>9. CASE markReconcileStart
  <2>1. UNCHANGED <<anc, conf, cr, cancelled, svc>> /\ pc' = "hosts"
    BY <1>9 DEF markReconcileStart, PassFrame, keeperVars
  <2>2. "lookup" \notin LookupLoss(cr.nodes) => cr.nodes = svc /\ svc # {}
    BY DEF LookupLoss
  <2>3. \/ cancelled /\ UNCHANGED <<status, lost>>
        \/ ~cancelled /\ status' = "InProgress" /\ lost' = LookupLoss(cr.nodes)
        \/ ~cancelled /\ UNCHANGED status /\ lost' = lost \cup LookupLoss(cr.nodes) \cup {"mark"}
    BY <1>9 DEF markReconcileStart
  <2>4. MarkedInv'
    BY <2>1, <2>3 DEF MarkedInv
  <2>5. LookedUpInv'
    BY <2>1, <2>2, <2>3 DEF LookedUpInv
  <2>6. StampedInv'
    BY <2>1 DEF StampedInv
  <2>7. FilesAsStamped'
    BY <2>1, <2>3, FileLossesAre DEF FilesInv, FilesAsStamped
  <2>8. QED
    BY <2>4, <2>5, <2>6, <2>7 DEF FilesInv
<1>10. CASE reconcileConfigMapHost
  <2>1. UNCHANGED <<anc, lost, svc>> /\ pc = "hosts"
    BY <1>10 DEF reconcileConfigMapHost, PassFrame, keeperVars
  <2>2. \/ PassOver /\ UNCHANGED conf /\ (status' = status \/ status' = "Aborted")
        \/ ~cancelled /\ pc' = "finalize" /\ UNCHANGED status /\ conf' = cr.nodes
    BY <1>10 DEF reconcileConfigMapHost
  <2>3. CASE ~cancelled /\ pc' = "finalize" /\ UNCHANGED status /\ conf' = cr.nodes
    <3>1. status' # "Completed" \/ "mark" \in lost'
      BY <2>1, <2>3 DEF FilesInv, MarkedInv
    <3>2. LookedUpInv'
      BY <2>1, <2>3 DEF FilesInv, LookedUpInv
    <3>3. QED
      BY <2>3, <3>1, <3>2, FileLossesAre DEF FilesInv, MarkedInv, StampedInv, FilesAsStamped
  <2>4. QED
    BY <2>1, <2>2, <2>3, FilesPassOver
<1>11. CASE finalizeReconcileAndMarkCompleted
  <2>1. UNCHANGED <<anc, status, conf, lost, svc>> /\ pc = "finalize"
    BY <1>11 DEF finalizeReconcileAndMarkCompleted, PassFrame, keeperVars
  <2>2. PassOver \/ pc' = "rebuild"
    BY <1>11 DEF finalizeReconcileAndMarkCompleted
  <2>3. CASE pc' = "rebuild"
    BY <2>1, <2>3 DEF FilesInv, MarkedInv, LookedUpInv, StampedInv, FilesAsStamped
  <2>4. QED
    BY <2>1, <2>2, <2>3, FilesPassOver
<1>12. CASE finalizeCR
  <2>1. PICK nodes \in Endpoints :
           cr' = [cr EXCEPT !.nodes = nodes] /\ lost' = lost \cup LookupLoss(nodes)
    BY <1>12 DEF finalizeCR
  <2>2. UNCHANGED <<anc, status, conf, svc>> /\ pc = "rebuild" /\ pc' = "stamp"
    BY <1>12 DEF finalizeCR, PassFrame, keeperVars
  <2>3. cr'.nodes = nodes
    BY <2>1, <1>0 DEF Ancestors
  <2>4. "lookup" \notin LookupLoss(nodes) => nodes = svc /\ svc # {}
    BY DEF LookupLoss
  <2>5. LookedUpInv'
    BY <2>1, <2>2, <2>3, <2>4 DEF FilesInv, LookedUpInv
  <2>6. MarkedInv' /\ StampedInv' /\ FilesAsStamped'
    BY <2>1, <2>2 DEF FilesInv, MarkedInv, StampedInv, FilesAsStamped
  <2>7. QED
    BY <2>5, <2>6 DEF FilesInv
<1>13. CASE statusUpdateCM
  <2>1. UNCHANGED <<status, conf>> /\ pc = "stamp"
    BY <1>13 DEF statusUpdateCM
  <2>2. CASE PassOver /\ UNCHANGED <<anc, lost>>
    BY <2>1, <2>2, FilesPassOver
  <2>3. CASE /\ pc' = "complete" /\ cr' = cr
             /\ \/ anc' = cr /\ lost' = lost \ {"ancestor"}
                \/ lost' = lost \cup {"ancestor"} /\ UNCHANGED anc
    <3>1. MarkedInv' /\ LookedUpInv'
      BY <2>1, <2>3 DEF FilesInv, MarkedInv, LookedUpInv
    <3>2. StampedInv'
      BY <1>0, <2>1, <2>3 DEF FilesInv, LookedUpInv, StampedInv
    <3>3. FilesAsStamped'
      BY <2>1, <2>3, FileLossesAre DEF FilesInv, MarkedInv, FilesAsStamped
    <3>4. QED
      BY <3>1, <3>2, <3>3 DEF FilesInv
  <2>4. QED
    BY <1>13, <2>2, <2>3 DEF statusUpdateCM
<1>14. CASE statusUpdateCR
  <2>1. UNCHANGED <<anc, conf>> /\ pc = "complete"
    BY <1>14 DEF statusUpdateCR
  <2>2. CASE PassOver /\ status' = "Completed" /\ lost' = lost \ {"mark"}
    <3>1. FilesAsStamped'
      BY <2>1, <2>2, FileLossesAre DEF FilesInv, StampedInv, FilesAsStamped
    <3>2. QED
      BY <2>2, <3>1 DEF FilesInv, MarkedInv, LookedUpInv, StampedInv, PassOver
  <2>3. CASE pc' = "stamp" /\ UNCHANGED <<cr, status, lost>>
    BY <2>1, <2>3 DEF FilesInv, MarkedInv, LookedUpInv, StampedInv, FilesAsStamped
  <2>4. CASE PassOver /\ UNCHANGED <<status, lost>>
    BY <2>1, <2>4, FilesPassOver
  <2>5. QED
    BY <1>14, <2>2, <2>3, <2>4 DEF statusUpdateCR
<1>15. CASE updateEndpoints
  <2>1. UNCHANGED <<chiVars, passVars, keeperVars, lost>>
    BY <1>15 DEF updateEndpoints
  <2>2. QED
    BY <2>1, FilesFrame DEF chiVars, passVars, keeperVars
<1>16. CASE updateEndpointsWrites
  <2>1. UNCHANGED <<status, conf, passVars, keeperVars>>
    BY <1>16 DEF updateEndpointsWrites
  <2>2. UNCHANGED <<anc, lost>> \/ lost' = lost \cup {"ancestor"}
    BY <1>16 DEF updateEndpointsWrites
  <2>3. CASE UNCHANGED <<anc, lost>>
    BY <2>1, <2>3, FilesFrame DEF passVars, keeperVars
  <2>4. CASE lost' = lost \cup {"ancestor"}
    BY <2>1, <2>4, FileLossesAre
       DEF FilesInv, MarkedInv, LookedUpInv, StampedInv, FilesAsStamped, passVars, keeperVars
  <2>5. QED
    BY <2>2, <2>3, <2>4
<1>17. CASE Restart
  <2>1. UNCHANGED <<anc, status, conf>> /\ pc' = "idle" /\ lost' = lost \ {"event"}
    BY <1>17 DEF Restart, chiVars
  <2>2. QED
    BY <2>1, FileLossesAre DEF FilesInv, MarkedInv, LookedUpInv, StampedInv, FilesAsStamped
<1>18. QED
  BY <1>1, <1>2, <1>3, <1>4, <1>5, <1>6, <1>7, <1>8, <1>9, <1>10, <1>11, <1>12, <1>13, <1>14,
     <1>15, <1>16, <1>17
     DEF Next, KeeperPass, Watcher, CHIPass

(* Whatever the layouts and however many edits, cancelled and failed passes *)
(* and restarts: a CHI that says Completed has the endpoints of its         *)
(* ancestor in its files, so the watcher may compare with the ancestor,     *)
(* unless a lookup of its last pass did not return the keepers' Services or *)
(* they changed under it, its InProgress or its ancestor was not written,   *)
(* or an older ancestor was put back.                                       *)
THEOREM FilesCorrect == Spec => []FilesAsStamped
<1>1. LinkInv /\ FilesInv => FilesAsStamped
  BY DEF FilesInv
<1>2. QED
  BY <1>1, LinkInvInit, LinkInvStep, FilesInit, FilesStep, PTL DEF Spec

=============================================================================
