----------------------------- MODULE KeeperLink -----------------------------
(***************************************************************************)
(* A ClickHouseInstallation that refers to its keepers by the name of a    *)
(* ClickHouseKeeperInstallation (controller-chk-watcher.go,                *)
(* controller-keeper-resolver.go, worker-keeper-resolver.go).  A pass of   *)
(* the CHI looks the endpoints up twice, once for the configuration files  *)
(* and once for the ancestor it stamps; the watcher of the CHK queues the  *)
(* CHI again when a CHK completes with other endpoints than the ancestor   *)
(* has.  The passes of the CHK are what they do to its Services and pods   *)
(* (KeeperReconcile has the rest), those of the CHI what they do to the    *)
(* endpoints (ChiReconcile has the rest).                                  *)
(***************************************************************************)
EXTENDS Naturals, Sequences, FiniteSets

CONSTANTS
    Layouts,      \* the sets of keepers a client may ask the CHK for
    First,        \* the one it asks for first
    Front,        \* the endpoint of the CHK's own Service
    NoAncestor,   \* stands for no completed pass
    MaxEdits,     \* bounds: edits of the CHK and of the CHI, and
    MaxFaults     \* failing pods and calls, broken watches, crashes

Keepers == UNION Layouts

ASSUME LinkAssumption ==
    /\ First \in Layouts /\ {} \notin Layouts /\ Front \notin Keepers
    /\ {MaxEdits, MaxFaults} \subseteq Nat

VARIABLES
    \* The CHK: its layout, the one it last completed, its status
    layout, completed, kstatus,
    \* its Services (front: its own, svc: the keepers'), its pods, those Running
    front, svc, pods, running,
    \* the passes of the CHK
    kpending, kpc, kcr, ktodo,
    \* the CHI: its revision, its ancestor and status, the endpoints in the
    \* configuration files of its hosts
    rev, anc, status, conf,
    \* the passes of the CHI
    pending, cancelled, pc, cr,
    \* the watcher: statuses on their way, the one in the cache, the ancestor
    \* it compares with
    stream, cache, wpc, held,
    \* the worker of the Endpoints: the ancestor it has read and will write back
    epc, ehold,
    \* what the properties remember of what went wrong: see Losses
    lost,
    \* Counters
    edits, faults

keeperVars == <<layout, completed, kstatus, front, svc, pods, running>>
kpassVars  == <<kpending, kpc, kcr, ktodo>>
chiVars    == <<rev, anc, status, conf>>
passVars   == <<pending, cancelled, pc, cr>>
watchVars  == <<stream, cache, wpc, held>>
endsVars   == <<epc, ehold>>
countVars  == <<edits, faults>>
vars == <<keeperVars, kpassVars, chiVars, passVars, watchVars, endsVars, lost, countVars>>

Statuses == {"", "InProgress", "Completed", "Aborted"}
Endpoints == SUBSET (Keepers \cup {Front})
Ancestors == [rev : Nat, nodes : Endpoints]
NoCR == [rev |-> 0, nodes |-> {}]

(* lookup: a lookup of the last pass past its gate did not return the       *)
(* keepers' Services, or these changed before its stamp.  mark: its         *)
(* InProgress was lost.  ancestor: the ancestor it stamped was lost, or     *)
(* replaced by an older one.  event: the watcher was not told of a CHK that *)
(* completed since the last pass began.                                     *)
Losses == {"lookup", "mark", "ancestor", "event"}

(* What can part the files from the ancestor. *)
FileLosses == Losses \ {"event"}

NoFault == UNCHANGED faults
Fault == faults < MaxFaults /\ faults' = faults + 1

-----------------------------------------------------------------------------
(* Looking the endpoints up.                                               *)

(* resolveKeeperNodes: the Services of the keepers, or the CHK's own where  *)
(* they cannot be listed.  An error is the empty set.                       *)
resolveKeeperNodes(listed) ==
    IF listed /\ svc # {} THEN svc ELSE IF front THEN {Front} ELSE {}

(* waitKeeperReady: the pods the CHK has are all Running. *)
KeeperReady == pods # {} /\ pods \subseteq running

(* resolveKeeperReference.  The wait of a cancelled pass ends as if the     *)
(* keepers were ready, and its list fails; one that timed out resolves to   *)
(* nothing, and buildCR goes on with that.                                  *)
resolveKeeperReference(nodes) ==
    \/ /\ cancelled /\ NoFault /\ nodes = resolveKeeperNodes(FALSE)
    \/ /\ ~cancelled /\ KeeperReady
       /\ \E listed \in BOOLEAN :
             /\ nodes = resolveKeeperNodes(listed)
             /\ IF listed THEN NoFault ELSE Fault
    \/ /\ ~cancelled /\ ~KeeperReady /\ NoFault /\ nodes = {}

-----------------------------------------------------------------------------
(* The CHK.                                                                *)

SetKeeperStatus(s) ==
    /\ kstatus' = s
    /\ stream' = IF s = kstatus THEN stream ELSE Append(stream, s)
    /\ UNCHANGED <<cache, wpc, held>>

(* reconcileCR of the CHK: a pass with work to do says InProgress. *)
KeeperBegins ==
    /\ kpc = "idle" /\ kpending /\ kpending' = FALSE
    /\ IF layout # completed \/ pods # layout
       THEN /\ kpc' = "hosts" /\ kcr' = layout /\ ktodo' = layout /\ front' = TRUE
            /\ SetKeeperStatus("InProgress")
       ELSE UNCHANGED <<kpc, kcr, ktodo, kstatus, front, watchVars>>
    /\ UNCHANGED <<layout, completed, svc, pods, running, chiVars, passVars, endsVars, lost,
                   countVars>>

(* A pass of the CHI from its mark to its stamp. *)
UnderWay == {"hosts", "finalize", "rebuild", "stamp"}

(* The keepers' Services become new, maybe under a pass of the CHI. *)
MoveServices(new) ==
    /\ svc' = new
    /\ lost' = IF new # svc /\ pc \in UnderWay THEN lost \cup {"lookup"} ELSE lost

(* reconcileHostMain of the CHK: the Service comes before the StatefulSet,  *)
(* and a failure to write it is only logged.  Whether the pod is waited for *)
(* depends on the ensemble (KeeperReconcile): here it may or may not run.   *)
KeeperHost ==
    /\ kpc = "hosts" /\ ktodo # {}
    /\ \E h \in ktodo :
          \/ /\ h \notin svc /\ NoFault /\ MoveServices(svc \cup {h})
             /\ UNCHANGED <<pods, kpc, ktodo, kpending, kstatus, stream>>
          \/ /\ IF h \in svc THEN NoFault ELSE Fault
             /\ pods' = pods \cup {h} /\ ktodo' = ktodo \ {h}
             /\ UNCHANGED <<svc, lost, kpc, kpending, kstatus, stream>>
    /\ UNCHANGED <<layout, completed, front, running, kcr, cache, wpc, held, chiVars, passVars,
                   endsVars, edits>>

KeeperFails_NoReset ==
    /\ kpc = "hosts" /\ Fault
    /\ SetKeeperStatus("Aborted") /\ kpc' = "idle" /\ kcr' = {} /\ kpending' = TRUE
    /\ UNCHANGED <<layout, completed, front, svc, pods, running, ktodo, chiVars, passVars,
                   endsVars, lost, edits>>

(* A host failed: the CHK says Aborted, and controller-runtime calls again. *)
KeeperFails ==
    /\ kpc = "hosts" /\ Fault
    /\ SetKeeperStatus("Aborted") /\ kpc' = "idle" /\ kcr' = {} /\ ktodo' = {}
    /\ kpending' = TRUE
    /\ UNCHANGED <<layout, completed, front, svc, pods, running, chiVars, passVars, endsVars, lost,
                   edits>>

(* clean of the CHK: what the pass did not reconcile goes. *)
KeeperClean ==
    /\ kpc = "hosts" /\ ktodo = {} /\ kpc' = "stamp"
    /\ MoveServices(svc \cap kcr) /\ pods' = pods \cap kcr /\ running' = running \cap kcr
    /\ UNCHANGED <<layout, completed, kstatus, front, kpending, kcr, ktodo, chiVars, passVars,
                   watchVars, endsVars, countVars>>

(* finalizeReconcileAndMarkCompleted of the CHK: the layout is read again. *)
KeeperCompletes ==
    /\ kpc = "stamp" /\ kpc' = "idle" /\ kcr' = {}
    /\ completed' = layout /\ SetKeeperStatus("Completed")
    /\ UNCHANGED <<layout, front, svc, pods, running, kpending, ktodo, chiVars, passVars,
                   endsVars, lost, countVars>>

-----------------------------------------------------------------------------
(* The watcher of the CHK, one event after the other.                      *)

Enqueue == pending' = TRUE /\ cancelled' = (pc # "idle") /\ UNCHANGED <<pc, cr>>

(* enqueueDependentCHIs lists the CHIs and reads each with its ancestor.    *)
(* Without an ancestor (the read failed, or no pass has completed) the CHI  *)
(* is queued; when the list fails the event is dropped.                     *)
enqueueDependentCHIs ==
    \/ NoFault /\ wpc' = "compare" /\ held' = anc /\ UNCHANGED lost
    \/ Fault /\ wpc' = "compare" /\ held' = NoAncestor /\ UNCHANGED lost
    \/ Fault /\ lost' = lost \cup {"event"} /\ UNCHANGED <<wpc, held>>

NotOfInterest == NoFault /\ UNCHANGED <<wpc, held>>

(* onCHKUpdate: only a CHK that turns Completed is of interest. *)
Reacts(old, new) == new = "Completed" /\ old # "Completed"

onCHKUpdate ==
    /\ wpc = "idle" /\ stream # <<>>
    /\ stream' = Tail(stream) /\ cache' = Head(stream)
    /\ IF Reacts(cache, Head(stream)) THEN enqueueDependentCHIs
       ELSE NotOfInterest /\ UNCHANGED lost
    /\ UNCHANGED <<keeperVars, kpassVars, chiVars, passVars, endsVars, edits>>

(* The watch broke and the CHK is listed: of what happened in between only  *)
(* the end is seen.                                                         *)
Relist ==
    /\ Fault
    /\ stream' = <<kstatus>>
    /\ lost' = IF stream # <<>> /\ kstatus = "Completed" /\ cache = "Completed"
               THEN lost \cup {"event"} ELSE lost
    /\ UNCHANGED <<keeperVars, kpassVars, chiVars, passVars, cache, wpc, held, endsVars, edits>>

(* shouldReconcileOnKeeperUpdate, keeperNodeListChanged: sets are compared. *)
shouldReconcile_ByCount(nodes) ==
    held = NoAncestor \/ nodes = {} \/ Cardinality(nodes) # Cardinality(held.nodes)

shouldReconcile(nodes) == held = NoAncestor \/ nodes = {} \/ nodes # held.nodes

shouldReconcileOnKeeperUpdate ==
    /\ wpc = "compare" /\ wpc' = "idle" /\ held' = NoAncestor
    /\ \E listed \in BOOLEAN :
          /\ IF listed THEN NoFault ELSE Fault
          /\ IF shouldReconcile(resolveKeeperNodes(listed)) THEN Enqueue ELSE UNCHANGED passVars
    /\ UNCHANGED <<keeperVars, kpassVars, chiVars, stream, cache, endsVars, lost, edits>>

-----------------------------------------------------------------------------
(* The pass of the CHI.                                                    *)

PassFrame == UNCHANGED <<keeperVars, kpassVars, rev, watchVars, endsVars, edits>>
PassOver == pc' = "idle" /\ cancelled' = FALSE /\ cr' = NoCR /\ UNCHANGED pending

PassBegins ==
    /\ pc = "idle" /\ pending
    /\ pending' = FALSE /\ pc' = "build" /\ cr' = [rev |-> rev, nodes |-> {}]
    /\ lost' = lost \ {"event"}
    /\ NoFault /\ UNCHANGED <<cancelled, anc, status, conf>>
    /\ PassFrame

(* buildCR, and the action plan against the ancestor. *)
buildCR ==
    /\ pc = "build"
    /\ \E nodes \in Endpoints :
          /\ resolveKeeperReference(nodes)
          /\ IF anc = [cr EXCEPT !.nodes = nodes]
             THEN PassOver
             ELSE pc' = "mark" /\ cr' = [cr EXCEPT !.nodes = nodes] /\ UNCHANGED <<pending, cancelled>>
    /\ UNCHANGED <<anc, status, conf, lost>>
    /\ PassFrame

(* The endpoints a pass goes by are not those of the keepers' Services. *)
LookupLoss(nodes) == IF nodes = svc /\ svc # {} THEN {} ELSE {"lookup"}

markReconcileStart_Unwritten ==
    /\ pc = "mark" /\ pc' = "hosts" /\ NoFault
    /\ lost' = IF cancelled THEN lost ELSE LookupLoss(cr.nodes)
    /\ UNCHANGED <<pending, cancelled, cr, anc, status, conf>>
    /\ PassFrame

(* markReconcileStart: the error of the write is discarded. *)
markReconcileStart ==
    /\ pc = "mark" /\ pc' = "hosts"
    /\ \/ cancelled /\ NoFault /\ UNCHANGED <<status, lost>>
       \/ ~cancelled /\ NoFault /\ status' = "InProgress" /\ lost' = LookupLoss(cr.nodes)
       \/ /\ ~cancelled /\ Fault /\ UNCHANGED status
          /\ lost' = lost \cup LookupLoss(cr.nodes) \cup {"mark"}
    /\ UNCHANGED <<pending, cancelled, cr, anc, conf>>
    /\ PassFrame

(* reconcileConfigMapHost, for the hosts as one. *)
reconcileConfigMapHost ==
    /\ pc = "hosts"
    /\ \/ cancelled /\ NoFault /\ PassOver /\ UNCHANGED <<status, conf>>
       \/ ~cancelled /\ Fault /\ PassOver /\ status' = "Aborted" /\ UNCHANGED conf
       \/ /\ ~cancelled /\ NoFault /\ conf' = cr.nodes /\ pc' = "finalize"
          /\ UNCHANGED <<status, pending, cancelled, cr>>
    /\ UNCHANGED <<anc, lost>>
    /\ PassFrame

(* finalizeReconcileAndMarkCompleted, finalizeCR: the CR is read and built  *)
(* again; a pass that cannot read it ends without a word.                   *)
finalizeReconcileAndMarkCompleted ==
    /\ pc = "finalize"
    /\ \/ cancelled /\ NoFault /\ PassOver
       \/ ~cancelled /\ Fault /\ PassOver
       \/ ~cancelled /\ NoFault /\ pc' = "rebuild" /\ cr' = [cr EXCEPT !.rev = rev]
          /\ UNCHANGED <<pending, cancelled>>
    /\ UNCHANGED <<anc, status, conf, lost>>
    /\ PassFrame

finalizeCR ==
    /\ pc = "rebuild" /\ pc' = "stamp"
    /\ \E nodes \in Endpoints :
          /\ resolveKeeperReference(nodes)
          /\ cr' = [cr EXCEPT !.nodes = nodes]
          /\ lost' = lost \cup LookupLoss(nodes)
    /\ UNCHANGED <<pending, cancelled, anc, status, conf>>
    /\ PassFrame

(* updateCRObjectStatus, statusUpdateProcess, statusUpdateCM: what was      *)
(* resolved last becomes the ancestor; the error of the write is            *)
(* disregarded.                                                             *)
statusUpdateCM ==
    /\ pc = "stamp"
    /\ \/ cancelled /\ NoFault /\ PassOver /\ UNCHANGED <<anc, lost>>
       \/ /\ ~cancelled /\ pc' = "complete" /\ UNCHANGED <<pending, cancelled, cr>>
          /\ \/ NoFault /\ anc' = cr /\ lost' = lost \ {"ancestor"}
             \/ Fault /\ lost' = lost \cup {"ancestor"} /\ UNCHANGED anc
    /\ UNCHANGED <<status, conf>>
    /\ PassFrame

(* statusUpdateCR: a write that fails is tried again from the start, until  *)
(* the attempts run out.                                                    *)
statusUpdateCR ==
    /\ pc = "complete"
    /\ \/ NoFault /\ PassOver /\ status' = "Completed" /\ lost' = lost \ {"mark"}
       \/ Fault /\ pc' = "stamp" /\ UNCHANGED <<pending, cancelled, cr, status, lost>>
       \/ Fault /\ PassOver /\ UNCHANGED <<status, lost>>
    /\ UNCHANGED <<anc, conf>>
    /\ PassFrame

-----------------------------------------------------------------------------
(* The worker of the Endpoints, beside the pass: a pod of the CHI has come  *)
(* or gone, and the CR is read with its ancestor, built and written back.   *)
(* Nothing guards the ancestor's ConfigMap against the older copy.          *)

updateEndpoints ==
    /\ epc = "idle" /\ Fault
    /\ epc' = "write" /\ ehold' = anc
    /\ UNCHANGED <<keeperVars, kpassVars, chiVars, passVars, watchVars, lost, edits>>

updateEndpointsWrites ==
    /\ epc = "write" /\ epc' = "idle" /\ ehold' = NoAncestor
    /\ anc' = ehold /\ lost' = IF ehold = anc THEN lost ELSE lost \cup {"ancestor"}
    /\ UNCHANGED <<keeperVars, kpassVars, rev, status, conf, passVars, watchVars, countVars>>

-----------------------------------------------------------------------------
(* The world around the operator.                                          *)

EditKeeper ==
    /\ edits < MaxEdits /\ edits' = edits + 1
    /\ layout' \in Layouts \ {layout} /\ kpending' = TRUE
    /\ UNCHANGED <<completed, kstatus, front, svc, pods, running, kpc, kcr, ktodo, chiVars, passVars,
                   watchVars, endsVars, lost, faults>>

EditCHI ==
    /\ edits < MaxEdits /\ edits' = edits + 1
    /\ rev' = rev + 1 /\ Enqueue
    /\ UNCHANGED <<keeperVars, kpassVars, anc, status, conf, watchVars, endsVars, lost,
                   faults>>

PodRuns ==
    /\ \E h \in pods \ running : running' = running \cup {h}
    /\ UNCHANGED <<layout, completed, kstatus, front, svc, pods, kpassVars, chiVars, passVars,
                   watchVars, endsVars, lost, countVars>>

PodFlips ==
    /\ Fault
    /\ \E h \in running : running' = running \ {h}
    /\ UNCHANGED <<layout, completed, kstatus, front, svc, pods, kpassVars, chiVars, passVars,
                   watchVars, endsVars, lost, edits>>

(* Both controllers start again; the CHK and the CHI are listed.  The       *)
(* watcher does not react to what it lists first.                           *)
Restart ==
    /\ Fault
    /\ kpending' = TRUE /\ kpc' = "idle" /\ kcr' = {} /\ ktodo' = {}
    /\ pending' = TRUE /\ cancelled' = FALSE /\ pc' = "idle" /\ cr' = NoCR
    /\ stream' = <<>> /\ cache' = kstatus /\ wpc' = "idle" /\ held' = NoAncestor
    /\ epc' = "idle" /\ ehold' = NoAncestor /\ lost' = lost \ {"event"}
    /\ UNCHANGED <<keeperVars, chiVars, edits>>

-----------------------------------------------------------------------------
(* Both have just been created, or both are as they should be. *)
Init ==
    /\ layout = First
    /\ \/ /\ completed = {} /\ kstatus = "" /\ front = FALSE
          /\ svc = {} /\ pods = {} /\ kpending = TRUE
          /\ anc = NoAncestor /\ status = "" /\ conf = {} /\ pending = TRUE
       \/ /\ completed = First /\ kstatus = "Completed" /\ front = TRUE
          /\ svc = First /\ pods = First /\ kpending = FALSE
          /\ anc = [rev |-> 1, nodes |-> First] /\ status = "Completed"
          /\ conf = First /\ pending = FALSE
    /\ running = pods /\ kpc = "idle" /\ kcr = {} /\ ktodo = {}
    /\ rev = 1 /\ cancelled = FALSE /\ pc = "idle" /\ cr = NoCR
    /\ stream = <<>> /\ cache = kstatus /\ wpc = "idle" /\ held = NoAncestor
    /\ epc = "idle" /\ ehold = NoAncestor /\ lost = {}
    /\ edits = 0 /\ faults = 0

KeeperPass == KeeperBegins \/ KeeperHost \/ KeeperClean \/ KeeperCompletes
Watcher == onCHKUpdate \/ shouldReconcileOnKeeperUpdate
CHIPass ==
    \/ PassBegins \/ buildCR \/ markReconcileStart \/ reconcileConfigMapHost
    \/ finalizeReconcileAndMarkCompleted \/ finalizeCR \/ statusUpdateCM \/ statusUpdateCR

Next ==
    \/ KeeperPass \/ KeeperFails \/ Watcher \/ Relist \/ CHIPass
    \/ updateEndpoints \/ updateEndpointsWrites
    \/ EditKeeper \/ EditCHI \/ PodRuns \/ PodFlips \/ Restart

Spec == Init /\ [][Next]_vars

(* The controllers' goroutines run, the watch delivers, and pods start. *)
Fairness == /\ WF_vars(KeeperPass) /\ WF_vars(Watcher) /\ WF_vars(CHIPass)
            /\ WF_vars(updateEndpointsWrites) /\ WF_vars(PodRuns)

FairSpec == Spec /\ Fairness

-----------------------------------------------------------------------------
(* Properties.                                                             *)

(* The variables range over the values the code gives them; the ancestor is *)
(* never of a revision that is yet to come.                                 *)
KeeperTypeOK ==
    /\ layout \in Layouts /\ completed \in Layouts \cup {{}} /\ kstatus \in Statuses
    /\ svc \subseteq Keepers /\ pods \subseteq Keepers /\ running \subseteq pods
    /\ {front, kpending} \subseteq BOOLEAN
    /\ kpc \in {"idle", "hosts", "stamp"} /\ kcr \in Layouts \cup {{}} /\ ktodo \subseteq kcr

CHITypeOK ==
    /\ anc \in Ancestors \cup {NoAncestor} /\ status \in Statuses /\ conf \in Endpoints
    /\ rev \in Nat
    /\ anc # NoAncestor => anc.rev <= rev
    /\ epc \in {"idle", "write"} /\ ehold \in Ancestors \cup {NoAncestor}
    /\ pc \in {"idle", "build", "mark", "hosts", "finalize", "rebuild", "stamp", "complete"}
    /\ cr \in Ancestors /\ {pending, cancelled} \subseteq BOOLEAN

WatchTypeOK ==
    /\ wpc \in {"idle", "compare"} /\ cache \in Statuses /\ stream \in Seq(Statuses)
    /\ held \in Ancestors \cup {NoAncestor} /\ lost \subseteq Losses
    /\ edits \in 0..MaxEdits /\ faults \in 0..MaxFaults

TypeOK == KeeperTypeOK /\ CHITypeOK /\ WatchTypeOK

(* The watcher compares the keepers with the ancestor, never with the files *)
(* (shouldReconcileOnKeeperUpdate).  That is sound as long as a CHI that    *)
(* says Completed has the ancestor's endpoints in its files, also while a   *)
(* pass is under way, was cancelled, failed or died.  A pass that found the *)
(* keepers' Services at both its lookups, while they stayed, and whose      *)
(* InProgress and ancestor were written leaves it so.                       *)
FilesAsStamped ==
    status = "Completed" /\ lost \cap FileLosses = {} =>
        anc \in Ancestors /\ anc.nodes = conf /\ conf # {}

(* Once CHI and CHK both say Completed and everything is quiet, the files   *)
(* of the CHI name the endpoints its CHK has, whatever was scaled, edited,  *)
(* cancelled, missing or restarted on the way and although the watcher      *)
(* skips a CHI whose ancestor has the endpoints already, from a comparison  *)
(* a pass may overtake (shouldReconcileOnKeeperUpdate).  Excused is what    *)
(* Losses names (README, Known divergences).                                *)
EndpointsFollow ==
    <>[](status = "Completed" /\ kstatus = "Completed" =>
         conf = resolveKeeperNodes(TRUE) \/ lost # {})

=============================================================================
