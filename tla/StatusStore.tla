----------------------------- MODULE StatusStore -----------------------------
(***************************************************************************)
(* The status of one ClickHouseInstallation and the goroutines that write  *)
(* it (pkg/controller/chi/kube/cr.go).                                     *)
(*                                                                         *)
(* A status is kept in two objects.  The CR itself holds status.status and *)
(* the list of actions; a ConfigMap, chi-storage-<name>, holds the two big *)
(* parts: the normalized CR and the normalized CR that was completed last, *)
(* the ancestor every action plan is compared with.  An update reads both  *)
(* objects, copies the caller's field groups over what it read, writes the *)
(* ConfigMap without a version check and whatever comes of it, and then    *)
(* the CR with the API server's optimistic lock; a conflict starts it all  *)
(* over.  Four API calls, and the writers are concurrent: the worker of    *)
(* the CR, the hosts it reconciles in parallel, and the system workers     *)
(* that handle Endpoints events.                                           *)
(***************************************************************************)
EXTENDS Naturals, FiniteSets

CONSTANTS
    Worker,            \* the worker whose queue the CR hashes to
    Hosts,             \* the hosts (goroutines) a pass reconciles in parallel
    Endpoints,         \* system workers, one Endpoints object each
    Specs,             \* specifications of the CR
    Refused,           \* the ones the normalizer refuses
    Suspended,         \* the ones that say suspend
    NoSpec,            \* no specification stored
    maxRetryAttempts,  \* attempts of one update (50 in the code)
    maxActions,        \* actions a status keeps (10 in the code)
    MaxAnnouncements,  \* actions announced, those of earlier passes included
    MaxPasses,         \* passes the worker runs
    MaxEvents,         \* Endpoints events, and updates per writer and pass
    MaxEdits,          \* edits of the specification
    MaxErrors          \* failed API calls

ASSUME WritersAssumption ==
    /\ Worker \notin Hosts \cup Endpoints
    /\ Hosts \cap Endpoints = {}
ASSUME SpecsAssumption ==
    /\ NoSpec \notin Specs
    /\ Refused \subseteq Specs
    /\ Suspended \subseteq Specs
ASSUME StoreBoundsAssumption ==
    /\ maxRetryAttempts \in Nat \ {0}
    /\ maxActions \in Nat \ {0}
    /\ MaxAnnouncements \in Nat /\ maxActions <= MaxAnnouncements
    /\ MaxPasses \in Nat /\ MaxEvents \in Nat
    /\ MaxEdits \in Nat /\ MaxErrors \in Nat

VARIABLES
    \* The API server
    spec,       \* .spec of the CR
    version,    \* resourceVersion of the CR
    status,     \* .status.status of the CR
    actions,    \* .status.actions of the CR
    storage,    \* the ConfigMap chi-storage-<name>
    \* The worker
    passPc,     \* where the worker is in reconcileCR
    passes,     \* passes started
    obj,        \* per writer, the status of the object it passes to StatusUpdate
    clock,      \* the time of the action announced last
    \* The calls of StatusUpdate under way, one per writer
    pc,         \* where the call is
    group,      \* the field group it copies
    attempt,    \* its attempt
    cur,        \* what it read
    \* Bounds
    events, edits, errors,
    \* History
    recorded,   \* the status last written by an update that carries one
    completed   \* the specifications passes have completed

apiVars  == <<spec, version, status, actions, storage>>
passVars == <<passPc, passes, obj, clock>>
callVars == <<pc, group, attempt, cur>>
histVars == <<recorded, completed>>
vars == <<apiVars, passVars, callVars, events, edits, errors, histVars>>

Writers == {Worker} \cup Hosts \cup Endpoints

(* Statuses of a CR (type_status.go). *)
Statuses == {"", "InProgress", "Completed", "Aborted"}

(* An action is known by its time, the prefix the list is sorted by. *)
Action == 1 .. MaxAnnouncements

(* trimActionsNoSync: the newest maxActions of a list.                     *)
Newer(A, a) == {b \in A : b > a}
trimActions(A) == {a \in A : Cardinality(Newer(A, a)) < maxActions}

(* Status.PushAction: an action is announced now; the list is trimmed. *)
PushAction(o, t) == [o EXCEPT !.actions = trimActions(@ \cup {t})]

(* The two documents of the ConfigMap. *)
Storage == [norm : Specs \cup {NoSpec}, done : Specs \cup {NoSpec}]
NoStorage == [norm |-> NoSpec, done |-> NoSpec]

(* The status a writer holds in memory. *)
Held == [status : Statuses, actions : SUBSET Action,
         norm : Specs \cup {NoSpec}, done : Specs \cup {NoSpec}]
NoHeld == [status |-> "", actions |-> {}, norm |-> NoSpec, done |-> NoSpec]

(* What statusUpdateProcess works on: what it read of the CR, with the     *)
(* resource version it was read at, and of the ConfigMap.                  *)
Current == [version : Nat, status : Statuses, actions : SUBSET Action,
            norm : Specs \cup {NoSpec}, done : Specs \cup {NoSpec}]
NoCurrent == [version |-> 0, status |-> "", actions |-> {},
              norm |-> NoSpec, done |-> NoSpec]

Groups == {"Main", "WholeStatus", "Normalized", "Actions"}
Pcs == {"idle", "getCR", "getCM", "updateCM", "updateCR"}
PassPcs == {"rest", "refusing", "refused", "starting", "walking", "ending",
            "cancelled"}

-----------------------------------------------------------------------------
(* The group Normalized copies the actions too, as the inheritable fields are. *)
CopyFrom_NormalizedCopiesActions(c, o, g) ==
    [version |-> c.version,
     status  |-> IF g \in {"Main", "WholeStatus"} THEN o.status ELSE c.status,
     actions |-> IF g = "Normalized" THEN o.actions ELSE trimActions(c.actions \cup o.actions),
     norm    |-> IF g = "Actions" THEN c.norm ELSE o.norm,
     done    |-> IF g = "WholeStatus" THEN o.done ELSE c.done]

(* The group Normalized copies the status too. *)
CopyFrom_NormalizedCopiesStatus(c, o, g) ==
    [version |-> c.version,
     status  |-> IF g = "Actions" THEN c.status ELSE o.status,
     actions |-> IF g = "Normalized" THEN c.actions ELSE trimActions(c.actions \cup o.actions),
     norm    |-> IF g = "Actions" THEN c.norm ELSE o.norm,
     done    |-> IF g = "WholeStatus" THEN o.done ELSE c.done]

(* Status.CopyFrom: the caller's groups over what was read.  Actions are    *)
(* merged, and the list trimmed, by every group but Normalized; only a      *)
(* whole status carries the completed CR.                                   *)
CopyFrom(c, o, g) ==
    [version |-> c.version,
     status  |-> IF g \in {"Main", "WholeStatus"} THEN o.status ELSE c.status,
     actions |-> IF g = "Normalized" THEN c.actions ELSE trimActions(c.actions \cup o.actions),
     norm    |-> IF g = "Actions" THEN c.norm ELSE o.norm,
     done    |-> IF g = "WholeStatus" THEN o.done ELSE c.done]

(* The keys of the two documents swapped. *)
buildStatusResourceData_Swapped(c) == [norm |-> c.done, done |-> c.norm]

(* buildStatusResourceData: the documents the ConfigMap is written with.    *)
buildStatusResourceData(c) == [norm |-> c.norm, done |-> c.done]

(* The optimistic lock of UpdateStatus, and the resource version it leaves: *)
(* a write that changes nothing keeps it, and the counters, task ids and    *)
(* times of a status, which are not modelled, may change without the rest.  *)
Conflict(c) == c.version # version

WrittenVersions(c) ==
    IF c.status = status /\ c.actions = actions
    THEN {version, version + 1}
    ELSE {version + 1}

Idle(W) == \A w \in W : pc[w] = "idle"

(* StatusUpdate is called with writer w's object. *)
StatusUpdate(w, g) ==
    /\ pc' = [pc EXCEPT ![w] = "getCR"]
    /\ group' = [group EXCEPT ![w] = g]
    /\ attempt' = [attempt EXCEPT ![w] = 1]
    /\ UNCHANGED cur

(* StatusUpdate returns, its locals are gone; its callers drop the error. *)
Return(w) ==
    /\ pc' = [pc EXCEPT ![w] = "idle"]
    /\ group' = [group EXCEPT ![w] = "Main"]
    /\ attempt' = [attempt EXCEPT ![w] = 1]
    /\ cur' = [cur EXCEPT ![w] = NoCurrent]

(* One attempt too many. *)
RetryOrReturn_OneTooMany(w) ==
    IF attempt[w] > maxRetryAttempts
    THEN Return(w)
    ELSE /\ pc' = [pc EXCEPT ![w] = "getCR"]
         /\ attempt' = [attempt EXCEPT ![w] = @ + 1]
         /\ cur' = [cur EXCEPT ![w] = NoCurrent]
         /\ UNCHANGED group

(* statusUpdateRetry: an attempt failed. *)
RetryOrReturn(w) ==
    IF attempt[w] >= maxRetryAttempts
    THEN Return(w)
    ELSE /\ pc' = [pc EXCEPT ![w] = "getCR"]
         /\ attempt' = [attempt EXCEPT ![w] = @ + 1]
         /\ cur' = [cur EXCEPT ![w] = NoCurrent]
         /\ UNCHANGED group

ApiError == errors < MaxErrors /\ errors' = errors + 1

-----------------------------------------------------------------------------
(* A CR that was just created, and one whose last pass completed and left  *)
(* as many actions as a status keeps.                                      *)
Fresh ==
    /\ status = ""
    /\ actions = {}
    /\ clock = 0
    /\ storage = NoStorage
    /\ completed = {}

Steady ==
    /\ spec \notin Refused
    /\ status = "Completed"
    /\ actions = 1 .. maxActions
    /\ clock = maxActions
    /\ storage = [norm |-> NoSpec, done |-> spec]
    /\ completed = {spec}

Init ==
    /\ spec \in Specs
    /\ version = 0
    /\ \/ Fresh
       \/ Steady
    /\ passPc = "rest"
    /\ passes = 0
    /\ obj = [w \in Writers |-> NoHeld]
    /\ pc = [w \in Writers |-> "idle"]
    /\ group = [w \in Writers |-> "Main"]
    /\ attempt = [w \in Writers |-> 1]
    /\ cur = [w \in Writers |-> NoCurrent]
    /\ events = [w \in Writers |-> 0]
    /\ edits = 0
    /\ errors = 0
    /\ recorded = status

(* The object a writer builds from what the API server holds: the normalized *)
(* specification, the stored ancestor and the inherited actions.  A          *)
(* ConfigMap that cannot be read leaves the CR without ancestor.             *)
Built(st, done) ==
    [status |-> st, actions |-> actions, norm |-> spec, done |-> done]

AncestorRead(done) ==
    \/ done = storage.done /\ UNCHANGED errors
    \/ done = NoSpec /\ ApiError

(* writeStatus: the next time. *)
Tick ==
    /\ clock < MaxAnnouncements
    /\ clock' = clock + 1

(* The worker and its hosts share the object of the pass. *)
PassObject(o) == [w \in Writers |-> IF w \in Endpoints THEN obj[w] ELSE o]

PassBegins ==
    /\ passPc = "rest"
    /\ passes < MaxPasses
    /\ passes' = passes + 1
    /\ events' = [w \in Writers |-> IF w \in Endpoints THEN events[w] ELSE 0]

(* reconcileCR, markReconcileStart: the CR is built and its start published. *)
MarkReconcileStart ==
    /\ PassBegins
    /\ spec \notin Refused \cup Suspended
    /\ passPc' = "starting"
    /\ \E done \in {storage.done, NoSpec} :
        /\ AncestorRead(done)
        /\ obj' = PassObject(Built("InProgress", done))
    /\ StatusUpdate(Worker, "Main")
    /\ UNCHANGED <<apiVars, clock, edits, histVars>>

(* reconcileCR: the normalizer refused the specification.  The refusal is   *)
(* announced first, and then the status that goes with it.                  *)
MarkRefused ==
    /\ PassBegins
    /\ spec \in Refused
    /\ passPc' = "refusing"
    /\ \E done \in {storage.done, NoSpec} :
        /\ AncestorRead(done)
        /\ obj' = PassObject(PushAction(Built("Aborted", done), clock + 1))
    /\ Tick
    /\ StatusUpdate(Worker, "Actions")
    /\ UNCHANGED <<apiVars, edits, histVars>>

PersistRefusal ==
    /\ passPc = "refusing"
    /\ pc[Worker] = "idle"
    /\ passPc' = "refused"
    /\ StatusUpdate(Worker, "Main")
    /\ UNCHANGED <<apiVars, passes, obj, clock, events, edits, errors, histVars>>

(* reconcileCR: a suspended CR whose changes are not applied. *)
MarkSuspended ==
    /\ PassBegins
    /\ spec \in Suspended \ Refused
    /\ passPc' = "ending"
    /\ \E done \in {storage.done, NoSpec} \ {spec} :
        /\ AncestorRead(done)
        /\ obj' = PassObject(Built("Aborted", done))
    /\ StatusUpdate(Worker, "Main")
    /\ UNCHANGED <<apiVars, clock, edits, histVars>>

(* The update returned; the hosts are walked. *)
WalkHosts ==
    /\ passPc = "starting"
    /\ pc[Worker] = "idle"
    /\ passPc' = "walking"
    /\ UNCHANGED <<apiVars, passes, obj, clock, callVars, events, edits, errors, histVars>>

(* writeStatus: an action is pushed to the object of the pass.  Hosts       *)
(* announce while they are walked, the worker to the end of the pass.       *)
Announce(w) ==
    /\ \/ passPc \in {"walking", "cancelled"}
       \/ passPc = "ending" /\ w = Worker
    /\ pc[w] = "idle"
    /\ events[w] < MaxEvents
    /\ obj' = [v \in Writers |->
                IF v \in Endpoints THEN obj[v]
                ELSE PushAction(obj[v], clock + 1)]
    /\ Tick
    /\ StatusUpdate(w, "Actions")
    /\ events' = [events EXCEPT ![w] = @ + 1]
    /\ UNCHANGED <<apiVars, passPc, passes, edits, errors, histVars>>

(* reconcileHost, ReconcileStatefulSet: progress of a host is published. *)
HostProgress(h) ==
    /\ passPc = "walking"
    /\ pc[h] = "idle"
    /\ events[h] < MaxEvents
    /\ StatusUpdate(h, "Main")
    /\ events' = [events EXCEPT ![h] = @ + 1]
    /\ UNCHANGED <<apiVars, passVars, edits, errors, histVars>>

(* finalizeReconcileAndMarkCompleted: every host is back, the CR is built   *)
(* anew, and what it normalizes to becomes its ancestor.                    *)
MarkCompleted ==
    /\ passPc = "walking"
    /\ Idle(Hosts \cup {Worker})
    /\ spec \notin Refused
    /\ passPc' = "ending"
    /\ obj' = [obj EXCEPT ![Worker] =
                [Built("Completed", spec) EXCEPT !.norm = NoSpec]]
    /\ completed' = completed \cup {spec}
    /\ StatusUpdate(Worker, "WholeStatus")
    /\ UNCHANGED <<apiVars, passes, clock, events, edits, errors, recorded>>

(* finalizeCR: this time the normalizer refuses; only the abort is kept, but *)
(* the whole status is written.                                              *)
MarkCompletedRefused ==
    /\ passPc = "walking"
    /\ Idle(Hosts \cup {Worker})
    /\ spec \in Refused
    /\ passPc' = "ending"
    /\ \E done \in {storage.done, NoSpec} :
        /\ AncestorRead(done)
        /\ obj' = [obj EXCEPT ![Worker] = Built("Aborted", done)]
    /\ StatusUpdate(Worker, "WholeStatus")
    /\ UNCHANGED <<apiVars, passes, clock, events, edits, histVars>>

(* markReconcileCompletedUnsuccessfully. *)
MarkAborted ==
    /\ passPc = "walking"
    /\ Idle(Hosts \cup {Worker})
    /\ passPc' = "ending"
    /\ obj' = [obj EXCEPT ![Worker].status = "Aborted"]
    /\ StatusUpdate(Worker, "Main")
    /\ UNCHANGED <<apiVars, passes, clock, events, edits, errors, histVars>>

(* finalizeCR: the CR cannot be read, and nothing is written. *)
MarkCompletedFails ==
    /\ passPc = "walking"
    /\ Idle(Hosts \cup {Worker})
    /\ ApiError
    /\ passPc' = "ending"
    /\ UNCHANGED <<apiVars, passes, obj, clock, callVars, events, edits, histVars>>

(* The context of the pass is done; nothing of its status is written after. *)
Cancel ==
    /\ passPc \in {"refusing", "refused", "starting", "walking", "ending"}
    /\ passPc' = "cancelled"
    /\ UNCHANGED <<apiVars, passes, obj, clock, callVars, events, edits, errors, histVars>>

PassEnds ==
    /\ passPc \in {"refused", "ending", "cancelled"}
    /\ Idle(Hosts \cup {Worker})
    /\ passPc' = "rest"
    /\ UNCHANGED <<apiVars, passes, obj, clock, callVars, events, edits, errors, histVars>>

(* updateEndpoints: a system worker builds the CR and publishes it.  Its    *)
(* group copies neither the status nor the ancestor, whatever it built.     *)
UpdateEndpoints(e) ==
    /\ pc[e] = "idle"
    /\ events[e] < MaxEvents
    /\ \E done \in {storage.done, NoSpec} :
        /\ AncestorRead(done)
        /\ obj' = [obj EXCEPT ![e] =
                    Built(IF spec \in Refused THEN "Aborted" ELSE "", done)]
    /\ StatusUpdate(e, "Normalized")
    /\ events' = [events EXCEPT ![e] = @ + 1]
    /\ UNCHANGED <<apiVars, passPc, passes, clock, edits, histVars>>

-----------------------------------------------------------------------------
(* The four API calls of an attempt. *)

(* Every attempt looks at its context first.  Announcements have a context  *)
(* of their own; that of an Endpoints event may be done at any time.        *)
MayProceed(w) ==
    w \in Endpoints \/ group[w] = "Actions" \/ passPc # "cancelled"

MayBeDone(w) ==
    group[w] # "Actions" /\ (w \in Endpoints \/ passPc = "cancelled")

GetCR(w) ==
    /\ pc[w] = "getCR"
    /\ MayProceed(w)
    /\ cur' = [cur EXCEPT ![w] =
                [version |-> version, status |-> status, actions |-> actions,
                 norm |-> NoSpec, done |-> NoSpec]]
    /\ pc' = [pc EXCEPT ![w] = "getCM"]
    /\ UNCHANGED <<apiVars, passVars, group, attempt, events, edits, errors, histVars>>

(* The CR cannot be read.  Endpoints events and announcements tolerate it. *)
GetCRFails(w) ==
    /\ pc[w] = "getCR"
    /\ MayProceed(w)
    /\ ApiError
    /\ IF group[w] \in {"Normalized", "Actions"}
       THEN Return(w)
       ELSE RetryOrReturn(w)
    /\ UNCHANGED <<apiVars, passVars, events, edits, histVars>>

Cancelled(w) ==
    /\ pc[w] = "getCR"
    /\ MayBeDone(w)
    /\ Return(w)
    /\ UNCHANGED <<apiVars, passVars, events, edits, errors, histVars>>

GetCM(w) ==
    /\ pc[w] = "getCM"
    /\ cur' = [cur EXCEPT ![w] =
                CopyFrom([@ EXCEPT !.norm = storage.norm, !.done = storage.done],
                         obj[w], group[w])]
    /\ pc' = [pc EXCEPT ![w] = "updateCM"]
    /\ UNCHANGED <<apiVars, passVars, group, attempt, events, edits, errors, histVars>>

(* A ConfigMap that cannot be read is taken for one that is not there. *)
GetCMFails(w) ==
    /\ pc[w] = "getCM"
    /\ ApiError
    /\ cur' = [cur EXCEPT ![w] = CopyFrom(@, obj[w], group[w])]
    /\ pc' = [pc EXCEPT ![w] = "updateCM"]
    /\ UNCHANGED <<apiVars, passVars, group, attempt, events, edits, histVars>>

(* statusUpdateCM writes over whatever is there, and creates it if nothing is. *)
UpdateCM(w) ==
    /\ pc[w] = "updateCM"
    /\ storage' = buildStatusResourceData(cur[w])
    /\ pc' = [pc EXCEPT ![w] = "updateCR"]
    /\ UNCHANGED <<spec, version, status, actions, passVars, group, attempt, cur,
                   events, edits, errors, histVars>>

(* Its errors are disregarded. *)
UpdateCMFails(w) ==
    /\ pc[w] = "updateCM"
    /\ ApiError
    /\ pc' = [pc EXCEPT ![w] = "updateCR"]
    /\ UNCHANGED <<apiVars, passVars, group, attempt, cur, events, edits, histVars>>

UpdateCR(w) ==
    /\ pc[w] = "updateCR"
    /\ ~ Conflict(cur[w])
    /\ status' = cur[w].status
    /\ actions' = cur[w].actions
    /\ version' \in WrittenVersions(cur[w])
    /\ recorded' = IF group[w] \in {"Main", "WholeStatus"} THEN cur[w].status
                   ELSE recorded
    /\ Return(w)
    /\ UNCHANGED <<spec, storage, passVars, events, edits, errors, completed>>

UpdateCRConflict(w) ==
    /\ pc[w] = "updateCR"
    /\ Conflict(cur[w])
    /\ RetryOrReturn(w)
    /\ UNCHANGED <<apiVars, passVars, events, edits, errors, histVars>>

(* UpdateStatus, alone of the four, is given the context of its caller. *)
UpdateCRFails(w) ==
    /\ pc[w] = "updateCR"
    /\ \/ ApiError
       \/ MayBeDone(w) /\ UNCHANGED errors
    /\ RetryOrReturn(w)
    /\ UNCHANGED <<apiVars, passVars, events, edits, histVars>>

-----------------------------------------------------------------------------
(* A user applies a specification, which changes the CR's resource version. *)
EditSpec ==
    /\ edits < MaxEdits
    /\ edits' = edits + 1
    /\ \E s \in Specs \ {spec} : spec' = s
    /\ version' = version + 1
    /\ UNCHANGED <<status, actions, storage, passVars, callVars, events, errors, histVars>>

Call(w) ==
    \/ GetCR(w) \/ GetCRFails(w) \/ Cancelled(w)
    \/ GetCM(w) \/ GetCMFails(w)
    \/ UpdateCM(w) \/ UpdateCMFails(w)
    \/ UpdateCR(w) \/ UpdateCRConflict(w) \/ UpdateCRFails(w)

Next ==
    \/ MarkReconcileStart \/ MarkRefused \/ PersistRefusal \/ MarkSuspended \/ WalkHosts
    \/ MarkCompleted \/ MarkCompletedRefused \/ MarkCompletedFails
    \/ MarkAborted \/ Cancel \/ PassEnds
    \/ \E w \in Hosts \cup {Worker} : Announce(w)
    \/ \E h \in Hosts : HostProgress(h)
    \/ \E e \in Endpoints : UpdateEndpoints(e)
    \/ \E w \in Writers : Call(w)
    \/ EditSpec

Spec == Init /\ [][Next]_vars

-----------------------------------------------------------------------------
ApiTypeOK ==
    /\ spec \in Specs
    /\ version \in Nat
    /\ status \in Statuses
    /\ actions \subseteq Action
    /\ storage \in Storage

PassTypeOK ==
    /\ passPc \in PassPcs
    /\ passes \in 0 .. MaxPasses
    /\ obj \in [Writers -> Held]
    /\ clock \in 0 .. MaxAnnouncements

CallTypeOK ==
    /\ pc \in [Writers -> Pcs]
    /\ group \in [Writers -> Groups]
    /\ attempt \in [Writers -> 1 .. maxRetryAttempts]
    /\ cur \in [Writers -> Current]

BoundTypeOK ==
    /\ events \in [Writers -> 0 .. MaxEvents]
    /\ edits \in 0 .. MaxEdits
    /\ errors \in 0 .. MaxErrors

HistTypeOK ==
    /\ recorded \in Statuses
    /\ completed \subseteq Specs

(* The variables have their types, and no update makes more attempts than   *)
(* statusUpdateRetry allows.                                                *)
TypeOK == ApiTypeOK /\ PassTypeOK /\ CallTypeOK /\ BoundTypeOK /\ HistTypeOK

(* status.status is what the pass wrote last: an Endpoints event or an      *)
(* announcement that read the CR before never puts an older status back,    *)
(* because UpdateStatus refuses a version that is not current.              *)
StatusKept == status = recorded

(* Whatever list A loses on its way to B was pushed out by maxActions newer *)
(* actions.                                                                 *)
PushedOut(A, B) == \A a \in A \ B : Cardinality(Newer(B, a)) >= maxActions

(* An announced action leaves the list only when maxActions newer ones are  *)
(* listed, whoever writes next: updates merge actions into what they read,  *)
(* what they read is current when they write, and mergeActionsNoSync drops  *)
(* the oldest.                                                              *)
ActionsKept == [][PushedOut(actions, actions')]_vars

(* The stored ancestor is a specification that some pass completed: no      *)
(* write, however stale, late or half failed, makes the operator compare    *)
(* with one that was only started or was refused.                           *)
AncestorWasCompleted == storage.done \in completed \cup {NoSpec}

=============================================================================
