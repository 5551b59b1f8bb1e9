-------------------------- MODULE StatusStoreProofs --------------------------
(***************************************************************************)
(* The optimistic lock at work: for any number of hosts, system workers,   *)
(* attempts, edits and errors, no update puts back an older status or      *)
(* loses an action, and no ancestor is stored that no pass completed.      *)
(***************************************************************************)
EXTENDS StatusStore, FiniteSetTheorems, NaturalsInduction, WellFoundedInduction, TLAPS

\* What a call has read is what the CR holds, as long as the version it was
\* read at is current; a call that copied its groups over it still carries
\* the CR's status, unless it brings one, and all of the CR's actions but
\* those that as many newer ones pushed out.
Read(w) ==
    cur[w].version = version =>
        /\ pc[w] = "getCM" =>
              cur[w].status = status /\ cur[w].actions = actions
        /\ pc[w] \in {"updateCM", "updateCR"} =>
              /\ group[w] \notin {"Main", "WholeStatus"} => cur[w].status = status
              /\ PushedOut(actions, cur[w].actions)

\* No version that was read is ahead of the CR's.
ReadInv ==
    \A w \in Writers : cur[w].version <= version /\ Read(w)

\* Every ancestor in the ConfigMap or in a writer's hands was completed.
AncestorInv ==
    /\ storage.done \in completed \cup {NoSpec}
    /\ \A w \in Writers : /\ obj[w].done \in completed \cup {NoSpec}
                          /\ cur[w].done \in completed \cup {NoSpec}

Inv == TypeOK /\ ReadInv /\ StatusKept /\ AncestorInv

\* Steps of the pass and of the system workers that call StatusUpdate.
CallingStep(w, g) ==
    /\ StatusUpdate(w, g)
    /\ UNCHANGED apiVars

\* Steps after which a call is over, or tries again.
EndingStep(w) ==
    /\ Return(w) \/ RetryOrReturn(w)
    /\ UNCHANGED apiVars

-----------------------------------------------------------------------------
(* Types, part by part                                                     *)

\* A trimmed list loses nothing but what maxActions newer actions pushed
\* out: the newest of those that are newer and were dropped themselves would
\* have had maxActions newer ones, all of them kept.
LEMMA TrimKeeps ==
    ASSUME NEW A \in SUBSET Action
    PROVE  PushedOut(A, trimActions(A))
<1> DEFINE T == trimActions(A)
<1> SUFFICES ASSUME NEW a \in A, a \notin T
             PROVE  Cardinality(Newer(T, a)) >= maxActions
  BY DEF PushedOut
<1>1. MaxAnnouncements \in Nat /\ maxActions \in Nat
  BY StoreBoundsAssumption
<1>2. ASSUME NEW S, S \subseteq A PROVE IsFiniteSet(S) /\ Cardinality(S) \in Nat
  <2>1. IsFiniteSet(1 .. MaxAnnouncements)
    BY <1>1, FS_Interval
  <2> QED
    BY <1>2, <2>1, FS_Subset, FS_CardinalityType DEF Action
<1>3. A \subseteq Nat /\ T \subseteq A
  BY <1>1 DEF Action, trimActions
<1>4. ASSUME NEW m \in A, m \notin T PROVE Cardinality(Newer(A, m)) >= maxActions
  <2>1. Newer(A, m) \subseteq A /\ ~ Cardinality(Newer(A, m)) < maxActions
    BY <1>4 DEF trimActions, Newer
  <2> QED
    BY <1>1, <1>2, <2>1
<1>5. ASSUME NEW m \in A, m \notin T, Newer(A, m) \subseteq Newer(T, a)
      PROVE  Cardinality(Newer(T, a)) >= maxActions
  <2>1. Newer(T, a) \subseteq A /\ Newer(A, m) \subseteq A
    BY <1>3 DEF Newer
  <2>2. Cardinality(Newer(A, m)) <= Cardinality(Newer(T, a))
    BY <1>2, <1>5, <2>1, FS_Subset
  <2> HIDE DEF T
  <2> QED
    BY <1>1, <1>2, <1>4, <1>5, <2>1, <2>2
<1>6. CASE Newer(A, a) \subseteq T
  BY <1>5, <1>6 DEF Newer
<1>7. CASE ~ (Newer(A, a) \subseteq T)
  <2> DEFINE D == Newer(A, a) \ T
             R == {MaxAnnouncements - d : d \in D}
  <2>1. D \subseteq A /\ D # {} /\ \A d \in D : d \in Nat /\ MaxAnnouncements - d \in Nat
    BY <1>1, <1>7 DEF Newer, Action
  <2>2. R \subseteq Nat /\ R # {}
    BY <2>1
  <2>3. PICK x \in R : \A y \in R : ~ (<<y, x>> \in OpToRel(<, Nat))
    BY <2>2, NatLessThanWellFounded, WFMin, Zenon
  <2>4. PICK m \in D : x = MaxAnnouncements - m
    OBVIOUS
  <2>5. \A d \in D : d <= m
    <3> SUFFICES ASSUME NEW d \in D PROVE d <= m
      OBVIOUS
    <3>1. ~ (MaxAnnouncements - d < MaxAnnouncements - m)
      BY <2>1, <2>2, <2>3, <2>4 DEF OpToRel
    <3> QED
      BY <1>1, <2>1, <3>1
  <2>6. Newer(A, m) \subseteq Newer(T, a)
    <3> SUFFICES ASSUME NEW b \in A, b > m PROVE b \in T /\ b > a
      BY DEF Newer
    <3>1. m > a /\ m \in Nat /\ a \in Nat /\ b \in Nat
      BY <1>3, <2>1 DEF Newer
    <3>2. b > a /\ ~ (b <= m)
      BY <3>1
    <3> QED
      BY <2>5, <3>2 DEF Newer
  <2> QED
    BY <1>5, <2>1, <2>6
<1> QED
  BY <1>6, <1>7

\* So no group of a copy loses an action that was read, but for those.
LEMMA CopyFromKeeps ==
    ASSUME NEW c \in Current, NEW o \in Held, NEW g \in Groups
    PROVE  PushedOut(c.actions, CopyFrom(c, o, g).actions)
<1>1. c.actions \in SUBSET Action /\ o.actions \in SUBSET Action
  BY DEF Current, Held
<1>2. CASE g = "Normalized"
  BY <1>2 DEF CopyFrom, PushedOut
<1>3. CASE g # "Normalized"
  <2>1. CopyFrom(c, o, g).actions = trimActions(c.actions \cup o.actions)
    BY <1>3 DEF CopyFrom
  <2>2. PushedOut(c.actions \cup o.actions, trimActions(c.actions \cup o.actions))
    BY <1>1, TrimKeeps
  <2> QED
    BY <2>1, <2>2 DEF PushedOut
<1> QED
  BY <1>2, <1>3

\* A pushed action is one of the status.
LEMMA PushActionType ==
    ASSUME NEW o \in Held, clock \in 0 .. MaxAnnouncements, Tick
    PROVE  /\ PushAction(o, clock + 1) \in Held
           /\ PushAction(o, clock + 1).done = o.done
           /\ clock' \in 0 .. MaxAnnouncements
<1>1. clock + 1 \in Action /\ clock' = clock + 1 /\ clock' \in 0 .. MaxAnnouncements
  BY StoreBoundsAssumption DEF Tick, Action
<1>2. trimActions(o.actions \cup {clock + 1}) \in SUBSET Action
  BY <1>1 DEF trimActions, Held
<1> QED
  BY <1>1, <1>2 DEF PushAction, Held

\* Copying groups over what was read gives a status again.
LEMMA CopyFromType ==
    ASSUME NEW c \in Current, NEW o \in Held, NEW g \in Groups
    PROVE  CopyFrom(c, o, g) \in Current
BY DEF CopyFrom, Current, Held, trimActions

\* What a writer builds is a status.
LEMMA BuiltType ==
    ASSUME ApiTypeOK, NEW st \in Statuses, NEW done \in Specs \cup {NoSpec}
    PROVE  /\ Built(st, done) \in Held
           /\ [Built(st, done) EXCEPT !.norm = NoSpec] \in Held
BY DEF ApiTypeOK, Built, Held

LEMMA StoredDone ==
    ASSUME ApiTypeOK
    PROVE  storage.done \in Specs \cup {NoSpec}
BY DEF ApiTypeOK, Storage

LEMMA CallingType ==
    ASSUME CallTypeOK, NEW w \in Writers, NEW g \in Groups, StatusUpdate(w, g)
    PROVE  CallTypeOK'
BY StoreBoundsAssumption DEF CallTypeOK, StatusUpdate, Pcs

LEMMA EndingType ==
    ASSUME CallTypeOK, NEW w \in Writers, Return(w) \/ RetryOrReturn(w)
    PROVE  CallTypeOK'
<1>1. NoCurrent \in Current
  BY DEF NoCurrent, Current, Statuses
<1>2. CASE Return(w)
  BY <1>1, <1>2, StoreBoundsAssumption DEF CallTypeOK, Return, Pcs, Groups
<1>3. CASE RetryOrReturn(w) /\ ~ Return(w)
  <2>1. attempt[w] \in 1 .. maxRetryAttempts /\ ~ attempt[w] >= maxRetryAttempts
    BY <1>3 DEF RetryOrReturn, CallTypeOK
  <2>2. attempt[w] + 1 \in 1 .. maxRetryAttempts
    BY <2>1, StoreBoundsAssumption
  <2> QED
    BY <1>1, <1>3, <2>1, <2>2 DEF CallTypeOK, RetryOrReturn, Pcs
<1> QED
  BY <1>2, <1>3

LEMMA TypeInit == Init => TypeOK
<1> SUFFICES ASSUME Init PROVE TypeOK
  OBVIOUS
<1>a. NoCurrent \in Current /\ NoHeld \in Held /\ NoStorage \in Storage
  BY DEF NoCurrent, Current, NoHeld, Held, NoStorage, Storage, Statuses
<1>1. CallTypeOK
  <2>1. 1 \in 1 .. maxRetryAttempts
    BY StoreBoundsAssumption
  <2> QED
    BY <1>a, <2>1 DEF Init, CallTypeOK, Pcs, Groups
<1>2. ApiTypeOK /\ HistTypeOK
  <2>1. CASE Fresh
    BY <1>a, <2>1 DEF Init, Fresh, ApiTypeOK, HistTypeOK, Statuses
  <2>2. CASE Steady
    <3>1. 1 .. maxActions \subseteq Action
      BY StoreBoundsAssumption DEF Action
    <3> QED
      BY <2>2, <3>1 DEF Init, Steady, ApiTypeOK, HistTypeOK, Storage, Statuses
  <2> QED
    BY <2>1, <2>2 DEF Init
<1>3. PassTypeOK /\ BoundTypeOK
  <2>1. 0 \in 0 .. MaxPasses /\ 0 \in 0 .. MaxEvents /\ 0 \in 0 .. MaxEdits /\ 0 \in 0 .. MaxErrors
    BY StoreBoundsAssumption
  <2>2. clock \in 0 .. MaxAnnouncements
    <3>1. clock = 0 \/ clock = maxActions
      BY Zenon DEF Init, Fresh, Steady
    <3>2. 0 \in 0 .. MaxAnnouncements /\ maxActions \in 0 .. MaxAnnouncements
      BY StoreBoundsAssumption
    <3> QED
      BY <3>1, <3>2, Zenon
  <2> QED
    BY <1>a, <2>1, <2>2 DEF Init, PassTypeOK, BoundTypeOK, PassPcs
<1> QED
  BY <1>1, <1>2, <1>3 DEF TypeOK

\* The part of a pass that builds an object, with the ancestor it could read.
LEMMA PassBeginsType ==
    ASSUME TypeOK, PassBegins, NEW pp \in PassPcs,
           passPc' = pp,
           \E done \in {storage.done, NoSpec} : AncestorRead(done),
           \E o \in Held : obj' = PassObject(o),
           clock' \in 0 .. MaxAnnouncements,
           UNCHANGED edits
    PROVE  PassTypeOK' /\ BoundTypeOK'
<1> USE DEF TypeOK
<1>1. PICK done \in {storage.done, NoSpec} : AncestorRead(done)
  OBVIOUS
<1>2. PICK o \in Held : obj' = PassObject(o)
  OBVIOUS
<1>3. obj' \in [Writers -> Held]
  BY <1>2 DEF PassObject, PassTypeOK
<1>4. PassTypeOK'
  BY <1>3, StoreBoundsAssumption DEF PassBegins, PassTypeOK
<1>5. BoundTypeOK'
  BY <1>1, StoreBoundsAssumption DEF PassBegins, BoundTypeOK, AncestorRead, ApiError
<1> QED
  BY <1>4, <1>5

LEMMA TypeStep == TypeOK /\ [Next]_vars => TypeOK'
<1> SUFFICES ASSUME TypeOK, [Next]_vars PROVE TypeOK'
  OBVIOUS
<1> USE DEF TypeOK
<1>w. Worker \in Writers /\ Hosts \subseteq Writers /\ Endpoints \subseteq Writers
  BY DEF Writers
<1>0. CASE UNCHANGED vars
  BY <1>0 DEF vars, apiVars, passVars, callVars, histVars, ApiTypeOK,
     CallTypeOK, PassTypeOK, BoundTypeOK, HistTypeOK
<1>1. CASE MarkReconcileStart
  <2>1. PICK done \in {storage.done, NoSpec} :
            AncestorRead(done) /\ obj' = PassObject(Built("InProgress", done))
    BY <1>1 DEF MarkReconcileStart
  <2>2. Built("InProgress", done) \in Held
    BY StoredDone, BuiltType DEF Statuses
  <2>3. PassTypeOK' /\ BoundTypeOK'
    BY <1>1, <2>1, <2>2, PassBeginsType DEF MarkReconcileStart, PassPcs, PassTypeOK
  <2>4. CallTypeOK'
    BY <1>1, <1>w, CallingType DEF MarkReconcileStart, Groups
  <2>5. ApiTypeOK' /\ HistTypeOK'
    BY <1>1 DEF MarkReconcileStart, apiVars, histVars, ApiTypeOK, HistTypeOK
  <2> QED
    BY <2>3, <2>4, <2>5
<1>2. CASE MarkRefused
  <2>1. PICK done \in {storage.done, NoSpec} :
            AncestorRead(done) /\ obj' = PassObject(PushAction(Built("Aborted", done), clock + 1))
    BY <1>2 DEF MarkRefused
  <2>0. Built("Aborted", done) \in Held
    BY StoredDone, BuiltType DEF Statuses
  <2>2. PushAction(Built("Aborted", done), clock + 1) \in Held /\ clock' \in 0 .. MaxAnnouncements
    BY <1>2, <2>0, PushActionType DEF MarkRefused, PassTypeOK
  <2>3. PassTypeOK' /\ BoundTypeOK'
    BY <1>2, <2>1, <2>2, PassBeginsType DEF MarkRefused, PassPcs
  <2>4. CallTypeOK'
    BY <1>2, <1>w, CallingType DEF MarkRefused, Groups
  <2>5. ApiTypeOK' /\ HistTypeOK'
    BY <1>2 DEF MarkRefused, apiVars, histVars, ApiTypeOK, HistTypeOK
  <2> QED
    BY <2>3, <2>4, <2>5
<1>13. CASE MarkSuspended
  <2>1. PICK done \in {storage.done, NoSpec} :
            AncestorRead(done) /\ obj' = PassObject(Built("Aborted", done))
    BY <1>13 DEF MarkSuspended
  <2>2. Built("Aborted", done) \in Held
    BY StoredDone, BuiltType DEF Statuses
  <2>3. PassTypeOK' /\ BoundTypeOK'
    BY <1>13, <2>1, <2>2, PassBeginsType DEF MarkSuspended, PassPcs, PassTypeOK
  <2>4. CallTypeOK'
    BY <1>13, <1>w, CallingType DEF MarkSuspended, Groups
  <2>5. ApiTypeOK' /\ HistTypeOK'
    BY <1>13 DEF MarkSuspended, apiVars, histVars, ApiTypeOK, HistTypeOK
  <2> QED
    BY <2>3, <2>4, <2>5
<1>14. CASE PersistRefusal
  <2>1. CallTypeOK'
    BY <1>14, <1>w, CallingType DEF PersistRefusal, Groups
  <2> QED
    BY <1>14, <2>1 DEF PersistRefusal, apiVars, histVars, ApiTypeOK, PassTypeOK,
       BoundTypeOK, HistTypeOK, PassPcs
<1>3. CASE WalkHosts \/ Cancel \/ PassEnds
  BY <1>3 DEF WalkHosts, Cancel, PassEnds, apiVars, callVars, histVars, ApiTypeOK,
     CallTypeOK, PassTypeOK, BoundTypeOK, HistTypeOK, PassPcs
<1>4. CASE MarkCompletedFails
  BY <1>4, StoreBoundsAssumption DEF MarkCompletedFails, ApiError, apiVars, callVars,
     histVars, ApiTypeOK, CallTypeOK, PassTypeOK, BoundTypeOK, HistTypeOK, PassPcs
<1>5. ASSUME NEW w \in Hosts \cup {Worker}, Announce(w) PROVE TypeOK'
  <2>1. CallTypeOK'
    BY <1>5, <1>w, CallingType DEF Announce, Groups
  <2>2. PassTypeOK'
    <3>1. ASSUME NEW v \in Writers
          PROVE PushAction(obj[v], clock + 1) \in Held
      BY <1>5, PushActionType DEF PassTypeOK, Announce
    <3>2. clock' \in 0 .. MaxAnnouncements
      BY <1>5, StoreBoundsAssumption DEF PassTypeOK, Announce, Tick
    <3> QED
      BY <1>5, <3>1, <3>2 DEF Announce, PassTypeOK
  <2>3. ApiTypeOK' /\ HistTypeOK'
    BY <1>5 DEF Announce, apiVars, histVars, ApiTypeOK, HistTypeOK
  <2>4. BoundTypeOK'
    BY <1>5, <1>w, StoreBoundsAssumption DEF Announce, BoundTypeOK
  <2> QED
    BY <2>1, <2>2, <2>3, <2>4
<1>6. ASSUME NEW h \in Hosts, HostProgress(h) PROVE TypeOK'
  <2>1. CallTypeOK'
    BY <1>6, <1>w, CallingType DEF HostProgress, Groups
  <2>2. ApiTypeOK' /\ HistTypeOK' /\ PassTypeOK'
    BY <1>6 DEF HostProgress, apiVars, histVars, passVars, ApiTypeOK, HistTypeOK, PassTypeOK
  <2>3. BoundTypeOK'
    BY <1>6, <1>w, StoreBoundsAssumption DEF HostProgress, BoundTypeOK
  <2> QED
    BY <2>1, <2>2, <2>3
<1>7. CASE MarkCompleted
  <2>1. CallTypeOK'
    BY <1>7, <1>w, CallingType DEF MarkCompleted, Groups
  <2>2. [Built("Completed", spec) EXCEPT !.norm = NoSpec] \in Held
    BY BuiltType DEF Statuses, ApiTypeOK
  <2>3. PassTypeOK'
    BY <1>7, <1>w, <2>2 DEF MarkCompleted, PassTypeOK, PassPcs
  <2>4. ApiTypeOK' /\ HistTypeOK' /\ BoundTypeOK'
    BY <1>7 DEF MarkCompleted, apiVars, ApiTypeOK, HistTypeOK, BoundTypeOK
  <2> QED
    BY <2>1, <2>3, <2>4
<1>8. CASE MarkCompletedRefused
  <2>1. CallTypeOK'
    BY <1>8, <1>w, CallingType DEF MarkCompletedRefused, Groups
  <2>2. PICK done \in {storage.done, NoSpec} :
            AncestorRead(done) /\ obj' = [obj EXCEPT ![Worker] = Built("Aborted", done)]
    BY <1>8 DEF MarkCompletedRefused
  <2>3. Built("Aborted", done) \in Held
    BY StoredDone, BuiltType DEF Statuses
  <2>4. PassTypeOK'
    BY <1>8, <1>w, <2>2, <2>3 DEF MarkCompletedRefused, PassTypeOK, PassPcs
  <2>5. ApiTypeOK' /\ HistTypeOK'
    BY <1>8 DEF MarkCompletedRefused, apiVars, histVars, ApiTypeOK, HistTypeOK
  <2>6. BoundTypeOK'
    BY <1>8, <2>2, StoreBoundsAssumption
       DEF MarkCompletedRefused, AncestorRead, ApiError, BoundTypeOK
  <2> QED
    BY <2>1, <2>4, <2>5, <2>6
<1>9. CASE MarkAborted
  <2>1. CallTypeOK'
    BY <1>9, <1>w, CallingType DEF MarkAborted, Groups
  <2>2. [obj[Worker] EXCEPT !.status = "Aborted"] \in Held
    BY <1>w DEF PassTypeOK, Held, Statuses
  <2>3. PassTypeOK'
    BY <1>9, <1>w, <2>2 DEF MarkAborted, PassTypeOK, PassPcs
  <2>4. ApiTypeOK' /\ HistTypeOK' /\ BoundTypeOK'
    BY <1>9 DEF MarkAborted, apiVars, histVars, ApiTypeOK, HistTypeOK, BoundTypeOK
  <2> QED
    BY <2>1, <2>3, <2>4
<1>10. ASSUME NEW e \in Endpoints, UpdateEndpoints(e) PROVE TypeOK'
  <2>1. CallTypeOK'
    BY <1>10, <1>w, CallingType DEF UpdateEndpoints, Groups
  <2> DEFINE s == IF spec \in Refused THEN "Aborted" ELSE ""
  <2>2. PICK done \in {storage.done, NoSpec} :
            AncestorRead(done) /\ obj' = [obj EXCEPT ![e] = Built(s, done)]
    BY <1>10 DEF UpdateEndpoints
  <2>3. Built(s, done) \in Held
    BY StoredDone, BuiltType DEF Statuses
  <2>4. PassTypeOK'
    BY <1>10, <1>w, <2>2, <2>3 DEF UpdateEndpoints, PassTypeOK
  <2>5. ApiTypeOK' /\ HistTypeOK'
    BY <1>10 DEF UpdateEndpoints, apiVars, histVars, ApiTypeOK, HistTypeOK
  <2>6. BoundTypeOK'
    <3>0. AncestorRead(done)
      BY <2>2
    <3>1. errors' \in 0 .. MaxErrors
      <4> HIDE DEF s
      <4> QED
        BY <3>0, StoreBoundsAssumption DEF AncestorRead, ApiError, BoundTypeOK
    <3>2. events' = [events EXCEPT ![e] = @ + 1] /\ events[e] < MaxEvents /\ UNCHANGED edits
      BY <1>10 DEF UpdateEndpoints
    <3> QED
      BY <1>w, <3>1, <3>2, StoreBoundsAssumption DEF BoundTypeOK
  <2> QED
    BY <2>1, <2>4, <2>5, <2>6
<1>11. ASSUME NEW w \in Writers, Call(w) PROVE TypeOK'
  <2>1. CASE GetCR(w)
    <3>1. [version |-> version, status |-> status, actions |-> actions,
           norm |-> NoSpec, done |-> NoSpec] \in Current
      BY DEF ApiTypeOK, Current
    <3>2. CallTypeOK'
      BY <2>1, <3>1 DEF GetCR, CallTypeOK, Pcs
    <3> QED
      BY <2>1, <3>2 DEF GetCR, apiVars, passVars, histVars, ApiTypeOK, PassTypeOK,
         BoundTypeOK, HistTypeOK
  <2>2. CASE GetCM(w)
    <3>1. [cur[w] EXCEPT !.norm = storage.norm, !.done = storage.done] \in Current
      BY DEF ApiTypeOK, CallTypeOK, Current, Storage
    <3>2. CopyFrom([cur[w] EXCEPT !.norm = storage.norm, !.done = storage.done],
                   obj[w], group[w]) \in Current
      BY <3>1, CopyFromType DEF CallTypeOK, PassTypeOK
    <3>3. CallTypeOK'
      BY <2>2, <3>2 DEF GetCM, CallTypeOK, Pcs
    <3> QED
      BY <2>2, <3>3 DEF GetCM, apiVars, passVars, histVars, ApiTypeOK, PassTypeOK,
         BoundTypeOK, HistTypeOK
  <2>3. CASE GetCMFails(w)
    <3>1. CopyFrom(cur[w], obj[w], group[w]) \in Current
      BY CopyFromType DEF CallTypeOK, PassTypeOK
    <3>2. CallTypeOK'
      BY <2>3, <3>1 DEF GetCMFails, CallTypeOK, Pcs
    <3>3. BoundTypeOK'
      BY <2>3, StoreBoundsAssumption DEF GetCMFails, ApiError, BoundTypeOK
    <3> QED
      BY <2>3, <3>2, <3>3 DEF GetCMFails, apiVars, passVars, histVars, ApiTypeOK,
         PassTypeOK, HistTypeOK
  <2>4. CASE UpdateCM(w)
    <3>1. buildStatusResourceData(cur[w]) \in Storage
      BY DEF buildStatusResourceData, Storage, CallTypeOK, Current
    <3>2. ApiTypeOK'
      BY <2>4, <3>1 DEF UpdateCM, ApiTypeOK
    <3>3. CallTypeOK'
      BY <2>4 DEF UpdateCM, CallTypeOK, Pcs
    <3> QED
      BY <2>4, <3>2, <3>3 DEF UpdateCM, passVars, histVars, PassTypeOK, BoundTypeOK,
         HistTypeOK
  <2>5. CASE UpdateCMFails(w)
    <3>1. BoundTypeOK'
      BY <2>5, StoreBoundsAssumption DEF UpdateCMFails, ApiError, BoundTypeOK
    <3>2. CallTypeOK'
      BY <2>5 DEF UpdateCMFails, CallTypeOK, Pcs
    <3> QED
      BY <2>5, <3>1, <3>2 DEF UpdateCMFails, apiVars, passVars, histVars, ApiTypeOK,
         PassTypeOK, HistTypeOK
  <2>6. CASE UpdateCR(w)
    <3>1. CallTypeOK'
      BY <2>6, EndingType DEF UpdateCR
    <3>2. cur[w] \in Current
      BY DEF CallTypeOK
    <3>3. version' \in Nat
      BY <2>6 DEF UpdateCR, WrittenVersions, ApiTypeOK
    <3>4. ApiTypeOK' /\ HistTypeOK'
      BY <2>6, <3>2, <3>3 DEF UpdateCR, ApiTypeOK, HistTypeOK, Current
    <3> QED
      BY <2>6, <3>1, <3>4 DEF UpdateCR, passVars, PassTypeOK, BoundTypeOK
  <2>7. CASE GetCRFails(w) \/ UpdateCRFails(w)
    <3>1. CallTypeOK'
      BY <2>7, EndingType DEF GetCRFails, UpdateCRFails
    <3>2. BoundTypeOK'
      BY <2>7, StoreBoundsAssumption DEF GetCRFails, UpdateCRFails, ApiError, BoundTypeOK
    <3> QED
      BY <2>7, <3>1, <3>2 DEF GetCRFails, UpdateCRFails, apiVars, passVars, histVars,
         ApiTypeOK, PassTypeOK, HistTypeOK
  <2>8. CASE Cancelled(w) \/ UpdateCRConflict(w)
    <3>1. CallTypeOK'
      BY <2>8, EndingType DEF Cancelled, UpdateCRConflict
    <3> QED
      BY <2>8, <3>1 DEF Cancelled, UpdateCRConflict, apiVars, passVars, histVars,
         ApiTypeOK, PassTypeOK, BoundTypeOK, HistTypeOK
  <2> QED
    BY <1>11, <2>1, <2>2, <2>3, <2>4, <2>5, <2>6, <2>7, <2>8 DEF Call
<1>12. CASE EditSpec
  BY <1>12, StoreBoundsAssumption DEF EditSpec, passVars, callVars, histVars, ApiTypeOK,
     CallTypeOK, PassTypeOK, BoundTypeOK, HistTypeOK
<1> QED
  BY <1>0, <1>1, <1>2, <1>3, <1>4, <1>5, <1>6, <1>7, <1>8, <1>9, <1>10, <1>11, <1>12,
     <1>13, <1>14 DEF Next

\* Every variable has its type, and no update makes more attempts than
\* statusUpdateRetry allows, whatever the number of writers and the bounds.
THEOREM StoreTypeCorrect == Spec => []TypeOK
<1> QED
  BY TypeInit, TypeStep, PTL DEF Spec

-----------------------------------------------------------------------------
(* What was read                                                           *)

LEMMA NothingRead == NoCurrent.version = 0 /\ NoCurrent.done = NoSpec
BY DEF NoCurrent

LEMMA ReadCalling ==
    ASSUME TypeOK, ReadInv, NEW w \in Writers, NEW g, CallingStep(w, g)
    PROVE  ReadInv'
<1> SUFFICES ASSUME NEW v \in Writers PROVE (cur[v].version <= version /\ Read(v))'
  BY DEF ReadInv
<1>1. CASE v = w
  BY <1>1 DEF CallingStep, StatusUpdate, apiVars, ReadInv, Read, TypeOK, CallTypeOK
<1>2. CASE v # w
  BY <1>2 DEF CallingStep, StatusUpdate, apiVars, ReadInv, Read, TypeOK, CallTypeOK
<1> QED
  BY <1>1, <1>2

LEMMA ReadEnding ==
    ASSUME TypeOK, ReadInv, NEW w \in Writers, EndingStep(w)
    PROVE  ReadInv'
<1> SUFFICES ASSUME NEW v \in Writers PROVE (cur[v].version <= version /\ Read(v))'
  BY DEF ReadInv
<1>1. CASE v = w
  <2>1. pc'[w] \in {"idle", "getCR"} /\ cur'[w] = NoCurrent /\ version' = version
    BY DEF EndingStep, Return, RetryOrReturn, apiVars, TypeOK, CallTypeOK
  <2>2. 0 <= version
    BY DEF TypeOK, ApiTypeOK
  <2>3. cur'[v].version = 0 /\ pc'[v] \in {"idle", "getCR"}
    BY <1>1, <2>1, NothingRead
  <2> QED
    BY <2>1, <2>2, <2>3 DEF Read
<1>2. CASE v # w
  BY <1>2 DEF EndingStep, Return, RetryOrReturn, apiVars, ReadInv, Read, TypeOK, CallTypeOK
<1> QED
  BY <1>1, <1>2

LEMMA ReadStep == TypeOK /\ ReadInv /\ [Next]_vars => ReadInv'
<1> SUFFICES ASSUME TypeOK, ReadInv, [Next]_vars PROVE ReadInv'
  OBVIOUS
<1>w. Worker \in Writers /\ Hosts \subseteq Writers /\ Endpoints \subseteq Writers
  BY DEF Writers
<1>0. CASE UNCHANGED vars
  BY <1>0 DEF vars, apiVars, callVars, ReadInv, Read
<1>1. CASE MarkReconcileStart \/ MarkRefused \/ PersistRefusal \/ MarkSuspended
           \/ MarkCompleted \/ MarkCompletedRefused \/ MarkAborted
  <2>1. \E g \in Groups : CallingStep(Worker, g)
    BY <1>1 DEF MarkReconcileStart, MarkRefused, PersistRefusal, MarkSuspended, MarkCompleted,
       MarkCompletedRefused, MarkAborted, CallingStep, Groups
  <2> QED
    BY <2>1, <1>w, ReadCalling
<1>2. CASE WalkHosts \/ Cancel \/ PassEnds \/ MarkCompletedFails
  BY <1>2 DEF WalkHosts, Cancel, PassEnds, MarkCompletedFails, apiVars, callVars, ReadInv, Read
<1>3. ASSUME NEW w \in Hosts \cup {Worker}, Announce(w) PROVE ReadInv'
  BY <1>3, <1>w, ReadCalling DEF Announce, CallingStep
<1>4. ASSUME NEW h \in Hosts, HostProgress(h) PROVE ReadInv'
  BY <1>4, <1>w, ReadCalling DEF HostProgress, CallingStep
<1>5. ASSUME NEW e \in Endpoints, UpdateEndpoints(e) PROVE ReadInv'
  BY <1>5, <1>w, ReadCalling DEF UpdateEndpoints, CallingStep
<1>6. ASSUME NEW w \in Writers, Call(w) PROVE ReadInv'
  <2>1. CASE GetCR(w)
    <3> SUFFICES ASSUME NEW v \in Writers PROVE (cur[v].version <= version /\ Read(v))'
      BY DEF ReadInv
    <3>1. CASE v = w
      BY <2>1, <3>1 DEF GetCR, apiVars, Read, TypeOK, CallTypeOK, ApiTypeOK
    <3>2. CASE v # w
      BY <2>1, <3>2 DEF GetCR, apiVars, ReadInv, Read, TypeOK, CallTypeOK
    <3> QED
      BY <3>1, <3>2
  <2>2. CASE GetCM(w) \/ GetCMFails(w)
    <3> SUFFICES ASSUME NEW v \in Writers PROVE (cur[v].version <= version /\ Read(v))'
      BY DEF ReadInv
    <3>1. CASE v = w
      <4>1. PICK c \in Current :
               /\ c.version = cur[w].version
               /\ c.status = cur[w].status
               /\ c.actions = cur[w].actions
               /\ cur'[w] = CopyFrom(c, obj[w], group[w])
        <5>1. CASE GetCM(w)
          <6>1. [cur[w] EXCEPT !.norm = storage.norm, !.done = storage.done] \in Current
            BY DEF TypeOK, CallTypeOK, ApiTypeOK, Current, Storage
          <6> QED
            BY <5>1, <6>1 DEF GetCM, TypeOK, CallTypeOK, Current
        <5>2. CASE GetCMFails(w)
          BY <5>2 DEF GetCMFails, TypeOK, CallTypeOK
        <5> QED
          BY <2>2, <5>1, <5>2
      <4>2. /\ cur'[w].version = cur[w].version
            /\ group[w] \notin {"Main", "WholeStatus"} => cur'[w].status = cur[w].status
        BY <4>1 DEF CopyFrom
      <4>4. PushedOut(cur[w].actions, cur'[w].actions)
        BY <4>1, CopyFromKeeps DEF TypeOK, PassTypeOK, CallTypeOK
      <4>3. pc[w] = "getCM" /\ pc'[w] = "updateCM" /\ UNCHANGED <<version, status, actions, group>>
        BY <2>2 DEF GetCM, GetCMFails, apiVars, TypeOK, CallTypeOK
      <4> QED
        BY <3>1, <4>2, <4>3, <4>4 DEF ReadInv, Read
    <3>2. CASE v # w
      BY <2>2, <3>2 DEF GetCM, GetCMFails, apiVars, ReadInv, Read, TypeOK, CallTypeOK
    <3> QED
      BY <3>1, <3>2
  <2>3. CASE UpdateCM(w) \/ UpdateCMFails(w)
    <3> SUFFICES ASSUME NEW v \in Writers PROVE (cur[v].version <= version /\ Read(v))'
      BY DEF ReadInv
    <3>1. CASE v = w
      BY <2>3, <3>1 DEF UpdateCM, UpdateCMFails, apiVars, ReadInv, Read, TypeOK, CallTypeOK
    <3>2. CASE v # w
      BY <2>3, <3>2 DEF UpdateCM, UpdateCMFails, apiVars, ReadInv, Read, TypeOK, CallTypeOK
    <3> QED
      BY <3>1, <3>2
  <2>4. CASE UpdateCR(w)
    <3> SUFFICES ASSUME NEW v \in Writers PROVE (cur[v].version <= version /\ Read(v))'
      BY DEF ReadInv
    <3>1. CASE v = w
      <4>1. pc'[w] = "idle" /\ cur'[w] = NoCurrent
        BY <2>4 DEF UpdateCR, Return, TypeOK, CallTypeOK
      <4>2. version' \in Nat
        BY <2>4 DEF UpdateCR, WrittenVersions, TypeOK, ApiTypeOK
      <4>3. cur'[v].version = 0 /\ pc'[v] = "idle"
        BY <3>1, <4>1, NothingRead
      <4> QED
        BY <4>2, <4>3 DEF Read
    <3>2. CASE v # w
      <4>1. pc'[v] = pc[v] /\ cur'[v] = cur[v] /\ group'[v] = group[v]
        BY <2>4, <3>2 DEF UpdateCR, Return, TypeOK, CallTypeOK
      <4>2. cur[v].version \in Nat /\ version \in Nat /\ cur[v].version <= version
        BY DEF TypeOK, CallTypeOK, ApiTypeOK, Current, ReadInv
      <4>3. CASE version' = version + 1
        BY <4>1, <4>2, <4>3 DEF Read
      <4>4. CASE version' # version + 1
        <5>1. version' = version /\ status' = status /\ actions' = actions
          BY <2>4, <4>4 DEF UpdateCR, WrittenVersions
        <5> QED
          BY <4>1, <4>2, <5>1 DEF ReadInv, Read
      <4> QED
        BY <4>3, <4>4
    <3> QED
      BY <3>1, <3>2
  <2>5. CASE GetCRFails(w) \/ Cancelled(w) \/ UpdateCRConflict(w) \/ UpdateCRFails(w)
    BY <2>5, ReadEnding DEF GetCRFails, Cancelled, UpdateCRConflict, UpdateCRFails, EndingStep
  <2> QED
    BY <1>6, <2>1, <2>2, <2>3, <2>4, <2>5 DEF Call
<1>7. CASE EditSpec
  <2> SUFFICES ASSUME NEW v \in Writers PROVE (cur[v].version <= version /\ Read(v))'
    BY DEF ReadInv
  <2>1. cur[v].version \in Nat /\ version \in Nat /\ cur[v].version <= version
    BY DEF TypeOK, CallTypeOK, ApiTypeOK, Current, ReadInv
  <2> QED
    BY <1>7, <2>1 DEF EditSpec, callVars, Read
<1> QED
  BY <1>0, <1>1, <1>2, <1>3, <1>4, <1>5, <1>6, <1>7 DEF Next

-----------------------------------------------------------------------------
(* The status, the actions and the ancestor                                *)

\* A write that gets past the lock carries the CR's own status, unless its
\* group brings one, and all of the CR's actions but those pushed out.
LEMMA WriteIsCurrent ==
    ASSUME TypeOK, ReadInv, NEW w \in Writers, UpdateCR(w)
    PROVE  /\ group[w] \notin {"Main", "WholeStatus"} => cur[w].status = status
           /\ PushedOut(actions, cur[w].actions)
<1>1. cur[w].version = version /\ pc[w] = "updateCR"
  BY DEF UpdateCR, Conflict
<1> QED
  BY <1>1 DEF ReadInv, Read

\* Only UpdateCR writes the CR's status.
LEMMA StatusUntouched ==
    ASSUME [Next]_vars, \A w \in Writers : ~ UpdateCR(w)
    PROVE  UNCHANGED <<status, actions, recorded>>
<1>1. CASE UNCHANGED vars
  BY <1>1 DEF vars, apiVars, histVars
<1>2. CASE MarkReconcileStart \/ MarkRefused \/ PersistRefusal \/ MarkSuspended
           \/ MarkCompleted \/ MarkCompletedRefused \/ MarkAborted \/ WalkHosts \/ Cancel \/ PassEnds \/ MarkCompletedFails
  BY <1>2 DEF MarkReconcileStart, MarkRefused, PersistRefusal, MarkSuspended, MarkCompleted,
     MarkCompletedRefused, MarkAborted, WalkHosts, Cancel, PassEnds, MarkCompletedFails, apiVars, histVars
<1>3. ASSUME NEW w \in Hosts \cup {Worker}, Announce(w) PROVE UNCHANGED <<status, actions, recorded>>
  BY <1>3 DEF Announce, apiVars, histVars
<1>4. ASSUME NEW h \in Hosts, HostProgress(h) PROVE UNCHANGED <<status, actions, recorded>>
  BY <1>4 DEF HostProgress, apiVars, histVars
<1>5. ASSUME NEW e \in Endpoints, UpdateEndpoints(e) PROVE UNCHANGED <<status, actions, recorded>>
  BY <1>5 DEF UpdateEndpoints, apiVars, histVars
<1>6. ASSUME NEW w \in Writers, Call(w) PROVE UNCHANGED <<status, actions, recorded>>
  BY <1>6 DEF Call, GetCR, GetCRFails, Cancelled, GetCM, GetCMFails, UpdateCM,
     UpdateCMFails, UpdateCRConflict, UpdateCRFails, apiVars, histVars
<1>7. CASE EditSpec
  BY <1>7 DEF EditSpec, histVars
<1> QED
  BY <1>1, <1>2, <1>3, <1>4, <1>5, <1>6, <1>7 DEF Next

LEMMA StatusStep ==
    TypeOK /\ ReadInv /\ StatusKept /\ [Next]_vars => StatusKept' /\ PushedOut(actions, actions')
<1> SUFFICES ASSUME TypeOK, ReadInv, StatusKept, [Next]_vars
             PROVE  StatusKept' /\ PushedOut(actions, actions')
  OBVIOUS
<1>1. CASE \A w \in Writers : ~ UpdateCR(w)
  BY <1>1, StatusUntouched DEF StatusKept, PushedOut
<1>2. ASSUME NEW w \in Writers, UpdateCR(w) PROVE StatusKept' /\ PushedOut(actions, actions')
  BY <1>2, WriteIsCurrent DEF UpdateCR, StatusKept
<1> QED
  BY <1>1, <1>2

\* The objects writers build hold no ancestor but the stored one.
LEMMA AncestorBuilt ==
    ASSUME NEW done, AncestorInv, done \in {storage.done, NoSpec}, NEW st
    PROVE  Built(st, done).done \in completed \cup {NoSpec}
BY DEF AncestorInv, Built

LEMMA AncestorStep == TypeOK /\ AncestorInv /\ [Next]_vars => AncestorInv'
<1> SUFFICES ASSUME TypeOK, AncestorInv, [Next]_vars PROVE AncestorInv'
  OBVIOUS
<1>w. Worker \in Writers /\ Hosts \subseteq Writers /\ Endpoints \subseteq Writers
  BY DEF Writers
<1>t. obj \in [Writers -> Held] /\ cur \in [Writers -> Current]
  BY DEF TypeOK, PassTypeOK, CallTypeOK
<1>0. CASE UNCHANGED vars
  BY <1>0 DEF vars, apiVars, passVars, callVars, histVars, AncestorInv
<1>1. CASE MarkReconcileStart
  <2>1. PICK done \in {storage.done, NoSpec} : obj' = PassObject(Built("InProgress", done))
    BY <1>1 DEF MarkReconcileStart
  <2>2. UNCHANGED <<storage, completed, cur>>
    BY <1>1 DEF MarkReconcileStart, StatusUpdate, apiVars, histVars
  <2> QED
    BY <2>1, <2>2, AncestorBuilt DEF AncestorInv, PassObject
<1>2. CASE MarkRefused
  <2> DEFINE o(d) == PushAction(Built("Aborted", d), clock + 1)
  <2>1. PICK done \in {storage.done, NoSpec} : obj' = PassObject(o(done))
    BY <1>2 DEF MarkRefused
  <2>2. o(done).done = done
    BY DEF Built, PushAction
  <2> HIDE DEF o
  <2>3. UNCHANGED <<storage, completed, cur>>
    BY <1>2 DEF MarkRefused, StatusUpdate, apiVars, histVars
  <2> QED
    BY <2>1, <2>2, <2>3 DEF AncestorInv, PassObject
<1>12. CASE MarkSuspended
  <2>1. PICK done \in {storage.done, NoSpec} : obj' = PassObject(Built("Aborted", done))
    BY <1>12 DEF MarkSuspended
  <2>2. UNCHANGED <<storage, completed, cur>>
    BY <1>12 DEF MarkSuspended, StatusUpdate, apiVars, histVars
  <2> QED
    BY <2>1, <2>2, AncestorBuilt DEF AncestorInv, PassObject
<1>13. CASE PersistRefusal
  BY <1>13 DEF PersistRefusal, StatusUpdate, apiVars, histVars, AncestorInv
<1>3. CASE WalkHosts \/ Cancel \/ PassEnds \/ MarkCompletedFails
  BY <1>3 DEF WalkHosts, Cancel, PassEnds, MarkCompletedFails, apiVars, callVars,
     histVars, AncestorInv
<1>4. ASSUME NEW w \in Hosts \cup {Worker}, Announce(w) PROVE AncestorInv'
  <2>1. \A v \in Writers : obj'[v].done = obj[v].done
    BY <1>4, <1>t DEF Announce, Held, PushAction
  <2> QED
    BY <1>4, <2>1 DEF Announce, StatusUpdate, apiVars, histVars, AncestorInv
<1>5. ASSUME NEW h \in Hosts, HostProgress(h) PROVE AncestorInv'
  BY <1>5 DEF HostProgress, StatusUpdate, apiVars, passVars, histVars, AncestorInv
<1>6. CASE MarkCompleted
  <2>1. obj' = [obj EXCEPT ![Worker] = [Built("Completed", spec) EXCEPT !.norm = NoSpec]]
        /\ completed' = completed \cup {spec} /\ UNCHANGED <<storage, cur>>
    BY <1>6 DEF MarkCompleted, StatusUpdate, apiVars
  <2>2. [Built("Completed", spec) EXCEPT !.norm = NoSpec].done = spec
    BY DEF Built
  <2>3. \A v \in Writers : obj'[v].done = spec \/ obj'[v] = obj[v]
    BY <1>w, <1>t, <2>1, <2>2
  <2>4. completed \subseteq completed' /\ spec \in completed'
    BY <2>1
  <2>5. \A v \in Writers : obj'[v].done \in completed' \cup {NoSpec}
    BY <2>3, <2>4 DEF AncestorInv
  <2> QED
    BY <2>1, <2>4, <2>5 DEF AncestorInv
<1>7. CASE MarkCompletedRefused
  <2>1. PICK done \in {storage.done, NoSpec} :
            obj' = [obj EXCEPT ![Worker] = Built("Aborted", done)]
    BY <1>7 DEF MarkCompletedRefused
  <2>2. UNCHANGED <<storage, completed, cur>>
    BY <1>7 DEF MarkCompletedRefused, StatusUpdate, apiVars, histVars
  <2> QED
    BY <1>w, <1>t, <2>1, <2>2, AncestorBuilt DEF AncestorInv
<1>8. CASE MarkAborted
  <2>1. \A v \in Writers : obj'[v].done = obj[v].done
    BY <1>8, <1>w, <1>t DEF MarkAborted, Held
  <2> QED
    BY <1>8, <2>1 DEF MarkAborted, StatusUpdate, apiVars, histVars, AncestorInv
<1>9. ASSUME NEW e \in Endpoints, UpdateEndpoints(e) PROVE AncestorInv'
  <2> DEFINE st == IF spec \in Refused THEN "Aborted" ELSE ""
  <2>1. PICK done \in {storage.done, NoSpec} :
            obj' = [obj EXCEPT ![e] = Built(st, done)]
    BY <1>9 DEF UpdateEndpoints
  <2> HIDE DEF st
  <2>2. UNCHANGED <<storage, completed, cur>>
    BY <1>9 DEF UpdateEndpoints, StatusUpdate, apiVars, histVars
  <2> QED
    BY <1>w, <1>t, <2>1, <2>2, AncestorBuilt DEF AncestorInv
<1>10. ASSUME NEW w \in Writers, Call(w) PROVE AncestorInv'
  <2>1. CASE GetCR(w)
    <3>1. \A v \in Writers : cur'[v].done = NoSpec \/ cur'[v] = cur[v]
      BY <2>1, <1>t DEF GetCR
    <3> QED
      BY <2>1, <3>1 DEF GetCR, apiVars, passVars, histVars, AncestorInv
  <2>2. CASE GetCM(w) \/ GetCMFails(w)
    <3>1. cur'[w].done \in {storage.done, cur[w].done, obj[w].done}
      <4>1. CASE GetCM(w)
        BY <4>1, <1>t DEF GetCM, CopyFrom, Current
      <4>2. CASE GetCMFails(w)
        BY <4>2, <1>t DEF GetCMFails, CopyFrom
      <4> QED
        BY <2>2, <4>1, <4>2
    <3>2. \A v \in Writers : v # w => cur'[v] = cur[v]
      BY <2>2, <1>t DEF GetCM, GetCMFails
    <3>3. UNCHANGED <<storage, obj, completed>>
      BY <2>2 DEF GetCM, GetCMFails, apiVars, passVars, histVars
    <3> QED
      BY <3>1, <3>2, <3>3 DEF AncestorInv
  <2>3. CASE UpdateCM(w)
    <3>1. storage'.done = cur[w].done
      BY <2>3 DEF UpdateCM, buildStatusResourceData
    <3> QED
      BY <2>3, <3>1 DEF UpdateCM, passVars, histVars, AncestorInv
  <2>4. CASE UpdateCMFails(w)
    BY <2>4 DEF UpdateCMFails, apiVars, passVars, histVars, AncestorInv
  <2>5. CASE UpdateCR(w) \/ GetCRFails(w) \/ Cancelled(w) \/ UpdateCRConflict(w) \/ UpdateCRFails(w)
    <3>1. \A v \in Writers : cur'[v] = NoCurrent \/ cur'[v] = cur[v]
      BY <2>5, <1>t DEF UpdateCR, GetCRFails, Cancelled, UpdateCRConflict, UpdateCRFails,
         Return, RetryOrReturn
    <3>2. UNCHANGED <<storage, obj, completed>>
      BY <2>5 DEF UpdateCR, GetCRFails, Cancelled, UpdateCRConflict, UpdateCRFails,
         apiVars, passVars, histVars
    <3> QED
      BY <3>1, <3>2, NothingRead DEF AncestorInv
  <2> QED
    BY <1>10, <2>1, <2>2, <2>3, <2>4, <2>5 DEF Call
<1>11. CASE EditSpec
  BY <1>11 DEF EditSpec, passVars, callVars, histVars, AncestorInv
<1> QED
  BY <1>0, <1>1, <1>2, <1>3, <1>4, <1>5, <1>6, <1>7, <1>8, <1>9, <1>10, <1>11,
     <1>12, <1>13 DEF Next

-----------------------------------------------------------------------------
(* The theorems                                                            *)

LEMMA InvInit == Init => Inv
<1> SUFFICES ASSUME Init PROVE Inv
  OBVIOUS
<1>1. TypeOK
  BY TypeInit
<1>2. ReadInv
  <2> SUFFICES ASSUME NEW w \in Writers PROVE cur[w].version <= version /\ Read(w)
    BY DEF ReadInv
  <2>1. cur[w].version = 0 /\ pc[w] = "idle" /\ version = 0
    BY NothingRead DEF Init
  <2> QED
    BY <2>1 DEF Read
<1>3. StatusKept
  BY DEF Init, StatusKept
<1>4. AncestorInv
  <2>1. NoHeld.done = NoSpec /\ NoStorage.done = NoSpec
    BY DEF NoHeld, NoStorage
  <2>2. storage.done \in completed \cup {NoSpec}
    <3>1. CASE Fresh
      BY <2>1, <3>1 DEF Fresh
    <3>2. CASE Steady
      BY <3>2 DEF Steady
    <3> QED
      BY <3>1, <3>2 DEF Init
  <2> QED
    BY <2>1, <2>2, NothingRead DEF Init, AncestorInv
<1> QED
  BY <1>1, <1>2, <1>3, <1>4 DEF Inv

LEMMA InvStep == Inv /\ [Next]_vars => Inv'
BY TypeStep, ReadStep, StatusStep, AncestorStep DEF Inv

LEMMA StoreInvariance == Spec => []Inv
BY InvInit, InvStep, PTL DEF Spec

\* With any number of hosts, system workers, retries and errors, the CR's
\* status is the one the pass wrote last (statusUpdateCR).
THEOREM StatusSafe == Spec => []StatusKept
<1>1. Inv => StatusKept
  BY DEF Inv
<1> QED
  BY <1>1, StoreInvariance, PTL

\* No update loses an action another writer announced, unless as many newer
\* ones as a status keeps pushed it out (mergeActionsNoSync).
THEOREM ActionsSafe == Spec => ActionsKept
<1>1. Inv /\ [Next]_vars => [PushedOut(actions, actions')]_vars
  BY StatusStep DEF Inv
<1> QED
  BY <1>1, StoreInvariance, PTL DEF Spec, ActionsKept

\* The ancestor in the ConfigMap is always one that a pass completed
\* (statusUpdateCM, buildStatusResourceData).
THEOREM AncestorSafe == Spec => []AncestorWasCompleted
<1>1. Inv => AncestorWasCompleted
  BY DEF Inv, AncestorInv, AncestorWasCompleted
<1> QED
  BY <1>1, StoreInvariance, PTL

=============================================================================
