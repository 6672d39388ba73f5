--------------------- MODULE GameServerReconcilerProofs ---------------------
(***************************************************************************)
(* For every set of specs, class, lag of the informers, behaviour of the   *)
(* pods and bound on creations, edits and faults: the finalizer protects   *)
(* the children, the volume of a server goes only with the server, the     *)
(* status tells one story, no change to a child is lost, and the reconcile *)
(* loop implements the lifecycle that users see.                           *)
(***************************************************************************)
EXTENDS GameServerReconciler, TLAPS

-----------------------------------------------------------------------------
(* The inductive invariant. *)

MainSteps == {"mark", "secret", "extra", "pvc", "service", "statefulset",
              "syncStatus", "failWith"}
FinalizeSteps == {"stopping", "protect", "detach", "removeFinalizer"}

\* Only the latest incarnation exists, and it waits for its finalizer.
ObjectInv ==
  /\ obj.uid \in {0, created}
  /\ obj.uid = 0 => obj = NoObject
  /\ obj.deleting => obj.finalizer

\* What the cache may hold: an earlier version of the stored incarnation, or an
\* earlier incarnation.  One that was seen with a finalizer and is gone was seen
\* deleting, and nothing has protected its successor yet.
CacheInv ==
  /\ cobj.uid <= created
  /\ cobj.uid = 0 => cobj = NoObject
  /\ cobj.deleting => cobj.finalizer
  /\ cobj.uid = obj.uid =>
       (cobj.finalizer => obj.finalizer) /\ (cobj.deleting => obj.deleting)
  /\ cobj.uid # obj.uid /\ cobj.finalizer => cobj.deleting /\ ~ obj.finalizer

\* A pass that adds the finalizer began with a cache that showed none.
AddInv == w.pc = "addFinalizer" /\ cobj.uid # obj.uid => ~ cobj.finalizer

\* A pass over the children works for the stored incarnation, which cannot go
\* before the pass ends.
MainInv ==
  w.pc \in MainSteps =>
    /\ w.gs.uid = obj.uid /\ obj.finalizer
    /\ cobj.uid = obj.uid /\ cobj.finalizer

\* A pass of finalize works for the stored incarnation, or for one that is gone
\* while the stored one is not protected yet.
FinalizeInv ==
  w.pc \in FinalizeSteps /\ obj.finalizer =>
    w.gs.uid = obj.uid /\ cobj.uid = obj.uid /\ cobj.deleting

\* Children belong to incarnations so far.
ChildInv ==
  \A k \in Kinds : child[k].owner <= created /\ (child[k].owner # 0 => child[k].exists)

\* The spec finalize decides by is the stored one, unless it was edited late.
SpecInv ==
  obj.uid \notin missed =>
    /\ cobj.uid = obj.uid /\ cobj.deleting => cobj.spec = obj.spec
    /\ w.pc \in FinalizeSteps /\ obj.finalizer => w.gs.spec = obj.spec

\* After the detach a retained volume has no owner, unless it was missed.
DetachInv ==
  /\ w.pc = "removeFinalizer" /\ obj.finalizer
  /\ Retains(obj.spec) /\ obj.uid \notin missed
  => child["pvc"].owner # obj.uid

\* The status of an object without finalizer, of one that is half written or
\* whose finalizer is being added, and the copy a pass without failures works on.
StatusInv ==
  /\ obj.uid # 0 /\ ~ obj.finalizer =>
       obj.status.conditions = NewStatus.conditions
       /\ obj.status.phase \in {"", "Stopping"}
  /\ ~ Coherent(obj.status) => cobj.uid = obj.uid /\ cobj.finalizer
  /\ w.pc = "addFinalizer" => Coherent(obj.status)
  /\ w.pc \in MainSteps \ {"mark"} /\ clean => w.gs.status = obj.status

ReconcilerInv ==
  /\ TypeOK /\ ObjectInv /\ CacheInv /\ AddInv /\ MainInv /\ FinalizeInv
  /\ ChildInv /\ FinalizerBeforeChildren
  /\ SpecInv /\ DetachInv
  /\ StatusInv /\ StatusCoherent

-----------------------------------------------------------------------------
(* Types of the parts. *)

\* A status is made of its three fields,
LEMMA StatusType ==
  ASSUME NEW p \in Phases, NEW e \in BOOLEAN, NEW c \in Conditions
  PROVE  [phase |-> p, lastError |-> e, conditions |-> c] \in Status
BY DEF Status

\* and has them.
LEMMA StatusParts ==
  ASSUME NEW s \in Status
  PROVE  s.phase \in Phases /\ s.lastError \in BOOLEAN /\ s.conditions \in Conditions
BY DEF Status

\* A status patch sends each of the three fields, or leaves it as stored.
LEMMA MergeOf ==
  ASSUME NEW base \in Status, NEW new \in Status
  PROVE  MergePatch(base, new) =
           [phase |-> IF new.phase = base.phase THEN obj.status.phase ELSE new.phase,
            lastError |-> IF new.lastError = base.lastError THEN obj.status.lastError
                          ELSE new.lastError,
            conditions |-> IF new.conditions = base.conditions
                           THEN obj.status.conditions ELSE new.conditions]
<1>1. DOMAIN new = {"phase", "lastError", "conditions"}
  BY DEF Status
<1> QED
  BY <1>1 DEF MergePatch

\* The result of a status patch is a status.
LEMMA MergeType ==
  ASSUME NEW base \in Status, NEW new \in Status, obj.status \in Status
  PROVE  MergePatch(base, new) \in Status
<1> DEFINE p == IF new.phase = base.phase THEN obj.status.phase ELSE new.phase
           e == IF new.lastError = base.lastError THEN obj.status.lastError
                ELSE new.lastError
           c == IF new.conditions = base.conditions THEN obj.status.conditions
                ELSE new.conditions
<1>1. p \in Phases /\ e \in BOOLEAN /\ c \in Conditions
  BY StatusParts
<1>2. MergePatch(base, new) = [phase |-> p, lastError |-> e, conditions |-> c]
  BY MergeOf
<1> HIDE DEF p, e, c
<1> QED
  BY <1>1, <1>2, StatusType

\* The fields of a GameServer,
LEMMA ObjectParts ==
  ASSUME NEW o \in GameServer
  PROVE  /\ o.uid \in Nat /\ o.finalizer \in BOOLEAN /\ o.deleting \in BOOLEAN
         /\ o.spec \in Spec /\ o.status \in Status
BY DEF GameServer

\* and what a write of one field makes of it.
LEMMA ObjectChange ==
  ASSUME NEW o \in GameServer
  PROVE  /\ \A b \in BOOLEAN : [o EXCEPT !.finalizer = b] \in GameServer
         /\ \A b \in BOOLEAN : [o EXCEPT !.deleting = b] \in GameServer
         /\ \A x \in Spec : [o EXCEPT !.spec = x] \in GameServer
         /\ \A x \in Status : [o EXCEPT !.status = x] \in GameServer
         /\ \A u \in Nat, x \in Spec : [o EXCEPT !.uid = u, !.spec = x] \in GameServer
BY DEF GameServer

\* The absent GameServer and the worker between passes are typed.
LEMMA NoObjectType == NoObject \in GameServer /\ Idle \in [pc : Steps, gs : GameServer]
<1>1. EmptySpec \in Spec
  BY DEF EmptySpec, Spec, Policies
<1>2. NewStatus \in Status
  BY DEF NewStatus, Status, Phases, Conditions
<1>3. NoObject \in GameServer
  BY <1>1, <1>2 DEF NoObject, GameServer
<1> QED
  BY <1>3 DEF Idle, Steps

\* The fields of a child,
LEMMA ChildParts ==
  ASSUME NEW c \in Child
  PROVE  c.exists \in BOOLEAN /\ c.owner \in Nat /\ c.body \in Bodies
         /\ c.pod \in Pods /\ c.protected \in BOOLEAN
BY DEF Child

\* and what a write of some of them makes of it.
LEMMA ChildChange ==
  ASSUME NEW c \in Child
  PROVE  /\ \A b \in Bodies : [c EXCEPT !.body = b] \in Child
         /\ \A b \in BOOLEAN : [c EXCEPT !.exists = b] \in Child
         /\ \A b \in BOOLEAN : [c EXCEPT !.protected = b] \in Child
         /\ \A u \in Nat : [c EXCEPT !.owner = u] \in Child
         /\ \A p \in Pods : [c EXCEPT !.pod = p] \in Child
         /\ \A u \in Nat, b \in Bodies :
              [c EXCEPT !.exists = TRUE, !.owner = u, !.body = b] \in Child
BY DEF Child

\* The absent child is typed.
LEMMA NoChildType == NoChild \in Child
BY DEF NoChild, NoBody, Child, Bodies, Pods

\* What the renderer produces is a body.
LEMMA BodyType ==
  ASSUME NEW x \in Spec
  PROVE  Secret(x) \in Bodies /\ PVC(x) \in Bodies /\ Service(x) \in Bodies
         /\ StatefulSet(x) \in Bodies
<1>1. x.rev \in Nat /\ x.label \in Nat /\ x.shape \in Nat
  BY DEF Spec
<1>2. /\ NoBody \in Bodies /\ 0 \in 0 .. 1 /\ 1 \in 0 .. 1
  BY DEF NoBody, Bodies
<1> QED
  BY <1>1, <1>2 DEF Bodies, Secret, PVC, Service, StatefulSet

\* What is rendered for a kind is a body.
LEMMA DesiredType ==
  ASSUME NEW k, NEW x \in Spec
  PROVE  Desired(k, x) \in Bodies
BY BodyType DEF Desired

\* An update leaves a body that is in sync with what was rendered.
LEMMA UpdatedBody ==
  ASSUME NEW k, NEW old \in Bodies, NEW desired \in Bodies
  PROVE  Updated(old, desired) \in Bodies /\ InSync(k, Updated(old, desired), desired)
<1>1. Updated(old, desired) \in Bodies
  BY DEF Updated, Bodies
<1>2. /\ Updated(old, desired).data = desired.data
      /\ Updated(old, desired).labels = desired.labels
      /\ Updated(old, desired).replicas = desired.replicas
  BY DEF Updated, Bodies
<1>3. Compared(k) \subseteq {"data", "labels", "replicas"}
  BY DEF Compared
<1> QED
  BY <1>1, <1>2, <1>3 DEF InSync

-----------------------------------------------------------------------------
(* Types of a step. *)

WorkerType == [pc : Steps, gs : GameServer]

\* The stored objects have their types after a step.
StoreTyped ==
  /\ obj' \in GameServer /\ child' \in [Kinds -> Child]
  /\ lag' \subseteq Kinds \cup {"gameserver"}

\* A write of the GameServer keeps the store typed; so does one of a child, or none.
LEMMA WriteObjectType ==
  ASSUME TypeOK, NEW o \in GameServer, WriteObject(o)
  PROVE  StoreTyped
BY DEF TypeOK, WriteObject, StoreTyped

\* A write of a child.
LEMMA WriteChildType ==
  ASSUME TypeOK, NEW k \in Kinds, NEW c \in Child, WriteChild(k, c)
  PROVE  StoreTyped
BY DEF TypeOK, WriteChild, StoreTyped

\* No write.
LEMMA WriteNothingType ==
  ASSUME TypeOK, WriteNothing
  PROVE  StoreTyped
BY DEF TypeOK, WriteNothing, StoreTyped

\* So does a status patch, and its answer is a GameServer.
LEMMA PatchedType ==
  ASSUME TypeOK, NEW new \in Status
  PROVE  Patched(new) \in GameServer
<1>1. w.gs \in GameServer
  BY DEF TypeOK
<1>2. MergePatch(w.gs.status, new) \in Status
  BY <1>1, ObjectParts, MergeType DEF TypeOK
<1> QED
  BY <1>2, ObjectChange DEF TypeOK, Patched

\* The whole call, with its three outcomes.
LEMMA PatchStatusType ==
  ASSUME TypeOK, NEW new \in Status, NEW o
  PROVE  /\ PatchStatus(new, o) => StoreTyped
         /\ Answer(new, o) \in GameServer
<1>1. Patched(new) \in GameServer
  BY PatchedType
<1>2. [w.gs EXCEPT !.status = new] \in GameServer
  <2>1. w.gs \in GameServer
    BY DEF TypeOK
  <2> QED
    BY <2>1, ObjectChange
<1>3. PatchStatus(new, o) => StoreTyped
  BY <1>1, WriteObjectType, WriteNothingType DEF PatchStatus
<1> QED
  BY <1>1, <1>2, <1>3 DEF Answer

\* The counter of faults and the history of failures stay typed.
LEMMA OutcomeType ==
  ASSUME TypeOK, NEW o, Outcome(o)
  PROVE  faults' \in Nat /\ clean' \in BOOLEAN
<1>1. faults' \in Nat
  BY DEF TypeOK, Outcome
<1>2. clean' \in BOOLEAN
  BY Zenon DEF TypeOK, Outcome
<1> QED
  BY <1>1, <1>2

\* The end of a pass.
LEMMA FinishType ==
  ASSUME TypeOK, NEW b \in BOOLEAN, Finish(b)
  PROVE  w' \in WorkerType /\ dirty' \in BOOLEAN
<1>1. dirty' \in BOOLEAN
  BY DEF TypeOK, Finish
<1>2. w' \in WorkerType
  BY NoObjectType DEF Finish, WorkerType
<1> QED
  BY <1>1, <1>2

\* The worker goes on to another step.
LEMMA GoOnType ==
  ASSUME TypeOK, NEW step \in Steps
  PROVE  [w EXCEPT !.pc = step] \in WorkerType
BY DEF TypeOK, WorkerType

\* The parts of the type invariant, for a step of the worker.
LEMMA WorkerTypeFrom ==
  ASSUME TypeOK, StoreTyped, Unobserved, w' \in WorkerType, dirty' \in BOOLEAN,
         faults' \in Nat, clean' \in BOOLEAN, missed' \subseteq Nat
  PROVE  TypeOK'
BY DEF TypeOK, StoreTyped, Unobserved, WorkerType

\* One child of a pass.
LEMMA ReconcileChildType ==
  ASSUME TypeOK, NEW k \in Kinds, NEW desired \in Bodies, NEW differs,
         ReconcileChild(k, desired, differs)
  PROVE  StoreTyped /\ w' \in WorkerType /\ faults' \in Nat /\ clean' \in BOOLEAN
<1>1. \A b : Continue(k, b) => w' \in WorkerType
  <2> SUFFICES ASSUME NEW b, Continue(k, b) PROVE w' \in WorkerType
    OBVIOUS
  <2>1. After[k] \in Steps /\ "failWith" \in Steps
    BY DEF After, Steps, Kinds
  <2> QED
    BY <2>1, GoOnType DEF Continue
<1>2. CASE CreateChild(k, desired)
  <2>1. w.gs.uid \in Nat
    BY ObjectParts DEF TypeOK
  <2>2. [NoChild EXCEPT !.exists = TRUE, !.owner = w.gs.uid, !.body = desired] \in Child
    BY <2>1, NoChildType, ChildChange
  <2> QED
    BY <1>1, <1>2, <2>2, WriteChildType, WriteNothingType, OutcomeType DEF CreateChild
<1>3. CASE UpdateChild(k, desired)
  <2>1. child[k] \in Child /\ child[k].body \in Bodies
    BY ChildParts DEF TypeOK
  <2>2. [child[k] EXCEPT !.body = Updated(@, desired)] \in Child
    BY <2>1, UpdatedBody, ChildChange
  <2> QED
    BY <1>1, <1>3, <2>2, WriteChildType, WriteNothingType, OutcomeType DEF UpdateChild
<1>4. CASE NoCall(k)
  BY <1>1, <1>4, WriteNothingType DEF NoCall, TypeOK
<1> QED
  BY <1>2, <1>3, <1>4 DEF ReconcileChild

\* Every step of Reconcile and finalize keeps the types.
LEMMA WorkerStepType ==
  ASSUME TypeOK, Worker
  PROVE  TypeOK'
<1>0. /\ w.gs \in GameServer /\ w.gs.spec \in Spec /\ w.gs.status \in Status
      /\ w.gs.uid \in Nat /\ dirty \in BOOLEAN /\ missed \subseteq Nat
      /\ faults \in Nat /\ clean \in BOOLEAN
  BY ObjectParts DEF TypeOK
<1>1. CASE Load
  <2>1. w' \in WorkerType
    BY <1>1, NoObjectType DEF Load, TypeOK, WorkerType, Steps
  <2>2. clean' \in BOOLEAN
    BY <1>1, <1>0 DEF Load
  <2> QED
    BY <1>0, <1>1, <2>1, <2>2, WriteNothingType, WorkerTypeFrom DEF Load
<1>2. CASE AddFinalizer
  <2>1. [obj EXCEPT !.finalizer = TRUE] \in GameServer
    BY ObjectChange DEF TypeOK
  <2>2. StoreTyped
    BY <1>2, <2>1, WriteObjectType, WriteNothingType DEF AddFinalizer
  <2> QED
    BY <1>0, <1>2, <2>2, OutcomeType, FinishType, WorkerTypeFrom DEF AddFinalizer
<1>3. CASE MarkReconciling
  <2> DEFINE new == [w.gs.status EXCEPT !.conditions.reconciling = TRUE]
  <2>1. new \in Status
    BY <1>0 DEF Status, Conditions
  <2>2. PICK o \in Outcomes :
          /\ Outcome(o) /\ PatchStatus(new, o)
          /\ w' = [gs |-> Answer(new, o),
                   pc |-> IF Answer(new, o).spec.valid
                             /\ (Answer(new, o).spec.class => class)
                          THEN "secret" ELSE "failWith"]
    BY <1>3 DEF MarkReconciling
  <2>3. StoreTyped /\ Answer(new, o) \in GameServer
    BY <2>1, <2>2, PatchStatusType
  <2>4. w' \in WorkerType
    BY <2>2, <2>3 DEF WorkerType, Steps
  <2> QED
    BY <1>0, <1>3, <2>2, <2>3, <2>4, OutcomeType, WorkerTypeFrom DEF MarkReconciling
<1>4. CASE reconcileSecret
  BY <1>0, <1>4, BodyType, ReconcileChildType, WorkerTypeFrom DEF reconcileSecret, Kinds
<1>5. CASE DeleteExtraPVCs
  <2>1. ASSUME NEW b, Continue("extra", b) PROVE w' \in WorkerType
    <3>1. After["extra"] \in Steps /\ "failWith" \in Steps
      BY DEF After, Steps
    <3> QED
      BY <2>1, <3>1, GoOnType DEF Continue
  <2>2. StoreTyped
    BY <1>5, NoChildType, WriteChildType, WriteNothingType
       DEF DeleteExtraPVCs, NoCall, Kinds
  <2>3. w' \in WorkerType
    BY <1>5, <2>1 DEF DeleteExtraPVCs, NoCall
  <2>4. faults' \in Nat /\ clean' \in BOOLEAN
    BY <1>0, <1>5, OutcomeType DEF DeleteExtraPVCs, NoCall
  <2> QED
    BY <1>0, <1>5, <2>2, <2>3, <2>4, WorkerTypeFrom DEF DeleteExtraPVCs
<1>6. CASE reconcilePVC
  BY <1>0, <1>6, BodyType, ReconcileChildType, WorkerTypeFrom DEF reconcilePVC, Kinds
<1>7. CASE reconcileService
  <2>1. ReconcileChild("service", Service(w.gs.spec),
                       ~ InSync("service", cchild["service"].body, Service(w.gs.spec)))
        \/ NoCall("service")
    BY <1>7 DEF reconcileService
  <2>2. CASE NoCall("service")
    <3>1. "statefulset" \in Steps /\ After["service"] = "statefulset"
      BY DEF Steps, After
    <3>2. w' \in WorkerType
      BY <2>2, <3>1, GoOnType DEF NoCall, Continue
    <3> QED
      BY <1>0, <1>7, <2>2, <3>2, WriteNothingType, WorkerTypeFrom
         DEF reconcileService, NoCall
  <2> QED
    BY <1>0, <1>7, <2>1, <2>2, BodyType, ReconcileChildType, WorkerTypeFrom
       DEF reconcileService, Kinds
<1>8. CASE reconcileStatefulSet
  BY <1>0, <1>8, BodyType, ReconcileChildType, WorkerTypeFrom
     DEF reconcileStatefulSet, Kinds
<1>9. CASE SyncStatus
  <2> DEFINE phase == derivePhase(w.gs.spec, cchild["statefulset"])
             new == [phase |-> phase, lastError |-> FALSE,
                     conditions |-> [ready |-> phase = "Running",
                                     reconciling |-> FALSE, stalled |-> FALSE]]
  <2>1. new \in Status
    <3>1. phase \in Phases
      BY DEF derivePhase, Phases
    <3>2. [ready |-> phase = "Running", reconciling |-> FALSE, stalled |-> FALSE]
            \in Conditions
      BY DEF Conditions
    <3> QED
      BY <3>1, <3>2, StatusType
  <2> HIDE DEF phase
  <2>2. PICK o \in Outcomes :
          /\ Outcome(o) /\ PatchStatus(new, o)
          /\ Finish(~ (o = "ok" /\ obj.uid # 0))
    BY <1>9 DEF SyncStatus, phase
  <2> QED
    BY <1>0, <1>9, <2>1, <2>2, PatchStatusType, OutcomeType, FinishType, WorkerTypeFrom
       DEF SyncStatus
<1>10. CASE FailWith
  <2> DEFINE new == [phase |-> "Failed", lastError |-> TRUE,
                     conditions |-> [ready |-> FALSE, reconciling |-> FALSE,
                                     stalled |-> TRUE]]
  <2>1. new \in Status
    BY DEF Status, Phases, Conditions
  <2>2. StoreTyped
    BY <1>10, <2>1, PatchStatusType DEF FailWith
  <2> QED
    BY <1>0, <1>10, <2>2, OutcomeType, FinishType, WorkerTypeFrom DEF FailWith
<1>11. CASE Stopping
  <2> DEFINE new == [w.gs.status EXCEPT !.phase = "Stopping"]
  <2>1. new \in Status
    BY <1>0 DEF Status, Phases
  <2>2. PICK o \in Outcomes : /\ Outcome(o) /\ PatchStatus(new, o)
                              /\ w' = [pc |-> "protect", gs |-> Answer(new, o)]
    BY <1>11 DEF Stopping
  <2>3. StoreTyped /\ Answer(new, o) \in GameServer
    BY <2>1, <2>2, PatchStatusType
  <2>4. w' \in WorkerType
    BY <2>2, <2>3 DEF WorkerType, Steps
  <2> QED
    BY <1>0, <1>11, <2>2, <2>3, <2>4, OutcomeType, WorkerTypeFrom DEF Stopping
<1>12. CASE RequestStorageProtection
  <2>1. [child["pvc"] EXCEPT !.protected = TRUE] \in Child
    BY ChildChange DEF TypeOK, Kinds
  <2>2. StoreTyped
    BY <1>12, <2>1, WriteChildType, WriteNothingType
       DEF RequestStorageProtection, PatchClaim, Kinds
  <2>3. faults' \in Nat /\ clean' \in BOOLEAN
    BY <1>0, <1>12, OutcomeType DEF RequestStorageProtection, PatchClaim
  <2>4. w' \in WorkerType
    BY <1>12, GoOnType DEF RequestStorageProtection, Steps
  <2> QED
    BY <1>0, <1>12, <2>2, <2>3, <2>4, WorkerTypeFrom DEF RequestStorageProtection
<1>13. CASE DetachPVC
  <2>1. [child["pvc"] EXCEPT !.owner = 0] \in Child /\ child["pvc"] \in Child
    BY ChildChange DEF TypeOK, Kinds
  <2>2. StoreTyped
    BY <1>13, <2>1, WriteChildType, WriteNothingType DEF DetachPVC, PatchClaim, Kinds
  <2>3. faults' \in Nat /\ clean' \in BOOLEAN
    BY <1>0, <1>13, OutcomeType DEF DetachPVC, PatchClaim
  <2>4. w' \in WorkerType
    BY <1>13, GoOnType DEF DetachPVC, Steps
  <2>5. missed' \subseteq Nat
    BY <1>0, <1>13 DEF DetachPVC
  <2> QED
    BY <1>0, <1>13, <2>2, <2>3, <2>4, <2>5, WorkerTypeFrom DEF DetachPVC
<1>14. CASE RemoveFinalizer
  <2>1. NoObject \in GameServer /\ [obj EXCEPT !.finalizer = FALSE] \in GameServer
    BY NoObjectType, ObjectChange DEF TypeOK
  <2>2. StoreTyped
    BY <1>14, <2>1, WriteObjectType, WriteNothingType DEF RemoveFinalizer
  <2>3. faults' \in Nat /\ clean' \in BOOLEAN
    BY <1>0, <1>14, OutcomeType DEF RemoveFinalizer
  <2>4. w' \in WorkerType /\ dirty' \in BOOLEAN
    BY <1>14, FinishType DEF RemoveFinalizer
  <2> QED
    BY <1>0, <1>14, <2>2, <2>3, <2>4, WorkerTypeFrom DEF RemoveFinalizer
<1> QED
  BY <1>1, <1>2, <1>3, <1>4, <1>5, <1>6, <1>7, <1>8, <1>9, <1>10, <1>11, <1>12,
     <1>13, <1>14 DEF Worker

\* So does every step of users, informers, pods and garbage collector.
LEMMA ClusterStepType ==
  ASSUME TypeOK, Cluster
  PROVE  TypeOK'
<1> DEFINE Kept == /\ UNCHANGED <<cobj, cchild, w>>
                   /\ dirty' \in BOOLEAN /\ faults' \in Nat /\ clean' \in BOOLEAN
           Counted == /\ class' \in BOOLEAN /\ created' \in Nat /\ edits' \in Nat
                      /\ missed' \subseteq Nat
<1>0. ASSUME StoreTyped, Kept, Counted PROVE TypeOK'
  BY <1>0 DEF TypeOK, StoreTyped
<1>1. CASE DeliverObject
  BY <1>1 DEF TypeOK, DeliverObject
<1>2. ASSUME NEW k \in Kinds, DeliverChild(k) PROVE TypeOK'
  <2>1. cchild' \in [Kinds -> Child] /\ lag' \subseteq Kinds \cup {"gameserver"}
    BY <1>2 DEF TypeOK, DeliverChild
  <2>2. dirty' \in BOOLEAN
    BY <1>2 DEF TypeOK, DeliverChild
  <2> QED
    BY <1>2, <2>1, <2>2 DEF TypeOK, DeliverChild
<1>3. CASE Restart
  <2>1. dirty' \in BOOLEAN /\ clean' \in BOOLEAN /\ faults' \in Nat
    <3>1. faults' \in Nat
      BY <1>3 DEF TypeOK, Restart
    <3>2. dirty' \in BOOLEAN
      BY <1>3 DEF Restart
    <3>3. clean' \in BOOLEAN
      BY <1>3 DEF Restart
    <3> QED
      BY <3>1, <3>2, <3>3
  <2> QED
    BY <1>3, <2>1, NoObjectType DEF TypeOK, Restart
<1>4. ASSUME NEW k \in Kinds, CollectChild(k) PROVE TypeOK'
  <2>1. StoreTyped
    BY <1>4, NoChildType, WriteChildType DEF CollectChild
  <2> QED
    BY <1>0, <1>4, <2>1 DEF CollectChild, TypeOK
<1>5. ASSUME NEW p \in PodStates, MovePod(p) PROVE TypeOK'
  <2>1. [child["statefulset"] EXCEPT !.pod = p] \in Child
    BY PodsAssumption, ChildChange DEF TypeOK, Kinds, Pods
  <2>2. StoreTyped
    BY <1>5, <2>1, WriteChildType DEF MovePod, Kinds
  <2> QED
    BY <1>0, <1>5, <2>2 DEF MovePod, TypeOK
<1>6. ASSUME NEW spec \in Specs, CreateObject(spec) PROVE TypeOK'
  <2>1. [NoObject EXCEPT !.uid = created + 1, !.spec = spec] \in GameServer
    <3>1. created + 1 \in Nat /\ spec \in Spec
      BY SpecsAssumption DEF TypeOK
    <3>2. \A u \in Nat : [NoObject EXCEPT !.uid = u, !.spec = spec] \in GameServer
      BY <3>1, NoObjectType, ObjectChange, Zenon
    <3> QED
      BY <3>1, <3>2
  <2>2. StoreTyped
    BY <1>6, <2>1, WriteObjectType DEF CreateObject
  <2> QED
    BY <1>0, <1>6, <2>2 DEF CreateObject, UserOnly, TypeOK
<1>7. ASSUME NEW spec \in Specs, EditSpec(spec) PROVE TypeOK'
  <2>1. [obj EXCEPT !.spec = spec] \in GameServer /\ obj.uid \in Nat
    BY SpecsAssumption, ObjectChange, ObjectParts DEF TypeOK
  <2>2. StoreTyped
    BY <1>7, <2>1, WriteObjectType DEF EditSpec
  <2>3. Counted
    BY <1>7, <2>1 DEF EditSpec, UserOnly, TypeOK
  <2> QED
    BY <1>0, <1>7, <2>2, <2>3 DEF EditSpec, UserOnly, TypeOK
<1>8. CASE ToggleClass
  <2>1. class' \in BOOLEAN
    BY <1>8 DEF ToggleClass, TypeOK
  <2> QED
    BY <1>0, <1>8, <2>1, WriteNothingType DEF ToggleClass, UserOnly, TypeOK
<1>9. CASE DeleteObject
  <2>1. NoObject \in GameServer /\ [obj EXCEPT !.deleting = TRUE] \in GameServer
    BY NoObjectType, ObjectChange DEF TypeOK
  <2>2. StoreTyped
    BY <1>9, <2>1, WriteObjectType DEF DeleteObject
  <2> QED
    BY <1>0, <1>9, <2>2 DEF DeleteObject, UserOnly, TypeOK
<1> QED
  BY <1>1, <1>2, <1>3, <1>4, <1>5, <1>6, <1>7, <1>8, <1>9 DEF Cluster, Deliver

\* TypeOK is inductive by itself,
LEMMA TypeStep == TypeOK /\ [Next]_vars => TypeOK'
<1> SUFFICES ASSUME TypeOK, [Next]_vars PROVE TypeOK'
  OBVIOUS
<1>1. CASE UNCHANGED vars
  BY <1>1 DEF TypeOK, vars
<1> QED
  BY <1>1, WorkerStepType, ClusterStepType DEF Next

\* and holds initially.
LEMMA TypeInit == Init => TypeOK
<1> SUFFICES ASSUME Init PROVE TypeOK
  OBVIOUS
<1>1. child \in [Kinds -> Child]
  <2>1. ASSUME NEW k \in Kinds
        PROVE  [NoChild EXCEPT !.exists = (k = "extra" /\ Leftover)] \in Child
    <3>1. (k = "extra" /\ Leftover) \in BOOLEAN
      OBVIOUS
    <3> QED
      BY <3>1, NoChildType, ChildChange, Zenon
  <2> QED
    BY <2>1 DEF Init
<1> QED
  BY <1>1, NoObjectType, ClassPolicyAssumption DEF Init, TypeOK, WorkerType

-----------------------------------------------------------------------------
(* What steps do to what the invariant is about. *)

OwnerKept(k) == child'[k].owner = child[k].owner /\ child'[k].exists = child[k].exists

\* The steps of informers, garbage collector and pods that only move children.
Passive ==
  /\ UNCHANGED <<obj, cobj, w, created, clean, missed>>
  /\ \A k \in Kinds : \/ OwnerKept(k)
                      \/ child'[k] = NoChild /\ child[k].owner \notin {0, obj.uid}

\* A child of a pass: made for the GameServer of the pass, updated or, as an
\* extra claim, deleted.
Working ==
  /\ w.pc \in MainSteps \ {"mark"} /\ w'.pc \in MainSteps \ {"mark"} /\ w'.gs = w.gs
  /\ UNCHANGED <<obj, cobj, created, missed>>
  /\ clean' => clean
  /\ \A k \in Kinds :
       \/ OwnerKept(k)
       \/ k = "extra" /\ child'[k] = NoChild
       \/ ~ child[k].exists /\ child'[k].exists /\ child'[k].owner = w.gs.uid

\* A write of the status.
StatusWrite ==
  /\ UNCHANGED <<child, cobj, created, missed>>
  /\ obj'.uid = obj.uid /\ obj'.finalizer = obj.finalizer
  /\ obj'.deleting = obj.deleting /\ obj'.spec = obj.spec
  /\ obj.uid = 0 => obj' = obj
  /\ clean' => clean

\* The mark at the beginning of a pass, whose answer the pass goes on with.
Marking ==
  /\ StatusWrite /\ w.pc = "mark" /\ w'.pc \in MainSteps \ {"mark"}
  /\ w'.gs.uid \in {w.gs.uid, obj.uid}
  /\ clean' /\ obj.uid # 0 => w'.gs.status = obj'.status

\* The status at the end of a pass.
Ending ==
  /\ StatusWrite /\ w.pc \in MainSteps \ {"mark"} /\ w'.pc = "idle"
  /\ clean' /\ obj.uid # 0 /\ w.gs.status = obj.status => Coherent(obj'.status)

\* The mark at the beginning of finalize.
MarkStopping ==
  /\ StatusWrite /\ w.pc = "stopping" /\ w'.pc = "protect"
  /\ \/ w'.gs.uid = w.gs.uid /\ w'.gs.spec = w.gs.spec
     \/ w'.gs.uid = obj.uid /\ w'.gs.spec = obj.spec
  /\ obj'.status.conditions = obj.status.conditions
  /\ obj'.status.phase \in {obj.status.phase, "Stopping"}

\* The storage protection and the detach of finalize.
Detaching ==
  /\ w'.gs = w.gs
  /\ UNCHANGED <<obj, cobj, created>> /\ missed \subseteq missed'
  /\ \A k \in Kinds : \/ OwnerKept(k)
                      \/ k = "pvc" /\ child'[k].exists = child[k].exists
                                   /\ child'[k].owner = 0
  /\ \/ w.pc = "protect" /\ w'.pc = "detach"
     \/ /\ w.pc = "detach" /\ w'.pc = "removeFinalizer"
        /\ Retains(w.gs.spec) /\ w.gs.uid \notin missed' =>
             child'["pvc"].owner = 0 \/ ~ child'["pvc"].exists

\* The passive steps of the cluster.
LEMMA PassiveSteps ==
  ASSUME TypeOK,
         \/ \E k \in Kinds : DeliverChild(k) \/ CollectChild(k)
         \/ \E p \in PodStates : MovePod(p)
         \/ ToggleClass
  PROVE  Passive
<1> USE DEF TypeOK
<1>1. ASSUME NEW k \in Kinds, DeliverChild(k) PROVE Passive
  BY <1>1 DEF DeliverChild, Passive, OwnerKept
<1>2. ASSUME NEW k \in Kinds, CollectChild(k) PROVE Passive
  BY <1>2 DEF CollectChild, WriteChild, Passive, OwnerKept
<1>3. ASSUME NEW p \in PodStates, MovePod(p) PROVE Passive
  <2>1. [child["statefulset"] EXCEPT !.pod = p].owner = child["statefulset"].owner
        /\ [child["statefulset"] EXCEPT !.pod = p].exists = child["statefulset"].exists
    BY DEF Kinds, Child
  <2> QED
    BY <1>3, <2>1 DEF MovePod, WriteChild, Passive, OwnerKept
<1>4. CASE ToggleClass
  BY <1>4 DEF ToggleClass, WriteNothing, UserOnly, Passive, OwnerKept
<1> QED
  BY <1>1, <1>2, <1>3, <1>4

\* A pass over the children stays among its steps, with its GameServer.
LEMMA ContinueStep ==
  ASSUME TypeOK, NEW k \in Kinds, NEW b, Continue(k, b), w.pc = k
  PROVE  /\ w.pc \in MainSteps \ {"mark"} /\ w'.pc \in MainSteps \ {"mark"}
         /\ w'.gs = w.gs
BY DEF TypeOK, Continue, After, Kinds, MainSteps

\* A call without a failure was answered.
LEMMA OutcomeClean ==
  ASSUME NEW o, Outcome(o)
  PROVE  clean' => clean /\ o = "ok"
BY DEF Outcome

\* The children of a pass.
LEMMA WorkingSteps ==
  ASSUME TypeOK,
         \/ reconcileSecret \/ DeleteExtraPVCs \/ reconcilePVC \/ reconcileService
         \/ reconcileStatefulSet
  PROVE  Working
<1> DEFINE Owners == \A k \in Kinds :
       \/ OwnerKept(k)
       \/ k = "extra" /\ child'[k] = NoChild
       \/ ~ child[k].exists /\ child'[k].exists /\ child'[k].owner = w.gs.uid
<1>1. ASSUME WriteNothing PROVE Owners /\ obj' = obj
  BY <1>1 DEF WriteNothing, OwnerKept
<1>2. ASSUME NEW k \in Kinds, NoCall(k), w.pc = k, UNCHANGED <<cobj, created, missed>>
      PROVE  Working
  BY <1>1, <1>2, ContinueStep DEF NoCall, Working
<1>3. ASSUME NEW k \in Kinds, NEW desired, NEW differs, w.pc = k,
             ReconcileChild(k, desired, differs), UNCHANGED <<cobj, created, missed>>
      PROVE  Working
  <2>1. CASE CreateChild(k, desired)
    <3> DEFINE new == [NoChild EXCEPT !.exists = TRUE, !.owner = w.gs.uid,
                                      !.body = desired]
    <3>1. PICK o \in Outcomes :
            /\ Outcome(o)
            /\ \/ ~ child[k].exists /\ WriteChild(k, new)
               \/ WriteNothing
            /\ \E b \in BOOLEAN : Continue(k, b)
      BY <2>1 DEF CreateChild
    <3>2. new.exists /\ new.owner = w.gs.uid
      BY DEF NoChild
    <3>3. obj' = obj /\ Owners
      <4>1. CASE ~ child[k].exists /\ WriteChild(k, new)
        <5> HIDE DEF new
        <5> QED
          BY <3>2, <4>1 DEF WriteChild, OwnerKept, TypeOK
      <4> QED
        BY <1>1, <3>1, <4>1
    <3> HIDE DEF new
    <3> QED
      BY <1>3, <3>1, <3>3, ContinueStep, OutcomeClean DEF Working
  <2>2. CASE UpdateChild(k, desired)
    <3> DEFINE new == [child[k] EXCEPT !.body = Updated(@, desired)]
    <3>1. PICK o \in Outcomes :
            /\ Outcome(o)
            /\ WriteChild(k, new) \/ WriteNothing
            /\ \E b \in BOOLEAN : Continue(k, b)
      BY <2>2 DEF UpdateChild
    <3>2. new.exists = child[k].exists /\ new.owner = child[k].owner
      BY DEF TypeOK, Child
    <3>3. obj' = obj /\ Owners
      <4>1. CASE WriteChild(k, new)
        <5> HIDE DEF new
        <5> QED
          BY <3>2, <4>1 DEF WriteChild, OwnerKept, TypeOK
      <4> QED
        BY <1>1, <3>1, <4>1
    <3> HIDE DEF new
    <3> QED
      BY <1>3, <3>1, <3>3, ContinueStep, OutcomeClean DEF Working
  <2>3. CASE NoCall(k)
    BY <1>2, <1>3, <2>3
  <2> QED
    BY <1>3, <2>1, <2>2, <2>3 DEF ReconcileChild
<1>4. CASE reconcileSecret
  BY <1>3, <1>4 DEF reconcileSecret, Unobserved, At, Kinds
<1>5. CASE DeleteExtraPVCs
  <2>1. w.pc = "extra" /\ UNCHANGED <<cobj, created, missed>> /\ "extra" \in Kinds
    BY <1>5 DEF DeleteExtraPVCs, Unobserved, At, Kinds
  <2>2. CASE NoCall("extra")
    BY <1>2, <2>1, <2>2
  <2>3. CASE \E o \in Outcomes :
               /\ Outcome(o)
               /\ WriteChild("extra", NoChild) \/ WriteNothing
               /\ Continue("extra", o = "ok")
    <3>1. obj' = obj /\ Owners
      BY <1>1, <2>1, <2>3 DEF WriteChild, OwnerKept, TypeOK
    <3> QED
      BY <2>1, <2>3, <3>1, ContinueStep, OutcomeClean DEF Working
  <2> QED
    BY <1>5, <2>2, <2>3 DEF DeleteExtraPVCs
<1>6. CASE reconcilePVC
  BY <1>3, <1>6 DEF reconcilePVC, Unobserved, At, Kinds
<1>7. CASE reconcileService
  BY <1>2, <1>3, <1>7 DEF reconcileService, Unobserved, At, Kinds
<1>8. CASE reconcileStatefulSet
  BY <1>3, <1>8 DEF reconcileStatefulSet, Unobserved, At, Kinds
<1> QED
  BY <1>4, <1>5, <1>6, <1>7, <1>8

\* A patch of the status, and what the worker holds afterwards.
LEMMA PatchEffect ==
  ASSUME TypeOK, NEW new \in Status, NEW o \in Outcomes, Outcome(o),
         PatchStatus(new, o), UNCHANGED <<cobj, created, missed>>
  PROVE  /\ StatusWrite
         /\ obj'.status \in {obj.status, MergePatch(w.gs.status, new)}
         /\ clean' /\ obj.uid # 0 =>
              /\ obj'.status = MergePatch(w.gs.status, new)
              /\ Answer(new, o) = obj'
         /\ \/ Answer(new, o).uid = w.gs.uid /\ Answer(new, o).spec = w.gs.spec
            \/ Answer(new, o).uid = obj.uid /\ Answer(new, o).spec = obj.spec
<1>1. w.gs \in GameServer /\ obj \in GameServer
  BY DEF TypeOK
<1>2. MergePatch(w.gs.status, new) \in Status
  BY <1>1, ObjectParts, MergeType
<1>3. /\ Patched(new).uid = obj.uid /\ Patched(new).spec = obj.spec
      /\ Patched(new).finalizer = obj.finalizer
      /\ Patched(new).deleting = obj.deleting
      /\ Patched(new).status = MergePatch(w.gs.status, new)
  BY <1>1, <1>2 DEF Patched, GameServer
<1>4. /\ child' = child /\ obj' \in {obj, Patched(new)}
      /\ obj.uid = 0 => obj' = obj
      /\ o = "ok" /\ obj.uid # 0 => obj' = Patched(new)
  BY DEF PatchStatus, WriteObject, WriteNothing
<1>5. clean' => clean /\ o = "ok"
  BY OutcomeClean
<1>6. StatusWrite
  BY <1>3, <1>4, <1>5 DEF StatusWrite
<1>7. [w.gs EXCEPT !.status = new].uid = w.gs.uid
      /\ [w.gs EXCEPT !.status = new].spec = w.gs.spec
  BY <1>1 DEF GameServer
<1>8. \/ Answer(new, o).uid = w.gs.uid /\ Answer(new, o).spec = w.gs.spec
      \/ Answer(new, o).uid = obj.uid /\ Answer(new, o).spec = obj.spec
  BY <1>3, <1>7 DEF Answer
<1>9. clean' /\ obj.uid # 0 => Answer(new, o) = obj'
  BY <1>4, <1>5 DEF Answer
<1> QED
  BY <1>3, <1>4, <1>5, <1>6, <1>8, <1>9

\* The mark at the beginning of a pass goes on with what the server answered.
LEMMA MarkingStep ==
  ASSUME TypeOK, MarkReconciling
  PROVE  Marking
<1> DEFINE new == [w.gs.status EXCEPT !.conditions.reconciling = TRUE]
<1>1. new \in Status
  <2>1. w.gs.status \in Status
    BY ObjectParts DEF TypeOK
  <2> QED
    BY <2>1 DEF Status, Conditions
<1>2. PICK o \in Outcomes :
        /\ Outcome(o) /\ PatchStatus(new, o)
        /\ w' = [gs |-> Answer(new, o),
                 pc |-> IF Answer(new, o).spec.valid
                           /\ (Answer(new, o).spec.class => class)
                        THEN "secret" ELSE "failWith"]
  BY DEF MarkReconciling
<1>3. w.pc = "mark" /\ UNCHANGED <<cobj, created, missed>>
  BY DEF MarkReconciling, At, Unobserved
<1>4. w'.gs = Answer(new, o) /\ w'.pc \in {"secret", "failWith"}
  BY <1>2
<1> HIDE DEF new
<1> QED
  BY <1>1, <1>2, <1>3, <1>4, PatchEffect DEF Marking, MainSteps

\* A patch computed from the stored status stores what it was meant to.
LEMMA PatchFromStored ==
  ASSUME NEW new \in Status, NEW base \in Status, base = obj.status
  PROVE  MergePatch(base, new) = new
<1>1. new = [phase |-> new.phase, lastError |-> new.lastError,
             conditions |-> new.conditions]
  BY DEF Status
<1> QED
  BY <1>1, MergeOf

\* Both ends of a pass write a coherent status, if the copy was the stored one.
LEMMA EndingSteps ==
  ASSUME TypeOK, SyncStatus \/ FailWith
  PROVE  Ending
<1>0. w.gs.status \in Status
  BY ObjectParts DEF TypeOK
<1>1. ASSUME NEW new \in Status, Coherent(new), NEW o \in Outcomes, Outcome(o),
             PatchStatus(new, o), UNCHANGED <<cobj, created, missed>>,
             w.pc \in MainSteps \ {"mark"}, w'.pc = "idle"
      PROVE  Ending
  <2>1. clean' /\ obj.uid # 0 => obj'.status = MergePatch(w.gs.status, new)
    BY <1>1, PatchEffect
  <2>2. StatusWrite
    BY <1>1, PatchEffect
  <2>3. w.gs.status = obj.status => MergePatch(w.gs.status, new) = new
    BY <1>0, PatchFromStored
  <2> QED
    BY <1>1, <2>1, <2>2, <2>3 DEF Ending
<1>2. CASE SyncStatus
  <2> DEFINE phase == derivePhase(w.gs.spec, cchild["statefulset"])
             new == [phase |-> phase, lastError |-> FALSE,
                     conditions |-> [ready |-> phase = "Running",
                                     reconciling |-> FALSE, stalled |-> FALSE]]
  <2>1. phase \in Phases /\ phase # "Failed"
    BY DEF derivePhase, Phases
  <2> HIDE DEF phase
  <2>2. new \in Status
    <3>1. [ready |-> phase = "Running", reconciling |-> FALSE, stalled |-> FALSE]
            \in Conditions
      BY DEF Conditions
    <3> QED
      BY <2>1, <3>1, StatusType
  <2>3. Coherent(new)
    BY <2>1 DEF Coherent
  <2>4. PICK o \in Outcomes : /\ Outcome(o) /\ PatchStatus(new, o)
                              /\ Finish(~ (o = "ok" /\ obj.uid # 0))
    BY <1>2 DEF SyncStatus, phase
  <2>5. w.pc \in MainSteps \ {"mark"} /\ w'.pc = "idle"
        /\ UNCHANGED <<cobj, created, missed>>
    BY <1>2, <2>4 DEF SyncStatus, At, MainSteps, Finish, Idle, Unobserved
  <2> HIDE DEF new
  <2> QED
    BY <1>1, <2>2, <2>3, <2>4, <2>5
<1>3. CASE FailWith
  <2> DEFINE new == [phase |-> "Failed", lastError |-> TRUE,
                     conditions |-> [ready |-> FALSE, reconciling |-> FALSE,
                                     stalled |-> TRUE]]
  <2>1. new \in Status /\ Coherent(new)
    BY DEF Status, Phases, Conditions, Coherent
  <2>2. PICK o \in Outcomes : Outcome(o) /\ PatchStatus(new, o)
    BY <1>3 DEF FailWith
  <2>3. w.pc \in MainSteps \ {"mark"} /\ w'.pc = "idle"
        /\ UNCHANGED <<cobj, created, missed>>
    BY <1>3 DEF FailWith, At, MainSteps, Finish, Idle, Unobserved
  <2> HIDE DEF new
  <2> QED
    BY <1>1, <2>1, <2>2, <2>3
<1> QED
  BY <1>2, <1>3

\* The mark of finalize writes the phase only.
LEMMA StoppingStep ==
  ASSUME TypeOK, Stopping
  PROVE  MarkStopping
<1> DEFINE new == [w.gs.status EXCEPT !.phase = "Stopping"]
<1>0. w.gs.status \in Status /\ obj.status \in Status
  BY ObjectParts DEF TypeOK
<1>1. /\ new \in Status /\ new.phase = "Stopping"
      /\ new.conditions = w.gs.status.conditions
  BY <1>0 DEF Status, Phases
<1>2. PICK o \in Outcomes : /\ Outcome(o) /\ PatchStatus(new, o)
                            /\ w' = [pc |-> "protect", gs |-> Answer(new, o)]
  BY DEF Stopping
<1>3. w.pc = "stopping" /\ UNCHANGED <<cobj, created, missed>>
      /\ w'.pc = "protect" /\ w'.gs = Answer(new, o)
  BY <1>2 DEF Stopping, At, Unobserved
<1> HIDE DEF new
<1>4. /\ MergePatch(w.gs.status, new).conditions = obj.status.conditions
      /\ MergePatch(w.gs.status, new).phase \in {obj.status.phase, "Stopping"}
  BY <1>0, <1>1, MergeOf
<1> QED
  BY <1>1, <1>2, <1>3, <1>4, PatchEffect DEF MarkStopping

\* The policy finalize goes by.
LEMMA RetainPolicy ==
  ASSUME NEW x \in Spec
  PROVE  Retains(x) <=> EffectiveDeletePolicy(x) = "Retain"
BY DEF Retains, EffectiveDeletePolicy, Spec, Policies

\* The two steps of finalize that touch the claim.
LEMMA DetachingSteps ==
  ASSUME TypeOK, RequestStorageProtection \/ DetachPVC
  PROVE  Detaching
<1>0. child["pvc"] \in Child /\ w.gs.spec \in Spec
  BY ObjectParts DEF TypeOK, Kinds
<1>1. CASE RequestStorageProtection
  <2>1. [child["pvc"] EXCEPT !.protected = TRUE].owner = child["pvc"].owner
        /\ [child["pvc"] EXCEPT !.protected = TRUE].exists = child["pvc"].exists
    BY <1>0 DEF Child
  <2>2. obj' = obj /\ \A k \in Kinds : OwnerKept(k)
    BY <1>1, <2>1 DEF RequestStorageProtection, PatchClaim, WriteChild, WriteNothing,
                      OwnerKept, TypeOK
  <2>3. w.pc = "protect" /\ w'.pc = "detach" /\ w'.gs = w.gs
    BY <1>1 DEF RequestStorageProtection, At, TypeOK
  <2> QED
    BY <1>1, <2>2, <2>3 DEF RequestStorageProtection, Unobserved, Detaching
<1>2. CASE DetachPVC
  <2>1. /\ [child["pvc"] EXCEPT !.owner = 0].owner = 0
        /\ [child["pvc"] EXCEPT !.owner = 0].exists = child["pvc"].exists
    BY <1>0 DEF Child
  <2>2. w.pc = "detach" /\ w'.pc = "removeFinalizer" /\ w'.gs = w.gs
        /\ UNCHANGED <<cobj, created>>
    BY <1>2 DEF DetachPVC, At, TypeOK, Unobserved
  <2>3. CASE ~ Retains(w.gs.spec)
    <3>1. WriteNothing /\ missed' = missed
      BY <1>0, <1>2, <2>3, RetainPolicy DEF DetachPVC
    <3> QED
      BY <2>2, <2>3, <3>1 DEF WriteNothing, Detaching, OwnerKept
  <2>4. CASE Retains(w.gs.spec) /\ ~ cchild["pvc"].exists
    <3>1. WriteNothing /\ missed' = missed \cup {w.gs.uid}
      BY <1>0, <1>2, <2>4, RetainPolicy DEF DetachPVC
    <3> QED
      BY <2>2, <3>1 DEF WriteNothing, Detaching, OwnerKept
  <2>5. CASE Retains(w.gs.spec) /\ cchild["pvc"].exists
    <3>1. PICK o \in Outcomes :
            /\ PatchClaim(o, IF cchild["pvc"].owner = w.gs.uid
                             THEN [child["pvc"] EXCEPT !.owner = 0]
                             ELSE child["pvc"])
            /\ missed' = IF o = "error" \/ cchild["pvc"].owner # w.gs.uid
                         THEN missed \cup {w.gs.uid} ELSE missed
      BY <1>0, <1>2, <2>5, RetainPolicy DEF DetachPVC
    <3>2. /\ obj' = obj
          /\ \A k \in Kinds : \/ OwnerKept(k)
                              \/ k = "pvc" /\ child'[k].exists = child[k].exists
                                           /\ child'[k].owner = 0
      BY <2>1, <3>1 DEF PatchClaim, WriteChild, WriteNothing, OwnerKept, TypeOK
    <3>3. w.gs.uid \notin missed' => child'["pvc"].owner = 0 \/ ~ child'["pvc"].exists
      <4>1. SUFFICES ASSUME o # "error", cchild["pvc"].owner = w.gs.uid
                     PROVE  child'["pvc"].owner = 0 \/ ~ child'["pvc"].exists
        BY <3>1
      <4>2. CASE child["pvc"].exists
        BY <2>1, <3>1, <4>1, <4>2 DEF PatchClaim, WriteChild, TypeOK, Kinds
      <4>3. CASE ~ child["pvc"].exists
        BY <3>1, <4>1, <4>3 DEF PatchClaim, WriteNothing
      <4> QED
        BY <4>2, <4>3
    <3> QED
      BY <2>2, <3>1, <3>2, <3>3 DEF Detaching
  <2> QED
    BY <2>3, <2>4, <2>5
<1> QED
  BY <1>1, <1>2

\* The beginning of a pass.
Loading ==
  /\ UNCHANGED <<obj, child, cobj, created, missed>> /\ w.pc = "idle"
  /\ \/ cobj.uid = 0 /\ w'.pc = "idle" /\ clean' = clean
     \/ /\ cobj.uid # 0 /\ w'.gs = cobj
        /\ w'.pc = IF ~ cobj.finalizer THEN "addFinalizer"
                   ELSE IF cobj.deleting THEN "stopping" ELSE "mark"

\* A pass that only adds the finalizer.
Adding ==
  /\ UNCHANGED <<child, cobj, created, missed>>
  /\ w.pc = "addFinalizer" /\ w'.pc = "idle"
  /\ clean' => clean
  /\ \/ obj' = obj
     \/ /\ obj.uid # 0 /\ obj'.finalizer
        /\ obj'.uid = obj.uid /\ obj'.deleting = obj.deleting
        /\ obj'.spec = obj.spec /\ obj'.status = obj.status

\* The end of finalize.
Removing ==
  /\ UNCHANGED <<child, cobj, created, missed>>
  /\ w.pc = "removeFinalizer" /\ w'.pc = "idle"
  /\ \/ obj' = obj
     \/ cobj.finalizer /\ obj.deleting /\ obj' = NoObject
     \/ /\ obj.uid # 0 /\ cobj.finalizer /\ ~ obj.deleting /\ ~ obj'.finalizer
        /\ obj'.uid = obj.uid /\ obj'.deleting = obj.deleting
        /\ obj'.spec = obj.spec /\ obj'.status = obj.status
  /\ clean' /\ cobj.uid # 0 /\ cobj.finalizer /\ obj.uid # 0 /\ obj.deleting =>
       obj' = NoObject

\* The informer catches up, or the operator restarts.
CatchingUp ==
  /\ UNCHANGED <<obj, child, created, missed>>
  /\ cobj' = obj
  /\ (w' = w /\ clean' = clean) \/ (w'.pc = "idle" /\ ~ clean')

\* The three writes of users.
Creating ==
  /\ UNCHANGED <<child, cobj, w, clean, missed>>
  /\ obj.uid = 0 /\ created' = created + 1
  /\ obj'.uid = created + 1 /\ ~ obj'.finalizer /\ ~ obj'.deleting
  /\ obj'.status = NewStatus

Editing ==
  /\ UNCHANGED <<child, cobj, w, clean, created>>
  /\ obj.uid # 0 /\ obj'.uid = obj.uid /\ obj'.finalizer = obj.finalizer
  /\ obj'.deleting = obj.deleting /\ obj'.status = obj.status
  /\ missed' = IF obj.deleting THEN missed \cup {obj.uid} ELSE missed

Deleting ==
  /\ UNCHANGED <<child, cobj, w, clean, created, missed>>
  /\ obj.uid # 0 /\ ~ obj.deleting
  /\ \/ /\ obj.finalizer /\ obj'.finalizer /\ obj'.deleting
        /\ obj'.uid = obj.uid /\ obj'.spec = obj.spec /\ obj'.status = obj.status
     \/ ~ obj.finalizer /\ obj' = NoObject

WorkerMove ==
  Loading \/ Adding \/ Marking \/ Working \/ Ending \/ MarkStopping \/ Detaching
  \/ Removing

ClusterMove == Passive \/ CatchingUp \/ Creating \/ Editing \/ Deleting

\* The steps that change the GameServer, its cached copy or the pass as a whole.
LEMMA ObjectSteps ==
  ASSUME TypeOK
  PROVE  /\ Load => Loading
         /\ AddFinalizer => Adding
         /\ RemoveFinalizer => Removing
         /\ DeliverObject \/ Restart => CatchingUp
         /\ (\E spec \in Specs : CreateObject(spec)) => Creating
         /\ (\E spec \in Specs : EditSpec(spec)) => Editing
         /\ DeleteObject => Deleting
<1>0. obj \in GameServer /\ w.gs \in GameServer
  BY DEF TypeOK
<1>1. /\ \A b \in BOOLEAN : LET o == [obj EXCEPT !.finalizer = b]
                            IN  /\ o.finalizer = b
                                /\ o.uid = obj.uid /\ o.deleting = obj.deleting
                                /\ o.spec = obj.spec /\ o.status = obj.status
      /\ \A b \in BOOLEAN : LET o == [obj EXCEPT !.deleting = b]
                            IN  /\ o.deleting = b
                                /\ o.uid = obj.uid /\ o.finalizer = obj.finalizer
                                /\ o.spec = obj.spec /\ o.status = obj.status
      /\ \A x : LET o == [obj EXCEPT !.spec = x]
                IN  /\ o.uid = obj.uid /\ o.finalizer = obj.finalizer
                    /\ o.deleting = obj.deleting /\ o.status = obj.status
  BY <1>0 DEF GameServer
<1>2. ASSUME Load PROVE Loading
  <2>1. cobj.uid = 0 => clean' = clean
    BY <1>2 DEF Load, TypeOK
  <2> QED
    BY <1>2, <2>1 DEF Load, At, WriteNothing, Unobserved, Loading, Idle
<1>3. ASSUME AddFinalizer PROVE Adding
  <2>1. clean' => clean
    BY <1>3, OutcomeClean DEF AddFinalizer
  <2> QED
    BY <1>1, <1>3, <2>1 DEF AddFinalizer, At, WriteNothing, WriteObject, Unobserved,
                           Finish, Idle, Adding
<1>4. ASSUME RemoveFinalizer PROVE Removing
  <2>1. UNCHANGED <<child, cobj, created, missed>> /\ w.pc = "removeFinalizer"
        /\ w'.pc = "idle"
    BY <1>4 DEF RemoveFinalizer, At, WriteNothing, WriteObject, Unobserved, Finish, Idle
  <2>2. CASE cobj.uid = 0
    BY <1>4, <2>1, <2>2 DEF RemoveFinalizer, WriteNothing, Removing
  <2>3. CASE cobj.uid # 0
    <3>1. PICK o \in Outcomes :
            /\ Outcome(o)
            /\ IF o # "error" /\ obj.uid # 0 /\ cobj.finalizer
               THEN WriteObject(IF obj.deleting THEN NoObject
                                ELSE [obj EXCEPT !.finalizer = FALSE])
               ELSE WriteNothing
      BY <1>4, <2>3 DEF RemoveFinalizer
    <3>2. clean' => o = "ok"
      BY <3>1, OutcomeClean
    <3> QED
      BY <1>1, <2>1, <3>1, <3>2 DEF WriteNothing, WriteObject, Removing
  <2> QED
    BY <2>2, <2>3
<1>5. ASSUME DeliverObject \/ Restart PROVE CatchingUp
  BY <1>5 DEF DeliverObject, Restart, Idle, CatchingUp
<1>6. ASSUME NEW spec \in Specs, CreateObject(spec) PROVE Creating
  BY <1>6 DEF CreateObject, WriteObject, UserOnly, NoObject, Creating
<1>7. ASSUME NEW spec \in Specs, EditSpec(spec) PROVE Editing
  BY <1>1, <1>7 DEF EditSpec, WriteObject, UserOnly, Editing
<1>8. ASSUME DeleteObject PROVE Deleting
  BY <1>1, <1>8 DEF DeleteObject, WriteObject, UserOnly, Deleting
<1> QED
  BY <1>2, <1>3, <1>4, <1>5, <1>6, <1>7, <1>8

\* Every step is one of these.
LEMMA Moves ==
  ASSUME TypeOK, Next
  PROVE  WorkerMove \/ ClusterMove
<1>1. ASSUME Worker PROVE WorkerMove
  BY <1>1, ObjectSteps, WorkingSteps, MarkingStep, EndingSteps, StoppingStep,
     DetachingSteps DEF Worker, WorkerMove
<1>2. ASSUME Cluster PROVE ClusterMove
  BY <1>2, ObjectSteps, PassiveSteps DEF Cluster, Deliver, ClusterMove
<1> QED
  BY <1>1, <1>2 DEF Next

-----------------------------------------------------------------------------
(* Every step keeps the invariant. *)

ControlInv == ObjectInv /\ CacheInv /\ AddInv /\ MainInv /\ FinalizeInv

\* What is absent is not protected, not deleting, and has reported nothing.
LEMMA NoObjectParts ==
  /\ NoObject.uid = 0 /\ ~ NoObject.finalizer /\ ~ NoObject.deleting
  /\ NoObject.status = NewStatus
BY DEF NoObject

\* Who works for whom.
LEMMA ControlStep ==
  ASSUME TypeOK, TypeOK', ControlInv, WorkerMove \/ ClusterMove
  PROVE  ControlInv'
<1>0. /\ obj.uid \in Nat /\ cobj.uid \in Nat /\ created \in Nat /\ w.gs.uid \in Nat
      /\ obj'.uid \in Nat /\ cobj'.uid \in Nat /\ created' \in Nat /\ w'.gs.uid \in Nat
  BY ObjectParts DEF TypeOK
<1> USE DEF ControlInv, ObjectInv, CacheInv, AddInv, MainInv, FinalizeInv, MainSteps,
            FinalizeSteps
<1>1. CASE Loading
  BY <1>0, <1>1 DEF Loading
<1>2. CASE Adding
  BY <1>0, <1>2 DEF Adding
<1>3. CASE Marking
  BY <1>0, <1>3 DEF Marking, StatusWrite
<1>4. CASE Working
  BY <1>0, <1>4 DEF Working
<1>5. CASE Ending
  BY <1>0, <1>5 DEF Ending, StatusWrite
<1>6. CASE MarkStopping
  BY <1>0, <1>6 DEF MarkStopping, StatusWrite
<1>7. CASE Detaching
  BY <1>0, <1>7 DEF Detaching
<1>8. CASE Removing
  BY <1>0, <1>8, NoObjectParts DEF Removing
<1>9. CASE Passive
  BY <1>0, <1>9 DEF Passive
<1>10. CASE CatchingUp
  BY <1>0, <1>10 DEF CatchingUp
<1>11. CASE Creating
  BY <1>0, <1>11, NoObjectParts DEF Creating
<1>12. CASE Editing
  BY <1>0, <1>12 DEF Editing
<1>13. CASE Deleting
  BY <1>0, <1>13, NoObjectParts DEF Deleting
<1> QED
  BY <1>1, <1>2, <1>3, <1>4, <1>5, <1>6, <1>7, <1>8, <1>9, <1>10, <1>11, <1>12, <1>13
     DEF WorkerMove, ClusterMove

\* Who owns what.
LEMMA ChildrenStep ==
  ASSUME TypeOK, TypeOK', ControlInv, ChildInv, FinalizerBeforeChildren,
         WorkerMove \/ ClusterMove
  PROVE  ChildInv' /\ FinalizerBeforeChildren'
<1>0. /\ obj.uid \in Nat /\ created \in Nat /\ obj'.uid \in Nat
      /\ \A k \in Kinds : child[k].owner \in Nat /\ child'[k].owner \in Nat
  BY ObjectParts, ChildParts DEF TypeOK
<1>1. NoChild.owner = 0
  BY DEF NoChild
<1>2. ASSUME child' = child, created' = created, obj'.uid = obj.uid,
             obj.finalizer => obj'.finalizer
      PROVE  ChildInv' /\ FinalizerBeforeChildren'
  BY <1>2 DEF ChildInv, FinalizerBeforeChildren
<1>3. ASSUME child' = child, created' = created, obj'.uid = 0
      PROVE  ChildInv' /\ FinalizerBeforeChildren'
  BY <1>3 DEF ChildInv, FinalizerBeforeChildren
<1>4. CASE Loading \/ Adding \/ Marking \/ Ending \/ MarkStopping \/ CatchingUp \/ Editing
  BY <1>2, <1>4 DEF Loading, Adding, Marking, Ending, MarkStopping, StatusWrite,
                    CatchingUp, Editing
<1>5. CASE Working
  <2>1. w.gs.uid = obj.uid /\ obj.finalizer /\ obj.uid <= created
    BY <1>0, <1>5 DEF Working, ControlInv, MainInv, ObjectInv
  <2> QED
    BY <1>0, <1>1, <1>5, <2>1 DEF Working, OwnerKept, ChildInv, FinalizerBeforeChildren
<1>6. CASE Detaching
  BY <1>0, <1>6 DEF Detaching, OwnerKept, ChildInv, FinalizerBeforeChildren
<1>7. CASE Removing
  <2>1. obj'.uid = 0 \/ (obj'.uid = obj.uid /\ (obj.finalizer => obj'.finalizer))
    BY <1>7, NoObjectParts DEF Removing, ControlInv, FinalizeInv, CacheInv, FinalizeSteps
  <2> QED
    BY <1>2, <1>3, <1>7, <2>1 DEF Removing
<1>8. CASE Passive
  BY <1>0, <1>1, <1>8 DEF Passive, OwnerKept, ChildInv, FinalizerBeforeChildren
<1>9. CASE Creating
  <2>1. child' = child /\ created' = created + 1 /\ obj'.uid = created + 1
    BY <1>9 DEF Creating
  <2>2. \A k \in Kinds : child[k].owner <= created /\ child[k].owner # created + 1
    BY <1>0 DEF ChildInv
  <2>3. ChildInv'
    BY <1>0, <2>1, <2>2 DEF ChildInv
  <2> QED
    BY <1>0, <2>1, <2>2, <2>3 DEF FinalizerBeforeChildren
<1>10. CASE Deleting
  <2>1. obj'.uid = 0 \/ (obj'.uid = obj.uid /\ obj'.finalizer)
    BY <1>10, NoObjectParts DEF Deleting
  <2> QED
    BY <1>2, <1>3, <1>10, <2>1 DEF Deleting
<1> QED
  BY <1>4, <1>5, <1>6, <1>7, <1>8, <1>9, <1>10 DEF WorkerMove, ClusterMove

\* What finalize decides by.
LEMMA SpecStep ==
  ASSUME TypeOK, TypeOK', ControlInv, SpecInv, WorkerMove \/ ClusterMove
  PROVE  SpecInv'
<1> USE DEF ControlInv, ObjectInv, CacheInv, MainInv, FinalizeInv, SpecInv, MainSteps,
            FinalizeSteps
<1>0. /\ obj.uid \in Nat /\ cobj.uid \in Nat /\ created \in Nat
      /\ obj'.uid \in Nat /\ cobj'.uid \in Nat /\ created' \in Nat
  BY ObjectParts DEF TypeOK
<1>1. CASE Loading
  BY <1>1 DEF Loading
<1>2. CASE Adding
  BY <1>2 DEF Adding
<1>3. CASE Marking \/ Ending
  BY <1>3 DEF Marking, Ending, StatusWrite
<1>4. CASE Working
  BY <1>4 DEF Working
<1>5. CASE MarkStopping
  BY <1>5 DEF MarkStopping, StatusWrite
<1>6. CASE Detaching
  BY <1>6 DEF Detaching
<1>7. CASE Removing
  BY <1>7, NoObjectParts DEF Removing
<1>8. CASE Passive
  BY <1>8 DEF Passive
<1>9. CASE CatchingUp
  BY <1>9 DEF CatchingUp
<1>10. CASE Creating
  BY <1>0, <1>10 DEF Creating
<1>11. CASE Editing
  BY <1>11 DEF Editing
<1>12. CASE Deleting
  BY <1>12, NoObjectParts DEF Deleting
<1> QED
  BY <1>1, <1>2, <1>3, <1>4, <1>5, <1>6, <1>7, <1>8, <1>9, <1>10, <1>11, <1>12
     DEF WorkerMove, ClusterMove

\* The retained volume between the detach and the end of finalize.
LEMMA DetachStep ==
  ASSUME TypeOK, TypeOK', ControlInv, ChildInv, SpecInv, DetachInv,
         WorkerMove \/ ClusterMove
  PROVE  DetachInv'
<1>0. "pvc" \in Kinds
  BY DEF Kinds
<1> SUFFICES ASSUME w'.pc = "removeFinalizer", obj'.finalizer, Retains(obj'.spec),
                    obj'.uid \notin missed'
             PROVE  child'["pvc"].owner # obj'.uid
  BY DEF DetachInv
<1> USE DEF ControlInv, ObjectInv, CacheInv, FinalizeInv, FinalizeSteps
<1>1. CASE Detaching
  <2>1. w.pc = "detach" /\ obj' = obj /\ w.gs.uid = obj.uid /\ obj.uid \notin missed
        /\ w.gs.spec = obj.spec
    BY <1>1 DEF Detaching, SpecInv
  <2>2. child'["pvc"].owner = 0 \/ ~ child'["pvc"].exists
    BY <1>1, <2>1 DEF Detaching
  <2>3. child'["pvc"].owner = 0
    BY <1>0, <1>1, <2>2 DEF Detaching, OwnerKept, ChildInv
  <2>4. obj.uid # 0
    BY <2>1, NoObjectParts
  <2> QED
    BY <2>1, <2>3, <2>4
<1>2. CASE Passive
  <2>1. child["pvc"].owner # obj.uid /\ obj' = obj
    BY <1>2 DEF Passive, DetachInv
  <2>2. obj.uid # 0
    BY <2>1, NoObjectParts
  <2> QED
    BY <1>0, <1>2, <2>1, <2>2 DEF Passive, OwnerKept, NoChild
<1>3. CASE CatchingUp
  BY <1>3 DEF CatchingUp, DetachInv
<1>4. CASE Creating
  BY <1>4 DEF Creating
<1>5. CASE Editing
  BY <1>5 DEF Editing
<1>6. CASE Deleting
  BY <1>6, NoObjectParts DEF Deleting
<1>7. ASSUME Loading \/ Adding \/ Marking \/ Working \/ Ending \/ MarkStopping \/ Removing
      PROVE  FALSE
  BY <1>7 DEF Loading, Adding, Marking, Working, Ending, MarkStopping, Removing, MainSteps
<1> QED
  BY <1>1, <1>2, <1>3, <1>4, <1>5, <1>6, <1>7 DEF WorkerMove, ClusterMove

\* A status nothing has been reported in yet tells no two stories.
LEMMA QuietStatus ==
  ASSUME NEW s \in Status, s.conditions = NewStatus.conditions,
         s.phase \in {"", "Stopping"}
  PROVE  Coherent(s)
<1>1. ~ s.conditions.ready /\ ~ s.conditions.reconciling /\ ~ s.conditions.stalled
  <2> DEFINE c == [ready |-> FALSE, reconciling |-> FALSE, stalled |-> FALSE]
  <2>1. ~ c.ready /\ ~ c.reconciling /\ ~ c.stalled
    OBVIOUS
  <2>2. s.conditions = c
    BY DEF NewStatus
  <2> HIDE DEF c
  <2> QED
    BY <2>1, <2>2, Zenon
<1>2. s.phase # "Running" /\ s.phase # "Failed"
  OBVIOUS
<1> QED
  BY <1>1, <1>2, Zenon DEF Coherent

\* What the status tells.
LEMMA StatusStep ==
  ASSUME TypeOK, TypeOK', ControlInv, StatusInv, StatusCoherent,
         WorkerMove \/ ClusterMove
  PROVE  StatusInv' /\ StatusCoherent'
<1>0. obj.status \in Status /\ obj'.status \in Status
  BY ObjectParts DEF TypeOK
<1>1. ASSUME NEW s \in Status, s.conditions = NewStatus.conditions,
             s.phase \in {"", "Stopping"}
      PROVE  Coherent(s)
  BY <1>1, QuietStatus
<1>2. /\ NoObject.uid = 0 /\ ~ NoObject.finalizer /\ ~ NoObject.deleting
      /\ NoObject.status = NewStatus
  BY NoObjectParts
<1>3. NewStatus \in Status /\ NewStatus.phase = "" /\ Coherent(NewStatus)
  BY DEF NewStatus, Status, Phases, Conditions, Coherent
<1>4. ObjectInv /\ CacheInv /\ AddInv /\ MainInv /\ FinalizeInv
  BY DEF ControlInv
<1>5. /\ obj.uid = 0 => Coherent(obj.status)
      /\ ~ obj.finalizer => Coherent(obj.status)
  BY <1>0, <1>1, <1>2, <1>3, <1>4 DEF ObjectInv, StatusInv
<1> USE DEF StatusInv, StatusCoherent, MainSteps, FinalizeSteps
<1>6. CASE Loading
  <2>1. w'.pc = "idle" /\ clean' => clean
    BY <1>6 DEF Loading
  <2> QED
    BY <1>6, <2>1 DEF Loading
<1>7. CASE Adding
  BY <1>7 DEF Adding
<1>8. CASE Marking
  BY <1>4, <1>8, <1>2 DEF Marking, StatusWrite, MainInv, ObjectInv
<1>9. CASE Working
  BY <1>9 DEF Working
<1>10. CASE Ending
  BY <1>2, <1>4, <1>10 DEF Ending, StatusWrite, MainInv, ObjectInv
<1>11. CASE MarkStopping
  <2>1. ~ obj.finalizer => Coherent(obj'.status)
    BY <1>0, <1>1, <1>3, <1>4, <1>5, <1>11 DEF MarkStopping, StatusWrite
  <2>2. obj.finalizer => cobj.uid = obj.uid /\ cobj.finalizer
    BY <1>4, <1>11 DEF FinalizeInv, CacheInv, MarkStopping
  <2> QED
    BY <1>11, <2>1, <2>2 DEF MarkStopping, StatusWrite
<1>12. CASE Detaching
  BY <1>12 DEF Detaching
<1>13. CASE Removing
  <2>1. cobj.finalizer /\ ~ obj.deleting => ~ obj.finalizer
    BY <1>4, <1>13 DEF Removing, FinalizeInv, CacheInv
  <2>2. ~ Coherent(obj.status) => /\ cobj.uid # 0 /\ cobj.finalizer /\ obj.uid # 0
                                  /\ obj.deleting
    BY <1>2, <1>4, <1>5, <1>13 DEF Removing, FinalizeInv, CacheInv
  <2> QED
    BY <1>2, <1>3, <1>5, <1>13, <2>1, <2>2 DEF Removing
<1>14. CASE Passive
  BY <1>14 DEF Passive
<1>15. CASE CatchingUp
  <2>1. clean' => clean /\ w' = w
    BY <1>15 DEF CatchingUp
  <2>2. w' = w \/ w'.pc = "idle"
    BY <1>15 DEF CatchingUp
  <2> QED
    BY <1>4, <1>5, <1>15, <2>1, <2>2 DEF CatchingUp, MainInv
<1>16. CASE Creating
  BY <1>3, <1>2, <1>4, <1>16 DEF Creating, ObjectInv, MainInv
<1>17. CASE Editing
  BY <1>17 DEF Editing
<1>18. CASE Deleting
  BY <1>2, <1>3, <1>4, <1>18 DEF Deleting, MainInv
<1> QED
  BY <1>6, <1>7, <1>8, <1>9, <1>10, <1>11, <1>12, <1>13, <1>14, <1>15, <1>16, <1>17,
     <1>18 DEF WorkerMove, ClusterMove

-----------------------------------------------------------------------------
(* The invariant, and what follows from it. *)

\* The initial states satisfy the invariant.
LEMMA ReconcilerInit == Init => ReconcilerInv
<1> SUFFICES ASSUME Init PROVE ReconcilerInv
  OBVIOUS
<1>1. TypeOK
  BY TypeInit
<1>2. /\ obj = NoObject /\ cobj = NoObject /\ w.pc = "idle" /\ created = 0
      /\ NoObject.uid = 0 /\ ~ NoObject.finalizer /\ ~ NoObject.deleting
      /\ NoObject.status = NewStatus
  BY NoObjectParts DEF Init, Idle
<1>3. \A k \in Kinds : child[k].owner = 0
  BY DEF Init, NoChild
<1>4. Coherent(NewStatus)
  BY DEF NewStatus, Coherent
<1>5. ObjectInv /\ CacheInv /\ AddInv /\ MainInv /\ FinalizeInv
  BY <1>2 DEF ObjectInv, CacheInv, AddInv, MainInv, FinalizeInv, MainSteps, FinalizeSteps
<1>6. ChildInv /\ FinalizerBeforeChildren
  BY <1>2, <1>3 DEF ChildInv, FinalizerBeforeChildren
<1>7. SpecInv /\ DetachInv
  BY <1>2 DEF SpecInv, DetachInv, FinalizeSteps
<1>8. StatusInv /\ StatusCoherent
  BY <1>2, <1>4 DEF StatusInv, StatusCoherent, MainSteps
<1> QED
  BY <1>1, <1>5, <1>6, <1>7, <1>8 DEF ReconcilerInv

\* Every step keeps the invariant.
LEMMA ReconcilerStep == ReconcilerInv /\ [Next]_vars => ReconcilerInv'
<1> SUFFICES ASSUME ReconcilerInv, [Next]_vars PROVE ReconcilerInv'
  OBVIOUS
<1>1. TypeOK /\ TypeOK'
  BY TypeStep DEF ReconcilerInv
<1>2. CASE UNCHANGED vars
  BY <1>1, <1>2
     DEF vars, ReconcilerInv, ObjectInv, CacheInv, AddInv, MainInv, FinalizeInv, ChildInv,
         FinalizerBeforeChildren, SpecInv, DetachInv, StatusInv, StatusCoherent
<1>3. CASE Next
  <2>1. WorkerMove \/ ClusterMove
    BY <1>1, <1>3, Moves
  <2>2. ControlInv
    BY DEF ReconcilerInv, ControlInv
  <2>3. ControlInv'
    BY <1>1, <2>1, <2>2, ControlStep
  <2>4. ChildInv' /\ FinalizerBeforeChildren'
    BY <1>1, <2>1, <2>2, ChildrenStep DEF ReconcilerInv
  <2>5. SpecInv' /\ DetachInv'
    BY <1>1, <2>1, <2>2, SpecStep, DetachStep DEF ReconcilerInv
  <2>6. StatusInv' /\ StatusCoherent'
    BY <1>1, <2>1, <2>2, StatusStep DEF ReconcilerInv
  <2> QED
    BY <1>1, <2>3, <2>4, <2>5, <2>6 DEF ReconcilerInv, ControlInv
<1> QED
  BY <1>2, <1>3

\* ReconcilerInv holds in every state the reconcile loop can reach.
THEOREM ReconcilerInvariant == SafetySpec => []ReconcilerInv
BY ReconcilerInit, ReconcilerStep, PTL DEF SafetySpec

\* The API objects, the caches and the worker have the shapes the code gives
\* them, whatever fails, lags or is edited.
THEOREM ReconcilerTypeOK == SafetySpec => []TypeOK
<1>1. ReconcilerInv => TypeOK
  BY DEF ReconcilerInv
<1> QED
  BY <1>1, ReconcilerInvariant, PTL

\* No child ever belongs to a GameServer without the finalizer, so no delete
\* can bypass finalize: for any lag of the caches, re-use of the name, failed
\* and unanswered calls, and restarts.
THEOREM FinalizerFirst == SafetySpec => []FinalizerBeforeChildren
<1>1. ReconcilerInv => FinalizerBeforeChildren
  BY DEF ReconcilerInv
<1> QED
  BY <1>1, ReconcilerInvariant, PTL

\* A pass without a failed call leaves phase, error and conditions coherent,
\* although SyncStatus and failWith send diffs against a copy.
THEOREM StatusAlwaysCoherent == SafetySpec => []StatusCoherent
<1>1. ReconcilerInv => StatusCoherent
  BY DEF ReconcilerInv
<1> QED
  BY <1>1, ReconcilerInvariant, PTL

\* No step takes the finalizer from a GameServer that stays: a late finalize,
\* which patches by name, never strips the next incarnation.
THEOREM FinalizersStay == SafetySpec => FinalizerOnlyLeavesWithObject
<1>1. ReconcilerInv /\ [Next]_vars =>
        [obj.uid # 0 /\ obj.finalizer /\ obj'.uid = obj.uid => obj'.finalizer]_vars
  <2> SUFFICES ASSUME ReconcilerInv, Next, obj.uid # 0, obj.finalizer,
                      obj'.uid = obj.uid
               PROVE  obj'.finalizer
    OBVIOUS
  <2>1. WorkerMove \/ ClusterMove
    BY Moves DEF ReconcilerInv
  <2>2. FinalizeInv /\ CacheInv
    BY DEF ReconcilerInv
  <2>3. CASE Removing
    BY <2>2, <2>3, NoObjectParts DEF Removing, FinalizeInv, CacheInv, FinalizeSteps
  <2>4. CASE Deleting \/ Creating \/ Editing \/ Passive \/ CatchingUp
    BY <2>4, NoObjectParts DEF Deleting, Creating, Editing, Passive, CatchingUp
  <2>5. CASE Loading \/ Adding \/ Marking \/ Working \/ Ending \/ MarkStopping \/ Detaching
    BY <2>5 DEF Loading, Adding, Marking, Working, Ending, MarkStopping, Detaching,
                StatusWrite
  <2> QED
    BY <2>1, <2>3, <2>4, <2>5 DEF WorkerMove, ClusterMove
<1> QED
  BY <1>1, ReconcilerInvariant, PTL DEF SafetySpec, FinalizerOnlyLeavesWithObject

\* What a step does to the volume of the stored incarnation.
LEMMA VolumeStep ==
  ASSUME ReconcilerInv, WorkerMove \/ ClusterMove
  PROVE  \/ OwnerKept("pvc")
         \/ child'["pvc"] = NoChild /\ child["pvc"].owner \notin {0, obj.uid}
            /\ UNCHANGED <<obj, created>>
         \/ /\ ~ child["pvc"].exists /\ child'["pvc"].exists
            /\ child'["pvc"].owner = obj.uid /\ obj.uid # 0
            /\ UNCHANGED <<obj, created>>
         \/ /\ child'["pvc"].exists = child["pvc"].exists /\ child'["pvc"].owner = 0
            /\ child["pvc"].owner = obj.uid /\ obj.uid # 0 => obj.deleting
            /\ UNCHANGED <<obj, created>>
<1>0. "pvc" \in Kinds
  BY DEF Kinds
<1>1. CASE Working
  <2>1. w.gs.uid = obj.uid /\ obj.uid # 0
    BY <1>1, NoObjectParts DEF Working, ReconcilerInv, MainInv, ObjectInv
  <2> QED
    BY <1>0, <1>1, <2>1 DEF Working
<1>2. CASE Detaching
  <2>1. child["pvc"].owner = obj.uid /\ obj.uid # 0 => obj.deleting
    BY <1>0, <1>2
       DEF Detaching, ReconcilerInv, FinalizerBeforeChildren, FinalizeInv, CacheInv,
           FinalizeSteps
  <2> QED
    BY <1>0, <1>2, <2>1 DEF Detaching
<1>3. CASE Passive
  BY <1>0, <1>3 DEF Passive
<1> QED
  BY <1>1, <1>2, <1>3
     DEF WorkerMove, ClusterMove, Loading, Adding, Marking, Ending, MarkStopping, Removing,
         CatchingUp, Creating, Editing, Deleting, StatusWrite, OwnerKept

\* No pass, whatever its cache shows and whichever incarnation it is for, takes
\* the volume of a GameServer that nobody deletes, or its owner reference.
THEOREM LiveVolumesStay == SafetySpec => LiveVolumeStaysOwned
<1>1. ReconcilerInv /\ [Next]_vars =>
        [obj.uid # 0 /\ ~ obj.deleting /\ child["pvc"].owner = obj.uid =>
           child'["pvc"].exists /\ child'["pvc"].owner = obj.uid]_vars
  <2> SUFFICES ASSUME ReconcilerInv, Next, obj.uid # 0, ~ obj.deleting,
                      child["pvc"].owner = obj.uid
               PROVE  child'["pvc"].exists /\ child'["pvc"].owner = obj.uid
    OBVIOUS
  <2>1. WorkerMove \/ ClusterMove
    BY Moves DEF ReconcilerInv
  <2>2. child["pvc"].exists
    BY DEF ReconcilerInv, ChildInv, Kinds
  <2> QED
    BY <2>1, <2>2, VolumeStep DEF OwnerKept
<1> QED
  BY <1>1, ReconcilerInvariant, PTL DEF SafetySpec, LiveVolumeStaysOwned

\* A GameServer that goes under Retain has let go of its volume, unless the
\* detach of finalize missed it or the spec was edited during the deletion.
THEOREM RetainedVolumes == SafetySpec => RetainedUnlessMissed
<1>1. ReconcilerInv /\ [Next]_vars =>
        [Leaves /\ Retains(obj.spec) /\ obj.uid \notin missed =>
           child["pvc"].owner # obj.uid]_vars
  <2> SUFFICES ASSUME ReconcilerInv, Next, Leaves, Retains(obj.spec),
                      obj.uid \notin missed
               PROVE  child["pvc"].owner # obj.uid
    OBVIOUS
  <2>1. WorkerMove \/ ClusterMove
    BY Moves DEF ReconcilerInv
  <2>2. CASE Removing
    BY <2>2 DEF Removing, Leaves, ReconcilerInv, ObjectInv, DetachInv
  <2>3. CASE Deleting
    BY <2>3 DEF Deleting, Leaves, ReconcilerInv, FinalizerBeforeChildren, Kinds
  <2> QED
    BY <2>1, <2>2, <2>3
       DEF Leaves, WorkerMove, ClusterMove, Loading, Adding, Marking, Working, Ending,
           MarkStopping, Detaching, Passive, CatchingUp, Creating, Editing, StatusWrite
<1> QED
  BY <1>1, ReconcilerInvariant, PTL DEF SafetySpec, RetainedUnlessMissed

-----------------------------------------------------------------------------
(* No change to a child is lost. *)

\* The steps of a pass at which it has dealt with a child.
DoneAt(k) ==
  CASE k = "secret" -> {"extra", "pvc", "service", "statefulset", "syncStatus"}
    [] k = "extra" -> {"pvc", "service", "statefulset", "syncStatus"}
    [] k = "pvc" -> {"service", "statefulset", "syncStatus"}
    [] k = "service" -> {"statefulset", "syncStatus"}
    [] k = "statefulset" -> {"syncStatus"}

\* An informer that does not lag shows what is stored.
FreshAt(k) == k \notin lag => cchild[k] = child[k]

\* A child that was seen without an owner is still there, without an owner.
KeptAt(k) ==
  k # "extra" /\ cchild[k].exists /\ cchild[k].owner = 0 =>
    child[k].exists /\ child[k].owner = 0

\* What a pass has dealt with: the informer has a change to deliver that will
\* queue the name, or there is nothing to be done.
Settled(k) ==
  IF k \in lag THEN cchild[k].exists \/ child[k].owner = w.gs.uid
  ELSE child[k].exists /\ InSync(k, child[k].body, Desired(k, w.gs.spec))

PassAt(k) ==
  w.pc \in DoneAt(k) /\ Wanted(k, w.gs.spec) =>
    \/ dirty
    \/ child[k].exists /\ child[k].owner = 0
    \/ Settled(k)

WatchInv == \A k \in Kinds : FreshAt(k) /\ KeptAt(k) /\ PassAt(k)

\* The pass is where it was, or is not past the child.
Later(k) ==
  w'.pc \in DoneAt(k) => w.pc \in DoneAt(k) /\ w'.gs = w.gs /\ (dirty => dirty')

\* A step that does not touch the child.
Aside(k) ==
  /\ child'[k] = child[k] /\ cchild'[k] = cchild[k] /\ (k \in lag' <=> k \in lag)
  /\ Later(k)

\* A write of the child that the pass does not count as its own.
Moved(k) ==
  /\ cchild'[k] = cchild[k] /\ k \in lag'
  /\ Later(k)
  /\ \/ OwnerKept(k)
     \/ w' = w /\ child'[k] = NoChild /\ child[k].owner \notin {0, obj.uid}
     \/ w'.pc \notin DoneAt(k) /\ (child[k].exists => child'[k].exists /\ child'[k].owner = 0)

\* The informer of the child catches up.
Told(k) ==
  /\ child'[k] = child[k] /\ cchild'[k] = child[k] /\ k \notin lag'
  /\ \/ w'.pc \notin DoneAt(k)
     \/ /\ w' = w /\ k \in lag
        /\ dirty' = (dirty \/ cchild[k].owner # 0 \/ child[k].owner # 0)

\* The pass has dealt with the child.
Passed(k) ==
  /\ cchild'[k] = cchild[k] /\ w'.gs = w.gs
  /\ \/ /\ ~ child[k].exists /\ child'[k].exists /\ child'[k].owner = w.gs.uid
        /\ k \in lag'
     \/ /\ cchild[k].exists /\ k \notin lag /\ OwnerKept(k)
        /\ InSync(k, child'[k].body, Desired(k, w.gs.spec))
        /\ k \notin lag' => child'[k] = child[k]
     \/ /\ child'[k] = child[k] /\ (k \in lag' <=> k \in lag)
        /\ cchild[k].exists /\ InSync(k, cchild[k].body, Desired(k, w.gs.spec))
     \/ /\ child'[k] = child[k] /\ (k \in lag' <=> k \in lag)
        /\ ~ Wanted(k, w.gs.spec)
     \/ k = "extra" /\ k \in lag'

WatchMove(k) == Aside(k) \/ Moved(k) \/ Told(k) \/ Passed(k)

\* Each of these keeps the invariant.
LEMMA WatchMoveKeeps ==
  ASSUME ReconcilerInv, NEW k \in Kinds, FreshAt(k), KeptAt(k), PassAt(k), WatchMove(k)
  PROVE  FreshAt(k)' /\ KeptAt(k)' /\ PassAt(k)'
<1>0. /\ child[k].exists \in BOOLEAN /\ cchild[k].exists \in BOOLEAN
      /\ child[k].owner \in Nat /\ cchild[k].owner \in Nat /\ dirty \in BOOLEAN
  BY ChildParts DEF ReconcilerInv, TypeOK
<1>1. w.pc \in DoneAt(k) => w.gs.uid = obj.uid /\ obj.uid # 0
  BY NoObjectParts DEF ReconcilerInv, MainInv, ObjectInv, DoneAt, Kinds, MainSteps
<1>2. CASE Aside(k)
  <2>1. FreshAt(k)' /\ KeptAt(k)'
    BY <1>2 DEF Aside, FreshAt, KeptAt
  <2>2. PassAt(k)'
    BY <1>2 DEF Aside, Later, PassAt, Settled
  <2> QED
    BY <2>1, <2>2
<1>3. CASE Moved(k)
  <2>1. FreshAt(k)'
    BY <1>3 DEF Moved, FreshAt
  <2>2. KeptAt(k)'
    BY <1>3, <1>0 DEF Moved, KeptAt, OwnerKept
  <2>3. PassAt(k)'
    BY <1>3, <1>0, <1>1 DEF Moved, Later, PassAt, Settled, FreshAt, OwnerKept, Wanted
  <2> QED
    BY <2>1, <2>2, <2>3
<1>4. CASE Told(k)
  <2>1. FreshAt(k)' /\ KeptAt(k)'
    BY <1>4 DEF Told, FreshAt, KeptAt
  <2>2. PassAt(k)'
    BY <1>4, <1>0, <1>1 DEF Told, PassAt, Settled, KeptAt, Wanted
  <2> QED
    BY <2>1, <2>2
<1>5. CASE Passed(k)
  <2>1. FreshAt(k)'
    BY <1>5 DEF Passed, FreshAt
  <2>2. KeptAt(k)'
    BY <1>5, <1>0 DEF Passed, KeptAt, OwnerKept
  <2>3. PassAt(k)'
    BY <1>5, <1>0 DEF Passed, PassAt, Settled, FreshAt, OwnerKept, Wanted
  <2> QED
    BY <2>1, <2>2, <2>3
<1> QED
  BY <1>2, <1>3, <1>4, <1>5 DEF WatchMove

\* Nothing is behind a step outside the pass over the children.
LEMMA NotDone ==
  ASSUME NEW k \in Kinds
  PROVE  /\ \A p \in {"idle", "addFinalizer", "mark", "secret", "failWith", "stopping",
                      "protect", "detach", "removeFinalizer"} : p \notin DoneAt(k)
         /\ k \notin DoneAt(k) /\ After[k] \in DoneAt(k)
         /\ \A j \in Kinds : After[j] \in DoneAt(k) => j = k \/ j \in DoneAt(k)
BY DEF Kinds, DoneAt, After

\* A write of the GameServer, or none, does not touch a child.
LEMMA NoChildWrite ==
  ASSUME TypeOK, NEW k \in Kinds,
         WriteNothing \/ \E o : WriteObject(o)
  PROVE  child'[k] = child[k] /\ (k \in lag' <=> k \in lag)
BY DEF TypeOK, WriteNothing, WriteObject, Kinds

\* A write of a child does not touch another one, and its informer lags unless
\* nothing changed.
LEMMA OneChildWrite ==
  ASSUME TypeOK, NEW k \in Kinds, NEW j \in Kinds, NEW c, WriteChild(j, c)
  PROVE  /\ k # j => child'[k] = child[k] /\ (k \in lag' <=> k \in lag)
         /\ child'[j] = c
         /\ \/ j \in lag'
            \/ c = child[j] /\ (j \in lag' <=> j \in lag)
BY DEF TypeOK, WriteChild

\* A patch of the status does not touch a child.
LEMMA PatchAside ==
  ASSUME TypeOK, NEW k \in Kinds, NEW new, NEW o, PatchStatus(new, o)
  PROVE  child'[k] = child[k] /\ (k \in lag' <=> k \in lag)
BY NoChildWrite DEF PatchStatus

\* The steps of the worker outside its pass over the children.
LEMMA OutsideMoves ==
  ASSUME TypeOK, NEW k \in Kinds,
         \/ Load \/ AddFinalizer \/ MarkReconciling \/ SyncStatus \/ FailWith
         \/ Stopping \/ RemoveFinalizer
  PROVE  Aside(k)
<1>1. cchild'[k] = cchild[k]
  BY DEF Load, AddFinalizer, MarkReconciling, SyncStatus, FailWith, Stopping,
         RemoveFinalizer, Unobserved
<1>2. child'[k] = child[k] /\ (k \in lag' <=> k \in lag)
  BY NoChildWrite, PatchAside
     DEF Load, AddFinalizer, MarkReconciling, SyncStatus, FailWith, Stopping,
         RemoveFinalizer
<1>3. w'.pc \notin DoneAt(k)
  <2>1. w'.pc \in {"idle", "addFinalizer", "mark", "secret", "failWith", "stopping",
                   "protect"}
    BY DEF Load, AddFinalizer, MarkReconciling, SyncStatus, FailWith, Stopping,
           RemoveFinalizer, Finish, Idle
  <2> QED
    BY <2>1, NotDone
<1> QED
  BY <1>1, <1>2, <1>3 DEF Aside, Later

\* The steps of finalize that patch the claim.
LEMMA ClaimMoves ==
  ASSUME TypeOK, NEW k \in Kinds, RequestStorageProtection \/ DetachPVC
  PROVE  WatchMove(k)
<1>1. cchild'[k] = cchild[k]
  BY DEF RequestStorageProtection, DetachPVC, Unobserved
<1>2. w'.pc \notin DoneAt(k)
  BY NotDone DEF RequestStorageProtection, DetachPVC, TypeOK
<1>3. CASE WriteNothing
  BY <1>1, <1>2, <1>3, NoChildWrite DEF WatchMove, Aside, Later
<1>4. ASSUME NEW c, WriteChild("pvc", c), child["pvc"].exists,
             c.exists = child["pvc"].exists, c.owner \in {child["pvc"].owner, 0}
      PROVE  WatchMove(k)
  <2>0. "pvc" \in Kinds
    BY DEF Kinds
  <2>1. CASE k # "pvc"
    BY <1>1, <1>2, <1>4, <2>0, <2>1, OneChildWrite DEF WatchMove, Aside, Later
  <2>2. CASE k = "pvc"
    BY <1>1, <1>2, <1>4, <2>0, <2>2, OneChildWrite
       DEF WatchMove, Aside, Moved, Later, OwnerKept
  <2> QED
    BY <2>1, <2>2
<1>5. child["pvc"] \in Child
  BY DEF TypeOK, Kinds
<1>6. /\ \A b : [child["pvc"] EXCEPT !.protected = b].exists = child["pvc"].exists
      /\ \A b : [child["pvc"] EXCEPT !.protected = b].owner = child["pvc"].owner
      /\ [child["pvc"] EXCEPT !.owner = 0].exists = child["pvc"].exists
      /\ [child["pvc"] EXCEPT !.owner = 0].owner = 0
  BY <1>5 DEF Child
<1>7. CASE RequestStorageProtection
  BY <1>3, <1>4, <1>6, <1>7 DEF RequestStorageProtection, PatchClaim
<1>8. CASE DetachPVC
  BY <1>3, <1>4, <1>6, <1>8 DEF DetachPVC, PatchClaim
<1> QED
  BY <1>7, <1>8

\* The steps of the cluster.
LEMMA ClusterMoves ==
  ASSUME TypeOK, ChildInv, NEW k \in Kinds, Cluster
  PROVE  WatchMove(k)
<1>1. CASE DeliverObject
  BY <1>1 DEF DeliverObject, WatchMove, Aside, Later, Kinds
<1>2. ASSUME NEW j \in Kinds, DeliverChild(j) PROVE WatchMove(k)
  <2>1. CASE j # k
    BY <1>2, <2>1 DEF DeliverChild, WatchMove, Aside, Later, TypeOK
  <2>2. CASE j = k
    BY <1>2, <2>2 DEF DeliverChild, WatchMove, Told, TypeOK
  <2> QED
    BY <2>1, <2>2
<1>3. CASE Restart
  BY <1>3, NotDone DEF Restart, WatchMove, Told, Idle
<1>4. ASSUME NEW j \in Kinds, CollectChild(j) PROVE WatchMove(k)
  <2>1. child[j].owner # 0 /\ NoChild.owner = 0
    BY <1>4 DEF CollectChild, NoChild
  <2>2. CASE j # k
    BY <1>4, <2>2, OneChildWrite DEF CollectChild, WatchMove, Aside, Later
  <2>3. CASE j = k
    BY <1>4, <2>1, <2>3, OneChildWrite DEF CollectChild, WatchMove, Moved, Later
  <2> QED
    BY <2>2, <2>3
<1>5. ASSUME NEW p \in PodStates, MovePod(p) PROVE WatchMove(k)
  <2> DEFINE new == [child["statefulset"] EXCEPT !.pod = p]
  <2>0. "statefulset" \in Kinds
    BY DEF Kinds
  <2>1. new.owner = child["statefulset"].owner /\ new.exists = child["statefulset"].exists
    BY <2>0 DEF TypeOK, Child
  <2>2. WriteChild("statefulset", new)
    BY <1>5 DEF MovePod
  <2> HIDE DEF new
  <2>3. UNCHANGED <<cchild, w, dirty>>
    BY <1>5 DEF MovePod
  <2>4. CASE k # "statefulset"
    BY <2>0, <2>2, <2>3, <2>4, OneChildWrite DEF WatchMove, Aside, Later
  <2>5. CASE k = "statefulset"
    BY <2>0, <2>1, <2>2, <2>3, <2>5, OneChildWrite
       DEF WatchMove, Aside, Moved, Later, OwnerKept
  <2> QED
    BY <2>4, <2>5
<1>6. CASE \/ \E spec \in Specs : CreateObject(spec) \/ EditSpec(spec)
           \/ ToggleClass \/ DeleteObject
  <2>1. UNCHANGED <<cchild, w, dirty>>
    BY <1>6 DEF CreateObject, EditSpec, ToggleClass, DeleteObject, UserOnly
  <2>2. WriteNothing \/ \E o : WriteObject(o)
    BY <1>6 DEF CreateObject, EditSpec, ToggleClass, DeleteObject
  <2> QED
    BY <2>1, <2>2, NoChildWrite DEF WatchMove, Aside, Later
<1> QED
  BY <1>1, <1>2, <1>3, <1>4, <1>5, <1>6 DEF Cluster, Deliver

\* A pass goes on to the next child, or fails.
LEMMA ContinueMoves ==
  ASSUME TypeOK, NEW k \in Kinds, NEW j \in Kinds, w.pc = j, NEW b \in BOOLEAN,
         Continue(j, b), UNCHANGED <<dirty, cchild>>
  PROVE  /\ w'.gs = w.gs /\ cchild'[k] = cchild[k]
         /\ k # j => Later(k)
         /\ ~ b => w'.pc \notin DoneAt(k)
<1>1. w'.gs = w.gs /\ w'.pc = IF b THEN After[j] ELSE "failWith"
  BY DEF Continue, TypeOK
<1>2. ~ b => w'.pc \notin DoneAt(k)
  BY <1>1, NotDone
<1>3. k # j => Later(k)
  BY <1>1, <1>2, NotDone DEF Later
<1> QED
  BY <1>1, <1>2, <1>3

\* A child that needs no call.
LEMMA NoCallMoves ==
  ASSUME TypeOK, NEW k \in Kinds, NEW j \in Kinds, w.pc = j,
         NoCall(j), UNCHANGED <<dirty, cchild>>,
         \/ cchild[j].exists /\ InSync(j, cchild[j].body, Desired(j, w.gs.spec))
         \/ ~ Wanted(j, w.gs.spec)
  PROVE  WatchMove(k)
<1>1. child'[k] = child[k] /\ (k \in lag' <=> k \in lag)
  BY NoChildWrite DEF NoCall
<1>2. w'.gs = w.gs /\ cchild'[k] = cchild[k] /\ (k # j => Later(k))
  BY ContinueMoves DEF NoCall
<1> QED
  BY <1>1, <1>2 DEF WatchMove, Aside, Passed

\* A child that is created.
LEMMA CreateMoves ==
  ASSUME TypeOK, NEW k \in Kinds, NEW j \in Kinds, w.pc = j, NEW desired,
         CreateChild(j, desired), UNCHANGED <<dirty, cchild>>
  PROVE  WatchMove(k)
<1> DEFINE new == [NoChild EXCEPT !.exists = TRUE, !.owner = w.gs.uid, !.body = desired]
<1>1. PICK o \in Outcomes :
        LET admitted == o # "error" /\ ~ child[j].exists
        IN  /\ IF admitted THEN WriteChild(j, new) ELSE WriteNothing
            /\ Continue(j, admitted /\ o = "ok")
  BY DEF CreateChild
<1>2. new.exists = TRUE /\ new.owner = w.gs.uid
  BY DEF NoChild
<1> HIDE DEF new
<1>3. CASE o # "error" /\ ~ child[j].exists
  <2>1. WriteChild(j, new) /\ \E b \in BOOLEAN : Continue(j, b)
    BY <1>1, <1>3
  <2>2. /\ w'.gs = w.gs /\ cchild'[k] = cchild[k]
        /\ k # j => Later(k)
    BY <2>1, ContinueMoves
  <2>3. new # child[j]
    BY <1>2, <1>3
  <2>4. CASE k # j
    BY <2>1, <2>2, <2>4, OneChildWrite DEF WatchMove, Aside
  <2>5. CASE k = j
    BY <1>2, <1>3, <2>1, <2>2, <2>3, <2>5, OneChildWrite DEF WatchMove, Passed
  <2> QED
    BY <2>4, <2>5
<1>4. CASE ~ (o # "error" /\ ~ child[j].exists)
  <2>1. WriteNothing /\ Continue(j, FALSE)
    BY <1>1, <1>4
  <2>2. cchild'[k] = cchild[k] /\ w'.pc \notin DoneAt(k)
    BY <2>1, ContinueMoves
  <2> QED
    BY <2>1, <2>2, NoChildWrite DEF WatchMove, Aside, Later
<1> QED
  BY <1>3, <1>4

\* A child that is updated.
LEMMA UpdateMoves ==
  ASSUME TypeOK, NEW k \in Kinds, NEW j \in Kinds, w.pc = j, cchild[j].exists,
         UpdateChild(j, Desired(j, w.gs.spec)), UNCHANGED <<dirty, cchild>>
  PROVE  WatchMove(k)
<1> DEFINE desired == Desired(j, w.gs.spec)
           new == [child[j] EXCEPT !.body = Updated(@, desired)]
<1>1. PICK o \in Outcomes :
        LET admitted == o # "error" /\ j \notin lag
        IN  /\ IF admitted THEN WriteChild(j, new) ELSE WriteNothing
            /\ Continue(j, admitted /\ o = "ok")
  BY DEF UpdateChild
<1>2. /\ new.exists = child[j].exists /\ new.owner = child[j].owner
      /\ InSync(j, new.body, desired)
  <2>1. child[j] \in Child /\ child[j].body \in Bodies
    BY ChildParts DEF TypeOK
  <2>2. desired \in Bodies
    BY ObjectParts, DesiredType DEF TypeOK
  <2>3. InSync(j, Updated(child[j].body, desired), desired)
    BY <2>1, <2>2, UpdatedBody
  <2> HIDE DEF desired
  <2>4. new.body = Updated(child[j].body, desired)
    BY <2>1 DEF Child
  <2> QED
    BY <2>1, <2>3, <2>4 DEF Child
<1> HIDE DEF new, desired
<1>3. CASE o # "error" /\ j \notin lag
  <2>1. WriteChild(j, new) /\ \E b \in BOOLEAN : Continue(j, b)
    BY <1>1, <1>3
  <2>2. /\ w'.gs = w.gs /\ cchild'[k] = cchild[k]
        /\ k # j => Later(k)
    BY <2>1, ContinueMoves
  <2>3. CASE k # j
    BY <2>1, <2>2, <2>3, OneChildWrite DEF WatchMove, Aside
  <2>4. CASE k = j
    BY <1>2, <1>3, <2>1, <2>2, <2>4, OneChildWrite
       DEF WatchMove, Passed, OwnerKept, desired
  <2> QED
    BY <2>3, <2>4
<1>4. CASE ~ (o # "error" /\ j \notin lag)
  <2>1. WriteNothing /\ Continue(j, FALSE)
    BY <1>1, <1>4
  <2>2. cchild'[k] = cchild[k] /\ w'.pc \notin DoneAt(k)
    BY <2>1, ContinueMoves
  <2> QED
    BY <2>1, <2>2, NoChildWrite DEF WatchMove, Aside, Later
<1> QED
  BY <1>3, <1>4

\* The pass over the children.
LEMMA ChildMoves ==
  ASSUME TypeOK, NEW k \in Kinds,
         \/ reconcileSecret \/ DeleteExtraPVCs \/ reconcilePVC
         \/ reconcileService \/ reconcileStatefulSet
  PROVE  WatchMove(k)
<1>0. UNCHANGED <<dirty, cchild>>
  BY DEF reconcileSecret, DeleteExtraPVCs, reconcilePVC, reconcileService,
         reconcileStatefulSet, Unobserved
<1>1. ASSUME NEW j \in Kinds, w.pc = j, NEW differs,
             ~ differs => InSync(j, cchild[j].body, Desired(j, w.gs.spec)),
             ReconcileChild(j, Desired(j, w.gs.spec), differs)
      PROVE  WatchMove(k)
  BY <1>0, <1>1, NoCallMoves, CreateMoves, UpdateMoves DEF ReconcileChild
<1>2. CASE reconcileSecret
  <2>1. Desired("secret", w.gs.spec) = Secret(w.gs.spec) /\ "secret" \in Kinds
    BY DEF Desired, Secret, Kinds
  <2> QED
    BY <1>1, <1>2, <2>1 DEF reconcileSecret, At
<1>3. CASE reconcilePVC
  <2>1. Desired("pvc", w.gs.spec) = PVC(w.gs.spec) /\ "pvc" \in Kinds
    BY DEF Desired, PVC, Kinds
  <2> QED
    BY <1>1, <1>3, <2>1 DEF reconcilePVC, At
<1>4. CASE reconcileService
  <2>1. Desired("service", w.gs.spec) = Service(w.gs.spec) /\ "service" \in Kinds
    BY DEF Desired, Service, Kinds
  <2>2. CASE NeedsService(w.gs.spec)
    BY <1>1, <1>4, <2>1, <2>2 DEF reconcileService, At
  <2>3. CASE ~ NeedsService(w.gs.spec)
    <3>1. ~ Wanted("service", w.gs.spec)
      BY <2>3 DEF Wanted
    <3>2. NoCall("service") /\ w.pc = "service"
      BY <1>4, <2>3 DEF reconcileService, At
    <3> QED
      BY <1>0, <2>1, <3>1, <3>2, NoCallMoves
  <2> QED
    BY <2>2, <2>3
<1>5. CASE reconcileStatefulSet
  <2>1. Desired("statefulset", w.gs.spec) = StatefulSet(w.gs.spec)
        /\ "statefulset" \in Kinds
    BY DEF Desired, Kinds
  <2> QED
    BY <1>1, <1>5, <2>1 DEF reconcileStatefulSet, At
<1>6. CASE DeleteExtraPVCs
  <2>0. w.pc = "extra" /\ "extra" \in Kinds /\ ~ Wanted("extra", w.gs.spec)
    BY <1>6 DEF DeleteExtraPVCs, At, Kinds, Wanted
  <2>1. CASE NoCall("extra")
    BY <1>0, <2>0, <2>1, NoCallMoves
  <2>2. CASE /\ WriteChild("extra", NoChild) \/ WriteNothing
             /\ \E b \in BOOLEAN : Continue("extra", b)
    <3>1. /\ w'.gs = w.gs /\ cchild'[k] = cchild[k]
          /\ k # "extra" => Later(k)
      BY <1>0, <2>0, <2>2, ContinueMoves
    <3>2. CASE k # "extra"
      BY <2>0, <2>2, <3>1, <3>2, OneChildWrite, NoChildWrite DEF WatchMove, Aside
    <3>3. CASE k = "extra" /\ child'[k] = child[k] /\ (k \in lag' <=> k \in lag)
      BY <2>0, <3>1, <3>3 DEF WatchMove, Passed
    <3>4. CASE k = "extra" /\ k \in lag'
      BY <3>1, <3>4 DEF WatchMove, Passed
    <3> QED
      BY <2>0, <2>2, <3>2, <3>3, <3>4, OneChildWrite, NoChildWrite
  <2> QED
    BY <1>6, <2>1, <2>2 DEF DeleteExtraPVCs
<1> QED
  BY <1>2, <1>3, <1>4, <1>5, <1>6

\* Initially the caches are fresh.
LEMMA WatchInit == Init => WatchInv
<1> SUFFICES ASSUME Init, NEW k \in Kinds PROVE FreshAt(k) /\ KeptAt(k) /\ PassAt(k)
  BY DEF WatchInv
<1>1. cchild[k] = child[k] /\ w.pc = "idle"
  BY DEF Init, Idle
<1> QED
  BY <1>1, NotDone DEF FreshAt, KeptAt, PassAt

\* Every step keeps the invariant.
LEMMA WatchStep == ReconcilerInv /\ WatchInv /\ [Next]_vars => WatchInv'
<1> SUFFICES ASSUME ReconcilerInv, WatchInv, [Next]_vars, NEW k \in Kinds
             PROVE  FreshAt(k)' /\ KeptAt(k)' /\ PassAt(k)'
  BY DEF WatchInv
<1>1. FreshAt(k) /\ KeptAt(k) /\ PassAt(k)
  BY DEF WatchInv
<1>2. TypeOK /\ ChildInv
  BY DEF ReconcilerInv
<1>3. CASE UNCHANGED vars
  BY <1>1, <1>3 DEF vars, FreshAt, KeptAt, PassAt, Settled
<1>4. ASSUME Next PROVE WatchMove(k)
  <2>1. CASE Worker
    <3>1. Aside(k) => WatchMove(k)
      BY DEF WatchMove
    <3> QED
      BY <1>2, <2>1, <3>1, OutsideMoves, ChildMoves, ClaimMoves DEF Worker
  <2> QED
    BY <1>2, <1>4, <2>1, ClusterMoves DEF Next
<1> QED
  BY <1>1, <1>3, <1>4, WatchMoveKeeps

\* When a pass has dealt with every child, each is as rendered in what the code
\* compares, or its informer or the queue will bring the name back; except a
\* child that is not owned.
THEOREM ChangesNotLost == SafetySpec => []NoChangeLost
<1>1. WatchInv => NoChangeLost
  <2> SUFFICES ASSUME WatchInv, w.pc = "syncStatus", NEW k \in Kinds,
                      Wanted(k, w.gs.spec)
               PROVE  \/ child[k].exists /\ InSync(k, child[k].body, Desired(k, w.gs.spec))
                      \/ k \in lag \/ dirty
                      \/ child[k].exists /\ child[k].owner = 0
    BY DEF NoChangeLost, UpToDate
  <2>1. "syncStatus" \in DoneAt(k)
    BY DEF DoneAt, Kinds
  <2> QED
    BY <2>1 DEF WatchInv, PassAt, Settled
<1> QED
  BY <1>1, ReconcilerInvariant, WatchInit, WatchStep, PTL DEF SafetySpec

-----------------------------------------------------------------------------
(* The reconcile loop implements the lifecycle. *)

\* The initial states map to initial states.
LEMMA LifecycleInit == Init => Lifecycle!Init
<1> SUFFICES ASSUME Init PROVE Lifecycle!Init
  OBVIOUS
<1>1. child["pvc"].exists = FALSE /\ child["pvc"].owner = 0
  BY DEF Init, NoChild, Kinds
<1>2. obj.uid = 0 /\ obj.deleting = FALSE /\ created = 0
  BY DEF Init, NoObject
<1> QED
  BY <1>1, <1>2 DEF Lifecycle!Init, Lifecycle!NoServer, Lifecycle!NoVolume

\* Every step maps to a step of the lifecycle or to none.
LEMMA LifecycleStep ==
  ASSUME ReconcilerInv, ReconcilerInv', [Next]_vars
  PROVE  [Lifecycle!Next]_(Lifecycle!vars)
<1> DEFINE Server == [uid |-> obj.uid, deleting |-> obj.deleting]
           Volume == [exists |-> child["pvc"].exists, owner |-> child["pvc"].owner]
<1>0. /\ child["pvc"].exists \in BOOLEAN /\ child["pvc"].owner \in Nat
      /\ child'["pvc"].exists \in BOOLEAN /\ child'["pvc"].owner \in Nat
      /\ obj.deleting \in BOOLEAN /\ obj'.deleting \in BOOLEAN /\ obj.uid \in Nat
  BY ChildParts, ObjectParts DEF ReconcilerInv, TypeOK, Kinds
<1>1. ASSUME obj'.uid = obj.uid, obj'.deleting = obj.deleting PROVE Server' = Server
  BY <1>1
<1>2. ASSUME OwnerKept("pvc") PROVE Volume' = Volume
  BY <1>2 DEF OwnerKept
<1>3. ASSUME Server' = Server, Volume' = Volume, created' = created
      PROVE  UNCHANGED Lifecycle!vars
  BY <1>3 DEF Lifecycle!vars
<1>4. CASE UNCHANGED vars
  BY <1>3, <1>4 DEF vars
<1>5. CASE Next
  <2>1. WorkerMove \/ ClusterMove
    BY <1>5, Moves DEF ReconcilerInv
  <2>2. CASE UNCHANGED <<obj, created>> /\ ~ OwnerKept("pvc")
    <3>1. Server' = Server
      BY <2>2
    <3>2. CASE child'["pvc"] = NoChild /\ child["pvc"].owner \notin {0, obj.uid}
      <4>1. child["pvc"].exists
        BY <3>2 DEF ReconcilerInv, ChildInv, Kinds
      <4>2. Volume' = Lifecycle!NoVolume
        BY <3>2 DEF NoChild, Lifecycle!NoVolume
      <4>3. Lifecycle!Collect
        BY <2>2, <3>1, <3>2, <4>1, <4>2 DEF Lifecycle!Collect
      <4> QED
        BY <4>3 DEF Lifecycle!Next
    <3>3. CASE /\ ~ child["pvc"].exists /\ child'["pvc"].exists
               /\ child'["pvc"].owner = obj.uid /\ obj.uid # 0
      <4>1. Volume' = [exists |-> TRUE, owner |-> obj.uid]
        BY <1>0, <3>3
      <4>2. Lifecycle!Provision
        BY <2>2, <3>1, <3>3, <4>1 DEF Lifecycle!Provision
      <4> QED
        BY <4>2 DEF Lifecycle!Next
    <3>4. CASE /\ child'["pvc"].exists = child["pvc"].exists /\ child'["pvc"].owner = 0
               /\ child["pvc"].owner = obj.uid /\ obj.uid # 0 => obj.deleting
      <4>1. child["pvc"].owner # 0 /\ child["pvc"].exists
        BY <2>2, <3>4 DEF OwnerKept, ReconcilerInv, ChildInv, Kinds
      <4>2. Volume' = [Volume EXCEPT !.owner = 0]
        BY <3>4
      <4>3. Lifecycle!Release
        BY <2>2, <3>1, <3>4, <4>1, <4>2 DEF Lifecycle!Release
      <4> QED
        BY <4>3 DEF Lifecycle!Next
    <3> QED
      BY <2>1, <2>2, <3>2, <3>3, <3>4, VolumeStep
  <2>3. CASE UNCHANGED <<obj, created>> /\ OwnerKept("pvc")
    BY <1>2, <1>3, <2>3
  <2>4. CASE ~ UNCHANGED <<obj, created>>
    <3>1. Volume' = Volume
      BY <1>2, <2>1, <2>4, VolumeStep
    <3>2. CASE Creating
      <4>1. Server = Lifecycle!NoServer
        <5>1. obj = NoObject
          BY <3>2 DEF Creating, ReconcilerInv, ObjectInv
        <5> QED
          BY <5>1 DEF NoObject, Lifecycle!NoServer
      <4>2. Server' = [uid |-> created + 1, deleting |-> FALSE]
        BY <1>0, <3>2 DEF Creating
      <4>3. Lifecycle!Create
        BY <3>1, <3>2, <4>1, <4>2 DEF Creating, Lifecycle!Create
      <4> QED
        BY <4>3 DEF Lifecycle!Next
    <3>3. CASE Deleting /\ obj.finalizer
      <4>1. obj'.uid = obj.uid /\ obj'.deleting
        BY <3>3, NoObjectParts DEF Deleting
      <4>2. obj'.deleting = TRUE
        BY <1>0, <4>1
      <4>3. Server' = [uid |-> obj.uid, deleting |-> TRUE]
        BY <4>1, <4>2, Zenon
      <4>4. Lifecycle!Delete
        BY <3>1, <3>3, <4>3 DEF Deleting, Lifecycle!Delete
      <4> QED
        BY <4>4 DEF Lifecycle!Next
    <3>4. CASE Deleting /\ ~ obj.finalizer
      <4>1. child["pvc"].owner # obj.uid
        BY <3>4 DEF Deleting, ReconcilerInv, FinalizerBeforeChildren, Kinds
      <4>2. Server' = Lifecycle!NoServer
        <5>1. obj' = NoObject
          BY <3>4 DEF Deleting
        <5> QED
          BY <5>1 DEF NoObject, Lifecycle!NoServer
      <4>3. Lifecycle!Delete
        BY <3>1, <3>4, <4>1, <4>2 DEF Deleting, Lifecycle!Delete
      <4> QED
        BY <4>3 DEF Lifecycle!Next
    <3>5. CASE Removing /\ obj.deleting /\ obj' = NoObject
      <4>1. Server' = Lifecycle!NoServer
        BY <3>5 DEF NoObject, Lifecycle!NoServer
      <4>2. Lifecycle!Gone
        BY <3>1, <3>5, <4>1 DEF Removing, Lifecycle!Gone
      <4> QED
        BY <4>2 DEF Lifecycle!Next
    <3>6. CASE /\ obj'.uid = obj.uid /\ obj'.deleting = obj.deleting
               /\ created' = created
      BY <1>1, <1>3, <3>1, <3>6
    <3>7. CASE Removing
      BY <3>5, <3>6, <3>7 DEF Removing
    <3> QED
      BY <2>1, <3>2, <3>3, <3>4, <3>6, <3>7
         DEF WorkerMove, ClusterMove, Loading, Adding, Marking, Working, Ending,
             MarkStopping, Detaching, StatusWrite, Passive, CatchingUp, Editing
  <2> QED
    BY <2>2, <2>3, <2>4
<1> QED
  BY <1>4, <1>5

\* The operator, with its caches, finalizer, passes and failing calls, does to
\* the server and its volume only what the lifecycle allows.
THEOREM LifecycleImplemented == SafetySpec => ImplementsLifecycle
<1>1. ReconcilerInv /\ ReconcilerInv' /\ [Next]_vars => [Lifecycle!Next]_(Lifecycle!vars)
  BY LifecycleStep
<1> QED
  BY <1>1, LifecycleInit, ReconcilerInvariant, PTL
     DEF SafetySpec, ImplementsLifecycle, Lifecycle!Spec
=============================================================================
