------------------------ MODULE GameServerReconciler ------------------------
(***************************************************************************)
(* The life of one GameServer name under the operator: the reconcile loop  *)
(* of controllers/gameserver_controller.go with its finalizer, resources   *)
(* and status files, the API server it writes to, the informer caches it   *)
(* reads from, and the garbage collector.                                  *)
(*                                                                         *)
(* One worker handles the name.  Every API write of a pass is a step of    *)
(* its own, together with the cached reads that lead to it; users, the     *)
(* StatefulSet controller, the informers and the garbage collector act in  *)
(* between.  A write can fail, or be applied and answered with an error.   *)
(* Reads come from caches that lag behind the API server; patches carry no *)
(* resourceVersion, so they apply to whatever object has the name, while   *)
(* an Update of a child conflicts when the cached copy is not the latest.  *)
(*                                                                         *)
(* Left out: the contents of names, labels and messages, the conditions    *)
(* NetworkReady, StorageReady and PterodactylSynced, endpoints, and foreign*)
(* finalizers (deletion is in the background).  Which ports a server gets  *)
(* is in NodePortOperator.                                                 *)
(***************************************************************************)
EXTENDS Naturals, FiniteSets

CONSTANTS Specs,         \* specs users write
          ClassPolicy,   \* defaultStorage.deletePolicy of the class
          ClassAtFirst,  \* whether the class exists at first: one or both
          Lagging,       \* bound: informers that may lag
          PodStates,     \* bound: pod states the StatefulSet controller reports
          Leftover,      \* whether a labelled claim of another name exists
          MaxCreates,    \* bound: how often the name is created
          MaxEdits,      \* bound: edits of the spec and of the class
          MaxFaults,     \* bound: failed calls and operator restarts
          MaxTrouble     \* bound: edits and faults together

Kinds == {"secret", "extra", "pvc", "service", "statefulset"}
Policies == {"", "Delete", "Retain"}

\* A GameServerSpec: the two delete policies, whether it has a classRef, is
\* suspended, has ports (its own or the class's), asks for a snapshot or backup
\* before deletion, passes startup mapping, validation and port allocation.
\* Three numbers stand for the rest of what is rendered: rev for the Secret's
\* data, the Service's ports and the pod template, label for game.type, which
\* goes into the labels, and shape for what only a create writes (size, access
\* mode and storage class of the claim, type of the Service).
Spec == [storagePolicy : Policies, lifecyclePolicy : Policies, class : BOOLEAN,
         suspended : BOOLEAN, ports : BOOLEAN, protect : BOOLEAN,
         valid : BOOLEAN, rev : Nat, label : Nat, shape : Nat]

ASSUME SpecsAssumption == Specs \subseteq Spec
ASSUME ClassPolicyAssumption ==
  ClassPolicy \in Policies /\ ClassAtFirst \subseteq BOOLEAN
ASSUME LaggingAssumption == Lagging \subseteq Kinds \cup {"gameserver"}
ASSUME PodsAssumption ==
  PodStates \subseteq {"none", "starting", "ready"} /\ Leftover \in BOOLEAN
ASSUME BoundsAssumption ==
  /\ MaxCreates \in Nat /\ MaxEdits \in Nat
  /\ MaxFaults \in Nat /\ MaxTrouble \in Nat

VARIABLES obj,       \* the GameServer in the API server
          child,     \* the Secret, PVCs, Service and StatefulSet
          class,     \* whether the GameServerClass exists
          cobj,      \* the operator's cached GameServer
          cchild,    \* the operator's cached children
          lag,       \* informers that have not delivered the latest version
          dirty,     \* the name is in the work queue
          w,         \* the worker: program counter and in-memory GameServer
          created, edits, faults,   \* how much of each bound is used
          clean,     \* history: no call of the latest pass has failed
          missed     \* history: uids whose detach missed the volume

vars == <<obj, child, class, cobj, cchild, lag, dirty, w,
          created, edits, faults, clean, missed>>

-----------------------------------------------------------------------------
(* Objects. *)

Phases == {"", "Pending", "Provisioning", "Starting", "Running", "Stopping",
           "Failed", "Suspended"}

Conditions == [ready : BOOLEAN, reconciling : BOOLEAN, stalled : BOOLEAN]
Status == [phase : Phases, lastError : BOOLEAN, conditions : Conditions]

NewStatus == [phase |-> "", lastError |-> FALSE,
              conditions |-> [ready |-> FALSE, reconciling |-> FALSE,
                              stalled |-> FALSE]]

GameServer == [uid : Nat, finalizer : BOOLEAN, deleting : BOOLEAN, spec : Spec,
               status : Status]

EmptySpec == [storagePolicy |-> "", lifecyclePolicy |-> "", class |-> FALSE,
              suspended |-> FALSE, ports |-> FALSE, protect |-> FALSE,
              valid |-> FALSE, rev |-> 0, label |-> 0, shape |-> 0]

\* uid 0: no object of that name.
NoObject == [uid |-> 0, finalizer |-> FALSE, deleting |-> FALSE,
             spec |-> EmptySpec, status |-> NewStatus]

\* A child: the uid in its controller reference (0: none), what it was rendered
\* from, and for a StatefulSet how far its pod is.
Bodies == [data : Nat, labels : Nat, fixed : Nat, replicas : 0 .. 1]
Pods == {"none", "starting", "ready"}
Child == [exists : BOOLEAN, owner : Nat, body : Bodies, pod : Pods,
          protected : BOOLEAN]

NoBody == [data |-> 0, labels |-> 0, fixed |-> 0, replicas |-> 0]

NoChild == [exists |-> FALSE, owner |-> 0, body |-> NoBody,
            pod |-> "none", protected |-> FALSE]

Steps == {"idle", "addFinalizer", "mark", "secret", "extra", "pvc", "service",
          "statefulset", "syncStatus", "failWith", "stopping", "protect",
          "detach", "removeFinalizer"}

Idle == [pc |-> "idle", gs |-> NoObject]

TypeOK ==
  /\ obj \in GameServer /\ cobj \in GameServer
  /\ child \in [Kinds -> Child] /\ cchild \in [Kinds -> Child]
  /\ class \in BOOLEAN
  /\ lag \subseteq Kinds \cup {"gameserver"}
  /\ dirty \in BOOLEAN
  /\ w \in [pc : Steps, gs : GameServer]
  /\ created \in Nat /\ edits \in Nat /\ faults \in Nat
  /\ clean \in BOOLEAN
  /\ missed \subseteq Nat

\* Nothing exists but, perhaps, a labelled PVC of another name that an earlier
\* version of the operator or a restore left behind.
Init ==
  /\ obj = NoObject /\ cobj = NoObject
  /\ child = [k \in Kinds |-> [NoChild EXCEPT !.exists = (k = "extra" /\ Leftover)]]
  /\ cchild = child
  /\ class \in ClassAtFirst
  /\ lag = {} /\ dirty = FALSE /\ w = Idle
  /\ created = 0 /\ edits = 0 /\ faults = 0
  /\ clean = TRUE /\ missed = {}

-----------------------------------------------------------------------------
(* Policies and rendering. *)

\* Mutant: the deprecated lifecycle level wins.
EffectiveDeletePolicyLifecycleFirst(spec) ==
  IF spec.lifecyclePolicy # "" THEN spec.lifecyclePolicy
  ELSE IF spec.storagePolicy # "" THEN spec.storagePolicy
  ELSE "Delete"

\* Storage level first, then the deprecated lifecycle level, then Delete.
EffectiveDeletePolicy(spec) ==
  IF spec.storagePolicy # "" THEN spec.storagePolicy
  ELSE IF spec.lifecyclePolicy # "" THEN spec.lifecyclePolicy
  ELSE "Delete"

\* The delete policy of the merged spec.
MergeWithClass(spec) ==
  IF spec.class /\ spec.storagePolicy = ""
  THEN [spec EXCEPT !.storagePolicy = ClassPolicy] ELSE spec

NeedsService(spec) == spec.ports

\* What the renderer produces for each child.
Secret(spec) == [NoBody EXCEPT !.data = spec.rev, !.labels = spec.label]
PVC(spec) == [NoBody EXCEPT !.labels = spec.label, !.fixed = spec.shape]
Service(spec) ==
  [NoBody EXCEPT !.data = spec.rev, !.labels = spec.label, !.fixed = spec.shape]
StatefulSet(spec) ==
  [NoBody EXCEPT !.data = spec.rev, !.labels = spec.label,
                 !.replicas = IF spec.suspended THEN 0 ELSE 1]

\* What the code compares before it updates a child: the labels of a claim, the
\* data of a Secret, the ports (and the selector, which never changes) of a
\* Service, the replicas and the template of a StatefulSet.
Compared(k) ==
  CASE k = "pvc" -> {"labels"}
    [] k = "statefulset" -> {"data", "labels", "replicas"}
    [] OTHER -> {"data"}

InSync(k, body, desired) == \A f \in Compared(k) : body[f] = desired[f]

\* What an update leaves: the labels go along with the rest, but the spec of a
\* claim and the type of a Service stay as they were created.
Updated(old, desired) == [desired EXCEPT !.fixed = old.fixed]

\* Mutant: a phase the API does not know.
derivePhaseUnknown(spec, ss) ==
  CASE spec.suspended -> "Suspended"
    [] ~ spec.suspended /\ ss.pod = "ready" -> "Running"
    [] OTHER -> "Unknown"

\* The phase, from the cached StatefulSet.
derivePhase(spec, ss) ==
  CASE spec.suspended -> "Suspended"
    [] ~ spec.suspended /\ ~ ss.exists -> "Provisioning"
    [] ~ spec.suspended /\ ss.exists /\ ss.body.replicas = 0 -> "Suspended"
    [] OTHER -> IF ss.pod = "ready" THEN "Running"
                ELSE IF ss.pod = "starting" THEN "Starting" ELSE "Pending"

-----------------------------------------------------------------------------
(* API calls. *)

\* The bound on edits and faults together.
Calm == edits + faults < MaxTrouble

\* How a call ends: "lost" is applied, but the caller sees an error.
Outcome(o) ==
  \/ o = "ok" /\ UNCHANGED <<faults, clean>>
  \/ /\ o \in {"error", "lost"}
     /\ faults < MaxFaults /\ Calm
     /\ faults' = faults + 1
     /\ clean' = FALSE

Outcomes == {"ok", "error", "lost"}

WriteObject(o) ==
  /\ obj' = o
  /\ lag' = IF o = obj THEN lag ELSE lag \cup {"gameserver"}
  /\ UNCHANGED child

WriteChild(k, c) ==
  /\ child' = [child EXCEPT ![k] = c]
  /\ lag' = IF c = child[k] THEN lag ELSE lag \cup {k}
  /\ UNCHANGED obj

WriteNothing == UNCHANGED <<obj, child, lag>>

\* A status merge patch sends the fields that differ from the base it was
\* computed from; the conditions are one list.
MergePatch(base, new) ==
  [f \in DOMAIN new |-> IF new[f] = base[f] THEN obj.status[f] ELSE new[f]]

Patched(new) == [obj EXCEPT !.status = MergePatch(w.gs.status, new)]

\* Patch the status of whatever object has the name.
PatchStatus(new, o) ==
  IF o # "error" /\ obj.uid # 0 THEN WriteObject(Patched(new)) ELSE WriteNothing

\* The in-memory object afterwards: the server's answer, or on an error the
\* object with the change that was not confirmed.
Answer(new, o) ==
  IF o = "ok" /\ obj.uid # 0 THEN Patched(new)
  ELSE [w.gs EXCEPT !.status = new]

\* An informer outside Lagging delivers before anything else happens.
Delivered == lag \subseteq Lagging

\* The worker is at this step.
At(step) == w.pc = step /\ Delivered

\* The pass ends; an error or a requeue puts the name back into the queue.
Finish(requeue) ==
  /\ w' = Idle
  /\ dirty' = (dirty \/ requeue)

Unobserved == UNCHANGED <<class, cobj, cchild, created, edits>>

-----------------------------------------------------------------------------
(* Reconcile. *)

\* Mutant: a GameServer in phase Failed is not reconciled again.
LoadSkipsFailed ==
  /\ At("idle") /\ dirty
  /\ dirty' = FALSE
  /\ w' = IF cobj.uid = 0 \/ cobj.status.phase = "Failed" THEN Idle
          ELSE [gs |-> cobj,
                pc |-> IF ~ cobj.finalizer THEN "addFinalizer"
                       ELSE IF cobj.deleting THEN "stopping" ELSE "mark"]
  /\ WriteNothing /\ Unobserved
  /\ clean' = (clean \/ cobj.uid # 0)
  /\ UNCHANGED <<faults, missed>>

\* Mutant: a deletion that was begun is not begun again.
LoadSkipsStopping ==
  LET skip == cobj.deleting /\ cobj.status.phase = "Stopping"
  IN  /\ At("idle") /\ dirty
      /\ dirty' = FALSE
      /\ w' = IF cobj.uid = 0 \/ skip THEN Idle
              ELSE [gs |-> cobj,
                    pc |-> IF ~ cobj.finalizer THEN "addFinalizer"
                           ELSE IF cobj.deleting THEN "stopping" ELSE "mark"]
      /\ WriteNothing /\ Unobserved
      /\ clean' = (clean \/ (cobj.uid # 0 /\ ~ skip))
      /\ UNCHANGED <<faults, missed>>

\* Step 1 to 3: take the name from the queue, load the GameServer, and branch
\* on its finalizer and deletion timestamp.
Load ==
  /\ At("idle") /\ dirty
  /\ dirty' = FALSE
  /\ w' = IF cobj.uid = 0 THEN Idle
          ELSE [gs |-> cobj,
                pc |-> IF ~ cobj.finalizer THEN "addFinalizer"
                       ELSE IF cobj.deleting THEN "stopping" ELSE "mark"]
  /\ WriteNothing /\ Unobserved
  /\ clean' = (clean \/ cobj.uid # 0)
  /\ UNCHANGED <<faults, missed>>

\* Mutant: a failed finalizer patch is only logged and the pass goes on.
AddFinalizerContinues ==
  /\ At("addFinalizer")
  /\ \E o \in Outcomes :
       /\ Outcome(o)
       /\ IF o # "error" /\ obj.uid # 0 /\ ~ obj.deleting
          THEN WriteObject([obj EXCEPT !.finalizer = TRUE])
          ELSE WriteNothing
       /\ w' = IF o = "ok" THEN Idle ELSE [w EXCEPT !.pc = "mark"]
       /\ dirty' = (dirty \/ o = "ok")
  /\ Unobserved /\ UNCHANGED missed

\* Step 2: add the finalizer and come back.
AddFinalizer ==
  /\ At("addFinalizer")
  /\ \E o \in Outcomes :
       /\ Outcome(o)
       /\ IF o # "error" /\ obj.uid # 0 /\ ~ obj.deleting
          THEN WriteObject([obj EXCEPT !.finalizer = TRUE])
          ELSE WriteNothing
  /\ Finish(TRUE)
  /\ Unobserved /\ UNCHANGED missed

\* Step 4, best effort, and steps 5 to 8, which only read: the class must
\* exist, the merged spec must be valid and its ports free.
MarkReconciling ==
  /\ At("mark")
  /\ \E o \in Outcomes :
       LET new == [w.gs.status EXCEPT !.conditions.reconciling = TRUE]
           gs == Answer(new, o)
       IN  /\ Outcome(o)
           /\ PatchStatus(new, o)
           /\ w' = [gs |-> gs,
                    pc |-> IF gs.spec.valid /\ (gs.spec.class => class)
                           THEN "secret" ELSE "failWith"]
  /\ Unobserved /\ UNCHANGED <<dirty, missed>>

\* The next step of reconcileResources.
After == [secret |-> "extra", extra |-> "pvc", pvc |-> "service",
          service |-> "statefulset", statefulset |-> "syncStatus"]

\* The pass goes on, or ends in failWith.
Continue(k, good) ==
  w' = [w EXCEPT !.pc = IF good THEN After[k] ELSE "failWith"]

\* Create the child, owned by the in-memory GameServer.
CreateChild(k, desired) ==
  \E o \in Outcomes :
    LET admitted == o # "error" /\ ~ child[k].exists
    IN  /\ Outcome(o)
        /\ IF admitted
           THEN WriteChild(k, [NoChild EXCEPT !.exists = TRUE, !.owner = w.gs.uid,
                                              !.body = desired])
           ELSE WriteNothing
        /\ Continue(k, admitted /\ o = "ok")

\* Update the cached copy: a conflict when it is not the latest version.  The
\* owner reference is left as it is.
UpdateChild(k, desired) ==
  \E o \in Outcomes :
    LET admitted == o # "error" /\ k \notin lag
    IN  /\ Outcome(o)
        /\ IF admitted
           THEN WriteChild(k, [child[k] EXCEPT !.body = Updated(@, desired)])
           ELSE WriteNothing
        /\ Continue(k, admitted /\ o = "ok")

NoCall(k) ==
  /\ WriteNothing /\ UNCHANGED <<faults, clean>>
  /\ Continue(k, TRUE)

\* Mutant: a child that exists is left alone.
ReconcileChildCreateOnly(k, desired, differs) ==
  \/ ~ cchild[k].exists /\ CreateChild(k, desired)
  \/ cchild[k].exists /\ NoCall(k)

\* One child of step 9: create the missing, update what differs.
ReconcileChild(k, desired, differs) ==
  \/ ~ cchild[k].exists /\ CreateChild(k, desired)
  \/ cchild[k].exists /\ differs /\ UpdateChild(k, desired)
  \/ cchild[k].exists /\ ~ differs /\ NoCall(k)

reconcileSecret ==
  LET desired == Secret(w.gs.spec)
  IN  /\ At("secret")
      /\ ReconcileChild("secret", desired,
                        ~ InSync("secret", cchild["secret"].body, desired))
      /\ Unobserved /\ UNCHANGED <<dirty, missed>>

\* After deleteExtraPVCs.  Only the labels of a claim are compared and updated.
reconcilePVC ==
  LET desired == PVC(w.gs.spec)
  IN  /\ At("pvc")
      /\ ReconcileChild("pvc", desired, ~ InSync("pvc", cchild["pvc"].body, desired))
      /\ Unobserved /\ UNCHANGED <<dirty, missed>>

\* Without ports nothing is done, and an existing Service stays.
reconcileService ==
  LET desired == Service(w.gs.spec)
  IN  /\ At("service")
      /\ \/ /\ NeedsService(w.gs.spec)
            /\ ReconcileChild("service", desired,
                              ~ InSync("service", cchild["service"].body, desired))
         \/ ~ NeedsService(w.gs.spec) /\ NoCall("service")
      /\ Unobserved /\ UNCHANGED <<dirty, missed>>

\* Always updated: the cached template carries the API server's defaults and
\* never equals the rendered one.
reconcileStatefulSet ==
  /\ At("statefulset")
  /\ ReconcileChild("statefulset", StatefulSet(w.gs.spec), TRUE)
  /\ Unobserved /\ UNCHANGED <<dirty, missed>>

\* Mutant: the claim in use is not spared.
DeleteExtraPVCsAll ==
  /\ At("extra")
  /\ IF cchild["pvc"].exists THEN WriteChild("pvc", NoChild) ELSE WriteNothing
  /\ Continue("extra", TRUE)
  /\ Unobserved /\ UNCHANGED <<dirty, faults, clean, missed>>

\* Mutant: a claim counts as extra when it has no owner, whatever its name.
DeleteExtraPVCsUnowned ==
  /\ At("extra")
  /\ IF cchild["pvc"].exists /\ cchild["pvc"].owner = 0
     THEN WriteChild("pvc", NoChild) ELSE WriteNothing
  /\ Continue("extra", TRUE)
  /\ Unobserved /\ UNCHANGED <<dirty, faults, clean, missed>>

\* deleteExtraPVCs: every labelled claim with another name goes.
DeleteExtraPVCs ==
  /\ At("extra")
  /\ IF cchild["extra"].exists
     THEN \E o \in Outcomes :
            /\ Outcome(o)
            /\ IF o # "error" THEN WriteChild("extra", NoChild) ELSE WriteNothing
            /\ Continue("extra", o = "ok")
     ELSE NoCall("extra")
  /\ Unobserved /\ UNCHANGED <<dirty, missed>>

\* Mutant: Stalled is not cleared.
SyncStatusKeepsStalled ==
  /\ At("syncStatus")
  /\ LET phase == derivePhase(w.gs.spec, cchild["statefulset"])
         new == [phase |-> phase, lastError |-> FALSE,
                 conditions |-> [w.gs.status.conditions EXCEPT
                                   !.ready = (phase = "Running"),
                                   !.reconciling = FALSE]]
     IN  PatchStatus(new, "ok")
  /\ Finish(FALSE)
  /\ Unobserved /\ UNCHANGED <<faults, clean, missed>>

\* Step 10: derive the status from the cached children.  A failed patch is
\* returned as an error, without failWith.
SyncStatus ==
  /\ At("syncStatus")
  /\ \E o \in Outcomes :
       LET phase == derivePhase(w.gs.spec, cchild["statefulset"])
           new == [phase |-> phase, lastError |-> FALSE,
                   conditions |-> [ready |-> phase = "Running",
                                   reconciling |-> FALSE, stalled |-> FALSE]]
       IN  /\ Outcome(o)
           /\ PatchStatus(new, o)
           /\ Finish(~ (o = "ok" /\ obj.uid # 0))
  /\ Unobserved /\ UNCHANGED missed

\* failWith: record the failure, ignore a failed patch, return the error.
FailWith ==
  /\ At("failWith")
  /\ \E o \in Outcomes :
       /\ Outcome(o)
       /\ PatchStatus([phase |-> "Failed", lastError |-> TRUE,
                       conditions |-> [ready |-> FALSE, reconciling |-> FALSE,
                                       stalled |-> TRUE]], o)
  /\ Finish(TRUE)
  /\ Unobserved /\ UNCHANGED missed

-----------------------------------------------------------------------------
(* finalize. *)

\* Mark as Stopping, best effort; Allocator.Release does nothing.
Stopping ==
  /\ At("stopping")
  /\ \E o \in Outcomes :
       LET new == [w.gs.status EXCEPT !.phase = "Stopping"]
       IN  /\ Outcome(o)
           /\ PatchStatus(new, o)
           /\ w' = [pc |-> "protect", gs |-> Answer(new, o)]
  /\ Unobserved /\ UNCHANGED <<dirty, missed>>

\* Patch the claim that has the name, when the cache shows one.
PatchClaim(o, change) ==
  /\ Outcome(o)
  /\ IF o # "error" /\ child["pvc"].exists
     THEN WriteChild("pvc", change) ELSE WriteNothing

\* requestStorageProtection; its errors are logged and forgotten.
RequestStorageProtection ==
  /\ At("protect")
  /\ IF w.gs.spec.protect /\ cchild["pvc"].exists
     THEN \E o \in Outcomes :
            PatchClaim(o, [child["pvc"] EXCEPT !.protected = TRUE])
     ELSE WriteNothing /\ UNCHANGED <<faults, clean>>
  /\ w' = [w EXCEPT !.pc = "detach"]
  /\ Unobserved /\ UNCHANGED <<dirty, missed>>

\* detachPVC under Retain: an absent cached claim and a failed patch are both
\* passed over.  The patch drops the owner list when the cached one names the
\* in-memory GameServer, and is empty otherwise.
DetachPVC ==
  LET pvc == cchild["pvc"]
      due == EffectiveDeletePolicy(w.gs.spec) = "Retain"
  IN  /\ At("detach")
      /\ \/ /\ ~ due
            /\ WriteNothing /\ UNCHANGED <<faults, clean, missed>>
         \/ /\ due /\ ~ pvc.exists
            /\ WriteNothing /\ UNCHANGED <<faults, clean>>
            /\ missed' = missed \cup {w.gs.uid}
         \/ /\ due /\ pvc.exists
            /\ \E o \in Outcomes :
                 /\ PatchClaim(o, IF pvc.owner = w.gs.uid
                                  THEN [child["pvc"] EXCEPT !.owner = 0]
                                  ELSE child["pvc"])
                 /\ missed' = IF o = "error" \/ pvc.owner # w.gs.uid
                              THEN missed \cup {w.gs.uid} ELSE missed
      /\ w' = [w EXCEPT !.pc = "removeFinalizer"]
      /\ Unobserved /\ UNCHANGED dirty

\* Load the GameServer again, from the cache, and remove the finalizer; the API
\* server drops a deleting object that has none left.
RemoveFinalizer ==
  /\ At("removeFinalizer")
  /\ IF cobj.uid = 0
     THEN WriteNothing /\ Finish(FALSE) /\ UNCHANGED <<faults, clean>>
     ELSE \E o \in Outcomes :
            /\ Outcome(o)
            /\ IF o # "error" /\ obj.uid # 0 /\ cobj.finalizer
               THEN WriteObject(IF obj.deleting THEN NoObject
                                ELSE [obj EXCEPT !.finalizer = FALSE])
               ELSE WriteNothing
            /\ Finish(~ (o = "ok" /\ obj.uid # 0))
  /\ Unobserved /\ UNCHANGED missed

Worker ==
  \/ Load \/ AddFinalizer \/ MarkReconciling
  \/ reconcileSecret \/ DeleteExtraPVCs \/ reconcilePVC
  \/ reconcileService \/ reconcileStatefulSet
  \/ SyncStatus \/ FailWith
  \/ Stopping \/ RequestStorageProtection \/ DetachPVC \/ RemoveFinalizer

-----------------------------------------------------------------------------
(* The cluster around the worker. *)

\* The GameServer informer catches up and enqueues the name.
DeliverObject ==
  /\ "gameserver" \in lag
  /\ cobj' = obj
  /\ lag' = lag \ {"gameserver"}
  /\ dirty' = TRUE
  /\ UNCHANGED <<obj, child, class, cchild, w, created, edits, faults, clean, missed>>

\* Mutant: the children are not watched.
DeliverChildUnwatched(k) ==
  /\ k \in lag
  /\ cchild' = [cchild EXCEPT ![k] = child[k]]
  /\ lag' = lag \ {k}
  /\ UNCHANGED <<obj, child, class, cobj, dirty, w, created, edits, faults, clean, missed>>

\* A child's informer catches up; an owner in either version enqueues the name.
DeliverChild(k) ==
  /\ k \in lag
  /\ cchild' = [cchild EXCEPT ![k] = child[k]]
  /\ lag' = lag \ {k}
  /\ dirty' = (dirty \/ cchild[k].owner # 0 \/ child[k].owner # 0)
  /\ UNCHANGED <<obj, child, class, cobj, w, created, edits, faults, clean, missed>>

\* The operator restarts: the pass is lost, the caches are filled from the API
\* server and every GameServer is enqueued.
Restart ==
  /\ faults < MaxFaults /\ Calm
  /\ faults' = faults + 1 /\ clean' = FALSE
  /\ w' = Idle
  /\ cobj' = obj /\ cchild' = child /\ lag' = {}
  /\ dirty' = (obj.uid # 0)
  /\ UNCHANGED <<obj, child, class, created, edits, missed>>

\* The garbage collector deletes a child whose owner is gone.
CollectChild(k) ==
  /\ Delivered
  /\ child[k].owner \notin {0, obj.uid}
  /\ WriteChild(k, NoChild)
  /\ UNCHANGED <<class, cobj, cchild, dirty, w, created, edits, faults, clean, missed>>

\* The StatefulSet controller starts, stops and loses the pod.
MovePod(p) ==
  LET ss == child["statefulset"]
  IN  /\ Delivered
      /\ ss.exists /\ ss.pod # p
      /\ ss.body.replicas = 0 => p = "none"
      /\ WriteChild("statefulset", [ss EXCEPT !.pod = p])
      /\ UNCHANGED <<class, cobj, cchild, dirty, w, created, edits, faults, clean, missed>>

UserOnly == Delivered /\ UNCHANGED <<cobj, cchild, dirty, w, faults, clean>>

\* Mutant: the wings controller sets the finalizer itself.
CreateObjectFinalized(spec) ==
  /\ obj.uid = 0 /\ created < MaxCreates
  /\ created' = created + 1
  /\ WriteObject([NoObject EXCEPT !.uid = created + 1, !.spec = spec,
                                  !.finalizer = TRUE])
  /\ UserOnly /\ UNCHANGED <<class, edits, missed>>

\* CreateServer of the wings controller, or kubectl apply.
CreateObject(spec) ==
  /\ obj.uid = 0 /\ created < MaxCreates
  /\ created' = created + 1
  /\ WriteObject([NoObject EXCEPT !.uid = created + 1, !.spec = spec])
  /\ UserOnly /\ UNCHANGED <<class, edits, missed>>

EditSpec(spec) ==
  /\ obj.uid # 0 /\ spec # obj.spec /\ edits < MaxEdits /\ Calm
  /\ edits' = edits + 1
  /\ WriteObject([obj EXCEPT !.spec = spec])
  /\ missed' = IF obj.deleting THEN missed \cup {obj.uid} ELSE missed
  /\ UserOnly /\ UNCHANGED <<class, created>>

ToggleClass ==
  /\ edits < MaxEdits /\ Calm /\ edits' = edits + 1
  /\ class' = ~ class
  /\ WriteNothing /\ UserOnly /\ UNCHANGED <<created, missed>>

\* DELETE: an object without a finalizer is gone at once.
DeleteObject ==
  /\ obj.uid # 0 /\ ~ obj.deleting
  /\ WriteObject(IF obj.finalizer THEN [obj EXCEPT !.deleting = TRUE] ELSE NoObject)
  /\ UserOnly /\ UNCHANGED <<class, created, edits, missed>>

Deliver == DeliverObject \/ \E k \in Kinds : DeliverChild(k)

Cluster ==
  \/ Deliver \/ Restart
  \/ \E k \in Kinds : CollectChild(k)
  \/ \E p \in PodStates : MovePod(p)
  \/ \E spec \in Specs : CreateObject(spec) \/ EditSpec(spec)
  \/ ToggleClass \/ DeleteObject

Next == Worker \/ Cluster

SafetySpec == Init /\ [][Next]_vars

\* The worker keeps taking steps, informers deliver, the garbage collector
\* runs.  Nothing is assumed of users, pods, faults and restarts.
Fairness ==
  /\ WF_vars(Worker)
  /\ WF_vars(DeliverObject)
  /\ \A k \in Kinds : WF_vars(DeliverChild(k)) /\ WF_vars(CollectChild(k))

FairSpec == SafetySpec /\ Fairness

-----------------------------------------------------------------------------
(* Properties. *)

\* The finalizer comes first: no child ever belongs to a live GameServer
\* without one, so no delete can bypass finalize once there is something to
\* clean up, also when the name is deleted and created again under the
\* operator's stale cache.
FinalizerBeforeChildren ==
  \A k \in Kinds : obj.uid # 0 /\ child[k].owner = obj.uid => obj.finalizer

\* The operator takes the finalizer only from a GameServer that is being
\* deleted: a late finalize of an earlier incarnation, which patches by name,
\* never strips the next one.
FinalizerOnlyLeavesWithObject ==
  [][obj.uid # 0 /\ obj.finalizer /\ obj'.uid = obj.uid => obj'.finalizer]_vars

\* The volume of a GameServer that nobody deletes keeps its owner reference
\* and is not deleted, whatever is still queued for earlier incarnations.
LiveVolumeStaysOwned ==
  [][obj.uid # 0 /\ ~ obj.deleting /\ child["pvc"].owner = obj.uid =>
       child'["pvc"].exists /\ child'["pvc"].owner = obj.uid]_vars

Coherent(s) ==
  /\ s.phase = "Failed" => s.conditions.stalled /\ s.lastError
  /\ s.conditions.stalled => s.phase = "Failed"
  /\ s.conditions.ready <=> s.phase = "Running"
  /\ ~ s.conditions.reconciling

\* A pass whose calls all went well leaves a status that tells one story in its
\* phase, its error and its conditions, although every patch is a diff against
\* a copy that may be stale when the pass begins, and whatever an earlier pass
\* with a failed or unanswered call, or a restart, has left half written.
StatusCoherent == w.pc = "idle" /\ clean => Coherent(obj.status)

\* What users see: the object, and the claim with the game data.
Lifecycle ==
  INSTANCE GameServerLifecycle
    WITH server <- [uid |-> obj.uid, deleting |-> obj.deleting],
         volume <- [exists |-> child["pvc"].exists, owner |-> child["pvc"].owner],
         last <- created

\* The reconcile loop, with stale caches, failed and unanswered calls, restarts
\* and re-used names, implements the lifecycle: a volume is made only for the
\* incarnation that is there, only a server being deleted parts with it, one
\* that is kept is never deleted, and a server that owns a volume cannot go
\* without a deletion having been seen through.
ImplementsLifecycle == Lifecycle!Spec

\* Retain, at the storage level or, when that is silent, at the old one.
Retains(spec) ==
  \/ spec.storagePolicy = "Retain"
  \/ spec.storagePolicy = "" /\ spec.lifecyclePolicy = "Retain"

Leaves == obj.uid # 0 /\ obj'.uid # obj.uid

\* A GameServer that goes away under Retain leaves its volume behind without an
\* owner, unless finalize did not see the claim in its cache, its patch failed,
\* or the spec was edited during the deletion: retries, restarts, lost answers
\* and deletes before the first reconcile are all safe.
RetainedUnlessMissed ==
  [][Leaves /\ Retains(obj.spec) /\ obj.uid \notin missed =>
       child["pvc"].owner # obj.uid]_vars

\* The same without the excuse: what the comment on the detach in finalize
\* promises.
RetainedVolumeSurvives ==
  [][Leaves /\ Retains(obj.spec) => child["pvc"].owner # obj.uid]_vars

\* The same for the policy of the merged spec, which the children are rendered
\* from.
RetainFromClassHonoured ==
  [][Leaves /\ Retains(MergeWithClass(obj.spec)) =>
       child["pvc"].owner # obj.uid]_vars

\* The child a spec is rendered into.
Desired(k, spec) ==
  CASE k = "secret" -> Secret(spec)
    [] k = "service" -> Service(spec)
    [] k = "statefulset" -> StatefulSet(spec)
    [] OTHER -> PVC(spec)

\* The child exists and says what the spec says in the fields the code compares.
UpToDate(k, spec) ==
  child[k].exists /\ InSync(k, child[k].body, Desired(k, spec))

Wanted(k, spec) ==
  \/ k \in {"secret", "pvc", "statefulset"}
  \/ k = "service" /\ NeedsService(spec)

\* A pass that is about to report success has not lost a change: each child is
\* there and, in what the code compares, as rendered from the spec the pass was
\* for, or its informer still has something to deliver, or the name is queued
\* again, although the pass decided about each child from a cache that may have
\* been stale, the garbage collector was at work, and children of an earlier
\* incarnation with another spec may still be there.  The size of a claim and
\* the type of a Service are not promised: the code writes them once.  An object
\* without an owner is the exception: the operator takes it over by its name,
\* but is not told when it changes.
NoChangeLost ==
  w.pc = "syncStatus" =>
    \A k \in Kinds : Wanted(k, w.gs.spec) =>
      \/ UpToDate(k, w.gs.spec)
      \/ k \in lag \/ dirty
      \/ child[k].exists /\ child[k].owner = 0

\* A GameServer that is being deleted goes away.
DeletionCompletes ==
  \A u \in 1 .. MaxCreates : obj.uid = u /\ obj.deleting ~> obj.uid # u

Healthy ==
  /\ obj.uid # 0 /\ ~ obj.deleting
  /\ obj.spec.valid /\ (obj.spec.class => class)

\* Every child a valid GameServer needs exists and follows the stored spec.
Converged ==
  Healthy =>
    \A k \in Kinds : Wanted(k, obj.spec) =>
        UpToDate(k, obj.spec) /\ child[k].owner \in {0, obj.uid}

PodMoves == child'["statefulset"].pod # child["statefulset"].pod

\* Level-triggered: once users, faults and restarts stop, the children follow
\* the stored spec in everything the code updates, although each pass acts on
\* caches that lag, and also when the class was missing at first.  Only a pod
\* that changes state forever can prevent it: each change makes the next
\* update of the StatefulSet conflict.
EventuallyConverged == []<><<PodMoves>>_vars \/ <>[]Converged

\* A settled GameServer is left alone.
EventuallyQuiet == <>[](w.pc = "idle" /\ ~ dirty)
=============================================================================
