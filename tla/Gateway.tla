------------------------------ MODULE Gateway ------------------------------
(***************************************************************************)
(* The gateway's HTTP API for one server name: the authentication          *)
(* middleware, the handlers of gateway/internal/api, and the calls of the  *)
(* embedded wings controller (ptero-wings-controller/service.go) each      *)
(* handler makes.  Requests run concurrently; every call to the Kubernetes *)
(* API is a step of its own and may fail or be applied without an answer.  *)
(* The controller's client has no cache, so a read returns what is stored. *)
(*                                                                         *)
(* The operator, the StatefulSet controller and the garbage collector      *)
(* appear by what they do to the object and its pod.  Nobody but the       *)
(* gateway creates the object, deletes it or writes its spec here.         *)
(*                                                                         *)
(* Left out: payloads and messages, ports (NodePortReservation), startup   *)
(* commands (StartupMapper), the console (ConsoleSession), and the         *)
(* restarted-at annotation, which no code reads.                           *)
(***************************************************************************)
EXTENDS Naturals, FiniteSets

CONSTANTS Calls,        \* HTTP requests, one each
          Requests,     \* bound: what they ask
          Times,        \* bound: what the clock shows, in seconds
          UseJWT,       \* GATEWAY_USE_JWT
          MaxCreates,   \* bound: how often the name is created
          MaxFaults     \* bound: calls to the API server that go wrong

PowerActions == {"start", "stop", "restart", "kill"}
PodOps == {"resources", "logs"}
Ops == {"create", "get", "delete", "unknownAction"} \cup PowerActions \cup PodOps

\* The Authorization header: a bearer token, equal to the configured token or
\* signed with it, whose claims can be decoded; 0 is a missing exp or nbf.
Credential == [bearer : BOOLEAN, genuine : BOOLEAN, decodes : BOOLEAN,
               exp : Nat, nbf : Nat]

Request == [op : Ops, wellFormed : BOOLEAN, cred : Credential]

ASSUME RequestsAssumption == Requests \subseteq Request
ASSUME ClockAssumption == Times \subseteq Nat /\ UseJWT \in BOOLEAN
ASSUME BoundsAssumption == MaxCreates \in Nat /\ MaxFaults \in Nat

VARIABLES obj,       \* the GameServer in the API server
          pod,       \* whether a pod of that name exists
          call,      \* the requests
          created, faults,   \* how much of each bound is used
          seen,      \* history: what was the case at some instant of a call
          before,    \* history: the calls answered when a call arrived
          wrote      \* history: the calls that changed the object

env == <<obj, pod, created, faults>>
vars == <<obj, pod, call, created, faults, seen, before, wrote>>

-----------------------------------------------------------------------------
(* State. *)

GameServer == [uid : Nat, finalizer : BOOLEAN, deleting : BOOLEAN,
               suspended : BOOLEAN, podName : BOOLEAN]

\* uid 0: no object of that name.
NoObject == [uid |-> 0, finalizer |-> FALSE, deleting |-> FALSE,
             suspended |-> FALSE, podName |-> FALSE]

Steps == {"new", "allocate", "create", "get", "patch", "delete", "findPod",
          "tail", "collect", "push", "done"}

Codes == {0, 200, 201, 204, 400, 401, 404, 409, 500}

\* A request: its operation, the next step, what it keeps of the object it
\* read, the incarnation there was when it arrived, and the answer.
NotSent == [op |-> "get", pc |-> "new", suspended |-> FALSE, podName |-> FALSE,
            uid |-> 0, code |-> 0]

Call == [op : Ops, pc : Steps, suspended : BOOLEAN, podName : BOOLEAN,
         uid : Nat, code : Codes]

AllFacts == {"absent", "present", "suspended", "running", "deleting", "noPod"}

TypeOK ==
  /\ obj \in GameServer
  /\ pod \in BOOLEAN
  /\ call \in [Calls -> Call]
  /\ created \in Nat /\ faults \in Nat
  /\ seen \in [Calls -> SUBSET AllFacts]
  /\ before \in [Calls -> SUBSET Calls]
  /\ wrote \subseteq Calls

\* Nothing, or a server that earlier requests and the first pass left behind.
Init ==
  /\ obj \in {NoObject} \cup [uid : {1}, finalizer : {TRUE}, deleting : {FALSE},
                              suspended : BOOLEAN, podName : {FALSE}]
  /\ pod = FALSE
  /\ call = [c \in Calls |-> NotSent]
  /\ created = obj.uid /\ faults = 0
  /\ seen = [c \in Calls |-> {}]
  /\ before = [c \in Calls |-> {}]
  /\ wrote = {}

Done(c) == call[c].pc = "done"

-----------------------------------------------------------------------------
(* History. *)

\* What is the case in a state.
Facts(o, p) ==
  (IF o.uid = 0 THEN {"absent"}
   ELSE {"present", IF o.suspended THEN "suspended" ELSE "running"}
          \cup (IF o.deleting THEN {"deleting"} ELSE {}))
    \cup (IF p THEN {} ELSE {"noPod"})

\* A call sees every state from its arrival to its answer.
Observe ==
  seen' = [c \in Calls |->
             IF call'[c].pc = "new" \/ Done(c) THEN seen[c]
             ELSE seen[c] \cup Facts(obj', pod')]

-----------------------------------------------------------------------------
(* Answers. *)

\* writeError, writeJSON or WriteHeader: the handler returns.
Answer(c, code) ==
  call' = [call EXCEPT ![c] = [NotSent EXCEPT !.op = call[c].op, !.pc = "done",
                                              !.uid = call[c].uid, !.code = code]]

\* The handlers turn what the controller returns (nil, AlreadyExists, NotFound
\* or another error) into a status code.
Create(err) ==
  CASE err = "nil" -> 201 [] err = "AlreadyExists" -> 409 [] OTHER -> 500

Delete(err) == IF err = "nil" THEN 204 ELSE 500

Get(err) == CASE err = "nil" -> 200 [] err = "NotFound" -> 404 [] OTHER -> 500

Power(err) == CASE err = "nil" -> 204 [] err = "NotFound" -> 404 [] OTHER -> 500

Resources(err) == CASE err = "nil" -> 200 [] err = "NotFound" -> 404 [] OTHER -> 500

Logs(err) == CASE err = "nil" -> 200 [] err = "NotFound" -> 404 [] OTHER -> 500

Code(op, err) ==
  CASE op = "create" -> Create(err)
    [] op = "delete" -> Delete(err)
    [] op = "get" -> Get(err)
    [] op = "resources" -> Resources(err)
    [] op = "logs" -> Logs(err)
    [] OTHER -> Power(err)

\* The controller returns to the handler, and the handler to the client.
Return(c, err) == Answer(c, Code(call[c].op, err))

Goto(c, step) == call' = [call EXCEPT ![c].pc = step]

\* How a call to the API server ends: "lost" is applied, but the caller sees
\* an error (a broken connection, a cancelled request).
Outcome(o) ==
  \/ o = "ok" /\ faults' = faults
  \/ o \in {"error", "lost"} /\ faults < MaxFaults /\ faults' = faults + 1

Reads == {"ok", "error"}
Writes == {"ok", "error", "lost"}

ReadOnly == UNCHANGED <<obj, pod, created, before, wrote>> /\ Observe

-----------------------------------------------------------------------------
(* Middleware and decoding. *)

\* validateJWT: the signature, the payload, then the claims.
validateJWT(cred, now) ==
  /\ cred.genuine
  /\ cred.decodes
  /\ cred.exp > 0 => now <= cred.exp
  /\ cred.nbf > 0 => now >= cred.nbf

\* Middleware: extractBearer, then the configured mode.
Middleware(cred, now) ==
  /\ cred.bearer
  /\ IF UseJWT THEN validateJWT(cred, now) ELSE cred.genuine

\* The first API call of each route of NewRouter.
Route(op) ==
  CASE op = "create" -> "allocate"
    [] op = "delete" -> "delete"
    [] OTHER -> "get"

\* A request arrives: middleware, route, decoding of the body and the checks
\* for empty fields, all before the first API call.
ServeHTTP(c, r, now) ==
  /\ call[c].pc = "new"
  /\ LET refused == [NotSent EXCEPT !.op = r.op, !.pc = "done"]
     IN  call' = [call EXCEPT ![c] =
           IF ~ Middleware(r.cred, now) THEN [refused EXCEPT !.code = 401]
           ELSE IF ~ r.wellFormed THEN [refused EXCEPT !.code = 400]
           ELSE [NotSent EXCEPT !.op = r.op, !.pc = Route(r.op), !.uid = obj.uid]]
  /\ before' = [before EXCEPT ![c] = {d \in Calls : Done(d)}]
  /\ UNCHANGED <<env, wrote>> /\ Observe

-----------------------------------------------------------------------------
(* CreateServer. *)

\* gameServerFromRequest and Allocate: a startup command that cannot be split,
\* a failed list or a lack of ports ends the call before anything is written.
AllocatePorts(c) ==
  /\ call[c].pc = "allocate"
  /\ Goto(c, "create") \/ Return(c, "other")
  /\ ReadOnly /\ UNCHANGED faults

\* What a create stores.
Stored == IF obj.uid = 0 THEN [NoObject EXCEPT !.uid = created + 1] ELSE obj

\* Mutant: a create without an answer is sent again.
CreateServerAgain(c) ==
  /\ call[c].pc = "create"
  /\ obj.uid = 0 => created < MaxCreates
  /\ \E o \in Writes :
       /\ Outcome(o)
       /\ obj' = IF o = "error" THEN obj ELSE Stored
       /\ CASE o = "ok" -> Return(c, IF obj.uid = 0 THEN "nil" ELSE "AlreadyExists")
            [] o = "lost" -> UNCHANGED call
            [] OTHER -> Return(c, "other")
  /\ created' = obj'.uid
  /\ wrote' = IF obj' # obj THEN wrote \cup {c} ELSE wrote
  /\ UNCHANGED <<pod, before>> /\ Observe

CreateServer(c) ==
  /\ call[c].pc = "create"
  /\ obj.uid = 0 => created < MaxCreates
  /\ \E o \in Writes :
       /\ Outcome(o)
       /\ obj' = IF o = "error" THEN obj ELSE Stored
       /\ Return(c, IF o # "ok" THEN "other"
                    ELSE IF obj.uid = 0 THEN "nil" ELSE "AlreadyExists")
  /\ created' = IF obj' # obj THEN created + 1 ELSE created
  /\ wrote' = IF obj' # obj THEN wrote \cup {c} ELSE wrote
  /\ UNCHANGED <<pod, before>> /\ Observe

-----------------------------------------------------------------------------
(* DeleteServer. *)

\* The object after a DELETE: one without a finalizer is gone at once.
Deleted ==
  IF obj.finalizer THEN [obj EXCEPT !.deleting = TRUE] ELSE NoObject

\* Mutant: every error counts as NotFound.
DeleteServerIgnoresErrors(c) ==
  /\ call[c].pc = "delete"
  /\ \E o \in Writes :
       /\ Outcome(o)
       /\ obj' = IF o = "error" THEN obj ELSE Deleted
  /\ Return(c, "nil")
  /\ wrote' = IF obj' # obj THEN wrote \cup {c} ELSE wrote
  /\ UNCHANGED <<pod, created, before>> /\ Observe

\* NotFound counts as success.
DeleteServer(c) ==
  /\ call[c].pc = "delete"
  /\ \E o \in Writes :
       /\ Outcome(o)
       /\ obj' = IF o = "error" THEN obj ELSE Deleted
       /\ Return(c, IF o = "ok" THEN "nil" ELSE "other")
  /\ wrote' = IF obj' # obj THEN wrote \cup {c} ELSE wrote
  /\ UNCHANGED <<pod, created, before>> /\ Observe

-----------------------------------------------------------------------------
(* getGameServer, and what each operation does with the object. *)

AfterGet(c) ==
  \/ call[c].op = "get" /\ Return(c, "nil")
  \/ call[c].op = "unknownAction" /\ Return(c, "other")
  \/ /\ call[c].op \in PowerActions
     /\ call' = [call EXCEPT ![c] =
                   [@ EXCEPT !.pc = "patch", !.suspended = obj.suspended]]
  \/ /\ call[c].op \in PodOps
     /\ call' = [call EXCEPT ![c] =
                   [@ EXCEPT !.pc = "findPod", !.podName = obj.podName]]

\* Mutant: a missing object is passed on as an empty one.
getGameServerIgnoresNotFound(c) ==
  /\ call[c].pc = "get"
  /\ \E o \in Reads : Outcome(o) /\ IF o = "error" THEN Return(c, "other") ELSE AfterGet(c)
  /\ ReadOnly

getGameServer(c) ==
  /\ call[c].pc = "get"
  /\ \E o \in Reads :
       /\ Outcome(o)
       /\ CASE o = "error" -> Return(c, "other")
            [] o = "ok" /\ obj.uid = 0 -> Return(c, "NotFound")
            [] OTHER -> AfterGet(c)
  /\ ReadOnly

\* The value of lifecycle.suspended a power action asks for.
Suspends(op) == op \in {"stop", "kill"}

\* The patch carries suspended only when it differs from the copy read, and
\* applies to whatever object has the name.
Patched(c) ==
  IF obj.uid # 0 /\ call[c].suspended # Suspends(call[c].op)
  THEN [obj EXCEPT !.suspended = Suspends(call[c].op)] ELSE obj

\* SetPowerState from MergeFrom on; an empty patch is sent as well.
SetPowerState(c) ==
  /\ call[c].pc = "patch"
  /\ \E o \in Writes :
       /\ Outcome(o)
       /\ obj' = IF o = "error" THEN obj ELSE Patched(c)
       /\ Return(c, IF o # "ok" THEN "other"
                    ELSE IF obj.uid = 0 THEN "NotFound" ELSE "nil")
  /\ wrote' = IF obj' # obj THEN wrote \cup {c} ELSE wrote
  /\ UNCHANGED <<pod, created, before>> /\ Observe

\* findPodForGameServer: the pod named in the status read before, where a
\* missing pod is NotFound, or any pod with the server's label, where it is a
\* plain error.
findPodForGameServer(c) ==
  /\ call[c].pc = "findPod"
  /\ \E o \in Reads :
       /\ Outcome(o)
       /\ CASE o = "error" -> Return(c, "other")
            [] o = "ok" /\ pod ->
                 Goto(c, IF call[c].op = "logs" THEN "tail" ELSE "collect")
            [] OTHER -> Return(c, IF call[c].podName THEN "NotFound" ELSE "other")
  /\ ReadOnly

\* Mutant: the status code of the API server is passed on.
TailLogsPassesCode(c) ==
  /\ call[c].pc = "tail"
  /\ \E o \in Reads :
       /\ Outcome(o)
       /\ Answer(c, IF o = "error" THEN 503 ELSE IF pod THEN 200 ELSE 404)
  /\ ReadOnly

\* logs.Tail; the error of a missing pod is wrapped, and still NotFound.
TailLogs(c) ==
  /\ call[c].pc = "tail"
  /\ \E o \in Reads :
       /\ Outcome(o)
       /\ Return(c, IF o = "error" THEN "other" ELSE IF pod THEN "nil" ELSE "NotFound")
  /\ ReadOnly

\* collectResources: computed from the pod and the object already read; the
\* lists of collectClusterResources may fail.
collectResources(c) ==
  /\ call[c].pc = "collect"
  /\ \E o \in Reads : Outcome(o)
  /\ Goto(c, "push")
  /\ ReadOnly

\* PushResources to the panel, or the client that does nothing: a failed push
\* is only logged.
PushResources(c) ==
  /\ call[c].pc = "push"
  /\ \E o \in Writes : Outcome(o)
  /\ Return(c, "nil")
  /\ ReadOnly

Handler(c) ==
  \/ \E r \in Requests, now \in Times : ServeHTTP(c, r, now)
  \/ AllocatePorts(c) \/ CreateServer(c)
  \/ DeleteServer(c)
  \/ getGameServer(c)
  \/ SetPowerState(c)
  \/ findPodForGameServer(c) \/ TailLogs(c)
  \/ collectResources(c) \/ PushResources(c)

-----------------------------------------------------------------------------
(* The cluster. *)

ClusterOnly == UNCHANGED <<call, created, faults, before, wrote>> /\ Observe

\* The operator's first pass.
AddFinalizer ==
  /\ obj.uid # 0 /\ ~ obj.finalizer
  /\ obj' = [obj EXCEPT !.finalizer = TRUE]
  /\ UNCHANGED pod /\ ClusterOnly

\* The StatefulSet of a server that is not suspended has one replica.
StartPod ==
  /\ obj.finalizer /\ ~ obj.suspended /\ ~ pod
  /\ pod' = TRUE
  /\ UNCHANGED obj /\ ClusterOnly

\* The pod of a suspended or deleted server is removed; any pod can be lost.
StopPod ==
  /\ pod
  /\ pod' = FALSE
  /\ UNCHANGED obj /\ ClusterOnly

\* Mutant: the whole cached object is written, with the spec it had at first.
SyncPodNameUpdates ==
  /\ obj.finalizer /\ ~ obj.deleting /\ pod
  /\ obj' = [obj EXCEPT !.podName = TRUE, !.suspended = FALSE]
  /\ UNCHANGED pod /\ ClusterOnly

\* The pod list of syncStatus: the name is set when there is a pod and never
\* cleared.
SyncPodName ==
  /\ obj.finalizer /\ ~ obj.deleting /\ pod
  /\ obj' = [obj EXCEPT !.podName = TRUE]
  /\ UNCHANGED pod /\ ClusterOnly

\* finalize: the API server drops the object.
Finalize ==
  /\ obj.deleting
  /\ obj' = NoObject
  /\ UNCHANGED pod /\ ClusterOnly

Cluster == AddFinalizer \/ StartPod \/ StopPod \/ SyncPodName \/ Finalize

-----------------------------------------------------------------------------
Next == (\E c \in Calls : Handler(c)) \/ Cluster

Spec == Init /\ [][Next]_vars

-----------------------------------------------------------------------------
(* Properties. *)

\* What an answer says of the server.
Says(op, code) ==
  CASE code \in {200, 201, 409} -> {"present"}
    [] code = 404 -> IF op \in PodOps THEN {"absent", "noPod"} ELSE {"absent"}
    [] code = 204 /\ op = "delete" -> {"absent", "deleting"}
    [] code = 204 /\ op \in {"stop", "kill"} -> {"suspended"}
    [] code = 204 /\ op \in {"start", "restart"} -> {"running"}
    [] OTHER -> AllFacts

\* Every answer was true at some instant between the arrival of its request and
\* the answer, although each handler makes several calls to the API server and
\* other requests, the operator and deletions come in between.  "Not found" from
\* resources and logs may mean the pod: status.podName outlives it, so a
\* stopped server can be reported as missing.
AnswersTrue ==
  \A c \in Calls : Done(c) /\ call[c].code \notin {400, 401} =>
    Says(call[c].op, call[c].code) \cap seen[c] # {}

\* The calls that can be the reason for the value of suspended stored now.
SetsSuspended(c, value) ==
  /\ call[c].pc # "new" /\ call[c].code \notin {400, 401, 404, 409}
  /\ \/ call[c].op \in PowerActions /\ Suspends(call[c].op) = value
     \/ call[c].op = "create" /\ ~ value

\* An acknowledged power action is not lost: the stored value is the one it
\* asked for, or one that a call which overlapped it or came later asked for.
\* The empty patch SetPowerState sends when the copy it read already had the
\* value is no exception.
PowerNotLost ==
  \A c \in Calls :
    /\ Done(c) /\ call[c].code = 204 /\ call[c].op \in PowerActions
    /\ obj.uid # 0 /\ obj.suspended # Suspends(call[c].op)
    => \E d \in Calls \ before[c] : SetsSuspended(d, obj.suspended)

\* After a delete is acknowledged, the incarnation that was there when the
\* request arrived is being deleted or gone, and stays so.
DeletedForGood ==
  \A c \in Calls :
    /\ Done(c) /\ call[c].code = 204 /\ call[c].op = "delete"
    /\ obj.uid # 0 /\ obj.uid = call[c].uid
    => obj.deleting

\* A refusal is final: a request answered 400, 401, 404 or 409 has changed
\* nothing, however its calls to the API server ended.
RefusalIsFinal ==
  \A c \in Calls : Done(c) /\ call[c].code \in {400, 401, 404, 409} => c \notin wrote
=============================================================================
