--------------------------- MODULE GatewayProofs ---------------------------
(***************************************************************************)
(* For any number of concurrent requests and any bound on faults and       *)
(* creations: the gateway's answers are true, refused requests change      *)
(* nothing, acknowledged deletes and power actions are not lost.           *)
(***************************************************************************)
EXTENDS Gateway, TLAPS

-----------------------------------------------------------------------------
(* The inductive invariant. *)

Active(c) == call[c].pc \notin {"new", "done"}

\* What holds now, a call under way has seen.
SeesNow(c) == Active(c) => Facts(obj, pod) \subseteq seen[c]

\* Each step belongs to the operations that take it, and what a call keeps of
\* the object it read was the case when it read it.
StepFits(c) ==
  /\ call[c].pc \in {"allocate", "create"} => call[c].op = "create"
  /\ call[c].pc = "delete" => call[c].op = "delete"
  /\ call[c].pc = "get" => call[c].op \notin {"create", "delete"}
  /\ call[c].pc = "patch" =>
       /\ call[c].op \in PowerActions
       /\ (IF call[c].suspended THEN "suspended" ELSE "running") \in seen[c]
  /\ call[c].pc \in {"findPod", "tail", "collect", "push"} =>
       call[c].op \in PodOps /\ "present" \in seen[c]

\* AnswersTrue, for one call.
AnswerTrue(c) ==
  Done(c) /\ call[c].code \notin {400, 401} =>
    Says(call[c].op, call[c].code) \cap seen[c] # {}

CallInv(c) == SeesNow(c) /\ StepFits(c) /\ AnswerTrue(c)

\* The calls that changed the object have been answered, and not refused.
WroteAnswered == \A c \in wrote : Done(c) /\ call[c].code \in {201, 204, 500}

\* Uids are not used again.
UidsKnown == obj.uid <= created /\ \A c \in Calls : call[c].uid <= created

BeforeDone == \A c \in Calls : \A d \in before[c] : Done(d)

\* A call that has set suspended, or may have.
HasSet(d, value) ==
  /\ Done(d) /\ call[d].code \in {201, 204, 500}
  /\ \/ call[d].op \in PowerActions /\ Suspends(call[d].op) = value
     \/ call[d].op = "create" /\ ~ value

\* Who finds another value than it read, or has had acknowledged, can name a
\* call that was not answered when it arrived.
Overtaken(c) ==
  /\ obj.uid # 0
  /\ \/ call[c].pc = "patch" /\ call[c].suspended # obj.suspended
     \/ /\ Done(c) /\ call[c].code = 204 /\ call[c].op \in PowerActions
        /\ Suspends(call[c].op) # obj.suspended

PowerKept ==
  \A c \in Calls : Overtaken(c) =>
    \E d \in Calls \ before[c] : HasSet(d, obj.suspended)

GatewayInv ==
  /\ TypeOK
  /\ \A c \in Calls : CallInv(c)
  /\ WroteAnswered /\ UidsKnown /\ BeforeDone
  /\ DeletedForGood
  /\ PowerKept

-----------------------------------------------------------------------------
(* Facts. *)

\* What Facts contains.
LEMMA FactsOf ==
  ASSUME NEW o \in GameServer, NEW p \in BOOLEAN
  PROVE  /\ Facts(o, p) \subseteq AllFacts
         /\ o.uid = 0 => "absent" \in Facts(o, p)
         /\ o.uid # 0 => "present" \in Facts(o, p)
         /\ o.uid # 0 /\ o.suspended => "suspended" \in Facts(o, p)
         /\ o.uid # 0 /\ ~ o.suspended => "running" \in Facts(o, p)
         /\ o.uid # 0 /\ o.deleting => "deleting" \in Facts(o, p)
         /\ ~ p => "noPod" \in Facts(o, p)
BY DEF Facts, AllFacts, GameServer

\* Every handler answers with one of its codes.
LEMMA CodesOf ==
  ASSUME NEW op, NEW err
  PROVE  Code(op, err) \in {200, 201, 204, 404, 409, 500}
BY DEF Code, Create, Delete, Get, Power, Resources, Logs

\* The codes of the answers that are given.
LEMMA CodeCases ==
  /\ Code("create", "nil") = 201 /\ Code("create", "AlreadyExists") = 409
  /\ Code("delete", "nil") = 204 /\ Code("get", "nil") = 200
  /\ \A op \in PowerActions :
       Code(op, "nil") = 204 /\ Code(op, "NotFound") = 404
  /\ \A op \in PodOps : Code(op, "nil") = 200 /\ Code(op, "NotFound") = 404
  /\ \A op \in Ops \ {"create", "delete"} : Code(op, "NotFound") = 404
  /\ \A op \in Ops : Code(op, "other") = 500
BY DEF Code, Create, Delete, Get, Power, Resources, Logs, PowerActions, PodOps, Ops

-----------------------------------------------------------------------------
(* Types. *)

\* An object built from parts of the right types.
LEMMA ObjectType ==
  ASSUME NEW u \in Nat, NEW f \in BOOLEAN, NEW d \in BOOLEAN, NEW s \in BOOLEAN,
         NEW p \in BOOLEAN
  PROVE  [uid |-> u, finalizer |-> f, deleting |-> d, suspended |-> s,
          podName |-> p] \in GameServer
BY DEF GameServer

\* A changed object.
LEMMA ObjectChange ==
  ASSUME NEW o \in GameServer
  PROVE  /\ \A u \in Nat : [o EXCEPT !.uid = u] \in GameServer
         /\ \A b \in BOOLEAN : /\ [o EXCEPT !.finalizer = b] \in GameServer
                               /\ [o EXCEPT !.deleting = b] \in GameServer
                               /\ [o EXCEPT !.suspended = b] \in GameServer
                               /\ [o EXCEPT !.podName = b] \in GameServer
BY DEF GameServer

\* A changed call.
LEMMA CallChange ==
  ASSUME NEW k \in Call, NEW step \in Steps, NEW b \in BOOLEAN
  PROVE  /\ [k EXCEPT !.pc = step] \in Call
         /\ [k EXCEPT !.pc = step, !.suspended = b] \in Call
         /\ [k EXCEPT !.pc = step, !.podName = b] \in Call
BY DEF Call

\* A call that has just arrived, one that is refused, and one that is answered.
LEMMA CallType ==
  ASSUME NEW op \in Ops
  PROVE  /\ \A step \in Steps, u \in Nat :
              [NotSent EXCEPT !.op = op, !.pc = step, !.uid = u] \in Call
         /\ \A k \in Codes :
              [[NotSent EXCEPT !.op = op, !.pc = "done"] EXCEPT !.code = k] \in Call
         /\ \A u \in Nat, k \in Codes :
              [NotSent EXCEPT !.op = op, !.pc = "done", !.uid = u, !.code = k] \in Call
<1>1. NotSent \in Call /\ "done" \in Steps
  BY DEF Call, NotSent, Steps, Codes, Ops
<1> QED
  BY <1>1 DEF Call

\* The absent object.
LEMMA NoObjectType == NoObject \in GameServer
BY ObjectType DEF NoObject

\* The initial states have the right types.
LEMMA TypeInit == Init => TypeOK
<1> SUFFICES ASSUME Init PROVE TypeOK
  OBVIOUS
<1>1. obj \in GameServer /\ created \in Nat
  <2>1. CASE obj = NoObject
    BY <2>1, NoObjectType DEF Init, NoObject
  <2>2. CASE obj \in [uid : {1}, finalizer : {TRUE}, deleting : {FALSE},
                      suspended : BOOLEAN, podName : {FALSE}]
    <3>1. obj.uid = 1 /\ obj.uid \in Nat
      BY <2>2
    <3>2. obj \in GameServer
      BY <2>2, <3>1, Zenon DEF GameServer
    <3> QED
      BY <3>1, <3>2 DEF Init
  <2> QED
    BY <2>1, <2>2 DEF Init
<1>2. NotSent \in Call
  BY DEF NotSent, Call, Ops, Steps, Codes
<1> QED
  BY <1>1, <1>2 DEF Init, TypeOK, AllFacts

\* The history of a step that keeps the object's types.
LEMMA ObserveType ==
  ASSUME TypeOK, Observe, obj' \in GameServer, pod' \in BOOLEAN
  PROVE  seen' \in [Calls -> SUBSET AllFacts]
<1>1. Facts(obj', pod') \subseteq AllFacts
  BY FactsOf
<1> QED
  BY <1>1 DEF TypeOK, Observe

\* An answer is a call.
LEMMA ReturnType ==
  ASSUME TypeOK, NEW c \in Calls, NEW err, Return(c, err)
  PROVE  call' \in [Calls -> Call]
<1>1. Code(call[c].op, err) \in Codes
  BY CodesOf DEF Codes
<1>2. [NotSent EXCEPT !.op = call[c].op, !.pc = "done", !.uid = call[c].uid,
                      !.code = Code(call[c].op, err)] \in Call
  <2>1. call[c].op \in Ops /\ call[c].uid \in Nat
    BY DEF TypeOK, Call
  <2> QED
    BY <1>1, <2>1, CallType DEF Steps
<1> QED
  BY <1>2 DEF TypeOK, Return, Answer

\* A call whose handler goes on.
LEMMA GotoType ==
  ASSUME TypeOK, NEW c \in Calls, NEW step \in Steps, Goto(c, step)
  PROVE  call' \in [Calls -> Call]
BY DEF TypeOK, Goto, Call

\* A call whose handler has read the object.
LEMMA AfterGetType ==
  ASSUME TypeOK, NEW c \in Calls, AfterGet(c)
  PROVE  call' \in [Calls -> Call]
<1>0. call[c] \in Call /\ obj.suspended \in BOOLEAN /\ obj.podName \in BOOLEAN
  BY DEF TypeOK, GameServer
<1>1. CASE Return(c, "nil") \/ Return(c, "other")
  BY <1>1, ReturnType
<1>2. [call[c] EXCEPT !.pc = "patch", !.suspended = obj.suspended] \in Call
  BY <1>0, CallChange DEF Steps
<1>3. [call[c] EXCEPT !.pc = "findPod", !.podName = obj.podName] \in Call
  BY <1>0, CallChange DEF Steps
<1> QED
  BY <1>1, <1>2, <1>3 DEF AfterGet, TypeOK

\* The count of faults.
LEMMA OutcomeType ==
  ASSUME TypeOK, NEW o, Outcome(o)
  PROVE  faults' \in Nat
BY DEF TypeOK, Outcome

\* A step of a handler keeps the types.
LEMMA HandlerType ==
  ASSUME TypeOK, NEW c \in Calls, Handler(c)
  PROVE  TypeOK'
<1> DEFINE Rest == created' \in Nat /\ faults' \in Nat /\ obj' \in GameServer
                   /\ pod' \in BOOLEAN /\ before' \in [Calls -> SUBSET Calls]
                   /\ wrote' \subseteq Calls /\ Observe
<1>0. ASSUME call' \in [Calls -> Call], Rest PROVE TypeOK'
  BY <1>0, ObserveType DEF TypeOK
<1>1. ASSUME NEW r \in Requests, NEW now \in Times, ServeHTTP(c, r, now) PROVE TypeOK'
  <2>1. Rest
    BY <1>1 DEF TypeOK, ServeHTTP, env
  <2>2. r.op \in Ops /\ Route(r.op) \in Steps /\ obj.uid \in Nat
    BY RequestsAssumption DEF Request, Route, Steps, TypeOK, GameServer
  <2>3. /\ [NotSent EXCEPT !.op = r.op, !.pc = Route(r.op), !.uid = obj.uid] \in Call
        /\ [[NotSent EXCEPT !.op = r.op, !.pc = "done"] EXCEPT !.code = 400] \in Call
        /\ [[NotSent EXCEPT !.op = r.op, !.pc = "done"] EXCEPT !.code = 401] \in Call
    <3>1. 400 \in Codes /\ 401 \in Codes /\ "done" \in Steps
      BY DEF Codes, Steps
    <3>2. [NotSent EXCEPT !.op = r.op, !.pc = Route(r.op), !.uid = obj.uid] \in Call
      BY <2>2, CallType, Zenon
    <3>3. \A k \in Codes :
            [[NotSent EXCEPT !.op = r.op, !.pc = "done"] EXCEPT !.code = k] \in Call
      BY <2>2, CallType, Zenon
    <3> QED
      BY <3>1, <3>2, <3>3
  <2>4. call' \in [Calls -> Call]
    BY <1>1, <2>3 DEF ServeHTTP, TypeOK
  <2> QED
    BY <2>1, <2>4, <1>0
<1>2. CASE AllocatePorts(c)
  <2>1. call' \in [Calls -> Call]
    BY <1>2, ReturnType, GotoType DEF AllocatePorts, Steps
  <2>2. Rest
    BY <1>2 DEF AllocatePorts, ReadOnly, TypeOK
  <2> QED
    BY <2>1, <2>2, <1>0
<1>3. CASE CreateServer(c)
  <2>1. call' \in [Calls -> Call]
    BY <1>3, ReturnType DEF CreateServer
  <2>2. Stored \in GameServer
    BY NoObjectType, ObjectChange DEF TypeOK, Stored
  <2>3. Rest
    BY <1>3, <2>2, OutcomeType DEF CreateServer, TypeOK
  <2> QED
    BY <2>1, <2>3, <1>0
<1>4. CASE DeleteServer(c)
  <2>1. call' \in [Calls -> Call]
    BY <1>4, ReturnType DEF DeleteServer
  <2>2. Deleted \in GameServer
    BY NoObjectType, ObjectChange DEF TypeOK, Deleted
  <2>3. Rest
    BY <1>4, <2>2, OutcomeType DEF DeleteServer, TypeOK
  <2> QED
    BY <2>1, <2>3, <1>0
<1>5. CASE getGameServer(c)
  <2>1. call' \in [Calls -> Call]
    BY <1>5, ReturnType, AfterGetType DEF getGameServer, Reads
  <2>2. Rest
    BY <1>5, OutcomeType DEF getGameServer, ReadOnly, TypeOK
  <2> QED
    BY <2>1, <2>2, <1>0
<1>6. CASE SetPowerState(c)
  <2>1. call' \in [Calls -> Call]
    BY <1>6, ReturnType DEF SetPowerState
  <2>2. Patched(c) \in GameServer
    <3>1. Suspends(call[c].op) \in BOOLEAN
      BY DEF Suspends
    <3> QED
      BY <3>1, ObjectChange DEF TypeOK, Patched
  <2>3. Rest
    BY <1>6, <2>2, OutcomeType DEF SetPowerState, TypeOK
  <2> QED
    BY <2>1, <2>3, <1>0
<1>7. CASE findPodForGameServer(c)
  <2>1. call' \in [Calls -> Call]
    BY <1>7, ReturnType, GotoType DEF findPodForGameServer, Steps, Reads
  <2>2. Rest
    BY <1>7, OutcomeType DEF findPodForGameServer, ReadOnly, TypeOK
  <2> QED
    BY <2>1, <2>2, <1>0
<1>8. CASE TailLogs(c)
  <2>1. call' \in [Calls -> Call]
    BY <1>8, ReturnType DEF TailLogs
  <2>2. Rest
    BY <1>8, OutcomeType DEF TailLogs, ReadOnly, TypeOK
  <2> QED
    BY <2>1, <2>2, <1>0
<1>9. CASE collectResources(c) \/ PushResources(c)
  <2>1. call' \in [Calls -> Call]
    BY <1>9, ReturnType, GotoType DEF collectResources, PushResources, Steps
  <2>2. Rest
    BY <1>9, OutcomeType DEF collectResources, PushResources, ReadOnly, TypeOK
  <2> QED
    BY <2>1, <2>2, <1>0
<1> QED
  BY <1>1, <1>2, <1>3, <1>4, <1>5, <1>6, <1>7, <1>8, <1>9 DEF Handler

\* What the operator and the cluster may do to the object: requests see at most
\* its end.
LEMMA ClusterStep ==
  ASSUME TypeOK, Cluster
  PROVE  /\ ClusterOnly
         /\ obj' \in GameServer /\ pod' \in BOOLEAN
         /\ obj'.uid \in {0, obj.uid}
         /\ obj'.uid # 0 => /\ obj'.suspended = obj.suspended
                            /\ obj'.deleting = obj.deleting
<1> USE DEF TypeOK, GameServer
<1>1. CASE AddFinalizer
  BY <1>1 DEF AddFinalizer
<1>2. CASE StartPod \/ StopPod
  BY <1>2 DEF StartPod, StopPod
<1>3. CASE SyncPodName
  BY <1>3 DEF SyncPodName
<1>4. CASE Finalize
  BY <1>4 DEF Finalize, NoObject
<1> QED
  BY <1>1, <1>2, <1>3, <1>4 DEF Cluster

\* Every step keeps the types.
LEMMA TypeStep == TypeOK /\ [Next]_vars => TypeOK'
<1> SUFFICES ASSUME TypeOK, [Next]_vars PROVE TypeOK'
  OBVIOUS
<1>1. CASE Cluster
  BY <1>1, ClusterStep, ObserveType DEF TypeOK, ClusterOnly
<1>2. CASE UNCHANGED vars
  BY <1>2 DEF TypeOK, vars
<1> QED
  BY <1>1, <1>2, HandlerType DEF Next

-----------------------------------------------------------------------------
(* Calls. *)

\* A call under way goes on seeing; what a call has seen is not forgotten.
LEMMA SeenGrows ==
  ASSUME TypeOK, Observe, NEW d \in Calls
  PROVE  /\ seen[d] \subseteq seen'[d]
         /\ ~ Done(d) /\ call'[d].pc # "new" => Facts(obj', pod') \subseteq seen'[d]
BY DEF TypeOK, Observe

\* A step of somebody else.
LEMMA OtherCall ==
  ASSUME TypeOK, Observe, NEW d \in Calls, call'[d] = call[d], CallInv(d)
  PROVE  CallInv(d)'
<1>1. SeesNow(d)'
  BY SeenGrows DEF SeesNow, Active, Done
<1>2. StepFits(d)'
  BY SeenGrows DEF CallInv, StepFits
<1>3. AnswerTrue(d)'
  BY SeenGrows DEF CallInv, AnswerTrue, Done
<1> QED
  BY <1>1, <1>2, <1>3 DEF CallInv

\* A call that goes on.
LEMMA GoesOn ==
  ASSUME TypeOK, Observe, NEW c \in Calls, ~ Done(c),
         call'[c].pc \notin {"new", "done"}, StepFits(c)'
  PROVE  CallInv(c)'
<1>1. SeesNow(c)'
  BY SeenGrows DEF SeesNow
<1>2. AnswerTrue(c)'
  BY DEF AnswerTrue, Done
<1> QED
  BY <1>1, <1>2 DEF CallInv

\* What an answer leaves of the call.
LEMMA AnswerOf ==
  ASSUME TypeOK, NEW c \in Calls, NEW err, Return(c, err)
  PROVE  /\ call'[c].pc = "done" /\ call'[c].op = call[c].op
         /\ call'[c].uid = call[c].uid
         /\ call'[c].code = Code(call[c].op, err)
         /\ \A d \in Calls \ {c} : call'[d] = call[d]
BY DEF TypeOK, Return, Answer, NotSent

\* An answer, when something it says has been seen.
LEMMA TrueAnswer ==
  ASSUME TypeOK, NEW c \in Calls, NEW err, Return(c, err),
         NEW f \in Says(call[c].op, Code(call[c].op, err)), f \in seen'[c]
  PROVE  CallInv(c)'
<1>1. call'[c].pc = "done" /\ call'[c].op = call[c].op
      /\ call'[c].code = Code(call[c].op, err)
  BY AnswerOf
<1>2. SeesNow(c)' /\ StepFits(c)'
  BY <1>1 DEF SeesNow, Active, StepFits
<1>3. AnswerTrue(c)'
  BY <1>1 DEF AnswerTrue
<1> QED
  BY <1>2, <1>3 DEF CallInv

\* What a call under way has seen at its next step: the state before it and the
\* state after it.
LEMMA SeesBoth ==
  ASSUME TypeOK, TypeOK', Observe, NEW c \in Calls, Active(c), SeesNow(c),
         call'[c].pc # "new"
  PROVE  /\ Facts(obj, pod) \subseteq seen'[c] /\ Facts(obj', pod') \subseteq seen'[c]
         /\ Facts(obj, pod) \cap AllFacts # {}
<1>1. Facts(obj, pod) \subseteq AllFacts /\ Facts(obj, pod) # {}
  BY FactsOf DEF TypeOK
<1> QED
  BY <1>1, SeenGrows DEF SeesNow, Active, Done

\* What answers say, where it matters.
LEMMA SaysCases ==
  /\ \A op \in Ops : Says(op, 500) = AllFacts
  /\ \A op \in Ops : "present" \in Says(op, 200)
  /\ \A op \in Ops : "present" \in Says(op, 201)
  /\ \A op \in Ops : "present" \in Says(op, 409)
  /\ \A op \in Ops : "absent" \in Says(op, 404)
  /\ \A op \in PodOps : "noPod" \in Says(op, 404)
  /\ "absent" \in Says("delete", 204) /\ "deleting" \in Says("delete", 204)
  /\ \A op \in PowerActions :
       (IF Suspends(op) THEN "suspended" ELSE "running") \in Says(op, 204)
BY DEF Says, Ops, PowerActions, PodOps, Suspends

\* An error other than NotFound and AlreadyExists says nothing.
LEMMA OtherError ==
  ASSUME TypeOK, TypeOK', Observe, NEW c \in Calls, Active(c), SeesNow(c),
         Return(c, "other")
  PROVE  CallInv(c)'
<1>1. call[c].op \in Ops
  BY DEF TypeOK, Call
<1>2. Says(call[c].op, Code(call[c].op, "other")) = AllFacts
  BY <1>1, CodeCases, SaysCases
<1>3. call'[c].pc # "new"
  BY AnswerOf
<1>4. PICK f \in AllFacts : f \in seen'[c]
  BY <1>3, SeesBoth
<1> QED
  BY <1>2, <1>4, TrueAnswer

\* The acting call keeps its part of the invariant, one action at a time.
LEMMA ActingCall ==
  ASSUME TypeOK, TypeOK', NEW c \in Calls, Handler(c), CallInv(c)
  PROVE  CallInv(c)' /\ Observe /\ ~ Done(c)
                     /\ \A d \in Calls \ {c} : call'[d] = call[d]
<1> DEFINE Goal == CallInv(c)' /\ Observe /\ ~ Done(c)
                     /\ \A d \in Calls \ {c} : call'[d] = call[d]
<1> USE DEF CallInv
<1>0. call[c].op \in Ops /\ obj \in GameServer /\ pod \in BOOLEAN
      /\ obj' \in GameServer /\ pod' \in BOOLEAN
  BY DEF TypeOK, Call
<1>1. ASSUME NEW r \in Requests, NEW now \in Times, ServeHTTP(c, r, now) PROVE Goal
  <2>1. Observe /\ ~ Done(c) /\ \A d \in Calls \ {c} : call'[d] = call[d]
    BY <1>1 DEF ServeHTTP, Done, TypeOK
  <2>2. \/ call'[c].pc = "done" /\ call'[c].code \in {400, 401}
        \/ call'[c].pc = Route(r.op) /\ call'[c].op = r.op
    BY <1>1 DEF ServeHTTP, NotSent, TypeOK
  <2>3. CASE call'[c].pc = "done" /\ call'[c].code \in {400, 401}
    BY <2>1, <2>3 DEF SeesNow, Active, StepFits, AnswerTrue, Done
  <2>4. CASE call'[c].pc = Route(r.op) /\ call'[c].op = r.op
    <3>1. call'[c].pc \notin {"new", "done"} /\ StepFits(c)'
      BY <2>4 DEF StepFits, Route
    <3> QED
      BY <2>1, <3>1, GoesOn
  <2> QED
    BY <2>2, <2>3, <2>4
<1>2. CASE AllocatePorts(c)
  <2>1. Observe /\ Active(c) /\ ~ Done(c)
    BY <1>2 DEF AllocatePorts, ReadOnly, Active, Done
  <2>2. CASE Goto(c, "create")
    <3>1. call'[c] = [call[c] EXCEPT !.pc = "create"]
          /\ \A d \in Calls \ {c} : call'[d] = call[d]
      BY <2>2 DEF Goto, TypeOK
    <3>2. call'[c].pc = "create" /\ call'[c].op = call[c].op
      BY <3>1 DEF TypeOK, Call
    <3>3. StepFits(c)'
      BY <1>2, <3>2 DEF StepFits, AllocatePorts
    <3> QED
      BY <2>1, <3>1, <3>2, <3>3, GoesOn
  <2>3. CASE Return(c, "other")
    BY <2>1, <2>3, OtherError, AnswerOf
  <2> QED
    BY <1>2, <2>2, <2>3 DEF AllocatePorts
<1>3. CASE CreateServer(c)
  <2>1. Observe /\ Active(c) /\ ~ Done(c) /\ call[c].op = "create"
    BY <1>3 DEF CreateServer, Active, Done, StepFits
  <2>2. PICK o \in Writes :
          /\ obj' = IF o = "error" THEN obj ELSE Stored
          /\ Return(c, IF o # "ok" THEN "other"
                       ELSE IF obj.uid = 0 THEN "nil" ELSE "AlreadyExists")
    BY <1>3 DEF CreateServer
  <2>3. CASE o # "ok"
    BY <2>1, <2>2, <2>3, OtherError, AnswerOf
  <2>4. CASE o = "ok" /\ obj.uid = 0
    <3>1. Return(c, "nil") /\ obj' = Stored
      BY <2>2, <2>4
    <3>2. obj'.uid # 0
      BY <2>4, <3>1 DEF Stored, NoObject, TypeOK
    <3>3. "present" \in seen'[c]
      BY <1>0, <2>1, <3>1, <3>2, FactsOf, SeesBoth, AnswerOf
    <3>4. "present" \in Says(call[c].op, Code(call[c].op, "nil"))
      BY <1>0, <2>1, CodeCases, SaysCases
    <3> QED
      BY <2>1, <3>1, <3>3, <3>4, TrueAnswer, AnswerOf
  <2>5. CASE o = "ok" /\ obj.uid # 0
    <3>1. Return(c, "AlreadyExists")
      BY <2>2, <2>5
    <3>2. "present" \in seen'[c]
      BY <1>0, <2>1, <2>5, <3>1, FactsOf, SeesBoth, AnswerOf
    <3>3. "present" \in Says(call[c].op, Code(call[c].op, "AlreadyExists"))
      BY <1>0, <2>1, CodeCases, SaysCases
    <3> QED
      BY <2>1, <3>1, <3>2, <3>3, TrueAnswer, AnswerOf
  <2> QED
    BY <2>3, <2>4, <2>5
<1>4. CASE DeleteServer(c)
  <2>1. Observe /\ Active(c) /\ ~ Done(c) /\ call[c].op = "delete"
    BY <1>4 DEF DeleteServer, Active, Done, StepFits
  <2>2. PICK o \in Writes : /\ obj' = IF o = "error" THEN obj ELSE Deleted
                            /\ Return(c, IF o = "ok" THEN "nil" ELSE "other")
    BY <1>4 DEF DeleteServer
  <2>3. CASE o # "ok"
    BY <2>1, <2>2, <2>3, OtherError, AnswerOf
  <2>4. CASE o = "ok"
    <3>1. Return(c, "nil") /\ obj' = Deleted
      BY <2>2, <2>4
    <3>2. obj'.uid = 0 \/ obj'.deleting
      BY <3>1 DEF Deleted, NoObject, TypeOK, GameServer
    <3>3. "absent" \in seen'[c] \/ "deleting" \in seen'[c]
      BY <1>0, <2>1, <3>1, <3>2, FactsOf, SeesBoth, AnswerOf
    <3>4. {"absent", "deleting"} \subseteq Says(call[c].op, Code(call[c].op, "nil"))
      BY <2>1, CodeCases, SaysCases
    <3> QED
      BY <2>1, <3>1, <3>3, <3>4, TrueAnswer, AnswerOf
  <2> QED
    BY <2>3, <2>4
<1>5. CASE getGameServer(c)
  <2>1. Observe /\ Active(c) /\ ~ Done(c) /\ call[c].op \notin {"create", "delete"}
        /\ obj' = obj /\ pod' = pod
    BY <1>5 DEF getGameServer, ReadOnly, Active, Done, StepFits
  <2>2. \/ Return(c, "other")
        \/ obj.uid = 0 /\ Return(c, "NotFound")
        \/ obj.uid # 0 /\ AfterGet(c)
    BY <1>5 DEF getGameServer, Reads
  <2>3. CASE Return(c, "other")
    BY <2>1, <2>3, OtherError, AnswerOf
  <2>4. CASE obj.uid = 0 /\ Return(c, "NotFound")
    <3>1. "absent" \in seen'[c]
      BY <1>0, <2>1, <2>4, FactsOf, SeesBoth, AnswerOf
    <3>2. "absent" \in Says(call[c].op, Code(call[c].op, "NotFound"))
      BY <1>0, <2>1, CodeCases, SaysCases
    <3> QED
      BY <2>1, <2>4, <3>1, <3>2, TrueAnswer, AnswerOf
  <2>5. CASE obj.uid # 0 /\ AfterGet(c)
    <3>1. CASE call[c].op = "get" /\ Return(c, "nil")
      <4>1. "present" \in seen'[c]
        BY <1>0, <2>1, <2>5, <3>1, FactsOf, SeesBoth, AnswerOf
      <4>2. "present" \in Says(call[c].op, Code(call[c].op, "nil"))
        BY <1>0, <3>1, CodeCases, SaysCases
      <4> QED
        BY <2>1, <3>1, <4>1, <4>2, TrueAnswer, AnswerOf
    <3>2. CASE call[c].op \in PowerActions
               /\ call' = [call EXCEPT ![c] =
                     [@ EXCEPT !.pc = "patch", !.suspended = obj.suspended]]
      <4>1. /\ call'[c].pc = "patch" /\ call'[c].op = call[c].op
            /\ call'[c].suspended = obj.suspended
            /\ \A d \in Calls \ {c} : call'[d] = call[d]
        BY <3>2 DEF TypeOK, Call
      <4>2. (IF obj.suspended THEN "suspended" ELSE "running") \in seen'[c]
        BY <1>0, <2>1, <2>5, <4>1, FactsOf, SeesBoth
      <4>3. StepFits(c)'
        BY <3>2, <4>1, <4>2 DEF StepFits
      <4> QED
        BY <2>1, <4>1, <4>3, GoesOn
    <3>3. CASE call[c].op \in PodOps
               /\ call' = [call EXCEPT ![c] =
                     [@ EXCEPT !.pc = "findPod", !.podName = obj.podName]]
      <4>1. /\ call'[c].pc = "findPod" /\ call'[c].op = call[c].op
            /\ \A d \in Calls \ {c} : call'[d] = call[d]
        BY <3>3 DEF TypeOK, Call
      <4>2. "present" \in seen'[c]
        BY <1>0, <2>1, <2>5, <4>1, FactsOf, SeesBoth
      <4>3. StepFits(c)'
        BY <3>3, <4>1, <4>2 DEF StepFits
      <4> QED
        BY <2>1, <4>1, <4>3, GoesOn
    <3> QED
      BY <2>3, <2>5, <3>1, <3>2, <3>3 DEF AfterGet
  <2> QED
    BY <2>2, <2>3, <2>4, <2>5
<1>6. CASE SetPowerState(c)
  <2>1. Observe /\ Active(c) /\ ~ Done(c) /\ call[c].op \in PowerActions
        /\ (IF call[c].suspended THEN "suspended" ELSE "running") \in seen[c]
    BY <1>6 DEF SetPowerState, Active, Done, StepFits
  <2>2. PICK o \in Writes :
          /\ obj' = IF o = "error" THEN obj ELSE Patched(c)
          /\ Return(c, IF o # "ok" THEN "other"
                       ELSE IF obj.uid = 0 THEN "NotFound" ELSE "nil")
    BY <1>6 DEF SetPowerState
  <2>3. CASE o # "ok"
    BY <2>1, <2>2, <2>3, OtherError, AnswerOf
  <2>4. CASE o = "ok" /\ obj.uid = 0
    <3>1. Return(c, "NotFound")
      BY <2>2, <2>4
    <3>2. "absent" \in seen'[c]
      BY <1>0, <2>1, <2>4, <3>1, FactsOf, SeesBoth, AnswerOf
    <3>3. "absent" \in Says(call[c].op, Code(call[c].op, "NotFound"))
      BY <1>0, <2>1, CodeCases, SaysCases
    <3> QED
      BY <2>1, <3>1, <3>2, <3>3, TrueAnswer, AnswerOf
  <2>5. CASE o = "ok" /\ obj.uid # 0
    <3> DEFINE want == Suspends(call[c].op)
               fact == IF want THEN "suspended" ELSE "running"
    <3>1. Return(c, "nil") /\ obj' = Patched(c)
      BY <2>2, <2>5
    <3>2. fact \in seen'[c]
      <4>1. CASE call[c].suspended = want
        BY <2>1, <4>1, SeenGrows
      <4>2. CASE call[c].suspended # want
        <5>1. want \in BOOLEAN
          BY DEF Suspends
        <5>2. obj'.uid # 0 /\ obj'.suspended = want
          BY <2>5, <3>1, <4>2, <5>1 DEF Patched, TypeOK, GameServer
        <5>3. fact \in Facts(obj', pod')
          BY <1>0, <5>2, FactsOf
        <5> QED
          BY <2>1, <3>1, <5>3, SeesBoth, AnswerOf
      <4> QED
        BY <4>1, <4>2
    <3>3. fact \in Says(call[c].op, Code(call[c].op, "nil"))
      BY <2>1, CodeCases, SaysCases
    <3> QED
      BY <2>1, <3>1, <3>2, <3>3, TrueAnswer, AnswerOf
  <2> QED
    BY <2>3, <2>4, <2>5
<1>7. CASE findPodForGameServer(c)
  <2>1. Observe /\ Active(c) /\ ~ Done(c) /\ call[c].op \in PodOps
        /\ "present" \in seen'[c] /\ obj' = obj /\ pod' = pod
    BY <1>7, SeenGrows DEF findPodForGameServer, ReadOnly, Active, Done, StepFits
  <2>2. \/ Return(c, "other")
        \/ Goto(c, "tail") \/ Goto(c, "collect")
        \/ ~ pod /\ Return(c, "NotFound")
    BY <1>7 DEF findPodForGameServer, Reads
  <2>3. CASE Return(c, "other")
    BY <2>1, <2>3, OtherError, AnswerOf
  <2>4. ASSUME NEW step \in {"tail", "collect"}, Goto(c, step) PROVE Goal
    <3>1. /\ call'[c].pc = step /\ call'[c].op = call[c].op
          /\ \A d \in Calls \ {c} : call'[d] = call[d]
      BY <2>4 DEF Goto, TypeOK, Call
    <3>2. StepFits(c)'
      BY <2>1, <3>1 DEF StepFits
    <3> QED
      BY <2>1, <3>1, <3>2, GoesOn
  <2>5. CASE ~ pod /\ Return(c, "NotFound")
    <3>1. "noPod" \in seen'[c]
      BY <1>0, <2>1, <2>5, FactsOf, SeesBoth, AnswerOf
    <3>2. "noPod" \in Says(call[c].op, Code(call[c].op, "NotFound"))
      BY <1>0, <2>1, CodeCases, SaysCases
    <3> QED
      BY <2>1, <2>5, <3>1, <3>2, TrueAnswer, AnswerOf
  <2> QED
    BY <2>2, <2>3, <2>4, <2>5
<1>8. CASE TailLogs(c) \/ PushResources(c)
  <2>1. Observe /\ Active(c) /\ ~ Done(c) /\ call[c].op \in PodOps
        /\ "present" \in seen'[c] /\ obj' = obj /\ pod' = pod
    BY <1>8, SeenGrows DEF TailLogs, PushResources, ReadOnly, Active, Done, StepFits
  <2>2. Return(c, "other") \/ Return(c, "nil") \/ (~ pod /\ Return(c, "NotFound"))
    BY <1>8 DEF TailLogs, PushResources
  <2>3. CASE Return(c, "other")
    BY <2>1, <2>3, OtherError, AnswerOf
  <2>4. CASE Return(c, "nil")
    <3>1. "present" \in Says(call[c].op, Code(call[c].op, "nil"))
      BY <1>0, <2>1, CodeCases, SaysCases
    <3> QED
      BY <2>1, <2>4, <3>1, TrueAnswer, AnswerOf
  <2>5. CASE ~ pod /\ Return(c, "NotFound")
    <3>1. "noPod" \in seen'[c]
      BY <1>0, <2>1, <2>5, FactsOf, SeesBoth, AnswerOf
    <3>2. "noPod" \in Says(call[c].op, Code(call[c].op, "NotFound"))
      BY <1>0, <2>1, CodeCases, SaysCases
    <3> QED
      BY <2>1, <2>5, <3>1, <3>2, TrueAnswer, AnswerOf
  <2> QED
    BY <2>2, <2>3, <2>4, <2>5
<1>9. CASE collectResources(c)
  <2>1. Observe /\ ~ Done(c) /\ call[c].op \in PodOps /\ "present" \in seen'[c]
    BY <1>9, SeenGrows DEF collectResources, ReadOnly, Done, StepFits
  <2>2. /\ call'[c].pc = "push" /\ call'[c].op = call[c].op
        /\ \A d \in Calls \ {c} : call'[d] = call[d]
    BY <1>9 DEF collectResources, Goto, TypeOK, Call
  <2>3. StepFits(c)'
    BY <2>1, <2>2 DEF StepFits
  <2> QED
    BY <2>1, <2>2, <2>3, GoesOn
<1> QED
  BY <1>1, <1>2, <1>3, <1>4, <1>5, <1>6, <1>7, <1>8, <1>9 DEF Handler

-----------------------------------------------------------------------------
(* What a step of a handler does to the object. *)

\* Either a handler leaves the object alone, and acknowledges no delete and no
\* power action.
Looks(c) ==
  /\ obj' = obj /\ created' = created /\ wrote' = wrote
  /\ before' = before \/ before' = [before EXCEPT ![c] = {d \in Calls : Done(d)}]
  /\ call'[c].uid \in {0, obj.uid, call[c].uid}
  /\ call'[c].pc = "patch" => call'[c].suspended = obj.suspended
  /\ call'[c].pc = "done" =>
       ~ (call'[c].code = 204 /\ call'[c].op \in PowerActions \cup {"delete"})

\* Or it sends its one write and returns.
Sends(c) ==
  /\ before' = before
  /\ call'[c].pc = "done" /\ call'[c].op = call[c].op /\ call'[c].uid = call[c].uid
  /\ wrote' = IF obj' # obj THEN wrote \cup {c} ELSE wrote
  /\ obj' # obj => call'[c].code \in {201, 204, 500}

\* A write that creates.
SendsCreate(c) ==
  /\ Sends(c) /\ call[c].op = "create"
  /\ \/ obj' = obj /\ created' = created
     \/ /\ obj.uid = 0 /\ created' = created + 1
        /\ obj'.uid = created + 1 /\ ~ obj'.suspended

\* A write that deletes.
SendsDelete(c) ==
  /\ Sends(c) /\ call[c].op = "delete" /\ created' = created
  /\ obj'.uid \in {0, obj.uid}
  /\ obj'.uid # 0 => obj'.suspended = obj.suspended
  /\ obj'.uid # 0 /\ obj.deleting => obj'.deleting
  /\ obj'.uid # 0 /\ call'[c].code = 204 => obj'.deleting

\* A write that sets suspended, or is empty because the copy had the value.
SendsPatch(c) ==
  /\ Sends(c) /\ call[c].op \in PowerActions /\ created' = created
  /\ call[c].pc = "patch"
  /\ obj'.uid = obj.uid /\ obj'.deleting = obj.deleting
  /\ obj' # obj => obj.uid # 0 /\ obj'.suspended = Suspends(call[c].op)
  /\ obj'.uid # 0 /\ call'[c].code = 204 =>
       \/ obj'.suspended = Suspends(call[c].op)
       \/ obj'.suspended = obj.suspended /\ call[c].suspended = Suspends(call[c].op)

\* The requests that only read, and the arrival of a request.
LEMMA LooksStep ==
  ASSUME TypeOK, NEW c \in Calls, StepFits(c),
         \/ \E r \in Requests, now \in Times : ServeHTTP(c, r, now)
         \/ AllocatePorts(c) \/ getGameServer(c) \/ findPodForGameServer(c)
         \/ TailLogs(c) \/ collectResources(c) \/ PushResources(c)
  PROVE  Looks(c)
<1> DEFINE Calm == obj' = obj /\ created' = created /\ wrote' = wrote
                   /\ before' = before
<1>0. call[c].op \in Ops
  BY DEF TypeOK, Call
<1>1. ASSUME NEW r \in Requests, NEW now \in Times, ServeHTTP(c, r, now) PROVE Looks(c)
  <2>1. /\ obj' = obj /\ created' = created /\ wrote' = wrote
        /\ before' = [before EXCEPT ![c] = {d \in Calls : Done(d)}]
    BY <1>1 DEF ServeHTTP, env
  <2>2. /\ call'[c].uid \in {0, obj.uid}
        /\ \/ call'[c].pc = "done" /\ call'[c].code \in {400, 401}
           \/ call'[c].pc = Route(r.op)
    BY <1>1 DEF ServeHTTP, NotSent, TypeOK
  <2> QED
    BY <2>1, <2>2 DEF Looks, Route
<1>2. ASSUME NEW err, Return(c, err), Calm,
             \/ err = "other"
             \/ err = "NotFound" /\ call[c].op \notin {"create", "delete"}
             \/ err = "nil" /\ call[c].op \in PodOps \cup {"get"}
      PROVE  Looks(c)
  <2>1. Code(call[c].op, err) # 204
    BY <1>0, <1>2, CodeCases
  <2> QED
    BY <1>2, <2>1, AnswerOf DEF Looks
<1>3. ASSUME NEW step \in Steps \ {"patch", "done"}, Goto(c, step), Calm PROVE Looks(c)
  <2>1. call'[c].pc = step /\ call'[c].uid = call[c].uid
    BY <1>3 DEF Goto, TypeOK, Call
  <2> QED
    BY <1>3, <2>1 DEF Looks
<1>4. CASE AllocatePorts(c)
  <2>1. Calm
    BY <1>4 DEF AllocatePorts, ReadOnly
  <2>2. CASE Goto(c, "create")
    <3>1. "create" \in Steps \ {"patch", "done"}
      BY DEF Steps
    <3> QED
      BY <1>3, <2>1, <2>2, <3>1
  <2>3. CASE Return(c, "other")
    BY <1>2, <2>1, <2>3
  <2> QED
    BY <1>4, <2>2, <2>3 DEF AllocatePorts
<1>5. CASE getGameServer(c)
  <2>1. Calm /\ call[c].op \notin {"create", "delete"}
    BY <1>5 DEF getGameServer, ReadOnly, StepFits
  <2>2. Return(c, "other") \/ Return(c, "NotFound") \/ AfterGet(c)
    BY <1>5 DEF getGameServer, Reads
  <2>3. CASE Return(c, "other") \/ Return(c, "NotFound")
    BY <1>2, <2>1, <2>3
  <2>4. CASE AfterGet(c)
    <3>1. CASE call[c].op = "get" /\ Return(c, "nil")
      BY <1>2, <2>1, <3>1
    <3>2. CASE call' = [call EXCEPT ![c] =
                  [@ EXCEPT !.pc = "patch", !.suspended = obj.suspended]]
      BY <2>1, <3>2 DEF Looks, TypeOK, Call
    <3>3. CASE call' = [call EXCEPT ![c] =
                  [@ EXCEPT !.pc = "findPod", !.podName = obj.podName]]
      BY <2>1, <3>3 DEF Looks, TypeOK, Call
    <3> QED
      BY <2>3, <2>4, <3>1, <3>2, <3>3 DEF AfterGet
  <2> QED
    BY <2>2, <2>3, <2>4
<1>6. CASE findPodForGameServer(c)
  <2>1. Calm /\ call[c].op \in PodOps
    BY <1>6 DEF findPodForGameServer, ReadOnly, StepFits
  <2>2. \/ Return(c, "other") \/ Return(c, "NotFound")
        \/ Goto(c, "tail") \/ Goto(c, "collect")
    BY <1>6 DEF findPodForGameServer, Reads
  <2> QED
    BY <1>2, <1>3, <2>1, <2>2 DEF PodOps, Steps
<1>7. CASE TailLogs(c) \/ PushResources(c)
  <2>1. Calm /\ call[c].op \in PodOps
    BY <1>7 DEF TailLogs, PushResources, ReadOnly, StepFits
  <2>2. Return(c, "other") \/ Return(c, "NotFound") \/ Return(c, "nil")
    BY <1>7 DEF TailLogs, PushResources
  <2> QED
    BY <1>2, <2>1, <2>2 DEF PodOps
<1>8. CASE collectResources(c)
  BY <1>3, <1>8 DEF collectResources, ReadOnly, Steps
<1> QED
  BY <1>1, <1>4, <1>5, <1>6, <1>7, <1>8

\* CreateServer sends a create.
LEMMA CreateStep ==
  ASSUME TypeOK, NEW c \in Calls, StepFits(c), CreateServer(c)
  PROVE  SendsCreate(c)
<1>1. call[c].op = "create"
  BY DEF CreateServer, StepFits
<1>2. PICK o \in Writes :
        /\ obj' = IF o = "error" THEN obj ELSE Stored
        /\ Return(c, IF o # "ok" THEN "other"
                     ELSE IF obj.uid = 0 THEN "nil" ELSE "AlreadyExists")
  BY DEF CreateServer
<1>3. Stored = obj \/ (obj.uid = 0 /\ Stored.uid = created + 1 /\ ~ Stored.suspended)
  BY DEF Stored, NoObject
<1>4. obj' # obj => call'[c].code \in {201, 500}
  BY <1>1, <1>2, AnswerOf, CodeCases DEF Stored, Ops
<1>5. Sends(c)
  BY <1>2, <1>4, AnswerOf DEF Sends, CreateServer
<1>6. obj' # obj => obj.uid = 0 /\ obj'.uid = created + 1 /\ ~ obj'.suspended
  BY <1>2, <1>3
<1> QED
  BY <1>1, <1>5, <1>6 DEF SendsCreate, CreateServer

\* DeleteServer sends a delete.
LEMMA DeleteStep ==
  ASSUME TypeOK, NEW c \in Calls, StepFits(c), DeleteServer(c)
  PROVE  SendsDelete(c)
<1>1. call[c].op = "delete"
  BY DEF DeleteServer, StepFits
<1>2. PICK o \in Writes : /\ obj' = IF o = "error" THEN obj ELSE Deleted
                          /\ Return(c, IF o = "ok" THEN "nil" ELSE "other")
  BY DEF DeleteServer
<1>3. /\ Deleted.uid \in {0, obj.uid}
      /\ Deleted.uid # 0 => Deleted.suspended = obj.suspended /\ Deleted.deleting
  BY DEF Deleted, NoObject, TypeOK, GameServer
<1>4. /\ call'[c].code \in {204, 500}
      /\ call'[c].code = 204 => o = "ok"
  BY <1>1, <1>2, AnswerOf, CodeCases DEF Ops
<1>5. Sends(c)
  BY <1>2, <1>4, AnswerOf DEF Sends, DeleteServer
<1> QED
  BY <1>1, <1>2, <1>3, <1>4, <1>5 DEF SendsDelete, DeleteServer

\* SetPowerState sends a patch.
LEMMA PatchStep ==
  ASSUME TypeOK, NEW c \in Calls, StepFits(c), SetPowerState(c)
  PROVE  SendsPatch(c)
<1>1. call[c].op \in PowerActions /\ call[c].op \in Ops /\ call[c].pc = "patch"
  BY DEF SetPowerState, StepFits, Ops
<1>2. PICK o \in Writes :
        /\ obj' = IF o = "error" THEN obj ELSE Patched(c)
        /\ Return(c, IF o # "ok" THEN "other"
                     ELSE IF obj.uid = 0 THEN "NotFound" ELSE "nil")
  BY DEF SetPowerState
<1>3. /\ Patched(c).uid = obj.uid /\ Patched(c).deleting = obj.deleting
      /\ \/ Patched(c) = obj /\ (obj.uid # 0 => call[c].suspended = Suspends(call[c].op))
         \/ obj.uid # 0 /\ Patched(c).suspended = Suspends(call[c].op)
  BY DEF Patched, TypeOK, GameServer
<1>4. /\ obj.uid # 0 => call'[c].code \in {204, 500}
      /\ call'[c].code = 204 => o = "ok"
  BY <1>1, <1>2, AnswerOf, CodeCases
<1>5. obj' # obj => obj.uid # 0 /\ obj'.suspended = Suspends(call[c].op)
  BY <1>2, <1>3
<1>6. Sends(c)
  BY <1>2, <1>4, <1>5, AnswerOf DEF Sends, SetPowerState
<1>7. obj'.uid = obj.uid /\ obj'.deleting = obj.deleting
  BY <1>2, <1>3
<1>8. obj'.uid # 0 /\ call'[c].code = 204 =>
        \/ obj'.suspended = Suspends(call[c].op)
        \/ obj'.suspended = obj.suspended /\ call[c].suspended = Suspends(call[c].op)
  BY <1>2, <1>3, <1>4, <1>7
<1> QED
  BY <1>1, <1>5, <1>6, <1>7, <1>8 DEF SendsPatch, SetPowerState

\* Every step of a handler is one of these.
LEMMA HandlerEffect ==
  ASSUME TypeOK, NEW c \in Calls, StepFits(c), Handler(c)
  PROVE  Looks(c) \/ SendsCreate(c) \/ SendsDelete(c) \/ SendsPatch(c)
BY LooksStep, CreateStep, DeleteStep, PatchStep DEF Handler

-----------------------------------------------------------------------------
(* The rest of the invariant. *)

\* Every call keeps its part, whoever acts.
LEMMA CallsStep ==
  ASSUME GatewayInv, TypeOK', Next
  PROVE  \A d \in Calls : CallInv(d)'
<1> SUFFICES ASSUME NEW d \in Calls PROVE CallInv(d)'
  OBVIOUS
<1> USE DEF GatewayInv
<1>1. CASE Cluster
  <2>1. Observe /\ call'[d] = call[d]
    BY <1>1, ClusterStep DEF ClusterOnly
  <2> QED
    BY <2>1, OtherCall
<1>2. ASSUME NEW c \in Calls, Handler(c) PROVE CallInv(d)'
  <2>1. CallInv(c)' /\ Observe /\ \A e \in Calls \ {c} : call'[e] = call[e]
    BY <1>2, ActingCall
  <2> QED
    BY <2>1, OtherCall
<1> QED
  BY <1>1, <1>2 DEF Next

\* Who wrote has been answered, for a step of a handler.
LEMMA WroteStep ==
  ASSUME GatewayInv, NEW c \in Calls, Handler(c)
  PROVE  WroteAnswered'
<1> USE DEF GatewayInv
<1>1. /\ StepFits(c) /\ ~ Done(c)
      /\ TypeOK' => \A d \in Calls \ {c} : call'[d] = call[d]
  BY ActingCall, HandlerType DEF CallInv
<1>2. \A d \in Calls \ {c} : call'[d] = call[d]
  BY <1>1, HandlerType
<1>3. c \notin wrote
  BY <1>1 DEF WroteAnswered
<1>4. \A d \in wrote : call'[d] = call[d]
  BY <1>2, <1>3 DEF TypeOK
<1>5. CASE Looks(c)
  BY <1>4, <1>5 DEF Looks, WroteAnswered, Done
<1>6. CASE Sends(c)
  BY <1>4, <1>6 DEF Sends, WroteAnswered, Done
<1> QED
  BY <1>1, <1>5, <1>6, HandlerEffect DEF SendsCreate, SendsDelete, SendsPatch

\* Uids, for a step of a handler.
LEMMA UidsStep ==
  ASSUME GatewayInv, NEW c \in Calls, Handler(c)
  PROVE  UidsKnown' /\ created <= created'
<1> USE DEF GatewayInv
<1>1. StepFits(c) /\ \A d \in Calls \ {c} : call'[d] = call[d]
  BY ActingCall, HandlerType DEF CallInv
<1>2. /\ obj.uid \in Nat /\ created \in Nat /\ obj.uid <= created
      /\ \A d \in Calls : call[d].uid \in Nat /\ call[d].uid <= created
  BY DEF TypeOK, GameServer, Call, UidsKnown
<1>3. /\ created' \in {created, created + 1} /\ obj'.uid \in {0, obj.uid, created'}
      /\ call'[c].uid \in {0, obj.uid, call[c].uid}
  BY <1>1, HandlerEffect DEF Looks, Sends, SendsCreate, SendsDelete, SendsPatch
<1>4. created <= created' /\ obj'.uid <= created'
  BY <1>2, <1>3
<1>5. ASSUME NEW d \in Calls PROVE call'[d].uid <= created'
  <2>1. CASE d = c
    BY <1>2, <1>3, <2>1
  <2>2. CASE d # c
    BY <1>1, <1>2, <1>3, <2>2
  <2> QED
    BY <2>1, <2>2
<1> QED
  BY <1>4, <1>5 DEF UidsKnown

\* The calls before a call have been answered, for a step of a handler.
LEMMA BeforeStep ==
  ASSUME GatewayInv, NEW c \in Calls, Handler(c)
  PROVE  /\ BeforeDone'
         /\ \A d \in Calls : c \notin before[d]
         /\ \A d \in Calls \ {c} : before'[d] = before[d]
<1> USE DEF GatewayInv
<1>1. StepFits(c) /\ ~ Done(c) /\ \A d \in Calls \ {c} : call'[d] = call[d]
  BY ActingCall, HandlerType DEF CallInv
<1>2. \A d \in Calls : Done(d) => d # c /\ Done(d)'
  BY <1>1 DEF Done
<1>3. before' = before \/ before' = [before EXCEPT ![c] = {d \in Calls : Done(d)}]
  BY <1>1, HandlerEffect DEF Looks, Sends, SendsCreate, SendsDelete, SendsPatch
<1>4. \A d \in Calls : \A e \in before[d] : e \in Calls /\ Done(e)
  BY DEF BeforeDone, TypeOK
<1>5. BeforeDone'
  <2> SUFFICES ASSUME NEW d \in Calls, NEW e \in before'[d] PROVE Done(e)'
    BY DEF BeforeDone
  <2>1. e \in Calls /\ Done(e)
    BY <1>3, <1>4 DEF TypeOK
  <2> QED
    BY <1>2, <2>1
<1> QED
  BY <1>1, <1>3, <1>4, <1>5 DEF TypeOK

\* Acknowledged deletes, for a step of a handler.
LEMMA DeletedStep ==
  ASSUME GatewayInv, NEW c \in Calls, Handler(c)
  PROVE  DeletedForGood'
<1> USE DEF GatewayInv
<1>1. StepFits(c) /\ \A d \in Calls \ {c} : call'[d] = call[d]
  BY ActingCall, HandlerType DEF CallInv
<1>2. SUFFICES ASSUME NEW d \in Calls, call'[d].pc = "done", call'[d].code = 204,
                      call'[d].op = "delete", obj'.uid # 0, obj'.uid = call'[d].uid
               PROVE  obj'.deleting
  BY DEF DeletedForGood, Done
<1>3. CASE d = c
  <2>1. SendsDelete(c)
    BY <1>1, <1>2, <1>3, HandlerEffect
       DEF Looks, Sends, SendsCreate, SendsPatch, PowerActions
  <2> QED
    BY <1>2, <1>3, <2>1 DEF SendsDelete
<1>4. CASE d # c
  <2>1. call'[d] = call[d] /\ call[d].uid \in Nat /\ call[d].uid <= created
        /\ created \in Nat
    BY <1>1, <1>4 DEF UidsKnown, TypeOK, Call
  <2>2. obj.uid = obj'.uid
    BY <1>1, <1>2, <2>1, HandlerEffect
       DEF Looks, SendsCreate, SendsDelete, SendsPatch
  <2>3. obj.deleting
    BY <1>2, <2>1, <2>2 DEF DeletedForGood, Done
  <2> QED
    BY <1>1, <1>2, <2>1, <2>2, <2>3, HandlerEffect
       DEF Looks, SendsCreate, SendsDelete, SendsPatch
<1> QED
  BY <1>3, <1>4

\* Power actions, for a step of a handler.
LEMMA PowerStep ==
  ASSUME GatewayInv, NEW c \in Calls, Handler(c)
  PROVE  PowerKept'
<1> USE DEF GatewayInv
<1>1. StepFits(c) /\ ~ Done(c) /\ \A d \in Calls \ {c} : call'[d] = call[d]
  BY ActingCall, HandlerType DEF CallInv
<1>2. /\ \A d \in Calls : c \notin before[d]
      /\ \A d \in Calls \ {c} : before'[d] = before[d]
  BY BeforeStep
<1>3. SUFFICES ASSUME NEW d \in Calls, Overtaken(d)'
               PROVE  \E e \in Calls \ before'[d] : HasSet(e, obj.suspended)'
  BY DEF PowerKept
<1>4. obj'.uid # 0
  BY <1>3 DEF Overtaken
<1>5. CASE obj.uid = 0 \/ obj'.suspended # obj.suspended
  \* The step has set the value: its call is the one.
  <2>1. SendsCreate(c) \/ SendsPatch(c)
    BY <1>1, <1>4, <1>5, HandlerEffect DEF Looks, SendsDelete
  <2>2. before' = before /\ obj' # obj
    BY <1>4, <1>5, <2>1 DEF SendsCreate, SendsPatch, Sends
  <2>3. HasSet(c, obj.suspended)'
    BY <2>1, <2>2 DEF SendsCreate, SendsPatch, Sends, HasSet, Done, PowerActions
  <2> QED
    BY <1>2, <2>2, <2>3
<1>6. CASE obj.uid # 0 /\ obj'.suspended = obj.suspended
  \* The value is the old one: whoever was the one before still is.
  <2>1. ASSUME Overtaken(d), before'[d] = before[d]
        PROVE  \E e \in Calls \ before'[d] : HasSet(e, obj.suspended)'
    <3>1. PICK e \in Calls \ before[d] : HasSet(e, obj.suspended)
      BY <2>1 DEF PowerKept
    <3>2. call'[e] = call[e]
      BY <1>1, <3>1 DEF HasSet
    <3>3. HasSet(e, obj.suspended)'
      BY <1>6, <3>1, <3>2 DEF HasSet, Done
    <3> QED
      BY <2>1, <3>1, <3>3
  <2>2. CASE d # c
    <3>1. Overtaken(d)
      BY <1>1, <1>3, <1>6, <2>2 DEF Overtaken, Done
    <3> QED
      BY <1>2, <2>1, <2>2, <3>1
  <2>3. CASE d = c
    \* The acting call sent an empty patch: it was overtaken already.
    <3>1. SendsPatch(c) /\ call'[c].code = 204
      BY <1>1, <1>3, <1>6, <2>3, HandlerEffect
         DEF Looks, Sends, SendsCreate, SendsDelete, SendsPatch, Overtaken, Done,
             PowerActions
    <3>2. Suspends(call[c].op) # obj.suspended
      BY <1>3, <1>6, <2>3, <3>1 DEF SendsPatch, Sends, Overtaken, Done
    <3>3. call[c].pc = "patch" /\ call[c].suspended = Suspends(call[c].op)
      BY <1>4, <1>6, <3>1, <3>2 DEF SendsPatch
    <3>4. Overtaken(c) /\ before' = before
      BY <1>6, <3>1, <3>2, <3>3 DEF Overtaken, SendsPatch, Sends
    <3> QED
      BY <2>1, <2>3, <3>4
  <2> QED
    BY <2>2, <2>3
<1> QED
  BY <1>5, <1>6

\* The cluster changes neither the calls nor the values they asked for.
LEMMA ClusterKeeps ==
  ASSUME GatewayInv, Cluster
  PROVE  WroteAnswered' /\ UidsKnown' /\ BeforeDone' /\ DeletedForGood' /\ PowerKept'
<1> USE DEF GatewayInv
<1>1. /\ call' = call /\ created' = created /\ before' = before /\ wrote' = wrote
      /\ obj'.uid \in {0, obj.uid}
      /\ obj'.uid # 0 => /\ obj'.suspended = obj.suspended
                         /\ obj'.deleting = obj.deleting
  BY ClusterStep DEF ClusterOnly
<1>2. WroteAnswered' /\ BeforeDone'
  BY <1>1 DEF WroteAnswered, BeforeDone, Done
<1>3. UidsKnown'
  BY <1>1 DEF UidsKnown, TypeOK
<1>4. DeletedForGood'
  BY <1>1 DEF DeletedForGood, Done
<1>5. PowerKept'
  <2> SUFFICES ASSUME NEW d \in Calls, Overtaken(d)'
               PROVE  \E e \in Calls \ before'[d] : HasSet(e, obj.suspended)'
    BY DEF PowerKept
  <2>1. obj'.suspended = obj.suspended /\ Overtaken(d)
    BY <1>1 DEF Overtaken, Done
  <2>2. PICK e \in Calls \ before[d] : HasSet(e, obj.suspended)
    BY <2>1 DEF PowerKept
  <2>3. HasSet(e, obj.suspended)'
    BY <1>1, <2>1, <2>2 DEF HasSet, Done
  <2> QED
    BY <1>1, <2>2, <2>3
<1> QED
  BY <1>2, <1>3, <1>4, <1>5

-----------------------------------------------------------------------------
(* The theorems. *)

\* The initial states satisfy the invariant.
LEMMA GatewayInit == Init => GatewayInv
<1> SUFFICES ASSUME Init PROVE GatewayInv
  OBVIOUS
<1>1. TypeOK
  BY TypeInit
<1>2. \A c \in Calls : call[c] = NotSent /\ before[c] = {}
  BY DEF Init
<1>3. \A c \in Calls : CallInv(c)
  BY <1>2 DEF CallInv, SeesNow, Active, StepFits, AnswerTrue, Done, NotSent
<1>4. WroteAnswered /\ BeforeDone
  BY <1>2 DEF Init, WroteAnswered, BeforeDone
<1>5. UidsKnown
  BY <1>1, <1>2 DEF Init, UidsKnown, NotSent, TypeOK
<1>6. DeletedForGood /\ PowerKept
  BY <1>2 DEF DeletedForGood, PowerKept, Overtaken, Done, NotSent
<1> QED
  BY <1>1, <1>3, <1>4, <1>5, <1>6 DEF GatewayInv

\* Every step keeps the invariant.
LEMMA GatewayStep == GatewayInv /\ [Next]_vars => GatewayInv'
<1> SUFFICES ASSUME GatewayInv, [Next]_vars PROVE GatewayInv'
  OBVIOUS
<1>1. TypeOK'
  BY TypeStep DEF GatewayInv
<1>2. CASE UNCHANGED vars
  BY <1>2 DEF vars, GatewayInv, TypeOK, CallInv, SeesNow, Active, StepFits, AnswerTrue,
              Done, WroteAnswered, UidsKnown, BeforeDone, DeletedForGood, PowerKept,
              Overtaken, HasSet
<1>3. CASE Next
  <2>1. \A d \in Calls : CallInv(d)'
    BY <1>1, <1>3, CallsStep
  <2>2. CASE Cluster
    BY <1>1, <2>1, <2>2, ClusterKeeps DEF GatewayInv
  <2>3. ASSUME NEW c \in Calls, Handler(c) PROVE GatewayInv'
    <3>1. WroteAnswered' /\ UidsKnown' /\ BeforeDone'
      BY <2>3, WroteStep, UidsStep, BeforeStep
    <3>2. DeletedForGood' /\ PowerKept'
      BY <2>3, DeletedStep, PowerStep
    <3> QED
      BY <1>1, <2>1, <3>1, <3>2 DEF GatewayInv
  <2> QED
    BY <1>3, <2>2, <2>3 DEF Next
<1> QED
  BY <1>2, <1>3

\* The invariant holds throughout: every step of a handler and of the cluster
\* keeps it.
THEOREM GatewayInvariant == Spec => []GatewayInv
BY GatewayInit, GatewayStep, PTL DEF Spec

\* Type correctness of the gateway's calls and of the object they work on,
\* whatever the handlers answer and however their API calls end.
THEOREM GatewayTypeOK == Spec => []TypeOK
<1>1. GatewayInv => TypeOK
  BY DEF GatewayInv
<1> QED
  BY <1>1, GatewayInvariant, PTL

\* Every answer of a handler was true at some instant of its call.
THEOREM AnswersAlwaysTrue == Spec => []AnswersTrue
<1>1. GatewayInv => AnswersTrue
  BY DEF GatewayInv, CallInv, AnswerTrue, AnswersTrue
<1> QED
  BY <1>1, GatewayInvariant, PTL

\* A request that is refused has changed nothing.
THEOREM RefusalsFinal == Spec => []RefusalIsFinal
<1>1. GatewayInv => RefusalIsFinal
  BY DEF GatewayInv, WroteAnswered, RefusalIsFinal
<1> QED
  BY <1>1, GatewayInvariant, PTL

\* The incarnation whose delete was acknowledged does not come back.
THEOREM DeletesKept == Spec => []DeletedForGood
<1>1. GatewayInv => DeletedForGood
  BY DEF GatewayInv
<1> QED
  BY <1>1, GatewayInvariant, PTL

\* An acknowledged power action is undone only by a call that overlapped it or
\* came later, the empty patch of SetPowerState included.
THEOREM PowerActionsKept == Spec => []PowerNotLost
<1>1. GatewayInv => PowerNotLost
  <2>1. SUFFICES ASSUME GatewayInv, NEW c \in Calls, Done(c), call[c].code = 204,
                        call[c].op \in PowerActions, obj.uid # 0,
                        obj.suspended # Suspends(call[c].op)
                 PROVE  \E d \in Calls \ before[c] : SetsSuspended(d, obj.suspended)
    BY DEF PowerNotLost
  <2>2. PICK d \in Calls \ before[c] : HasSet(d, obj.suspended)
    BY <2>1 DEF GatewayInv, PowerKept, Overtaken
  <2>3. SetsSuspended(d, obj.suspended)
    BY <2>2 DEF HasSet, SetsSuspended, Done
  <2> QED
    BY <2>2, <2>3
<1> QED
  BY <1>1, GatewayInvariant, PTL
=============================================================================
