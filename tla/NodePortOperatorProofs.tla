----------------------- MODULE NodePortOperatorProofs -----------------------
(***************************************************************************)
(* Proofs about the operator's side of the NodePorts, for every port       *)
(* interval, class, set of servers, callers, requests and manifests.       *)
(***************************************************************************)
EXTENDS NodePortOperator, NodePortReservationProofs

-----------------------------------------------------------------------------
(* The composition. *)

\* Every step of the composed system is a step of the reservations or leaves
\* them alone.
LEMMA StepOfReservation == [Next]_vars => [ResNext]_resVars
<1> SUFFICES ASSUME [Next]_vars PROVE [ResNext]_resVars
  OBVIOUS
<1>1. CASE Create
  BY <1>1 DEF Create, ResNext
<1>2. ASSUME NEW n \in Servers, NEW nw \in Manifests, NEW useClass \in BOOLEAN,
             Apply(n, nw, useClass)
      PROVE  ResNext
  BY <1>2 DEF Apply, ResNext
<1>3. ASSUME NEW n \in Servers, Delete(n) PROVE ResNext
  BY <1>3 DEF Delete, ResNext
<1>4. ASSUME NEW n \in Servers, Finalize(n) \/ DropUnprotected(n) PROVE ResNext
  BY <1>4 DEF Finalize, DropUnprotected, Drop, ResNext
<1>5. ASSUME NEW n \in Servers,
             AddFinalizer(n) \/ ResolvePorts(n) \/ ReconcileService(n) \/ CollectService(n)
      PROVE  UNCHANGED resVars
  BY <1>5 DEF AddFinalizer, ResolvePorts, Resolve, ReconcileService, CollectService, resVars
<1>6. CASE SyncCache
  BY <1>6 DEF SyncCache, resVars
<1>7. CASE UNCHANGED vars
  BY <1>7 DEF vars, resVars
<1> QED
  BY <1>1, <1>2, <1>3, <1>4, <1>5, <1>6, <1>7 DEF Next

\* The operator changes no reservation: what is proved of the reservations
\* alone holds beside it.
THEOREM OperatorKeepsToReservations == Spec => ResSpec
<1>1. Init => ResInit
  BY DEF Init
<1> QED
  BY <1>1, StepOfReservation, PTL DEF Spec, ResSpec

\* Beside the operator, too, two servers the wings controller created share a
\* NodePort only when their creates raced.
THEOREM DisjointBesideOperator == Spec => []DisjointUnlessRaced
BY OperatorKeepsToReservations, RangesDisjointUnlessRaced, PTL

-----------------------------------------------------------------------------
(* Allocate on what it has allocated. *)

\* A network Allocate has written: a start, ports for the whole range, and the
\* NodePorts counted from the start.
Allocated(nw) ==
  /\ nw.alloc.start > 0
  /\ Len(nw.ports) >= rangeSize(nw)
  /\ \A i \in DOMAIN nw.ports : nw.ports[i].node = nw.alloc.start + (i - 1)

\* What Allocate leaves in a spec that wants a range is allocated.
LEMMA AllocateAllocates ==
  ASSUME NEW nw \in Network, NEW used, Allocate(nw, used).ok,
         Allocate(nw, used).net.alloc.present
  PROVE  Allocated(Allocate(nw, used).net)
<1> DEFINE start == startFor(nw, used)
           a == assignPorts(nw, start)
           k == portCount(nw)
<1>1. nw.alloc.present /\ start # 0 /\ Allocate(nw, used).net = a
  BY DEF Allocate
<1>2. start \in Nat \ {0}
  BY <1>1, StartIsFree
<1>3. /\ k \in Nat \ {0} /\ rangeSize(nw) \in Nat \ {0}
      /\ rangeSize(nw) <= k
  BY RangeSizeType
<1>4. nw.alloc.count \in Int /\ Len(nw.ports) \in Nat
  BY LenProperties DEF Network, AllocationSpec
<1> HIDE DEF start
<1>5. a.alloc.start = start /\ a.alloc.count = nw.alloc.count
  BY DEF assignPorts, Network, AllocationSpec
<1>6. a.ports \in Seq(PortSpec) /\ DOMAIN a.ports = 1 .. k
  BY <1>2, AssignPortsType DEF assignPorts, Network
<1>7. Len(a.ports) = k
  BY <1>3, <1>6, LenProperties
<1>8. \A i \in 1 .. k : a.ports[i].node = start + (i - 1)
  BY DEF assignPorts
<1>9. rangeSize(a) <= k
  <2> HIDE DEF a, k
  <2>1. rangeSize(a) = IF nw.alloc.count + 1 > 0 THEN nw.alloc.count + 1 ELSE k
    BY <1>3, <1>5, <1>7 DEF rangeSize
  <2>2. nw.alloc.count + 1 > 0 => rangeSize(nw) = nw.alloc.count + 1
    BY DEF rangeSize
  <2> QED
    BY <1>3, <1>4, <2>1, <2>2
<1> HIDE DEF a, k
<1>10. Allocated(a)
  BY <1>2, <1>3, <1>5, <1>6, <1>7, <1>8, <1>9 DEF Allocated
<1> QED
  BY <1>1, <1>10

\* Allocate on an allocated network succeeds with the same NodePorts or fails,
\* whatever the others use by now.
LEMMA AllocateAgain ==
  ASSUME NEW nw \in Network, nw.alloc.present, Allocated(nw), NEW used,
         Allocate(nw, used).ok
  PROVE  NodePorts(Allocate(nw, used).net) = NodePorts(nw)
<1> DEFINE a == assignPorts(nw, nw.alloc.start)
<1>1. startFor(nw, used) # 0 /\ Allocate(nw, used).net = assignPorts(nw, startFor(nw, used))
  BY DEF Allocate
<1>2. startFor(nw, used) = nw.alloc.start
  BY <1>1 DEF startFor, Allocated
<1>3. Len(nw.ports) \in Nat /\ DOMAIN nw.ports = 1 .. Len(nw.ports)
  BY LenProperties DEF Network
<1>4. rangeSize(nw) \in Nat
  BY RangeSizeType
<1>5. portCount(nw) = Len(nw.ports)
  BY <1>3, <1>4 DEF portCount, Allocated
<1>6. DOMAIN a.ports = DOMAIN nw.ports
  BY <1>3, <1>5 DEF assignPorts
<1>7. \A i \in DOMAIN nw.ports : a.ports[i].node = nw.ports[i].node
  <2>1. \A i \in 1 .. portCount(nw) : a.ports[i].node = nw.alloc.start + (i - 1)
    BY DEF assignPorts
  <2> HIDE DEF a
  <2> QED
    BY <1>3, <1>5, <2>1 DEF Allocated
<1> HIDE DEF a
<1>8. NodePorts(a) = NodePorts(nw)
  BY <1>6, <1>7 DEF NodePorts
<1> QED
  BY <1>1, <1>2, <1>8 DEF a

\* The class adds nothing to an allocated network.
LEMMA MergeAllocated ==
  ASSUME NEW nw \in Network, nw.alloc.present, Allocated(nw), NEW b
  PROVE  MergeWithClass(nw, b) = nw
<1>1. rangeSize(nw) \in Nat \ {0}
  BY RangeSizeType
<1>2. nw.ports # <<>>
  BY <1>1, LenProperties DEF Allocated, Network
<1> QED
  BY <1>2 DEF MergeWithClass, Network

-----------------------------------------------------------------------------
(* Type correctness. *)

\* The effective network is a network.
LEMMA MergeNetwork ==
  ASSUME NEW nw \in Network, NEW b
  PROVE  MergeWithClass(nw, b) \in Network
<1>1. /\ ClassNetwork.ports \in Seq(PortSpec) /\ ClassNetwork.alloc \in AllocationSpec
      /\ nw.ports \in Seq(PortSpec) /\ nw.alloc \in AllocationSpec
  BY ClassAssumption DEF Network
<1> QED
  BY <1>1 DEF MergeWithClass, Network

\* The NodePorts of a network are a sequence of numbers.
LEMMA NodePortsType ==
  ASSUME NEW nw \in Network
  PROVE  NodePorts(nw) \in Seq(Nat)
<1>1. Len(nw.ports) \in Nat /\ nw.ports \in Seq(PortSpec)
      /\ DOMAIN nw.ports = 1 .. Len(nw.ports)
  BY LenProperties DEF Network
<1>2. \A i \in 1 .. Len(nw.ports) : nw.ports[i].node \in Nat
  <2>1. \A i \in 1 .. Len(nw.ports) : nw.ports[i] \in PortSpec
    BY <1>1, ElementOfSeq
  <2> QED
    BY <2>1 DEF PortSpec
<1> QED
  BY <1>1, <1>2, IsASeq DEF NodePorts

\* Whatever the API server admits is a sequence of numbers.
LEMMA AdmissibleType ==
  ASSUME NEW n, NEW ports \in Seq(Nat), NEW proper,
         NEW q \in Admissible(n, ports, proper)
  PROVE  q \in Seq(Nat)
<1>1. Len(ports) \in Nat /\ DOMAIN ports = 1 .. Len(ports)
  BY LenProperties
<1>2. q \in [1 .. Len(ports) -> ClusterPorts]
  BY <1>1 DEF Admissible
<1>3. \A i \in 1 .. Len(ports) : q[i] \in Nat
  BY <1>2, ClusterAssumption
<1>4. q = [i \in 1 .. Len(ports) |-> q[i]]
  BY <1>2
<1> QED
  BY <1>1, <1>3, <1>4, IsASeq

\* The steps that leave the operator's cache, pass and Services alone.
Aside ==
  \/ Create
  \/ \E n \in Servers, nw \in Manifests, b \in BOOLEAN : Apply(n, nw, b)
  \/ \E n \in Servers : Delete(n) \/ AddFinalizer(n) \/ Finalize(n) \/ DropUnprotected(n)
  \/ UNCHANGED vars

\* A step is one of these, or one of the operator, the API server's garbage
\* collector or the informer.
LEMMA StepCases ==
  ASSUME [Next]_vars
  PROVE  \/ Aside /\ UNCHANGED <<cache, svc, op>>
         \/ \E n \in Servers : ResolvePorts(n) \/ ReconcileService(n) \/ CollectService(n)
         \/ SyncCache
BY DEF Next, Aside, Create, Apply, Delete, AddFinalizer, Finalize, DropUnprotected, vars,
       opVars

\* Names marked as classed, protected or failed are names of stored servers.
LEMMA MarksStep ==
  ASSUME OpTypeOK, [Next]_vars
  PROVE  classed' \subseteq stored' /\ finalizer' \subseteq stored' /\ failed' \subseteq stored'
<1> USE DEF OpTypeOK
<1>1. CASE Create
  <2>1. UNCHANGED opVars /\ stored \subseteq stored'
    BY <1>1 DEF Create, ListAndAllocate, CreateGameServer, CreateFails, Store
  <2> QED
    BY <2>1 DEF opVars
<1>2. ASSUME NEW n \in Servers, NEW nw \in Manifests, NEW b \in BOOLEAN, Apply(n, nw, b)
      PROVE  classed' \subseteq stored' /\ finalizer' \subseteq stored'
             /\ failed' \subseteq stored'
  BY <1>2 DEF Apply, ApplyManifest, Store
<1>3. ASSUME NEW n \in Servers,
             \/ Delete(n) \/ AddFinalizer(n) \/ Finalize(n) \/ DropUnprotected(n)
             \/ ResolvePorts(n) \/ ReconcileService(n) \/ CollectService(n)
      PROVE  classed' \subseteq stored' /\ finalizer' \subseteq stored'
             /\ failed' \subseteq stored'
  <2>1. CASE Delete(n)
    BY <2>1 DEF Delete, DeleteServer, opVars
  <2>2. CASE AddFinalizer(n)
    BY <2>2 DEF AddFinalizer
  <2>3. CASE Finalize(n) \/ DropUnprotected(n)
    BY <2>3 DEF Finalize, DropUnprotected, Drop, RemoveFinalizer
  <2>4. CASE ResolvePorts(n)
    BY <2>4 DEF ResolvePorts, Resolve
  <2>5. CASE ReconcileService(n)
    <3>1. failed' \subseteq failed \cup ({n} \cap stored)
      BY <2>5 DEF ReconcileService
    <3> QED
      BY <2>5, <3>1 DEF ReconcileService
  <2>6. CASE CollectService(n)
    BY <2>6 DEF CollectService
  <2> QED
    BY <1>3, <2>1, <2>2, <2>3, <2>4, <2>5, <2>6
<1>4. CASE SyncCache
  BY <1>4 DEF SyncCache
<1>5. CASE UNCHANGED vars
  BY <1>5 DEF vars
<1> QED
  BY <1>1, <1>2, <1>3, <1>4, <1>5 DEF Next

\* Every step of the composed system keeps the types.
LEMMA OpTypeStep == OpTypeOK /\ [Next]_vars => OpTypeOK'
<1> SUFFICES ASSUME OpTypeOK, [Next]_vars PROVE OpTypeOK'
  OBVIOUS
<1>1. TypeOK' /\ TypeOK
  BY StepOfReservation, NextTypeOK DEF OpTypeOK
<1>2. classed' \subseteq stored' /\ finalizer' \subseteq stored' /\ failed' \subseteq stored'
  BY MarksStep
<1> DEFINE Rest == /\ cache' \in Cached
                   /\ svc' \in [Servers -> [ports : Seq(Nat), owner : Nat]]
                   /\ op' \in Passes
<1>3. ASSUME UNCHANGED <<cache, svc, op>> PROVE Rest
  BY <1>3 DEF OpTypeOK
<1>4. ASSUME NEW n \in Servers, ResolvePorts(n) PROVE Rest
  <2> DEFINE effective == MergeWithClass(cache.net[n], n \in cache.classed)
             result == Allocate(effective, usedPorts(cache.stored, cache.net, n))
             new == [id |-> n, uid |-> cache.uid[n], ports |-> NodePorts(result.net),
                     proper |-> ProperPorts(result.net)]
  <2>1. cache.net[n] \in Network /\ cache.uid[n] \in Nat
    BY DEF OpTypeOK, Cached
  <2>2. effective \in Network
    BY <2>1, MergeNetwork
  <2> HIDE DEF effective
  <2>3. result.ok => NodePorts(result.net) \in Seq(Nat)
    BY <2>2, AllocateSound, NodePortsType
  <2>4. op' = op \/ (result.ok /\ op' = new)
    BY <1>4 DEF ResolvePorts, Resolve, effective
  <2>5. cache' = cache /\ svc' = svc
    BY <1>4 DEF ResolvePorts, Resolve
  <2>6. ProperPorts(result.net) \in BOOLEAN
    BY DEF ProperPorts
  <2> HIDE DEF result
  <2> QED
    BY <2>1, <2>3, <2>4, <2>5, <2>6 DEF OpTypeOK, Passes
<1>5. ASSUME NEW n \in Servers, ReconcileService(n) PROVE Rest
  <2>1. NoReconcile \in Passes
    BY EmptySeq DEF NoReconcile, Passes
  <2>2. cache' = cache /\ op' = NoReconcile
    BY <1>5 DEF ReconcileService
  <2>3. svc' = svc \/ \E q \in Admissible(n, op.ports, op.proper), u \in {op.uid, svc[n].owner} :
                        svc' = [svc EXCEPT ![n] = [ports |-> q, owner |-> u]]
    BY <1>5 DEF ReconcileService, OpTypeOK
  <2>4. op.ports \in Seq(Nat) /\ op.uid \in Nat /\ svc[n].owner \in Nat
    BY DEF OpTypeOK, Passes
  <2>5. svc' \in [Servers -> [ports : Seq(Nat), owner : Nat]]
    <3>1. \A q \in Admissible(n, op.ports, op.proper) : q \in Seq(Nat)
      BY <2>4, AdmissibleType
    <3>2. ASSUME NEW q \in Admissible(n, op.ports, op.proper), NEW u \in {op.uid, svc[n].owner},
                 svc' = [svc EXCEPT ![n] = [ports |-> q, owner |-> u]]
          PROVE  svc' \in [Servers -> [ports : Seq(Nat), owner : Nat]]
      <4>1. [ports |-> q, owner |-> u] \in [ports : Seq(Nat), owner : Nat]
        BY <2>4, <3>1
      <4> QED
        BY <3>2, <4>1 DEF OpTypeOK
    <3> QED
      BY <2>3, <3>2 DEF OpTypeOK
  <2> QED
    BY <2>1, <2>2, <2>5 DEF OpTypeOK
<1>6. ASSUME NEW n \in Servers, CollectService(n) PROVE Rest
  <2>1. NoService \in [ports : Seq(Nat), owner : Nat]
    BY EmptySeq DEF NoService
  <2> QED
    BY <1>6, <2>1 DEF CollectService, OpTypeOK
<1>7. ASSUME SyncCache PROVE Rest
  <2>1. Snapshot \in Cached
    BY <1>1 DEF Snapshot, Cached, OpTypeOK, TypeOK
  <2> QED
    BY <1>7, <2>1 DEF SyncCache, OpTypeOK
<1>8. Rest
  BY <1>3, <1>4, <1>5, <1>6, <1>7, StepCases
<1> QED
  BY <1>1, <1>2, <1>8 DEF OpTypeOK

\* The initial state is typed.
LEMMA OpTypeInit == Init => OpTypeOK
<1> SUFFICES ASSUME Init PROVE OpTypeOK
  OBVIOUS
<1>1. TypeOK
  BY InitTypeOK DEF Init
<1>2. cache \in Cached
  BY <1>1 DEF Init, Snapshot, Cached, TypeOK
<1>3. NoService \in [ports : Seq(Nat), owner : Nat]
      /\ NoReconcile \in Passes
  BY EmptySeq DEF NoService, NoReconcile, Passes
<1> QED
  BY <1>1, <1>2, <1>3 DEF Init, OpTypeOK

\* The operator's cache, its pass and the Services keep their shapes beside
\* every create, apply, delete and finalize.
THEOREM OperatorTypeOK == Spec => []OpTypeOK
BY OpTypeInit, OpTypeStep, PTL DEF Spec

-----------------------------------------------------------------------------
(* The inductive invariant. *)

\* A server the cache shows as protected and not deleting is the stored one,
\* with the network the cache shows.
CacheInv ==
  \A n \in Servers :
    n \in cache.finalizer /\ n \notin cache.deleting =>
      n \in finalizer /\ cache.uid[n] = uid[n] /\ cache.net[n] = net[n]

\* The pass in progress is for a protected server, which cannot go meanwhile.
PassInv == op.id # NoServer => op.id \in finalizer /\ op.uid = uid[op.id]

\* Incarnations so far; a Service belongs to one of them.
UidInv ==
  \A n \in Servers :
    /\ n \in stored => uid[n] # 0
    /\ uid[n] <= created /\ svc[n].owner <= created

\* What the wings controller stores, or is about to store, is allocated.
AllocatedInv ==
  /\ \A n \in stored \cap panel : net[n].alloc.present => Allocated(net[n])
  /\ \A c \in Callers : active(c) /\ call[c].net.alloc.present => Allocated(call[c].net)

\* The Service of the stored incarnation has the reserved ports.
ServiceInv ==
  \A n \in stored \cap panel :
    net[n].alloc.present /\ Serves(n) => svc[n].ports = NodePorts(net[n])

OperatorInv ==
  /\ OpTypeOK /\ CacheInv /\ PassInv /\ UidInv /\ AllocatedInv
  /\ OperatorKeepsReservation /\ ServiceInv

\* What a step does to the stored servers: one that stays keeps incarnation,
\* network and origin, a new one has an incarnation of its own.
LEMMA StoredStep ==
  ASSUME TypeOK, [ResNext]_resVars
  PROVE  /\ created' \in Nat /\ created <= created'
         /\ \A n \in Servers :
              /\ n \in stored /\ n \in stored' =>
                   /\ uid'[n] = uid[n] /\ net'[n] = net[n]
                   /\ n \in panel' <=> n \in panel
              /\ n \notin stored /\ n \in stored' =>
                   uid'[n] = created + 1 /\ created' = created + 1
              /\ uid'[n] \in {uid[n], 0} \/ (uid'[n] = created + 1 /\ created' = created + 1)
<1> DEFINE P == /\ created' \in Nat /\ created <= created'
                /\ \A n \in Servers :
                     /\ n \in stored /\ n \in stored' =>
                          /\ uid'[n] = uid[n] /\ net'[n] = net[n]
                          /\ n \in panel' <=> n \in panel
                     /\ n \notin stored /\ n \in stored' =>
                          uid'[n] = created + 1 /\ created' = created + 1
                     /\ \/ uid'[n] \in {uid[n], 0}
                        \/ uid'[n] = created + 1 /\ created' = created + 1
<1>0. created \in Nat /\ uid \in [Servers -> Nat] /\ net \in [Servers -> Network]
  BY DEF TypeOK
<1>1. ASSUME UNCHANGED <<stored, net, panel, uid, created>> PROVE P
  BY <1>0, <1>1
<1>2. ASSUME NEW m \in Servers, NEW nw, Store(m, nw), panel' \in {panel \cup {m}, panel \ {m}}
      PROVE  P
  BY <1>0, <1>2 DEF Store
<1>3. ASSUME NEW c \in Callers, CreateGameServer(c) PROVE P
  <2>1. call[c].id \in Servers
    BY <1>3 DEF CreateGameServer, active, TypeOK, Call
  <2> QED
    BY <1>2, <1>3, <2>1 DEF CreateGameServer
<1>4. ASSUME NEW m \in Servers, NEW nw \in Manifests, ApplyManifest(m, nw) PROVE P
  BY <1>2, <1>4 DEF ApplyManifest
<1>5. ASSUME NEW m \in Servers, RemoveFinalizer(m) PROVE P
  BY <1>0, <1>5 DEF RemoveFinalizer
<1>6. ASSUME NEW c \in Callers, NEW m \in Servers, NEW req \in Requests,
             ListAndAllocate(c, m, req)
      PROVE  P
  BY <1>1, <1>6 DEF ListAndAllocate
<1>7. ASSUME NEW c \in Callers, CreateFails(c) PROVE P
  BY <1>1, <1>7 DEF CreateFails
<1>8. ASSUME NEW m \in Servers, DeleteServer(m) PROVE P
  BY <1>1, <1>8 DEF DeleteServer
<1>9. ASSUME UNCHANGED resVars PROVE P
  BY <1>1, <1>9 DEF resVars
<1>10. P
  BY <1>3, <1>4, <1>5, <1>6, <1>7, <1>8, <1>9 DEF ResNext
<1> QED
  BY <1>10

\* The finalizer leaves a server only with the operator's finalize, between
\* passes, on a cache that shows the deletion.
LEMMA FinalizerStep ==
  ASSUME OpTypeOK, [Next]_vars, NEW n \in Servers, n \in finalizer, n \notin finalizer'
  PROVE  /\ op.id = NoServer /\ n \in cache.deleting
         /\ UNCHANGED <<cache, svc, op>>
<1>1. ASSUME NEW m \in Servers, Finalize(m) \/ DropUnprotected(m)
      PROVE  op.id = NoServer /\ n \in cache.deleting /\ UNCHANGED <<cache, svc, op>>
  <2>1. finalizer' = finalizer \ {m}
    BY <1>1 DEF Finalize, DropUnprotected, Drop
  <2>2. m = n
    BY <2>1
  <2> QED
    BY <1>1, <2>2 DEF Finalize, DropUnprotected
<1>2. ASSUME finalizer \subseteq finalizer' PROVE FALSE
  BY <1>2
<1>3. CASE Create
  BY <1>2, <1>3 DEF Create, opVars
<1>4. CASE \E m \in Servers, nw \in Manifests, b \in BOOLEAN : Apply(m, nw, b)
  BY <1>2, <1>4 DEF Apply
<1>5. CASE SyncCache \/ UNCHANGED vars
  BY <1>2, <1>5 DEF SyncCache, vars
<1>6. CASE \E m \in Servers : \/ Delete(m) \/ AddFinalizer(m) \/ ResolvePorts(m)
                              \/ ReconcileService(m) \/ CollectService(m)
  BY <1>2, <1>6 DEF Delete, AddFinalizer, ResolvePorts, Resolve, ReconcileService, CollectService,
                    opVars
<1> QED
  BY <1>1, <1>3, <1>4, <1>5, <1>6 DEF Next

\* The cache and the pass.
LEMMA PassStep ==
  ASSUME OpTypeOK, OpTypeOK', [Next]_vars, CacheInv, PassInv
  PROVE  CacheInv' /\ PassInv'
<1>0. /\ finalizer \subseteq stored /\ finalizer' \subseteq stored'
      /\ finalizer \subseteq Servers /\ op.id \in Servers \cup {NoServer}
      /\ NoServer \notin Servers
  BY NoServerAssumption DEF OpTypeOK, TypeOK, Passes
<1>1. \A n \in Servers : n \in stored /\ n \in stored' =>
                           uid'[n] = uid[n] /\ net'[n] = net[n]
  BY StoredStep, StepOfReservation DEF OpTypeOK
<1>2. ASSUME cache' = cache PROVE CacheInv'
  <2>1. ASSUME NEW n \in Servers, n \in cache.finalizer, n \notin cache.deleting
        PROVE  n \in finalizer'
    BY <2>1, FinalizerStep DEF CacheInv
  <2> QED
    BY <1>0, <1>1, <1>2, <2>1 DEF CacheInv
<1>3. ASSUME op' = op PROVE PassInv'
  <2>1. op.id # NoServer => op.id \in finalizer'
    BY <1>0, FinalizerStep DEF PassInv
  <2> QED
    BY <1>0, <1>1, <1>3, <2>1 DEF PassInv
<1>4. ASSUME NEW n \in Servers, ResolvePorts(n) PROVE PassInv'
  <2>1. UNCHANGED <<finalizer, uid>> /\ n \in cache.finalizer /\ n \notin cache.deleting
    BY <1>4 DEF ResolvePorts, Resolve
  <2>2. op' = op \/ (op'.id = n /\ op'.uid = cache.uid[n])
    BY <1>4 DEF ResolvePorts, Resolve
  <2> QED
    BY <1>3, <2>1, <2>2 DEF PassInv, CacheInv
<1>5. ASSUME NEW n \in Servers, ReconcileService(n) PROVE PassInv'
  BY <1>5 DEF ReconcileService, NoReconcile, PassInv
<1>6. ASSUME SyncCache PROVE CacheInv'
  BY <1>6 DEF SyncCache, Snapshot, CacheInv
<1>7. ASSUME NEW n \in Servers, CollectService(n) PROVE cache' = cache /\ op' = op
  BY <1>7 DEF CollectService
<1>8. ASSUME NEW n \in Servers, ResolvePorts(n) \/ ReconcileService(n)
      PROVE  cache' = cache
  BY <1>8 DEF ResolvePorts, Resolve, ReconcileService
<1>9. SyncCache => op' = op
  BY DEF SyncCache
<1> QED
  BY <1>2, <1>3, <1>4, <1>5, <1>6, <1>7, <1>8, <1>9, StepCases

\* Incarnations.
LEMMA UidStep ==
  ASSUME OpTypeOK, OpTypeOK', [Next]_vars, PassInv, UidInv
  PROVE  UidInv'
<1>0. /\ created \in Nat /\ created' \in Nat /\ created <= created'
      /\ \A n \in Servers : /\ uid[n] \in Nat /\ uid'[n] \in Nat
                            /\ svc[n].owner \in Nat /\ svc'[n].owner \in Nat
  BY StoredStep, StepOfReservation DEF OpTypeOK, TypeOK
<1>1. ASSUME NEW n \in Servers
      PROVE  (n \in stored' => uid'[n] # 0) /\ uid'[n] <= created'
  <2>1. /\ n \in stored /\ n \in stored' => uid'[n] = uid[n]
        /\ n \notin stored /\ n \in stored' => uid'[n] = created + 1
        /\ uid'[n] \in {uid[n], 0} \/ (uid'[n] = created + 1 /\ created' = created + 1)
    BY StoredStep, StepOfReservation DEF OpTypeOK
  <2> QED
    BY <1>0, <2>1 DEF UidInv
<1>2. ASSUME NEW n \in Servers PROVE svc'[n].owner <= created'
  <2>1. CASE svc' = svc
    BY <1>0, <2>1 DEF UidInv
  <2>2. ASSUME NEW m \in Servers, ReconcileService(m) PROVE svc'[n].owner <= created'
    <3>1. op.id = m /\ op.uid = uid[m]
      BY <2>2, NoServerAssumption DEF ReconcileService, PassInv
    <3>2. svc'[n] = svc[n] \/ svc'[n].owner \in {op.uid, svc[m].owner}
      BY <2>2 DEF ReconcileService, OpTypeOK
    <3> QED
      BY <1>0, <3>1, <3>2 DEF UidInv
  <2>3. ASSUME NEW m \in Servers, CollectService(m) PROVE svc'[n].owner <= created'
    <3>1. svc'[n] = svc[n] \/ svc'[n].owner = 0
      BY <2>3 DEF CollectService, NoService, OpTypeOK
    <3> QED
      BY <1>0, <3>1 DEF UidInv
  <2>4. ASSUME NEW m \in Servers, ResolvePorts(m) PROVE svc' = svc
    BY <2>4 DEF ResolvePorts, Resolve
  <2>5. SyncCache => svc' = svc
    BY DEF SyncCache
  <2> QED
    BY <2>1, <2>2, <2>3, <2>4, <2>5, StepCases
<1> QED
  BY <1>1, <1>2 DEF UidInv

\* What the wings controller stores is what it allocated.
LEMMA AllocatedStep ==
  ASSUME TypeOK, TypeOK', [ResNext]_resVars, AllocatedInv
  PROVE  AllocatedInv'
<1> DEFINE Stores(n) == n \in panel' /\ net'[n].alloc.present => Allocated(net'[n])
           Calls == \A c \in Callers : active(c)' /\ call'[c].net.alloc.present =>
                      Allocated(call'[c].net)
<1>0. ASSUME NEW n \in Servers, n \in stored, n \in stored' PROVE Stores(n)
  <2>1. net'[n] = net[n] /\ (n \in panel' <=> n \in panel)
    BY <1>0, StoredStep
  <2> QED
    BY <1>0, <2>1 DEF AllocatedInv
<1>1. ASSUME NEW n \in Servers,
             call' = [d \in Callers |-> missedBy(d, n)]
                     \/ \E c \in Callers : call' = [d \in Callers |->
                          IF d = c THEN IdleCall ELSE missedBy(d, n)]
      PROVE  Calls
  <2>1. ASSUME NEW d \in Callers, active(d)', call'[d].net.alloc.present
        PROVE  Allocated(call'[d].net)
    <3>1. call'[d] = missedBy(d, n)
      BY <1>1, <2>1 DEF active, IdleCall
    <3>2. call'[d].id = call[d].id /\ call'[d].net = call[d].net
      BY <3>1, MissedByType
    <3> QED
      BY <2>1, <3>2 DEF AllocatedInv, active
  <2> QED
    BY <2>1
<1>2. CASE UNCHANGED resVars
  BY <1>2 DEF resVars, AllocatedInv, active
<1>3. ASSUME NEW c \in Callers, NEW n \in Servers, NEW req \in Requests,
             ListAndAllocate(c, n, req)
      PROVE  AllocatedInv'
  <2> DEFINE result == Allocate(gameServerFromRequest(req), usedPorts(stored, net, n))
  <2>1. result.ok /\ call' = [call EXCEPT ![c] = [id |-> n, net |-> result.net,
                                                   missed |-> {}]]
    BY <1>3 DEF ListAndAllocate
  <2>2. result.net.alloc.present => Allocated(result.net)
    BY <2>1, RequestNetwork, AllocateAllocates
  <2>3. UNCHANGED <<stored, net, panel>>
    BY <1>3 DEF ListAndAllocate
  <2> HIDE DEF result
  <2>4. Calls
    BY <2>1, <2>2 DEF AllocatedInv, active, TypeOK
  <2> QED
    BY <2>3, <2>4 DEF AllocatedInv
<1>4. ASSUME NEW c \in Callers, CreateGameServer(c) PROVE AllocatedInv'
  <2>1. call[c].id \in Servers /\ active(c)
    BY <1>4 DEF CreateGameServer, active, TypeOK, Call
  <2>2. /\ stored' = stored \cup {call[c].id} /\ net'[call[c].id] = call[c].net
    BY <1>4, <2>1 DEF CreateGameServer, Store, TypeOK
  <2>3. Calls
    BY <1>1, <1>4, <2>1 DEF CreateGameServer
  <2>4. ASSUME NEW n \in Servers, n \in stored' PROVE Stores(n)
    BY <1>0, <2>1, <2>2, <2>4 DEF AllocatedInv
  <2>5. stored' \subseteq Servers
    BY DEF TypeOK
  <2> QED
    BY <2>3, <2>4, <2>5 DEF AllocatedInv
<1>5. ASSUME NEW c \in Callers, CreateFails(c) PROVE AllocatedInv'
  <2>1. UNCHANGED <<stored, net, panel>>
    BY <1>5 DEF CreateFails
  <2>2. Calls
    BY <1>5 DEF CreateFails, AllocatedInv, active, IdleCall, TypeOK
  <2> QED
    BY <2>1, <2>2 DEF AllocatedInv
<1>6. ASSUME NEW m \in Servers, NEW nw \in Manifests, ApplyManifest(m, nw)
      PROVE  AllocatedInv'
  <2>1. Calls
    BY <1>1, <1>6 DEF ApplyManifest
  <2>2. stored' = stored \cup {m} /\ panel' = panel \ {m}
    BY <1>6 DEF ApplyManifest, Store
  <2>3. ASSUME NEW n \in Servers, n \in stored' PROVE Stores(n)
    BY <1>0, <2>2, <2>3
  <2> QED
    BY <2>1, <2>3 DEF AllocatedInv, TypeOK
<1>7. ASSUME NEW m \in Servers, DeleteServer(m) \/ RemoveFinalizer(m)
      PROVE  AllocatedInv'
  <2>1. stored' \subseteq stored /\ call' = call
    BY <1>7 DEF DeleteServer, RemoveFinalizer
  <2>2. Calls
    BY <2>1 DEF AllocatedInv, active
  <2>3. ASSUME NEW n \in Servers, n \in stored' PROVE Stores(n)
    BY <1>0, <2>1, <2>3
  <2> QED
    BY <2>2, <2>3 DEF AllocatedInv, TypeOK
<1> QED
  BY <1>2, <1>3, <1>4, <1>5, <1>6, <1>7 DEF ResNext

\* What Allocate resolves, on the cached list, for a server of the wings
\* controller is what is stored.
LEMMA ResolvedPorts ==
  ASSUME OpTypeOK, CacheInv, AllocatedInv, NEW n \in Servers, ResolvePorts(n),
         n \in stored, n \in panel, net[n].alloc.present, op'.id # NoServer
  PROVE  op'.ports = NodePorts(net[n])
<1> DEFINE effective == MergeWithClass(cache.net[n], n \in cache.classed)
           result == Allocate(effective, usedPorts(cache.stored, cache.net, n))
           new == [id |-> n, uid |-> cache.uid[n], ports |-> NodePorts(result.net),
                     proper |-> ProperPorts(result.net)]
<1>1. net[n] \in Network /\ Allocated(net[n])
  BY DEF OpTypeOK, TypeOK, AllocatedInv
<1>2. cache.net[n] = net[n]
  BY DEF ResolvePorts, Resolve, CacheInv
<1>3. effective = net[n]
  BY <1>1, <1>2, MergeAllocated
<1>4. result.ok /\ op' = new
  BY DEF ResolvePorts, Resolve
<1>5. NodePorts(result.net) = NodePorts(net[n])
  <2> HIDE DEF effective
  <2>1. Allocate(net[n], usedPorts(cache.stored, cache.net, n)).ok
    BY <1>3, <1>4
  <2>2. result = Allocate(net[n], usedPorts(cache.stored, cache.net, n))
    BY <1>3
  <2> QED
    BY <1>1, <2>1, <2>2, AllocateAgain
<1>6. new.ports = NodePorts(result.net)
  OBVIOUS
<1> QED
  BY <1>4, <1>5, <1>6

\* The operator keeps what the wings controller reserved.
LEMMA KeepsStep ==
  ASSUME OpTypeOK, [Next]_vars, CacheInv, PassInv, AllocatedInv, OperatorKeepsReservation
  PROVE  OperatorKeepsReservation'
<1> SUFFICES ASSUME NEW n \in Servers, n \in stored', n \in panel', op'.id = n,
                    net'[n].alloc.present
             PROVE  op'.ports = NodePorts(net'[n])
  <2>1. stored' \subseteq Servers
    BY StepOfReservation, NextTypeOK DEF OpTypeOK, TypeOK
  <2>2. \A m \in Servers : NodePorts(net[m])' = NodePorts(net'[m])
    BY DEF NodePorts
  <2> QED
    BY <2>1, <2>2 DEF OperatorKeepsReservation
<1>0. n # NoServer
  BY NoServerAssumption
<1>1. n \in stored => net'[n] = net[n] /\ n \in panel
  BY StoredStep, StepOfReservation DEF OpTypeOK
<1>2. CASE op' = op
  BY <1>0, <1>1, <1>2 DEF PassInv, OperatorKeepsReservation, OpTypeOK
<1>3. ASSUME NEW m \in Servers, ResolvePorts(m), op' # op
      PROVE  op'.ports = NodePorts(net'[n])
  <2>1. op'.id = m /\ m \in cache.finalizer /\ m \notin cache.deleting
    BY <1>3 DEF ResolvePorts, Resolve
  <2>2. n = m /\ n \in stored
    BY <2>1 DEF CacheInv, OpTypeOK
  <2> QED
    BY <1>0, <1>1, <1>3, <2>2, ResolvedPorts
<1>4. ASSUME NEW m \in Servers, ReconcileService(m) PROVE FALSE
  BY <1>0, <1>4 DEF ReconcileService, NoReconcile
<1>5. ASSUME NEW m \in Servers, CollectService(m) PROVE op' = op
  BY <1>5 DEF CollectService
<1>6. SyncCache => op' = op
  BY DEF SyncCache
<1> QED
  BY <1>2, <1>3, <1>4, <1>5, <1>6, StepCases

\* The API server gives a Service the ports it asks for by number.
LEMMA AdmittedAsAsked ==
  ASSUME NEW n, NEW ports \in Seq(Nat), \A i \in DOMAIN ports : ports[i] # 0,
         NEW proper, NEW q \in Admissible(n, ports, proper)
  PROVE  q = ports
<1>1. DOMAIN ports = 1 .. Len(ports)
  BY LenProperties
<1>2. q \in [DOMAIN ports -> ClusterPorts] /\ \A i \in DOMAIN ports : q[i] = ports[i]
  BY DEF Admissible
<1>3. q = [i \in DOMAIN ports |-> q[i]]
  BY <1>2
<1>4. ports = [i \in DOMAIN ports |-> ports[i]]
  BY <1>1
<1> QED
  BY <1>2, <1>3, <1>4

\* A step of reconcileService for a server with a reserved range writes exactly
\* that range, or nothing.
LEMMA WrittenService ==
  ASSUME OpTypeOK, AllocatedInv, OperatorKeepsReservation, NEW n \in Servers,
         ReconcileService(n), n \in stored, n \in panel, net[n].alloc.present
  PROVE  /\ svc' = svc \/ svc'[n].ports = NodePorts(net[n])
         /\ svc[n].ports = NodePorts(net[n]) => svc' = svc
<1>1. op.ports = NodePorts(net[n])
  BY DEF ReconcileService, OperatorKeepsReservation
<1>2. svc[n].ports = NodePorts(net[n]) => svc' = svc
  BY <1>1 DEF ReconcileService, Admissible
<1>3. \A i \in DOMAIN op.ports : op.ports[i] # 0
  <2>1. net[n] \in Network /\ Allocated(net[n])
    BY DEF OpTypeOK, TypeOK, AllocatedInv
  <2>2. DOMAIN net[n].ports = 1 .. Len(net[n].ports) /\ net[n].alloc.start \in Int
    BY <2>1, LenProperties DEF Network, AllocationSpec
  <2>3. \A i \in DOMAIN net[n].ports : net[n].ports[i].node # 0
    BY <2>1, <2>2 DEF Allocated
  <2> QED
    BY <1>1, <2>3 DEF NodePorts
<1>4. op.ports \in Seq(Nat)
  BY DEF OpTypeOK, Passes
<1>5. svc' = svc \/ \E q \in Admissible(n, op.ports, op.proper) : svc'[n].ports = q
  BY DEF ReconcileService, OpTypeOK
<1>6. \A q \in Admissible(n, op.ports, op.proper) : q = op.ports
  BY <1>3, <1>4, AdmittedAsAsked
<1> QED
  BY <1>1, <1>2, <1>5, <1>6

\* The Services follow the reservations.
LEMMA ServiceStep ==
  ASSUME OpTypeOK, OpTypeOK', [Next]_vars, UidInv, AllocatedInv,
         OperatorKeepsReservation, ServiceInv
  PROVE  ServiceInv'
<1> SUFFICES ASSUME NEW n \in Servers, n \in stored', n \in panel',
                    net'[n].alloc.present, svc'[n] # NoService, svc'[n].owner = uid'[n]
             PROVE  svc'[n].ports = NodePorts(net'[n])
  <2>1. stored' \subseteq Servers
    BY DEF OpTypeOK, TypeOK
  <2>2. \A m \in Servers : NodePorts(net[m])' = NodePorts(net'[m])
    BY DEF NodePorts
  <2> QED
    BY <2>1, <2>2 DEF ServiceInv, Serves
<1>0. /\ n \in stored => net'[n] = net[n] /\ uid'[n] = uid[n] /\ n \in panel
      /\ n \notin stored => uid'[n] = created + 1
  BY StoredStep, StepOfReservation DEF OpTypeOK
<1>1. created \in Nat /\ svc[n].owner \in Nat /\ svc[n].owner <= created
  BY DEF OpTypeOK, TypeOK, UidInv
<1>2. CASE svc'[n] = svc[n]
  <2>1. n \in stored
    BY <1>0, <1>1, <1>2
  <2> QED
    BY <1>0, <1>2, <2>1 DEF ServiceInv, Serves
<1>3. ASSUME NEW m \in Servers, ReconcileService(m), svc'[n] # svc[n]
      PROVE  svc'[n].ports = NodePorts(net'[n])
  <2>1. UNCHANGED <<stored, net, panel>>
    BY <1>3 DEF ReconcileService
  <2>2. m = n
    BY <1>3 DEF ReconcileService, OpTypeOK
  <2> QED
    BY <1>3, <2>1, <2>2, WrittenService
<1>4. ASSUME NEW m \in Servers, CollectService(m) PROVE svc'[n] = svc[n]
  BY <1>4 DEF CollectService, OpTypeOK
<1>5. ASSUME NEW m \in Servers, ResolvePorts(m) PROVE svc' = svc
  BY <1>5 DEF ResolvePorts, Resolve
<1>6. SyncCache => svc' = svc
  BY DEF SyncCache
<1> QED
  BY <1>2, <1>3, <1>4, <1>5, <1>6, StepCases

-----------------------------------------------------------------------------
(* The invariant, and what follows from it. *)

\* Nothing is stored, cached, reconciled or served at first.
LEMMA OperatorInit == Init => OperatorInv
<1> SUFFICES ASSUME Init PROVE OperatorInv
  OBVIOUS
<1>1. OpTypeOK
  BY OpTypeInit
<1>2. /\ stored = {} /\ finalizer = {} /\ cache.finalizer = {} /\ op.id = NoServer
      /\ created = 0
      /\ \A n \in Servers : uid[n] = 0 /\ svc[n].owner = 0
      /\ \A c \in Callers : ~ active(c)
  BY DEF Init, ResInit, Snapshot, NoReconcile, NoService, active, IdleCall
<1>3. CacheInv /\ PassInv /\ UidInv /\ AllocatedInv
  BY <1>2 DEF CacheInv, PassInv, UidInv, AllocatedInv
<1>4. OperatorKeepsReservation /\ ServiceInv
  BY <1>2 DEF OperatorKeepsReservation, ServiceInv
<1> QED
  BY <1>1, <1>3, <1>4 DEF OperatorInv

\* Every step keeps the invariant.
LEMMA OperatorStep == OperatorInv /\ [Next]_vars => OperatorInv'
<1> SUFFICES ASSUME OperatorInv, [Next]_vars PROVE OperatorInv'
  OBVIOUS
<1> USE DEF OperatorInv
<1>1. OpTypeOK'
  BY OpTypeStep
<1>2. CacheInv' /\ PassInv'
  BY <1>1, PassStep
<1>3. UidInv'
  BY <1>1, UidStep
<1>4. AllocatedInv'
  BY <1>1, AllocatedStep, StepOfReservation DEF OpTypeOK
<1>5. OperatorKeepsReservation'
  BY KeepsStep
<1>6. ServiceInv'
  BY <1>1, ServiceStep
<1> QED
  BY <1>1, <1>2, <1>3, <1>4, <1>5, <1>6

\* OperatorInv holds in every reachable state of the composed system.
THEOREM OperatorInvariant == Spec => []OperatorInv
BY OperatorInit, OperatorStep, PTL DEF Spec

\* Between Allocate and the write of the Service the server reconciled is the
\* stored incarnation, although the operator reads a cache that lags: the
\* finalizer holds it.
THEOREM LiveIncarnation == Spec => []OperatorOnLiveIncarnation
<1>1. OperatorInv => OperatorOnLiveIncarnation
  BY DEF OperatorInv, PassInv, OpTypeOK, OperatorOnLiveIncarnation
<1> QED
  BY <1>1, OperatorInvariant, PTL

\* Running Allocate again in the operator, on any stale list, never moves the
\* range the wings controller reserved.
THEOREM ReservationKept == Spec => []OperatorKeepsReservation
<1>1. OperatorInv => OperatorKeepsReservation
  BY DEF OperatorInv
<1> QED
  BY <1>1, OperatorInvariant, PTL

\* The NodePorts of the Service of a server with a reserved range stay as they
\* are while the incarnation lives.
THEOREM ServicesStable == Spec => BundledServiceStable
<1> DEFINE A == \A n \in stored :
                  n \in panel /\ net[n].alloc.present /\ Serves(n) /\ n \in stored' =>
                    svc'[n] = svc[n]
<1>1. OperatorInv /\ [Next]_vars => [A]_vars
  <2> SUFFICES ASSUME OperatorInv, [Next]_vars, NEW n \in stored, n \in panel,
                      net[n].alloc.present, Serves(n), n \in stored'
               PROVE  svc'[n] = svc[n]
    OBVIOUS
  <2>0. n \in Servers
    BY DEF OperatorInv, OpTypeOK, TypeOK
  <2>1. svc[n].ports = NodePorts(net[n])
    BY DEF OperatorInv, ServiceInv
  <2>2. ASSUME NEW m \in Servers, ReconcileService(m) PROVE svc'[n] = svc[n]
    <3>1. CASE m = n
      BY <2>0, <2>1, <2>2, <3>1, WrittenService DEF OperatorInv
    <3>2. CASE m # n
      BY <2>0, <2>2, <3>2 DEF ReconcileService, OperatorInv, OpTypeOK
    <3> QED
      BY <3>1, <3>2
  <2>3. ASSUME NEW m \in Servers, CollectService(m) PROVE svc'[n] = svc[n]
    <3>1. m # n
      BY <2>3 DEF CollectService, Serves
    <3> QED
      BY <2>0, <2>3, <3>1 DEF CollectService, OperatorInv, OpTypeOK
  <2>4. ASSUME NEW m \in Servers, ResolvePorts(m) PROVE svc' = svc
    BY <2>4 DEF ResolvePorts, Resolve
  <2>5. SyncCache => svc' = svc
    BY DEF SyncCache
  <2> QED
    BY <2>2, <2>3, <2>4, <2>5, StepCases
<1> QED
  BY <1>1, OperatorInvariant, PTL DEF Spec, BundledServiceStable
=============================================================================
