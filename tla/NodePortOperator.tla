-------------------------- MODULE NodePortOperator --------------------------
(***************************************************************************)
(* The operator's side of the NodePorts, composed with the reservations:   *)
(* Reconcile resolves the ports of one server at a time with the same      *)
(* allocator, on the GameServers its informer cache holds, and writes them *)
(* into the server's Service.  The API server admits a Service only when   *)
(* none of its NodePorts belongs to another Service, picks a port where    *)
(* the spec leaves it open, and garbage-collects the Service of a          *)
(* GameServer that is gone.                                                *)
(*                                                                         *)
(* The rest of Reconcile (finalizer, status, the other children) is in     *)
(* GameServerReconciler; the Service is read fresh here.                   *)
(***************************************************************************)
EXTENDS NodePortReservation, FiniteSets

CONSTANTS ClassNetwork,   \* defaultNetwork of the GameServerClass
          ClusterPorts    \* the API server's NodePort range (30000-32767)

ASSUME ClassAssumption == ClassNetwork \in Network
ASSUME ClusterAssumption == ClusterPorts \subseteq Nat \ {0}

VARIABLES classed,   \* stored servers with a classRef
          finalizer, \* stored servers that carry the operator's finalizer
          cache,     \* what the operator's GameServer informer holds
          svc,       \* the Services: NodePorts, and the uid that owns each
          op,        \* the reconcile in progress, between Allocate and the write
          failed     \* servers whose status says Failed

opVars == <<classed, finalizer, cache, svc, op, failed>>
vars == <<stored, net, panel, uid, created, deleting, call, raced,
          classed, finalizer, cache, svc, op, failed>>

-----------------------------------------------------------------------------
NoService == [ports |-> <<>>, owner |-> 0]
NoReconcile == [id |-> NoServer, uid |-> 0, ports |-> <<>>, proper |-> FALSE]

Snapshot == [stored |-> stored, net |-> net, uid |-> uid,
             deleting |-> deleting, classed |-> classed,
             finalizer |-> finalizer]

Cached == [stored : SUBSET Servers, net : [Servers -> Network],
           uid : [Servers -> Nat], deleting : SUBSET Servers,
           classed : SUBSET Servers, finalizer : SUBSET Servers]

\* A pass between Allocate and the Service write: the server, its ports, and
\* whether the API server takes them for what they are.
Passes == [id : Servers \cup {NoServer}, uid : Nat, ports : Seq(Nat),
           proper : BOOLEAN]

OpTypeOK ==
  /\ TypeOK
  /\ classed \subseteq stored
  /\ finalizer \subseteq stored
  /\ cache \in Cached
  /\ svc \in [Servers -> [ports : Seq(Nat), owner : Nat]]
  /\ op \in Passes
  /\ failed \subseteq stored

Init ==
  /\ ResInit
  /\ classed = {}
  /\ finalizer = {}
  /\ cache = Snapshot
  /\ svc = [n \in Servers |-> NoService]
  /\ op = NoReconcile
  /\ failed = {}

-----------------------------------------------------------------------------
(* Resolving the ports. *)

\* Steps 2 and 3 of Reconcile: the first pass over a server only adds the
\* finalizer; a deleting one goes to finalize.
AddFinalizer(n) ==
  /\ op.id = NoServer
  /\ n \in cache.stored \ cache.finalizer
  /\ n \in stored \ deleting
  /\ finalizer' = finalizer \cup {n}
  /\ UNCHANGED <<stored, net, panel, uid, created, deleting, call, raced,
                 classed, cache, svc, op, failed>>

\* MergeWithClass, the network part: the class fills in what the server leaves
\* empty.
MergeWithClass(nw, useClass) ==
  [ports |-> IF useClass /\ nw.ports = <<>> THEN ClassNetwork.ports ELSE nw.ports,
   alloc |-> IF useClass /\ ~ nw.alloc.present THEN ClassNetwork.alloc
             ELSE nw.alloc]

MaxContainerPort == 65535

\* No two ports agree in the field.
Differ(ports, field) ==
  \A i, j \in DOMAIN ports : ports[i][field] = ports[j][field] => i = j

\* ValidateEffective, the network part; the other checks are in EffectiveSpec.
ValidateEffective(nw) ==
  /\ Differ(nw.ports, "name")
  /\ \A i \in DOMAIN nw.ports :
       /\ nw.ports[i].name # NoName
       /\ nw.ports[i].container \in 1 .. MaxContainerPort
       /\ nw.ports[i].node \in ClusterPorts \cup {0}
  /\ nw.alloc.present => nw.alloc.count >= 0 /\ nw.alloc.start >= 0

\* What the API server asks of the ports of a Service, apart from the NodePorts:
\* names and port numbers that differ (every port here has the same protocol)
\* and are in range.
ProperPorts(nw) ==
  /\ Differ(nw.ports, "name") /\ Differ(nw.ports, "container")
  /\ \A i \in DOMAIN nw.ports : nw.ports[i].container \in 1 .. MaxContainerPort

NodePorts(nw) == [i \in DOMAIN nw.ports |-> nw.ports[i].node]

\* Merge, validate, Allocate.  Only the stored specs count as used; what is
\* allocated here stays in memory.
Resolve(n) ==
  LET effective == MergeWithClass(cache.net[n], n \in cache.classed)
      result == Allocate(effective, usedPorts(cache.stored, cache.net, n))
      good == ValidateEffective(effective) /\ result.ok
  IN  /\ op' = IF good THEN [id |-> n, uid |-> cache.uid[n],
                             ports |-> NodePorts(result.net),
                             proper |-> ProperPorts(result.net)]
               ELSE op
      /\ failed' = IF good THEN failed ELSE failed \cup ({n} \cap stored)
      /\ UNCHANGED <<stored, net, panel, uid, created, deleting, call, raced,
                     classed, finalizer, cache, svc>>

\* Mutant: the ports are resolved before the finalizer is in place.
ResolvePortsUnprotected(n) ==
  /\ op.id = NoServer
  /\ n \in cache.stored \ cache.deleting
  /\ Resolve(n)

\* Mutant: a server that has failed once is not reconciled again.
ResolvePortsGivesUp(n) ==
  /\ op.id = NoServer
  /\ n \in cache.finalizer \ cache.deleting
  /\ n \notin failed
  /\ Resolve(n)

\* Steps 3 to 8 of Reconcile for server n, which has its finalizer and is not
\* being deleted.
ResolvePorts(n) ==
  /\ op.id = NoServer
  /\ n \in cache.finalizer \ cache.deleting
  /\ Resolve(n)

-----------------------------------------------------------------------------
(* Writing the Service. *)

HeldByOthers(n) ==
  UNION {{svc[m].ports[i] : i \in DOMAIN svc[m].ports} : m \in Servers \ {n}}

\* The NodePorts the API server may give a Service of n that asks for ports:
\* what is asked, what the Service had, or any free port; empty: rejected.
Admissible(n, ports, proper) ==
  {q \in [DOMAIN ports -> ClusterPorts] :
     /\ proper
     /\ \A i \in DOMAIN ports :
          /\ q[i] \notin HeldByOthers(n)
          /\ ports[i] # 0 => q[i] = ports[i]
          /\ ports[i] = 0 /\ i \in DOMAIN svc[n].ports => q[i] = svc[n].ports[i]
     /\ \A i, j \in DOMAIN ports : q[i] = q[j] => i = j}

\* reconcileService: nothing without ports (an existing Service stays), a
\* create owned by the server reconciled, or an update of the ports only.
\* A rejected write ends in failWith, a good one in syncStatus.  Improper ports
\* never equal those of a Service that was admitted.
ReconcileService(n) ==
  /\ op.id = n
  /\ op' = NoReconcile
  /\ IF op.ports = <<>> \/ (op.proper /\ op.ports = svc[n].ports)
     THEN svc' = svc /\ failed' = failed \ {n}
     ELSE \/ \E q \in Admissible(n, op.ports, op.proper) :
               /\ svc' = [svc EXCEPT ![n] =
                            [ports |-> q, owner |-> IF @ = NoService THEN op.uid
                                                    ELSE @.owner]]
               /\ failed' = failed \ {n}
          \/ /\ Admissible(n, op.ports, op.proper) = {}
             /\ svc' = svc
             /\ failed' = failed \cup ({n} \cap stored)
  /\ UNCHANGED <<stored, net, panel, uid, created, deleting, call, raced,
                 classed, finalizer, cache>>

\* The garbage collector: the owner of the Service no longer exists.
CollectService(n) ==
  /\ svc[n] # NoService
  /\ n \notin stored \/ svc[n].owner # uid[n]
  /\ svc' = [svc EXCEPT ![n] = NoService]
  /\ UNCHANGED <<stored, net, panel, uid, created, deleting, call, raced,
                 classed, finalizer, cache, op, failed>>

\* The informer catches up.
SyncCache ==
  /\ cache # Snapshot
  /\ cache' = Snapshot
  /\ UNCHANGED <<stored, net, panel, uid, created, deleting, call, raced,
                 classed, finalizer, svc, op, failed>>

-----------------------------------------------------------------------------
(* The reservation steps, in the composed system. *)

Create ==
  /\ \/ \E c \in Callers, n \in Servers, req \in Requests :
          ListAndAllocate(c, n, req)
     \/ \E c \in Callers : CreateGameServer(c) \/ CreateFails(c)
  /\ UNCHANGED opVars

Apply(n, nw, useClass) ==
  /\ ApplyManifest(n, nw)
  /\ classed' = IF useClass THEN classed \cup {n} ELSE classed
  /\ UNCHANGED <<finalizer, cache, svc, op, failed>>

Delete(n) == DeleteServer(n) /\ UNCHANGED opVars

\* What goes with the object when the API server drops it.
Drop(n) ==
  /\ RemoveFinalizer(n)
  /\ classed' = classed \ {n}
  /\ finalizer' = finalizer \ {n}
  /\ failed' = failed \ {n}

\* The operator's finalize, run on the cached object.
Finalize(n) ==
  /\ op.id = NoServer
  /\ n \in cache.finalizer \cap cache.deleting
  /\ Drop(n)
  /\ UNCHANGED <<cache, svc, op>>

\* A server deleted before its first reconcile has no finalizer to wait for.
DropUnprotected(n) ==
  /\ n \notin finalizer
  /\ Drop(n)
  /\ UNCHANGED <<cache, svc, op>>

Next ==
  \/ Create
  \/ \E n \in Servers, nw \in Manifests, useClass \in BOOLEAN :
       Apply(n, nw, useClass)
  \/ \E n \in Servers : Delete(n)
  \/ \E n \in Servers :
       \/ AddFinalizer(n) \/ Finalize(n) \/ DropUnprotected(n)
       \/ ResolvePorts(n) \/ ReconcileService(n) \/ CollectService(n)
  \/ SyncCache

Spec == Init /\ [][Next]_vars

\* A pass of Reconcile for n begins.
Pass(n) == AddFinalizer(n) \/ ResolvePorts(n) \/ Finalize(n)

\* The work queue serves every key again and again (errors are requeued, and
\* every pass writes the status, which requeues the key too), informers catch
\* up and the garbage collector runs.  Nothing is assumed of callers.
Fairness ==
  /\ WF_vars(SyncCache)
  /\ \A n \in Servers : SF_vars(Pass(n))
  /\ WF_vars(\E n \in Servers : ReconcileService(n))
  /\ WF_vars(\E n \in Servers : CollectService(n))

FairSpec == Spec /\ Fairness

-----------------------------------------------------------------------------
(* Properties. *)

\* Between Allocate and the Service write the server reconciled is still the
\* stored incarnation: neither a lagging cache nor a delete and re-create
\* under the same name makes the operator write for an object that is gone.
OperatorOnLiveIncarnation ==
  op.id # NoServer => op.id \in stored /\ op.uid = uid[op.id]

\* Whatever the operator is about to write for the current incarnation of a
\* server the wings controller created is what the controller stored: running
\* Allocate again, on a possibly stale list, never moves the range.
OperatorKeepsReservation ==
  \A n \in stored \cap panel :
    op.id = n /\ net[n].alloc.present =>
      op.ports = NodePorts(net[n])

Serves(n) == svc[n] # NoService /\ svc[n].owner = uid[n]

\* The NodePorts of the Service of a server with a stored range never change
\* while that incarnation lives, whoever else comes and goes.
BundledServiceStable ==
  [][\A n \in stored :
       n \in panel /\ net[n].alloc.present /\ Serves(n) /\ n \in stored' =>
         svc'[n] = svc[n]]_vars

\* The same for every server whose spec and class do not change.
ServicePortsStable ==
  [][\A n \in stored : Serves(n) /\ n \in stored' => svc'[n] = svc[n]]_vars

Unraced(n) == \A m \in stored : {m, n} \notin raced

\* The Service of another stored server holds one of n's ports: a listed port
\* with nodePort 0, which the API server picked and no spec shows.
Squatted(n) ==
  \E m \in stored \ {n} :
    /\ Serves(m)
    /\ \E i \in DOMAIN svc[m].ports, j \in DOMAIN net[n].ports :
         svc[m].ports[i] = net[n].ports[j].node

\* A network the operator and the API server take.  CreateServer checks none of
\* this: it stores unnamed and twice-named allocations, container ports beyond
\* the last one, count = -1 with a start, and one container port twice.
Acceptable(nw) == ValidateEffective(nw) /\ ProperPorts(nw)

Served(n) == Serves(n) /\ svc[n].ports = NodePorts(net[n])

\* No bundled server is left waiting without a word: in the end it has a Service
\* on its reserved ports or its status says Failed.  It is served when its
\* network is acceptable, its create was not raced and no live Service sits on
\* one of its ports, even when the ports still belong to the Service of a
\* deleted server when it is created; it is Failed for good when CreateServer
\* has stored what every pass of the operator refuses.
BundledEventuallyServed ==
  <>[](\A n \in Servers :
         Bundled(n) /\ n \notin deleting =>
           /\ Served(n) \/ n \in failed
           /\ Acceptable(net[n]) /\ Unraced(n) /\ ~ Squatted(n) => Served(n)
           /\ ~ Acceptable(net[n]) => ~ Served(n) /\ n \in failed)
=============================================================================
