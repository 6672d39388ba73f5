------------------------- MODULE NodePortReservation -------------------------
(***************************************************************************)
(* Who holds which NodePort range, as the stored GameServer specs say.     *)
(*                                                                         *)
(* The wings controller's CreateServer (ptero-wings-controller/service.go) *)
(* lists the stored specs, picks a range and then creates the GameServer:  *)
(* two API calls with no lock between them, run by every concurrent HTTP   *)
(* request.  GameServers also arrive by kubectl, without any allocation,   *)
(* and leave once the operator has removed their finalizer.                *)
(*                                                                         *)
(* history variables: call[c].missed and raced record which servers were   *)
(* stored between the list and the create of a call.  No action reads them *)
(* in a guard.                                                             *)
(***************************************************************************)
EXTENDS PortAllocator

CONSTANTS Servers,      \* GameServer names (panel UUIDs)
          Callers,      \* concurrent CreateServer calls
          Requests,     \* bodies of POST /api/servers, as far as they concern ports
          Manifests,    \* networks in applied manifests
          NoServer,     \* no name at all
          MaxCreates    \* bound: how many GameServers are ever created

\* A CreateServerRequest: its allocations, and the port range it asks for.
Request == [allocations : Seq(PortSpec), start : Int, count : Int, base : Int]

ASSUME RequestsAssumption ==
  Requests \subseteq Request /\ Manifests \subseteq Network
ASSUME NoServerAssumption == NoServer \notin Servers
ASSUME BoundAssumption == MaxCreates \in Nat

VARIABLES stored,    \* names of the GameServers in the API server
          net,       \* their spec.network
          panel,     \* those the wings controller created
          uid,       \* the incarnation of each name; 0 while it has none
          created,   \* how many GameServers were created: the next uid
          deleting,  \* those with a deletionTimestamp
          call,      \* the CreateServer calls in flight
          raced      \* pairs of names created with overlapping list/create

resVars == <<stored, net, panel, uid, created, deleting, call, raced>>

-----------------------------------------------------------------------------
EmptyNetwork == [ports |-> <<>>, alloc |-> NoAllocation]

Call == [id : Servers \cup {NoServer}, net : Network, missed : SUBSET Servers]

\* No call in progress.
IdleCall == [id |-> NoServer, net |-> EmptyNetwork, missed |-> {}]

active(c) == call[c].id # NoServer

Pair(n, ms) == {{n, m} : m \in ms}

\* call[d] once n is stored.
missedBy(d, n) ==
  IF active(d) THEN [call[d] EXCEPT !.missed = @ \cup {n}] ELSE call[d]

TypeOK ==
  /\ stored \subseteq Servers
  /\ net \in [Servers -> Network]
  /\ panel \subseteq Servers
  /\ uid \in [Servers -> Nat]
  /\ created \in Nat
  /\ deleting \subseteq stored
  /\ call \in [Callers -> Call]
  /\ raced \subseteq SUBSET Servers

ResInit ==
  /\ stored = {}
  /\ net = [n \in Servers |-> EmptyNetwork]
  /\ panel = {}
  /\ uid = [n \in Servers |-> 0]
  /\ created = 0
  /\ deleting = {}
  /\ call = [c \in Callers |-> IdleCall]
  /\ raced = {}

-----------------------------------------------------------------------------
(* Storing and removing GameServers. *)

\* The API server accepts the create of n.
Store(n, nw) ==
  /\ n \notin stored
  /\ created < MaxCreates
  /\ stored' = stored \cup {n}
  /\ net' = [net EXCEPT ![n] = nw]
  /\ uid' = [uid EXCEPT ![n] = created + 1]
  /\ created' = created + 1
  /\ UNCHANGED deleting

\* The network of the GameServer built from a request: a range is wanted only
\* when the request names a count or a start.
gameServerFromRequest(req) ==
  [ports |-> req.allocations,
   alloc |-> IF req.count > 0 \/ req.start > 0
             THEN [present |-> TRUE, start |-> req.start, count |-> req.count,
                   base |-> req.base]
             ELSE NoAllocation]

\* CreateServer, first half: build the GameServer, list the others and choose
\* the ports.  A refused allocation returns the error and changes nothing.
ListAndAllocate(c, n, req) ==
  /\ ~ active(c)
  /\ created < MaxCreates
  /\ LET result == Allocate(gameServerFromRequest(req),
                            usedPorts(stored, net, n))
     IN  /\ result.ok
         /\ call' = [call EXCEPT ![c] = [id |-> n, net |-> result.net,
                                         missed |-> {}]]
  /\ UNCHANGED <<stored, net, panel, uid, created, deleting, raced>>

\* CreateServer, second half: the Create call.  Every call that has listed
\* already has missed n.
CreateGameServer(c) ==
  LET n == call[c].id
  IN  /\ active(c)
      /\ Store(n, call[c].net)
      /\ panel' = panel \cup {n}
      /\ raced' = raced \cup Pair(n, call[c].missed \cap stored)
      /\ call' = [d \in Callers |->
                    IF d = c THEN IdleCall ELSE missedBy(d, n)]

\* CreateServer, second half: AlreadyExists, a failed call or a cancelled
\* request; nothing is stored and nothing is undone.
CreateFails(c) ==
  /\ active(c)
  /\ call' = [call EXCEPT ![c] = IdleCall]
  /\ UNCHANGED <<stored, net, panel, uid, created, deleting, raced>>

\* kubectl apply of a new GameServer: stored as written.
ApplyManifest(n, nw) ==
  /\ Store(n, nw)
  /\ panel' = panel \ {n}
  /\ raced' = raced
  /\ call' = [d \in Callers |-> missedBy(d, n)]

\* DeleteServer (or kubectl delete): the API server sets the
\* deletionTimestamp; the spec stays listed until the finalizer is gone.
DeleteServer(n) ==
  /\ n \in stored \ deleting
  /\ deleting' = deleting \cup {n}
  /\ UNCHANGED <<stored, net, panel, uid, created, call, raced>>

\* The operator's finalize removes the finalizer and the object disappears.
RemoveFinalizer(n) ==
  /\ n \in deleting
  /\ stored' = stored \ {n}
  /\ deleting' = deleting \ {n}
  /\ net' = [net EXCEPT ![n] = EmptyNetwork]
  /\ panel' = panel \ {n}
  /\ uid' = [uid EXCEPT ![n] = 0]
  /\ raced' = {r \in raced : n \notin r}
  /\ UNCHANGED <<created, call>>

ResNext ==
  \/ \E c \in Callers, n \in Servers, req \in Requests :
       ListAndAllocate(c, n, req)
  \/ \E c \in Callers : CreateGameServer(c) \/ CreateFails(c)
  \/ \E n \in Servers, nw \in Manifests : ApplyManifest(n, nw)
  \/ \E n \in Servers : DeleteServer(n) \/ RemoveFinalizer(n)

ResSpec == ResInit /\ [][ResNext]_resVars

-----------------------------------------------------------------------------
(* Properties. *)

\* A server the wings controller created with a bundled range its ports fit
\* into.
Bundled(n) == n \in stored \cap panel /\ net[n].alloc.present /\ fits(net[n])

\* Two bundled servers reserve a common NodePort only when one was stored
\* between the list and the create of the other: in every other order, deletes
\* and re-creations under the same name included, CreateServer keeps the
\* ranges apart.
DisjointUnlessRaced ==
  \A m, n \in Servers :
    Bundled(m) /\ Bundled(n) /\ m # n /\ {m, n} \notin raced =>
      Reserved(net[m]) \cap Reserved(net[n]) = {}

\* What the reservation is for: no NodePort belongs to two bundled servers.
BundledRangesDisjoint ==
  \A m, n \in Servers :
    Bundled(m) /\ Bundled(n) /\ m # n =>
      Reserved(net[m]) \cap Reserved(net[n]) = {}

\* The inductive strengthening: the range of a call in flight is free of every
\* stored server the call has not missed.
CallRangeFree ==
  \A c \in Callers :
    active(c) /\ call[c].net.alloc.present /\ fits(call[c].net) =>
      \A m \in stored \ (call[c].missed \cup {call[c].id}) :
        Reserved(call[c].net) \cap Reserved(net[m]) = {}

ReservationInv == TypeOK /\ DisjointUnlessRaced /\ CallRangeFree
=============================================================================
