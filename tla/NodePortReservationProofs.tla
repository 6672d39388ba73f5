---------------------- MODULE NodePortReservationProofs ----------------------
(***************************************************************************)
(* Proofs about the reservations, for every port interval and every set of *)
(* servers, callers and requests.                                          *)
(***************************************************************************)
EXTENDS NodePortReservation, PortAllocatorProofs

-----------------------------------------------------------------------------
(* Type correctness. *)

\* The network of an absent server is a network.
LEMMA EmptyNetworkType == EmptyNetwork \in Network
<1>1. <<>> \in Seq(PortSpec)
  BY EmptySeq
<1> QED
  BY <1>1 DEF EmptyNetwork, Network, NoAllocation, AllocationSpec

\* A call that is not in progress is a call.
LEMMA IdleCallType == IdleCall \in Call
  BY EmptyNetworkType DEF IdleCall, Call

\* Noting that a call missed a server leaves the call a call.
LEMMA MissedByType ==
  ASSUME TypeOK, NEW d \in Callers, NEW n \in Servers
  PROVE  /\ missedBy(d, n) \in Call
         /\ missedBy(d, n).id = call[d].id
         /\ missedBy(d, n).net = call[d].net
         /\ call[d].missed \subseteq missedBy(d, n).missed
         /\ active(d) => n \in missedBy(d, n).missed
  BY DEF TypeOK, Call, missedBy, active

\* The initial state, with nothing stored and no call, is well typed.
LEMMA InitTypeOK == ResInit => TypeOK
  BY EmptyNetworkType, IdleCallType DEF ResInit, TypeOK

\* Every request builds a network.
LEMMA RequestNetwork ==
  \A req \in Requests : gameServerFromRequest(req) \in Network
BY RequestsAssumption
   DEF Request, gameServerFromRequest, Network, AllocationSpec, NoAllocation

\* Every step of CreateServer, kubectl and finalize keeps the types.
LEMMA NextTypeOK == TypeOK /\ [ResNext]_resVars => TypeOK'
<1> SUFFICES ASSUME TypeOK, [ResNext]_resVars
             PROVE  TypeOK'
  OBVIOUS
<1>1. ASSUME NEW c \in Callers, NEW n \in Servers, NEW req \in Requests,
             ListAndAllocate(c, n, req)
      PROVE  TypeOK'
  <2> DEFINE result == Allocate(gameServerFromRequest(req), usedPorts(stored, net, n))
  <2>1. result.net \in Network
    BY <1>1, RequestNetwork, AllocateSound DEF ListAndAllocate
  <2> HIDE DEF result
  <2>2. [id |-> n, net |-> result.net, missed |-> {}] \in Call
    BY <2>1 DEF Call
  <2> QED
    BY <1>1, <2>2 DEF ListAndAllocate, TypeOK, result
<1>2. ASSUME NEW c \in Callers, CreateGameServer(c)
      PROVE  TypeOK'
  <2> DEFINE n == call[c].id
  <2>1. n \in Servers /\ call[c].net \in Network /\ call[c].missed \subseteq Servers
    BY <1>2 DEF CreateGameServer, active, TypeOK, Call
  <2>2. call' \in [Callers -> Call]
    BY <1>2, <2>1, IdleCallType, MissedByType DEF CreateGameServer
  <2>3. raced' \subseteq SUBSET Servers
    BY <1>2, <2>1 DEF CreateGameServer, TypeOK, Pair
  <2>4. Store(n, call[c].net) /\ panel' = panel \cup {n}
    BY <1>2 DEF CreateGameServer
  <2> HIDE DEF n
  <2> QED
    BY <2>1, <2>2, <2>3, <2>4 DEF Store, TypeOK
<1>3. ASSUME NEW c \in Callers, CreateFails(c)
      PROVE  TypeOK'
  BY <1>3, IdleCallType DEF CreateFails, TypeOK
<1>4. ASSUME NEW n \in Servers, NEW nw \in Manifests, ApplyManifest(n, nw)
      PROVE  TypeOK'
  <2>1. call' \in [Callers -> Call]
    BY <1>4, MissedByType DEF ApplyManifest
  <2> QED
    BY <1>4, <2>1, RequestsAssumption DEF ApplyManifest, Store, TypeOK
<1>5. ASSUME NEW n \in Servers, DeleteServer(n)
      PROVE  TypeOK'
  BY <1>5 DEF DeleteServer, TypeOK
<1>6. ASSUME NEW n \in Servers, RemoveFinalizer(n)
      PROVE  TypeOK'
  BY <1>6, EmptyNetworkType DEF RemoveFinalizer, TypeOK
<1>7. CASE UNCHANGED resVars
  BY <1>7 DEF resVars, TypeOK
<1> QED
  BY <1>1, <1>2, <1>3, <1>4, <1>5, <1>6, <1>7 DEF ResNext

\* Every reachable state of the reservation machine has its type: allocated
\* networks stay networks through list, create, apply and removal.
THEOREM ReservationTypeOK == ResSpec => []TypeOK
<1>1. ResInit => TypeOK
  BY InitTypeOK
<1>2. TypeOK /\ [ResNext]_resVars => TypeOK'
  BY NextTypeOK
<1> QED
  BY <1>1, <1>2, PTL DEF ResSpec

-----------------------------------------------------------------------------
(* Ranges are disjoint unless the creates raced. *)

\* The inductive invariant holds while nothing is stored.
LEMMA InitInv == ResInit => ReservationInv
<1>1. ResInit => TypeOK
  BY InitTypeOK
<1>2. ResInit => \A c \in Callers : ~ active(c)
  BY DEF ResInit, active, IdleCall
<1>3. ResInit => stored = {}
  BY DEF ResInit
<1> QED
  BY <1>1, <1>2, <1>3 DEF ReservationInv, DisjointUnlessRaced, CallRangeFree,
                          Bundled

\* Storing n preserves the claims about calls: every active call that stays
\* active has n among the servers it missed.
LEMMA StoreKeepsCallRange ==
  ASSUME TypeOK, CallRangeFree, NEW n \in Servers, NEW nw \in Network,
         Store(n, nw), NEW d \in Callers,
         call'[d] = missedBy(d, n),
         active(d)', call'[d].net.alloc.present, fits(call'[d].net)
  PROVE  \A m \in stored' \ (call'[d].missed \cup {call'[d].id}) :
           Reserved(call'[d].net) \cap Reserved(net'[m]) = {}
<1>1. call'[d].id = call[d].id /\ call'[d].net = call[d].net
      /\ call[d].missed \subseteq call'[d].missed
      /\ (active(d) => n \in call'[d].missed)
  BY MissedByType
<1>2. active(d)
  BY <1>1 DEF active
<1> SUFFICES ASSUME NEW m \in stored' \ (call'[d].missed \cup {call'[d].id})
             PROVE  Reserved(call'[d].net) \cap Reserved(net'[m]) = {}
  OBVIOUS
<1>3. m # n /\ m \in stored /\ m \in stored \ (call[d].missed \cup {call[d].id})
  BY <1>1, <1>2 DEF Store
<1>4. m \in Servers /\ net'[m] = net[m]
  BY <1>3 DEF Store, TypeOK
<1>5. Reserved(call[d].net) \cap Reserved(net[m]) = {}
  BY <1>1, <1>2, <1>3 DEF CallRangeFree
<1> QED
  BY <1>1, <1>4, <1>5

\* Every step keeps it: CreateGameServer turns the free range of a call into a
\* stored reservation, every store marks the calls in flight as having missed it.
LEMMA NextInv == ReservationInv /\ [ResNext]_resVars => ReservationInv'
<1> SUFFICES ASSUME TypeOK, DisjointUnlessRaced, CallRangeFree,
                    [ResNext]_resVars
             PROVE  ReservationInv'
  BY DEF ReservationInv
<1>t. TypeOK'
  BY NextTypeOK
<1> SUFFICES DisjointUnlessRaced' /\ CallRangeFree'
  BY <1>t DEF ReservationInv
<1>1. ASSUME NEW c \in Callers, NEW n \in Servers, NEW req \in Requests,
             ListAndAllocate(c, n, req)
      PROVE  DisjointUnlessRaced' /\ CallRangeFree'
  <2> DEFINE used == usedPorts(stored, net, n)
             result == Allocate(gameServerFromRequest(req), used)
  <2>1. /\ result.ok
        /\ call' = [call EXCEPT ![c] = [id |-> n, net |-> result.net, missed |-> {}]]
        /\ UNCHANGED <<stored, net, panel, raced>>
    BY <1>1 DEF ListAndAllocate
  <2>2. DisjointUnlessRaced'
    BY <2>1 DEF DisjointUnlessRaced, Bundled
  <2>3. result.net.alloc.present /\ fits(result.net) =>
          Reserved(result.net) \cap used = {}
    BY <2>1, RequestNetwork, AllocateSound
  <2>4. \A m \in stored \ {n} : Reserved(net[m]) \subseteq used
    BY DEF usedPorts
  <2> HIDE DEF used, result
  <2>5. ASSUME NEW d \in Callers, active(d)', call'[d].net.alloc.present,
               fits(call'[d].net),
               NEW m \in stored' \ (call'[d].missed \cup {call'[d].id})
        PROVE  Reserved(call'[d].net) \cap Reserved(net'[m]) = {}
    <3>1. CASE d = c
      <4>1. call'[d] = [id |-> n, net |-> result.net, missed |-> {}]
        BY <2>1, <3>1 DEF TypeOK
      <4>2. call'[d].net = result.net /\ m \in stored \ {n} /\ net' = net
        BY <2>1, <2>5, <4>1
      <4> QED
        BY <2>3, <2>4, <2>5, <4>2
    <3>2. CASE d # c
      <4>1. call'[d] = call[d]
        BY <2>1, <3>2 DEF TypeOK
      <4> QED
        BY <2>1, <2>5, <4>1 DEF CallRangeFree, active
    <3> QED
      BY <3>1, <3>2
  <2>6. CallRangeFree'
    BY <2>5 DEF CallRangeFree
  <2> QED
    BY <2>2, <2>6
<1>2. ASSUME NEW c \in Callers, CreateGameServer(c)
      PROVE  DisjointUnlessRaced' /\ CallRangeFree'
  <2>0. call[c].id \in Servers
    BY <1>2 DEF CreateGameServer, active, TypeOK, Call
  <2> PICK n \in Servers : n = call[c].id
    BY <2>0
  <2> DEFINE nw == call[c].net
             missed == call[c].missed
  <2>1. /\ active(c) /\ Store(n, nw) /\ panel' = panel \cup {n}
        /\ raced' = raced \cup Pair(n, missed \cap stored)
        /\ call' = [d \in Callers |-> IF d = c THEN IdleCall ELSE missedBy(d, n)]
    BY <1>2 DEF CreateGameServer
  <2>2. n \in Servers /\ nw \in Network /\ missed \subseteq Servers
    BY <2>1 DEF active, TypeOK, Call
  <2>3. nw.alloc.present /\ fits(nw) =>
          \A m \in stored \ (missed \cup {n}) : Reserved(nw) \cap Reserved(net[m]) = {}
    BY <2>1 DEF CallRangeFree
  <2> HIDE DEF nw, missed
  <2>4. net'[n] = nw /\ n \notin stored
        /\ \A m \in Servers \ {n} : net'[m] = net[m] /\ (m \in stored' <=> m \in stored)
    BY <2>1, <2>2 DEF Store, TypeOK
  \* A bundled server other than n, not raced with n, was seen by the call.
  <2>5. ASSUME NEW m \in Servers, m # n, Bundled(m)', Bundled(n)', {m, n} \notin raced'
        PROVE  Reserved(net'[m]) \cap Reserved(net'[n]) = {}
    <3>1. m \in stored /\ net'[m] = net[m]
      BY <2>4, <2>5 DEF Bundled
    <3>2. m \notin missed
      BY <2>1, <2>5, <3>1 DEF Pair
    <3>3. nw.alloc.present /\ fits(nw)
      BY <2>4, <2>5 DEF Bundled
    <3> QED
      BY <2>3, <2>4, <2>5, <3>1, <3>2, <3>3
  <2>6. ASSUME NEW m1 \in Servers, NEW m2 \in Servers, m1 # n, m2 # n, m1 # m2,
               Bundled(m1)', Bundled(m2)', {m1, m2} \notin raced'
        PROVE  Reserved(net'[m1]) \cap Reserved(net'[m2]) = {}
    <3>1. Bundled(m1) /\ Bundled(m2) /\ {m1, m2} \notin raced
      BY <2>1, <2>4, <2>6 DEF Bundled
    <3> QED
      BY <2>4, <2>6, <3>1 DEF DisjointUnlessRaced
  <2>7. DisjointUnlessRaced'
    <3> SUFFICES ASSUME NEW m1 \in Servers, NEW m2 \in Servers, m1 # m2,
                        Bundled(m1)', Bundled(m2)', {m1, m2} \notin raced'
                 PROVE  Reserved(net'[m1]) \cap Reserved(net'[m2]) = {}
      BY DEF DisjointUnlessRaced
    <3>1. CASE m2 = n
      BY <2>5, <3>1
    <3>2. CASE m1 = n
      <4>1. {m2, n} = {m1, m2}
        BY <3>2
      <4>2. Reserved(net'[m2]) \cap Reserved(net'[n]) = {}
        BY <2>5, <3>2, <4>1
      <4> QED
        BY <3>2, <4>2
    <3>3. CASE m1 # n /\ m2 # n
      BY <2>6, <3>3
    <3> QED
      BY <3>1, <3>2, <3>3
  <2>8. ASSUME NEW d \in Callers, active(d)', call'[d].net.alloc.present,
               fits(call'[d].net)
        PROVE  \A m \in stored' \ (call'[d].missed \cup {call'[d].id}) :
                 Reserved(call'[d].net) \cap Reserved(net'[m]) = {}
    <3>1. d # c
      BY <2>1, <2>8 DEF active, IdleCall
    <3>2. call'[d] = missedBy(d, n)
      BY <2>1, <3>1
    <3> QED
      BY <2>1, <2>2, <2>8, <3>2, StoreKeepsCallRange
  <2>9. CallRangeFree'
    BY <2>8 DEF CallRangeFree
  <2> QED
    BY <2>7, <2>9
<1>3. ASSUME NEW c \in Callers, CreateFails(c)
      PROVE  DisjointUnlessRaced' /\ CallRangeFree'
  <2>1. call' = [call EXCEPT ![c] = IdleCall] /\ UNCHANGED <<stored, net, panel, raced>>
    BY <1>3 DEF CreateFails
  <2>2. DisjointUnlessRaced'
    BY <2>1 DEF DisjointUnlessRaced, Bundled
  <2>3. \A d \in Callers : active(d)' => call'[d] = call[d] /\ active(d)
    BY <2>1 DEF active, IdleCall, TypeOK
  <2>4. CallRangeFree'
    BY <2>1, <2>3 DEF CallRangeFree
  <2> QED
    BY <2>2, <2>4
<1>4. ASSUME NEW n \in Servers, NEW nw \in Manifests, ApplyManifest(n, nw)
      PROVE  DisjointUnlessRaced' /\ CallRangeFree'
  <2>1. /\ Store(n, nw) /\ panel' = panel \ {n} /\ raced' = raced
        /\ call' = [d \in Callers |-> missedBy(d, n)]
    BY <1>4 DEF ApplyManifest
  <2>2. nw \in Network
    BY RequestsAssumption
  <2>3. \A m \in Servers : Bundled(m)' => m # n /\ Bundled(m) /\ net'[m] = net[m]
    BY <2>1 DEF Store, TypeOK, Bundled
  <2>4. DisjointUnlessRaced'
    BY <2>1, <2>3 DEF DisjointUnlessRaced
  <2>5. ASSUME NEW d \in Callers, active(d)', call'[d].net.alloc.present,
               fits(call'[d].net)
        PROVE  \A m \in stored' \ (call'[d].missed \cup {call'[d].id}) :
                 Reserved(call'[d].net) \cap Reserved(net'[m]) = {}
    BY <2>1, <2>2, <2>5, StoreKeepsCallRange
  <2>6. CallRangeFree'
    BY <2>5 DEF CallRangeFree
  <2> QED
    BY <2>4, <2>6
<1>5. ASSUME NEW n \in Servers, DeleteServer(n)
      PROVE  DisjointUnlessRaced' /\ CallRangeFree'
  BY <1>5 DEF DeleteServer, DisjointUnlessRaced, CallRangeFree, Bundled, active
<1>6. ASSUME NEW n \in Servers, RemoveFinalizer(n)
      PROVE  DisjointUnlessRaced' /\ CallRangeFree'
  <2>1. /\ stored' = stored \ {n} /\ panel' = panel \ {n} /\ call' = call
        /\ net' = [net EXCEPT ![n] = EmptyNetwork]
        /\ raced' = {r \in raced : n \notin r}
    BY <1>6 DEF RemoveFinalizer
  <2>2. \A m \in stored' : m # n /\ m \in stored /\ m \in Servers /\ net'[m] = net[m]
    BY <2>1 DEF TypeOK
  <2>3. \A m \in Servers : Bundled(m)' => m # n /\ Bundled(m) /\ net'[m] = net[m]
    BY <2>1, <2>2 DEF Bundled
  <2>4. \A m1, m2 \in Servers :
          m1 # n /\ m2 # n /\ {m1, m2} \notin raced' => {m1, m2} \notin raced
    BY <2>1
  <2>5. DisjointUnlessRaced'
    BY <2>3, <2>4 DEF DisjointUnlessRaced
  <2>6. CallRangeFree'
    BY <2>1, <2>2 DEF CallRangeFree, active
  <2> QED
    BY <2>5, <2>6
<1>7. CASE UNCHANGED resVars
  BY <1>7 DEF resVars, DisjointUnlessRaced, CallRangeFree, Bundled, active
<1> QED
  BY <1>1, <1>2, <1>3, <1>4, <1>5, <1>6, <1>7 DEF ResNext

\* Two servers created by the wings controller with a fitting bundled range
\* share a NodePort only when one was stored between the list and the create
\* of the other.
THEOREM RangesDisjointUnlessRaced == ResSpec => []DisjointUnlessRaced
<1>1. ResInit => ReservationInv
  BY InitInv
<1>2. ReservationInv /\ [ResNext]_resVars => ReservationInv'
  BY NextInv
<1>3. ReservationInv => DisjointUnlessRaced
  BY DEF ReservationInv
<1> QED
  BY <1>1, <1>2, <1>3, PTL DEF ResSpec

\* The range of a CreateServer call in flight is free of every stored server
\* that was stored before the call listed, until the call ends.
THEOREM CallRangesFree == ResSpec => []CallRangeFree
<1>1. ReservationInv => CallRangeFree
  BY DEF ReservationInv
<1> QED
  BY <1>1, InitInv, NextInv, PTL DEF ResSpec
=============================================================================
