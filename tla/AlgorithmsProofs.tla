-------------------------- MODULE AlgorithmsProofs --------------------------
(***************************************************************************)
(* The pure parts, for every port interval and, up to the lemmas that      *)
(* carry the argument, for every network, set of used ports, spec and      *)
(* class.                                                                  *)
(***************************************************************************)
EXTENDS MCAlgorithms, PortAllocatorProofs

-----------------------------------------------------------------------------
(* Ports. *)

\* A call of Allocate, on any network.
AllocateCase ==
  Ended("Allocate") =>
    input.asked \in Network /\ output.result = Allocate(input.asked, input.used)

\* The search, in the terms of the reference.
LEMMA LowestFreeRunOf == AllocateCase => LowestFreeRun
<1> SUFFICES ASSUME AllocateCase, Ended("Allocate"), input.asked.alloc.present,
                    input.asked.alloc.start = 0
             PROVE  LET size == rangeSize(input.asked)
                        runs == {run \in SUBSET (MinPort .. MaxPort) : IsFreeRun(run, size)}
                    IN  IF ~ output.result.ok THEN runs = {}
                        ELSE LET s == output.result.net.alloc.start
                             IN  /\ PortRange(s, size) \in runs
                                 /\ \A run \in runs : \A p \in run : p >= s
  BY DEF LowestFreeRun
<1> DEFINE nw == input.asked
           size == rangeSize(nw)
           s == findFreeRange(input.used, size)
           runs == {run \in SUBSET (MinPort .. MaxPort) : IsFreeRun(run, size)}
<1>1. nw \in Network /\ output.result = Allocate(nw, input.used)
  BY DEF AllocateCase
<1>2. size \in Nat \ {0}
  BY <1>1, RangeSizeType
<1>3. startFor(nw, input.used) = s
  BY <1>1 DEF startFor, Network, AllocationSpec
<1> HIDE DEF size, s
<1>4. \A run : run \in runs <=> FreeRun(run, input.used, size)
  BY DEF IsFreeRun, FreeRun
<1>5. /\ s = 0 <=> \A run : ~ FreeRun(run, input.used, size)
      /\ s # 0 => /\ FreeRun(PortRange(s, size), input.used, size)
                  /\ \A run : FreeRun(run, input.used, size) => \A p \in run : s <= p
  BY <1>2, SearchIsFirstFit DEF s
<1>6. CASE s = 0
  <2>1. ~ output.result.ok
    BY <1>1, <1>3, <1>6 DEF Allocate
  <2>2. runs = {}
    BY <1>4, <1>5, <1>6
  <2> HIDE DEF runs
  <2> QED
    BY <2>1, <2>2 DEF runs, size
<1>7. CASE s # 0
  <2>1. output.result = [ok |-> TRUE, net |-> assignPorts(nw, s)]
    BY <1>1, <1>3, <1>7 DEF Allocate
  <2>2. s \in Nat
    BY <1>1, <1>3, <1>7, StartIsFree
  <2>3. output.result.ok /\ output.result.net.alloc.start = s
    <3>1. assignPorts(nw, s).alloc.start = s
      BY <1>1, <2>2, AssignedParts
    <3>2. output.result.ok /\ output.result.net = assignPorts(nw, s)
      BY <2>1
    <3> QED
      BY <3>1, <3>2
  <2>4. \A run \in runs : \A p \in run : p >= s
    <3>1. \A run \in runs : \A p \in run : p \in Nat
      BY PortRangeAssumption
    <3> QED
      BY <1>4, <1>5, <1>7, <2>2, <3>1
  <2>5. PortRange(s, size) \in runs
    BY <1>4, <1>5, <1>7
  <2> HIDE DEF runs
  <2> QED
    BY <2>3, <2>4, <2>5 DEF runs, size
<1> QED
  BY <1>6, <1>7

\* What a server will count as reserved.
LEMMA ReservedWasFreeOf == AllocateCase => ReservedWasFree
<1> SUFFICES ASSUME AllocateCase, Ended("Allocate"), input.asked.alloc.present,
                    output.result.ok, fits(input.asked)
             PROVE  /\ Reserved(output.result.net) \subseteq
                         (MinPort .. MaxPort) \ input.used
                    /\ Cardinality(Reserved(output.result.net)) = rangeSize(input.asked)
  BY DEF ReservedWasFree
<1>1. input.asked \in Network /\ output.result = Allocate(input.asked, input.used)
  BY DEF AllocateCase
<1> QED
  BY <1>1, ReservesItsRange

\* The second call.
LEMMA IdempotentOf == AllocateCase => AllocateIsIdempotent
BY AllocateTwice DEF AllocateCase, AllocateIsIdempotent

\* The bounded inputs are networks.
LEMMA AskedNetworks == \A x \in AllocateInputs : x.asked \in Network
<1>1. MinPort \in Nat \ {0} /\ MaxPort \in Nat
  BY PortRangeAssumption
<1>2. ListedPorts \subseteq Seq(PortSpec)
  <2>1. [name : {NoName}, container : {7}, node : AskedNodes] \subseteq PortSpec
    BY <1>1 DEF AskedNodes, PortSpec, NoName
  <2>2. ASSUME NEW m \in 0 .. MaxListed,
               NEW p \in [1 .. m -> [name : {NoName}, container : {7}, node : AskedNodes]]
        PROVE  p \in Seq(PortSpec)
    <3>1. m \in Nat /\ \A i \in 1 .. m : p[i] \in PortSpec
      BY <2>1, <2>2 DEF MaxListed
    <3>2. p = [i \in 1 .. m |-> p[i]]
      OBVIOUS
    <3> QED
      BY <3>1, <3>2, IsASeq
  <2> QED
    BY <2>2 DEF ListedPorts, BoundedSeq, SeqOf
<1>3. AskedAllocations \subseteq AllocationSpec
  <2>1. AskedStarts \subseteq Int /\ AskedCounts \subseteq Int
    BY <1>1 DEF AskedStarts, AskedCounts
  <2>2. NoAllocation \in AllocationSpec
    BY DEF NoAllocation, AllocationSpec
  <2>3. [present : {TRUE}, start : AskedStarts, count : AskedCounts, base : {0, 5}]
          \subseteq AllocationSpec
    <3>1. {TRUE} \subseteq BOOLEAN /\ {0, 5} \subseteq Int
      OBVIOUS
    <3> QED
      BY <2>1, <3>1, Zenon DEF AllocationSpec
  <2> QED
    BY <2>2, <2>3 DEF AskedAllocations
<1>4. ASSUME NEW x \in AllocateInputs PROVE x.asked \in Network
  <2>1. x.asked \in [ports : ListedPorts, alloc : AskedAllocations]
    BY DEF AllocateInputs
  <2> QED
    BY <1>2, <1>3, <2>1 DEF Network
<1> QED
  BY <1>4

\* The calls of Allocate are the only ones of their name.
InputCase == input.call = "Allocate" => input.asked \in Network

\* In every state the result is that of Allocate on a network.
LEMMA CaseInvariant == Spec => []AllocateCase
<1>1. Init => InputCase /\ AllocateCase
  <2> SUFFICES ASSUME Init PROVE InputCase /\ AllocateCase
    OBVIOUS
  <2>1. ~ (output.stage = "end")
    BY DEF Init, Waiting
  <2>2. input.call = "Allocate" => input \in AllocateInputs
    BY DEF Init, SplitInputs, ResolveInputs
  <2> QED
    BY <2>1, <2>2, AskedNetworks DEF InputCase, AllocateCase, Ended
<1>2. InputCase /\ AllocateCase /\ [Next]_vars => (InputCase /\ AllocateCase)'
  <2> SUFFICES ASSUME InputCase, AllocateCase, [Next]_vars
               PROVE  (InputCase /\ AllocateCase)'
    OBVIOUS
  <2>1. input' = input
    BY DEF Next, CallAllocate, CallSplitCommand, CallResolve, CreateRequest, ApplyManifest,
           Pass, Call, vars
  <2>2. InputCase'
    BY <2>1 DEF InputCase
  <2>3. CASE CallAllocate
    BY <2>1, <2>3 DEF CallAllocate, Call, InputCase, AllocateCase, Ended
  <2>4. CASE UNCHANGED vars
    <3>1. input' = input /\ output' = output
      BY <2>4 DEF vars
    <3> QED
      BY <2>2, <3>1, Zenon DEF AllocateCase, Ended
  <2>5. CASE CallSplitCommand \/ CallResolve \/ CreateRequest \/ ApplyManifest
    <3>1. input.call # "Allocate"
      BY <2>5 DEF CallSplitCommand, CallResolve, CreateRequest, ApplyManifest, Call
    <3> QED
      BY <2>1, <2>2, <3>1 DEF AllocateCase, Ended
  <2>6. CASE Pass
    <3>1. output'.stage = "rendered"
      BY <2>6 DEF Pass
    <3> QED
      BY <2>2, <3>1 DEF AllocateCase, Ended
  <2> QED
    BY <2>2, <2>3, <2>4, <2>5, <2>6 DEF Next
<1> QED
  BY <1>1, <1>2, PTL DEF Spec

\* findFreeRange skips no contiguous free run and returns the lowest one, in
\* every port interval.
THEOREM FirstFit == Spec => []LowestFreeRun
BY CaseInvariant, LowestFreeRunOf, PTL

\* What Allocate hands out lies in the interval, was free, and is as large as
\* was asked, in every port interval.
THEOREM HandedOutWasFree == Spec => []ReservedWasFree
BY CaseInvariant, ReservedWasFreeOf, PTL

\* The operator, which runs Allocate again on what the controller stored, gets
\* the same ports, in every port interval.
THEOREM SecondCallAgrees == Spec => []AllocateIsIdempotent
BY CaseInvariant, IdempotentOf, PTL

-----------------------------------------------------------------------------
(* Requests and limits. *)

\* A spec has both lists.
HasLists(s) == {"requests", "limits"} \subseteq DOMAIN s

\* Each list comes from the server or, when it is empty there, from the class.
LEMMA MergedLists ==
  ASSUME NEW s, HasLists(s), NEW c
  PROVE  LET m == MergeWithClass(s, c)
         IN  /\ HasLists(m)
             /\ m.requests = IF s.requests = NoList THEN c.requests ELSE s.requests
             /\ m.limits = IF s.limits = NoList THEN c.limits ELSE s.limits
<1>1. /\ EmptySpec["requests"] = NoList /\ EmptySpec["limits"] = NoList
      /\ "requests" \in ClassDefaults /\ "limits" \in ClassDefaults
  BY DEF EmptySpec, ClassDefaults
<1> QED
  BY <1>1 DEF MergeWithClass, HasLists

\* ApplyStartup leaves both alone.
LEMMA StartedLists ==
  ASSUME NEW s, HasLists(s), NEW order
  PROVE  /\ HasLists(ApplyStartup(s, order).spec)
         /\ ApplyStartup(s, order).spec.requests = s.requests
         /\ ApplyStartup(s, order).spec.limits = s.limits
<1>1. \A x, y : LET t == [s EXCEPT !.command = x, !.args = y]
                IN  HasLists(t) /\ t.requests = s.requests /\ t.limits = s.limits
  BY DEF HasLists
<1> QED
  BY <1>1 DEF ApplyStartup

\* The effective spec of any server that sets both lists or none.
LEMMA EffectiveWithin ==
  ASSUME NEW s, HasLists(s), NEW c, NEW order,
         (s.requests = NoList) = (s.limits = NoList),
         Within(s.requests, s.limits), Within(c.requests, c.limits)
  PROVE  Within(Effective(s, c, order).spec.requests, Effective(s, c, order).spec.limits)
<1> DEFINE m == MergeWithClass(s, c)
           e == Effective(s, c, order).spec
<1>1. HasLists(m) /\ \/ m.requests = c.requests /\ m.limits = c.limits
                     \/ m.requests = s.requests /\ m.limits = s.limits
  BY MergedLists
<1>2. e = ApplyStartup(m, order).spec
  BY DEF Effective
<1> HIDE DEF m, e
<1>3. e.requests = m.requests /\ e.limits = m.limits
  BY <1>1, <1>2, StartedLists
<1>4. Within(e.requests, e.limits)
  BY <1>1, <1>3
<1> QED
  BY <1>4 DEF e

\* Any update of fields of the empty spec has both lists.
LEMMA EmptyLists == "requests" \in DOMAIN EmptySpec /\ "limits" \in DOMAIN EmptySpec
BY DEF EmptySpec

\* Every manifest is such an update.
LEMMA ManifestLists == \A s \in Manifests : HasLists(s)
<1> DEFINE started(x, c, a) ==
             [EmptySpec EXCEPT !.image = "i", !.startup = x, !.command = c, !.args = a]
           sized(r, l) == [EmptySpec EXCEPT !.requests = r, !.limits = l]
           A == {started(x, c, a) : x \in Startups, c \in {<<>>, <<<<"c">>>>},
                                    a \in {<<>>, <<<<"d">>>>}}
           B == {sized(r, l) : r \in Lists, l \in Lists}
<1>1. Manifests = A \cup B
  BY DEF Manifests
<1>2. \A x, c, a : DOMAIN started(x, c, a) = DOMAIN EmptySpec
  OBVIOUS
<1>3. \A r, l : DOMAIN sized(r, l) = DOMAIN EmptySpec
  OBVIOUS
<1> HIDE DEF started, sized
<1>4. \A s \in A \cup B : DOMAIN s = DOMAIN EmptySpec
  BY <1>2, <1>3
<1> QED
  BY <1>1, <1>4, EmptyLists DEF HasLists

\* gameServerFromRequest gives every server both lists.
LEMMA RequestLists ==
  ASSUME NEW req, NEW order
  PROVE  HasLists(gameServerFromRequest(req, order).spec)
<1> DEFINE base ==
      [EmptySpec EXCEPT
         !.image = req.image, !.env = req.env,
         !.deletePolicy = "Retain", !.backupPolicy = "None",
         !.lifecyclePolicy = "Retain",
         !.limits = Quantities(req.limits), !.requests = Quantities(req.limits),
         !.size = req.disk * MiB,
         !.mountPath = IF req.disk > 0 THEN "/data" ELSE "",
         !.startup = IF req.startup = <<>> THEN NoStartup
                     ELSE [present |-> TRUE, raw |-> req.startup,
                           variables |-> req.variables]]
<1>1. DOMAIN base = DOMAIN EmptySpec
  OBVIOUS
<1>2. gameServerFromRequest(req, order) = ApplyStartup(base, order)
  BY DEF gameServerFromRequest
<1> HIDE DEF base
<1> QED
  BY <1>1, <1>2, EmptyLists, StartedLists DEF HasLists

\* What is stored has both lists, and what is rendered is the effective spec of
\* what is stored.
SpecCase ==
  /\ input.call = "manifest" => HasLists(input.spec)
  /\ output.stage \in {"stored", "rendered"} => HasLists(output.stored)
  /\ Rendered => \E order : output.result = Effective(output.stored, input.class, order)

\* No call disturbs it.
LEMMA SpecCaseInvariant == Spec => []SpecCase
<1>1. Init => SpecCase
  <2> SUFFICES ASSUME Init PROVE SpecCase
    OBVIOUS
  <2>1. output.stage = "start"
    BY DEF Init, Waiting
  <2>2. input.call = "manifest" => input.spec \in Manifests
    BY DEF Init, AllocateInputs, SplitInputs, ResolveInputs
  <2> QED
    BY <2>1, <2>2, ManifestLists DEF SpecCase, Rendered
<1>2. SpecCase /\ [Next]_vars => SpecCase'
  <2> SUFFICES ASSUME SpecCase, [Next]_vars PROVE SpecCase'
    OBVIOUS
  <2>1. input' = input
    BY DEF Next, CallAllocate, CallSplitCommand, CallResolve, CreateRequest, ApplyManifest,
           Pass, Call, vars
  <2>2. CASE CallAllocate \/ CallSplitCommand \/ CallResolve
    <3>1. output'.stage = "end"
      BY <2>2 DEF CallAllocate, CallSplitCommand, CallResolve
    <3> QED
      BY <2>1, <3>1 DEF SpecCase, Rendered
  <2>3. CASE CreateRequest
    <3>1. PICK order : output' =
            [stage |-> IF gameServerFromRequest(input.req, order).ok THEN "stored" ELSE "end",
             stored |-> gameServerFromRequest(input.req, order).spec]
      BY <2>3, Zenon DEF CreateRequest
    <3>2. /\ output'.stage \in {"stored", "end"}
          /\ output'.stored = gameServerFromRequest(input.req, order).spec
      BY <3>1
    <3> QED
      BY <2>1, <3>2, RequestLists DEF SpecCase, Rendered
  <2>4. CASE ApplyManifest
    BY <2>1, <2>4 DEF ApplyManifest, Call, SpecCase, Rendered
  <2>5. CASE Pass
    <3>1. PICK order : output' =
            [stage |-> "rendered", stored |-> output.stored,
             result |-> Effective(output.stored, input.class, order)]
      BY <2>5, Zenon DEF Pass
    <3>2. /\ output'.stored = output.stored
          /\ output'.result = Effective(output.stored, input.class, order)
          /\ HasLists(output.stored)
      BY <2>5, <3>1 DEF Pass, SpecCase
    <3> QED
      BY <2>1, <3>2 DEF SpecCase, Rendered
  <2>6. CASE UNCHANGED vars
    <3>1. input' = input /\ output' = output
      BY <2>6 DEF vars
    <3> QED
      BY <3>1, Zenon DEF SpecCase, Rendered
  <2> QED
    BY <2>2, <2>3, <2>4, <2>5, <2>6 DEF Next
<1> QED
  BY <1>1, <1>2, PTL DEF Spec

\* MergeWithClass fills in requests and limits separately, and still no server
\* that sets both or none gets a request above its limit, whatever the order of
\* the variables and whatever ApplyStartup makes of the command.
THEOREM RequestsStayWithinLimits == Spec => []MergedRequestsWithinLimits
<1>1. SpecCase => MergedRequestsWithinLimits
  BY EffectiveWithin, Zenon DEF SpecCase, MergedRequestsWithinLimits, Rendered
<1> QED
  BY <1>1, SpecCaseInvariant, PTL
=============================================================================
