------------------------ MODULE PortAllocatorProofs ------------------------
(***************************************************************************)
(* What one call of the NodePort allocator returns, for every port         *)
(* interval, network and set of used ports.                                *)
(***************************************************************************)
EXTENDS PortAllocator, SequenceTheorems, FiniteSetTheorems, WellFoundedInduction, TLAPS

-----------------------------------------------------------------------------
(* The search. *)

\* A non-empty set of naturals has a least element.
LEMMA LeastNatural ==
  ASSUME NEW T, T \subseteq Nat, T # {}
  PROVE  \E s \in T : \A t \in T : s <= t
<1> DEFINE R == {ss \in Nat \X Nat : ss[1] < ss[2]}
<1>1. IsWellFoundedOn(R, Nat)
  BY NatLessThanWellFounded DEF OpToRel
<1>2. \E x \in T : \A y \in T : ~ (<<y, x>> \in R)
  BY <1>1, WFMin
<1>3. PICK x \in T : \A y \in T : ~ (<<y, x>> \in R)
  BY <1>2
<1>4. ASSUME NEW y \in T PROVE x <= y
  <2>1. ~ (<<y, x>> \in R) /\ <<y, x>> \in Nat \X Nat
    BY <1>3
  <2>2. ~ (y < x)
    BY <2>1
  <2> QED
    BY <2>2
<1> QED
  BY <1>4

\* findFreeRange returns 0 or a start whose whole range is in the configured
\* interval and free.
LEMMA FoundRangeIsFree ==
  ASSUME NEW used, NEW size \in Nat, size > 0, findFreeRange(used, size) # 0
  PROVE  findFreeRange(used, size) \in FreeStarts(used, size)
<1> DEFINE free == FreeStarts(used, size)
<1>1. free \subseteq Nat
  BY PortRangeAssumption DEF FreeStarts
<1>2. free # {}
  BY DEF findFreeRange
<1>3. \E s \in free : \A t \in free : s <= t
  BY <1>1, <1>2, LeastNatural
<1>4. findFreeRange(used, size) = CHOOSE s \in free : \A t \in free : s <= t
  BY <1>2 DEF findFreeRange
<1> HIDE DEF free
<1> QED
  BY <1>3, <1>4 DEF free

\* The range handed out has at least one port.
LEMMA RangeSizeType ==
  ASSUME NEW nw \in Network
  PROVE  /\ rangeSize(nw) \in Nat \ {0}
         /\ portCount(nw) \in Nat \ {0}
         /\ rangeSize(nw) <= portCount(nw)
<1>1. nw.alloc.count \in Int /\ Len(nw.ports) \in Nat
  BY LenProperties DEF Network, AllocationSpec
<1> QED
  BY <1>1 DEF rangeSize, portCount

\* A successful allocation starts at a positive port of the interval, and none
\* of the ports of its range is used.
LEMMA StartIsFree ==
  ASSUME NEW nw \in Network, NEW used, startFor(nw, used) # 0
  PROVE  /\ startFor(nw, used) \in Nat \ {0}
         /\ startFor(nw, used) >= MinPort
         /\ startFor(nw, used) + rangeSize(nw) - 1 <= MaxPort
         /\ PortRange(startFor(nw, used), rangeSize(nw)) \cap used = {}
<1> DEFINE size == rangeSize(nw)
           start == startFor(nw, used)
<1>1. size \in Nat /\ size > 0
  BY RangeSizeType
<1>2. nw.alloc.start \in Int
  BY DEF Network, AllocationSpec
<1>3. CASE nw.alloc.start > 0
  <2>1. start = nw.alloc.start /\ validateRange(start, size)
                               /\ ~ rangeUsed(used, start, size)
    BY <1>3 DEF startFor
  <2> HIDE DEF start, size
  <2>2. PortRange(start, size) \cap used = {}
    BY <2>1 DEF rangeUsed
  <2> QED
    BY <1>1, <1>2, <1>3, <2>1, <2>2 DEF validateRange, start, size
<1>4. CASE ~ (nw.alloc.start > 0)
  <2>1. start = findFreeRange(used, size)
    BY <1>4 DEF startFor
  <2>2. start \in FreeStarts(used, size)
    BY <1>1, <2>1, FoundRangeIsFree
  <2> HIDE DEF start, size
  <2>3. start \in MinPort .. (MaxPort - size + 1) /\ ~ rangeUsed(used, start, size)
    BY <2>2 DEF FreeStarts
  <2>4. PortRange(start, size) \cap used = {}
    BY <2>3 DEF rangeUsed
  <2> QED
    BY <1>1, <2>3, <2>4, PortRangeAssumption DEF start, size
<1> QED
  BY <1>3, <1>4

\* assignPorts yields a network.
LEMMA AssignPortsType ==
  ASSUME NEW nw \in Network, NEW start \in Nat
  PROVE  assignPorts(nw, start) \in Network
<1> DEFINE k == portCount(nw)
           port(i) == [name      |-> IF i <= Len(nw.ports) THEN nw.ports[i].name
                                     ELSE i - 1,
                       container |-> IF i <= Len(nw.ports)
                                     THEN nw.ports[i].container
                                     ELSE containerBase(nw) + (i - 1),
                       node      |-> start + (i - 1)]
<1>1. k \in Nat
  BY RangeSizeType
<1>2. Len(nw.ports) \in Nat /\ nw.ports \in Seq(PortSpec)
  BY LenProperties DEF Network
<1>3. \A i \in 1 .. Len(nw.ports) : nw.ports[i] \in PortSpec
  BY <1>2, ElementOfSeq
<1>4. containerBase(nw) \in Int
  <2>1. nw.alloc.base \in Int /\ nw.alloc.start \in Int
    BY DEF Network, AllocationSpec
  <2>2. Len(nw.ports) > 0 => nw.ports[1].container \in Int
    BY <1>2, <1>3 DEF PortSpec
  <2> QED
    BY <2>1, <2>2 DEF containerBase, DefaultContainerPort
<1>5. \A i \in 1 .. k : port(i) \in PortSpec
  BY <1>1, <1>2, <1>3, <1>4 DEF PortSpec
<1>6. [i \in 1 .. k |-> port(i)] \in Seq(PortSpec)
  BY <1>1, <1>5, IsASeq
<1>7. [nw.alloc EXCEPT !.start = start] \in AllocationSpec
  BY DEF Network, AllocationSpec
<1> QED
  BY <1>6, <1>7 DEF assignPorts, Network

\* When the listed ports fit, the new server reserves exactly the checked range.
LEMMA ReservedIsRange ==
  ASSUME NEW nw \in Network, nw.alloc.present, NEW start \in Nat \ {0},
         fits(assignPorts(nw, start))
  PROVE  Reserved(assignPorts(nw, start)) \subseteq PortRange(start, rangeSize(nw))
<1> DEFINE a == assignPorts(nw, start)
           k == portCount(nw)
<1>1. /\ k \in Nat \ {0} /\ rangeSize(nw) \in Nat \ {0}
      /\ rangeSize(nw) <= k
  BY RangeSizeType
<1>2. Len(nw.ports) \in Nat /\ nw.alloc.count \in Int
  BY LenProperties DEF Network, AllocationSpec
<1>3. /\ a.alloc.start = start /\ a.alloc.count = nw.alloc.count
      /\ a.alloc.present
  BY DEF assignPorts, Network, AllocationSpec
<1>4. a.ports \in Seq(PortSpec) /\ DOMAIN a.ports = 1 .. k
  BY AssignPortsType DEF assignPorts, Network
<1>5. Len(a.ports) = k
  BY <1>1, <1>4, LenProperties
<1>6. \A i \in 1 .. k : a.ports[i].node = start + (i - 1)
  BY DEF assignPorts
<1> HIDE DEF a, k
<1>7. k = rangeSize(nw)
  <2>1. rangeSize(a) = IF nw.alloc.count + 1 > 0 THEN nw.alloc.count + 1 ELSE k
    BY <1>1, <1>3, <1>5 DEF rangeSize
  <2>2. k <= rangeSize(a)
    BY <1>5 DEF fits, a
  <2>3. CASE nw.alloc.count + 1 > 0
    BY <1>1, <1>2, <2>1, <2>2, <2>3 DEF rangeSize
  <2>4. CASE ~ (nw.alloc.count + 1 > 0)
    BY <1>1, <1>2, <2>4 DEF rangeSize, portCount, k
  <2> QED
    BY <2>3, <2>4
<1>8. {a.ports[i].node : i \in DOMAIN a.ports} \subseteq PortRange(start, k)
  BY <1>1, <1>4, <1>6 DEF PortRange
<1>9. PortRange(start, nw.alloc.count + 1) \subseteq PortRange(start, k)
  BY <1>1, <1>2, <1>7 DEF PortRange, rangeSize
<1> QED
  BY <1>3, <1>7, <1>8, <1>9 DEF Reserved, a

\* The result of Allocate is a network, and when its ports fit the range it
\* reserves nothing the other servers use.
LEMMA AllocateSound ==
  ASSUME NEW nw \in Network, NEW used, Allocate(nw, used).ok
  PROVE  /\ Allocate(nw, used).net \in Network
         /\ LET r == Allocate(nw, used).net
            IN  r.alloc.present /\ fits(r) => Reserved(r) \cap used = {}
<1> DEFINE r == Allocate(nw, used).net
           start == startFor(nw, used)
<1>1. CASE ~ nw.alloc.present
  BY <1>1 DEF Allocate
<1>2. CASE nw.alloc.present
  <2>1. start # 0 /\ r = assignPorts(nw, start)
    BY <1>2 DEF Allocate
  <2>2. start \in Nat \ {0} /\ PortRange(start, rangeSize(nw)) \cap used = {}
    BY <2>1, StartIsFree
  <2>3. r \in Network
    BY <2>1, <2>2, AssignPortsType
  <2>4. ASSUME fits(r)
        PROVE  Reserved(r) \cap used = {}
    <3>1. Reserved(r) \subseteq PortRange(start, rangeSize(nw))
      BY <1>2, <2>1, <2>2, <2>4, ReservedIsRange
    <3> QED
      BY <2>2, <3>1
  <2> QED
    BY <2>3, <2>4
<1> QED
  BY <1>1, <1>2

-----------------------------------------------------------------------------
(* The search against a reference. *)

\* A contiguous set of unused ports of the interval, of the given size.
FreeRun(run, used, size) ==
  /\ run \subseteq (MinPort .. MaxPort) \ used
  /\ Cardinality(run) = size
  /\ \A p, q \in run : p .. q \subseteq run

\* A range has as many ports as its size says.
LEMMA RangeCardinality ==
  ASSUME NEW s \in Nat, NEW size \in Nat \ {0}
  PROVE  Cardinality(PortRange(s, size)) = size
<1> DEFINE e == s + size - 1
<1>1. e \in Int /\ s \in Int /\ ~ (s > e) /\ e - s + 1 = size
  OBVIOUS
<1>2. PortRange(s, size) = s .. e
  BY DEF PortRange
<1> HIDE DEF e
<1>3. Cardinality(s .. e) = e - s + 1
  BY <1>1, FS_Interval
<1> QED
  BY <1>1, <1>2, <1>3

\* The search looks at every contiguous free run: each begins at a free start.
LEMMA RunsHaveFreeStarts ==
  ASSUME NEW used, NEW size \in Nat \ {0}, NEW run, FreeRun(run, used, size)
  PROVE  \E s \in FreeStarts(used, size) : run = PortRange(s, size)
<1>0. MinPort \in Nat \ {0} /\ MaxPort \in Nat
  BY PortRangeAssumption
<1>1. run \subseteq Nat /\ \A p \in run : MinPort <= p /\ p <= MaxPort /\ p \notin used
  BY <1>0 DEF FreeRun
<1>2. run # {}
  BY FS_EmptySet DEF FreeRun
<1>3. PICK s \in run : \A p \in run : s <= p
  BY <1>1, <1>2, LeastNatural
<1> DEFINE T == {MaxPort - p : p \in run}
<1>4. T \subseteq Nat /\ T # {}
  BY <1>0, <1>1, <1>2
<1>5. PICK t \in T : \A x \in T : t <= x
  BY <1>4, LeastNatural
<1>6. PICK e \in run : t = MaxPort - e
  BY <1>5
<1>7. \A p \in run : p <= e
  <2>1. ASSUME NEW p \in run PROVE p <= e
    <3>1. MaxPort - p \in T
      OBVIOUS
    <3>2. MaxPort - e <= MaxPort - p
      BY <1>5, <1>6, <3>1
    <3> QED
      BY <1>0, <1>1, <3>2
  <2> QED
    BY <2>1
<1> HIDE DEF T
<1>8. run = s .. e
  <2>1. s .. e \subseteq run
    BY <1>3, <1>6 DEF FreeRun
  <2>2. run \subseteq s .. e
    BY <1>1, <1>3, <1>7
  <2> QED
    BY <2>1, <2>2
<1>9. s \in Nat /\ e \in Nat /\ s <= e /\ MinPort <= s /\ e <= MaxPort
  BY <1>1, <1>3, <1>6
<1>10. Cardinality(s .. e) = e - s + 1
  BY <1>9, FS_Interval
<1>11. e = s + size - 1
  BY <1>8, <1>9, <1>10 DEF FreeRun
<1>12. run = PortRange(s, size)
  BY <1>8, <1>11 DEF PortRange
<1>13. s \in MinPort .. (MaxPort - size + 1)
  BY <1>0, <1>9, <1>11
<1>14. ~ rangeUsed(used, s, size)
  BY <1>1, <1>12 DEF rangeUsed
<1> QED
  BY <1>12, <1>13, <1>14 DEF FreeStarts

\* A free start begins a contiguous free run.
LEMMA FreeStartsAreRuns ==
  ASSUME NEW used, NEW size \in Nat \ {0}, NEW s \in FreeStarts(used, size)
  PROVE  FreeRun(PortRange(s, size), used, size)
<1>0. /\ MinPort \in Nat \ {0} /\ MaxPort \in Nat
      /\ s \in Nat /\ MinPort <= s /\ s + size - 1 <= MaxPort
  BY PortRangeAssumption DEF FreeStarts
<1>1. PortRange(s, size) \cap used = {}
  BY DEF FreeStarts, rangeUsed
<1>2. PortRange(s, size) \subseteq MinPort .. MaxPort
  BY <1>0 DEF PortRange
<1>3. Cardinality(PortRange(s, size)) = size
  BY <1>0, RangeCardinality
<1>4. \A p, q \in PortRange(s, size) : p .. q \subseteq PortRange(s, size)
  BY <1>0 DEF PortRange
<1> QED
  BY <1>1, <1>2, <1>3, <1>4 DEF FreeRun

\* First fit, against the reference: the search fails exactly when there is no
\* contiguous free run, and otherwise returns the start of the lowest one.
THEOREM SearchIsFirstFit ==
  ASSUME NEW used, NEW size \in Nat \ {0}
  PROVE  LET s == findFreeRange(used, size)
         IN  /\ s = 0 <=> \A run : ~ FreeRun(run, used, size)
             /\ s # 0 => /\ FreeRun(PortRange(s, size), used, size)
                         /\ \A run : FreeRun(run, used, size) => \A p \in run : s <= p
<1> DEFINE free == FreeStarts(used, size)
           s == findFreeRange(used, size)
<1>0. free \subseteq Nat \ {0}
  BY PortRangeAssumption DEF FreeStarts
<1>1. CASE free = {}
  <2>1. s = 0
    BY <1>1 DEF findFreeRange
  <2>2. \A run : ~ FreeRun(run, used, size)
    BY <1>1, RunsHaveFreeStarts
  <2> QED
    BY <2>1, <2>2
<1>2. CASE free # {}
  <2>1. \E x \in free : \A t \in free : x <= t
    BY <1>0, <1>2, LeastNatural
  <2>2. s = CHOOSE x \in free : \A t \in free : x <= t
    BY <1>2 DEF findFreeRange
  <2> HIDE DEF free, s
  <2>3. s \in free /\ \A t \in free : s <= t
    BY <2>1, <2>2
  <2>4. s # 0 /\ s \in Nat
    BY <1>0, <2>3
  <2>5. FreeRun(PortRange(s, size), used, size)
    BY <2>3, FreeStartsAreRuns DEF free
  <2>6. ASSUME NEW run, FreeRun(run, used, size), NEW p \in run PROVE s <= p
    <3>1. PICK t \in free : run = PortRange(t, size)
      BY <2>6, RunsHaveFreeStarts DEF free
    <3>2. t \in Nat /\ s <= t /\ p \in Nat /\ t <= p
      BY <1>0, <2>3, <2>6, <3>1 DEF PortRange
    <3> QED
      BY <2>4, <3>2
  <2> QED
    BY <2>4, <2>5, <2>6 DEF s
<1> QED
  BY <1>1, <1>2

-----------------------------------------------------------------------------
(* What a successful call reserves, and a second call. *)

\* What assignPorts leaves alone, and what it writes.
LEMMA AssignedParts ==
  ASSUME NEW nw \in Network, NEW start \in Nat
  PROVE  LET a == assignPorts(nw, start)
             k == portCount(nw)
         IN  /\ a \in Network
             /\ a.alloc = [nw.alloc EXCEPT !.start = start]
             /\ a.alloc.start = start /\ a.alloc.count = nw.alloc.count
             /\ a.alloc.present = nw.alloc.present
             /\ DOMAIN a.ports = 1 .. k /\ Len(a.ports) = k
             /\ \A i \in 1 .. k : a.ports[i].node = start + (i - 1)
<1> DEFINE a == assignPorts(nw, start)
           k == portCount(nw)
<1>1. a \in Network
  BY AssignPortsType
<1>2. /\ a.alloc = [nw.alloc EXCEPT !.start = start]
      /\ a.alloc.start = start /\ a.alloc.count = nw.alloc.count
      /\ a.alloc.present = nw.alloc.present
  BY DEF assignPorts, Network, AllocationSpec
<1>3. DOMAIN a.ports = 1 .. k /\ \A i \in 1 .. k : a.ports[i].node = start + (i - 1)
  BY DEF assignPorts
<1>4. k \in Nat /\ a.ports \in Seq(PortSpec)
  BY <1>1, RangeSizeType DEF Network
<1>5. Len(a.ports) = k
  BY <1>3, <1>4, LenProperties
<1> QED
  BY <1>1, <1>2, <1>3, <1>5

\* The range does not grow when it has been assigned.
LEMMA AssignedSize ==
  ASSUME NEW nw \in Network, NEW start \in Nat
  PROVE  rangeSize(assignPorts(nw, start)) = rangeSize(nw)
<1> DEFINE a == assignPorts(nw, start)
           k == portCount(nw)
<1>1. a.alloc.count = nw.alloc.count /\ Len(a.ports) = k
  BY AssignedParts
<1>2. k \in Nat \ {0} /\ nw.alloc.count \in Int /\ Len(nw.ports) \in Nat
  BY RangeSizeType, LenProperties DEF Network, AllocationSpec
<1> HIDE DEF a
<1>3. rangeSize(a) = IF nw.alloc.count + 1 > 0 THEN nw.alloc.count + 1 ELSE k
  <2> HIDE DEF k
  <2> QED
    BY <1>1, <1>2 DEF rangeSize
<1>4. ~ (nw.alloc.count + 1 > 0) => k = rangeSize(nw)
  BY <1>2 DEF rangeSize, portCount
<1>5. nw.alloc.count + 1 > 0 => rangeSize(nw) = nw.alloc.count + 1
  BY DEF rangeSize
<1> HIDE DEF k
<1>6. rangeSize(a) = rangeSize(nw)
  BY <1>3, <1>4, <1>5
<1> QED
  BY <1>6 DEF a

\* When the listed ports fit the range, a successful call reserves exactly as
\* many ports as the range has, all in the interval and none of them used.
THEOREM ReservesItsRange ==
  ASSUME NEW nw \in Network, nw.alloc.present, fits(nw), NEW used,
         Allocate(nw, used).ok
  PROVE  LET r == Allocate(nw, used).net
         IN  /\ Reserved(r) \subseteq (MinPort .. MaxPort) \ used
             /\ Cardinality(Reserved(r)) = rangeSize(nw)
<1> DEFINE start == startFor(nw, used)
           a == assignPorts(nw, start)
           size == rangeSize(nw)
<1>1. start # 0 /\ Allocate(nw, used).net = a
  BY DEF Allocate
<1>2. /\ start \in Nat \ {0} /\ start >= MinPort /\ start + size - 1 <= MaxPort
      /\ PortRange(start, size) \cap used = {}
  BY <1>1, StartIsFree
<1>3. size \in Nat \ {0} /\ nw.alloc.count \in Int /\ Len(nw.ports) \in Nat
  BY RangeSizeType, LenProperties DEF Network, AllocationSpec
<1>4. portCount(nw) = size
  BY <1>3 DEF portCount, fits
<1> HIDE DEF start, size
<1>5. /\ a.alloc.present /\ a.alloc.start = start /\ a.alloc.count = nw.alloc.count
      /\ DOMAIN a.ports = 1 .. size
      /\ \A i \in 1 .. size : a.ports[i].node = start + (i - 1)
  BY <1>2, <1>4, AssignedParts
<1> HIDE DEF a
<1>6. Reserved(a) = PortRange(start, size)
  <2>1. {a.ports[i].node : i \in DOMAIN a.ports} = PortRange(start, size)
    <3>1. ASSUME NEW p \in PortRange(start, size)
          PROVE  p \in {a.ports[i].node : i \in DOMAIN a.ports}
      <4>1. p - start + 1 \in 1 .. size /\ p = start + ((p - start + 1) - 1)
        BY <1>2, <1>3 DEF PortRange
      <4> QED
        BY <1>5, <4>1
    <3>2. ASSUME NEW i \in 1 .. size PROVE a.ports[i].node \in PortRange(start, size)
      BY <1>2, <1>3, <1>5 DEF PortRange
    <3> QED
      BY <1>5, <3>1, <3>2
  <2>2. PortRange(start, nw.alloc.count + 1) \subseteq PortRange(start, size)
    BY <1>2, <1>3 DEF PortRange, size, rangeSize
  <2>3. 0 \notin PortRange(start, size)
    BY <1>2, <1>3 DEF PortRange
  <2> QED
    BY <1>2, <1>5, <2>1, <2>2, <2>3 DEF Reserved
<1>7. PortRange(start, size) \subseteq (MinPort .. MaxPort) \ used
  BY <1>2, <1>3, PortRangeAssumption DEF PortRange
<1>8. Cardinality(PortRange(start, size)) = size
  BY <1>2, <1>3, RangeCardinality
<1> QED
  BY <1>1, <1>6, <1>7, <1>8 DEF size

\* Allocate on its own result, with the same competitors, changes nothing.
THEOREM AllocateTwice ==
  ASSUME NEW nw \in Network, NEW used, Allocate(nw, used).ok
  PROVE  Allocate(Allocate(nw, used).net, used) = Allocate(nw, used)
<1> DEFINE start == startFor(nw, used)
           a == assignPorts(nw, start)
           k == portCount(nw)
<1>1. CASE ~ nw.alloc.present
  BY <1>1 DEF Allocate
<1>2. CASE nw.alloc.present
  <2>1. start # 0 /\ Allocate(nw, used) = [ok |-> TRUE, net |-> a]
    BY <1>2 DEF Allocate
  <2>2. /\ start \in Nat \ {0} /\ start >= MinPort
        /\ start + rangeSize(nw) - 1 <= MaxPort
        /\ PortRange(start, rangeSize(nw)) \cap used = {}
    BY <2>1, StartIsFree
  <2>3. k \in Nat \ {0} /\ rangeSize(nw) <= k /\ rangeSize(nw) \in Nat
    BY RangeSizeType
  <2> HIDE DEF start
  <2>4. rangeSize(a) = rangeSize(nw)
    BY <2>2, AssignedSize
  <2>5. /\ a \in Network /\ a.alloc.present /\ a.alloc.start = start
        /\ DOMAIN a.ports = 1 .. k /\ Len(a.ports) = k
        /\ a.alloc = [nw.alloc EXCEPT !.start = start]
        /\ \A i \in 1 .. k : a.ports[i].node = start + (i - 1)
    BY <1>2, <2>2, AssignedParts
  <2> HIDE DEF a
  <2>6. startFor(a, used) = start
    <3>1. validateRange(start, rangeSize(nw)) /\ ~ rangeUsed(used, start, rangeSize(nw))
      BY <2>2 DEF validateRange, rangeUsed
    <3> QED
      BY <2>2, <2>4, <2>5, <3>1 DEF startFor
  <2>7. portCount(a) = k
    BY <2>3, <2>4, <2>5 DEF portCount
  <2> HIDE DEF k
  <2>8. assignPorts(a, start) = a
    <3> DEFINE port(i) == [name      |-> IF i <= Len(a.ports) THEN a.ports[i].name
                                         ELSE i - 1,
                           container |-> IF i <= Len(a.ports)
                                         THEN a.ports[i].container
                                         ELSE containerBase(a) + (i - 1),
                           node      |-> start + (i - 1)]
    <3>1. ASSUME NEW i \in 1 .. k PROVE port(i) = a.ports[i]
      <4>1. a.ports[i] \in PortSpec
        BY <2>3, <2>5, ElementOfSeq DEF Network
      <4>2. a.ports[i] = [name |-> a.ports[i].name, container |-> a.ports[i].container,
                          node |-> a.ports[i].node]
        BY <4>1 DEF PortSpec
      <4>3. i <= Len(a.ports)
        BY <2>3, <2>5
      <4> QED
        BY <2>5, <4>2, <4>3
    <3>2. [i \in 1 .. k |-> port(i)] = a.ports
      <4>1. a.ports = [i \in 1 .. k |-> a.ports[i]]
        BY <2>5 DEF Network
      <4> HIDE DEF port
      <4> QED
        BY <3>1, <4>1
    <3>3. [a.alloc EXCEPT !.start = start] = a.alloc
      BY <2>5 DEF Network, AllocationSpec
    <3>4. a = [ports |-> a.ports, alloc |-> a.alloc]
      BY <2>5 DEF Network
    <3>5. assignPorts(a, start) = [ports |-> [i \in 1 .. k |-> port(i)],
                                   alloc |-> [a.alloc EXCEPT !.start = start]]
      BY <2>7 DEF assignPorts
    <3> QED
      BY <3>2, <3>3, <3>4, <3>5
  <2>9. Allocate(a, used) = [ok |-> TRUE, net |-> a]
    BY <2>2, <2>5, <2>6, <2>8 DEF Allocate
  <2> QED
    BY <2>1, <2>9
<1> QED
  BY <1>1, <1>2
=============================================================================
