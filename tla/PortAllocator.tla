---------------------------- MODULE PortAllocator ----------------------------
(***************************************************************************)
(* The cluster-wide NodePort allocator of internal/ports/allocator.go.     *)
(*                                                                         *)
(* The allocator has no state of its own: what is reserved is read back    *)
(* from the specs of the GameServers the API server stores.  A network     *)
(* spec is abstracted to the fields the allocator reads and writes:        *)
(*                                                                         *)
(*   ports  the PortSpecs: name, container port and NodePort (0: none);    *)
(*          protocols are left out, and so are negative NodePorts          *)
(*   alloc  spec.network.nodePortAllocation; present = FALSE is a nil      *)
(*          pointer                                                        *)
(*                                                                         *)
(* Ports and counts are far below 2^31 here, so int32 arithmetic is exact. *)
(***************************************************************************)
EXTENDS Integers, Sequences

CONSTANTS MinPort,      \* --nodeport-min / NODEPORT_MIN
          MaxPort       \* --nodeport-max / NODEPORT_MAX

ASSUME PortRangeAssumption ==
  /\ MinPort \in Nat \ {0}
  /\ MaxPort \in Nat

-----------------------------------------------------------------------------
(* Network specs. *)

\* The number i >= 0 as a name is the generated one, "range-i"; other numbers
\* are the names users give.
NoName == -1

PortSpec == [name : Int, container : Int, node : Nat]

AllocationSpec == [present : BOOLEAN, start : Int, count : Int, base : Int]

Network == [ports : Seq(PortSpec), alloc : AllocationSpec]

NoAllocation == [present |-> FALSE, start |-> 0, count |-> 0, base |-> 0]

\* The container port the generated PortSpecs start from when nothing else is
\* known.
DefaultContainerPort == 25565

PortRange(start, size) == start .. (start + size - 1)

-----------------------------------------------------------------------------
(* Reservations. *)

\* The NodePorts a stored GameServer counts as reserved.  The range is taken
\* from count alone: count = -1 reserves nothing beyond the listed ports.
Reserved(net) ==
  ({net.ports[i].node : i \in DOMAIN net.ports} \ {0})
    \cup (IF net.alloc.present /\ net.alloc.start > 0
          THEN PortRange(net.alloc.start, net.alloc.count + 1)
          ELSE {})

\* What the other GameServers reserve; stored is the set of names listed, nets
\* the network spec of each.
usedPorts(stored, nets, current) ==
  UNION {Reserved(nets[m]) : m \in stored \ {current}}

\* Mutant: only the first port of the range is looked up.
rangeUsedFirstOnly(used, start, size) == start \in used

rangeUsed(used, start, size) ==
  \E p \in PortRange(start, size) : p \in used

validateRange(start, size) ==
  /\ start >= MinPort
  /\ start + size - 1 <= MaxPort

\* Mutant: the scan stops one start early.
FreeStartsShort(used, size) ==
  {s \in MinPort .. (MaxPort - size) : ~ rangeUsed(used, s, size)}

FreeStarts(used, size) ==
  {s \in MinPort .. (MaxPort - size + 1) : ~ rangeUsed(used, s, size)}

\* Mutant: -1 instead of an error, which the caller takes for a port.
findFreeRangeSentinel(used, size) ==
  LET free == FreeStarts(used, size)
  IN  IF free = {} THEN -1
      ELSE CHOOSE s \in free : \A t \in free : s <= t

\* The scan upwards from MinPort; 0 stands for the error "no free range".
findFreeRange(used, size) ==
  LET free == FreeStarts(used, size)
  IN  IF free = {} THEN 0
      ELSE CHOOSE s \in free : \A t \in free : s <= t

-----------------------------------------------------------------------------
(* Allocate. *)

rangeSize(net) ==
  IF net.alloc.count + 1 > 0 THEN net.alloc.count + 1
  ELSE IF Len(net.ports) > 0 THEN Len(net.ports)
  ELSE 1

containerBase(net) ==
  IF net.alloc.base # 0 THEN net.alloc.base
  ELSE IF net.alloc.start # 0 THEN net.alloc.start
  ELSE IF Len(net.ports) > 0 /\ net.ports[1].container # 0
       THEN net.ports[1].container
  ELSE DefaultContainerPort

\* Mutant: a full range is appended to the listed ports.
portCountAppend(net) == Len(net.ports) + rangeSize(net)

\* The number of ports after the list is padded to the range.
portCount(net) ==
  IF Len(net.ports) < rangeSize(net) THEN rangeSize(net) ELSE Len(net.ports)

\* Mutant: a requested start is not checked against the used ports.
startForUnchecked(net, used) ==
  LET size == rangeSize(net)
  IN  IF net.alloc.start > 0
      THEN IF validateRange(net.alloc.start, size) THEN net.alloc.start ELSE 0
      ELSE findFreeRange(used, size)

\* Mutant: the stored start is ignored and the search runs again.
startForFirstFit(net, used) == findFreeRange(used, rangeSize(net))

\* The first port of the range given to net, 0 when Allocate returns an error.
\* A requested start is validated and must be free; otherwise first fit.
startFor(net, used) ==
  LET size == rangeSize(net)
  IN  IF net.alloc.start > 0
      THEN IF /\ validateRange(net.alloc.start, size)
              /\ ~ rangeUsed(used, net.alloc.start, size)
           THEN net.alloc.start ELSE 0
      ELSE findFreeRange(used, size)

\* Mutant: the ports are generated anew and the start is not written back.
assignPortsInMemory(net, start) ==
  [ports |-> [i \in 1 .. portCount(net) |->
                [name      |-> i - 1,
                 container |-> containerBase(net) + (i - 1),
                 node      |-> start + (i - 1)]],
   alloc |-> net.alloc]

\* The network once start is chosen: every listed port gets the NodePort at
\* its index, the listed ones beyond the checked range too, and the start is
\* written back to the allocation.
assignPorts(net, start) ==
  [ports |-> [i \in 1 .. portCount(net) |->
                [name      |-> IF i <= Len(net.ports) THEN net.ports[i].name
                               ELSE i - 1,
                 container |-> IF i <= Len(net.ports)
                               THEN net.ports[i].container
                               ELSE containerBase(net) + (i - 1),
                 node      |-> start + (i - 1)]],
   alloc |-> [net.alloc EXCEPT !.start = start]]

\* Allocate(gs): whether it succeeds, and the network it leaves in gs.
Allocate(net, used) ==
  IF ~ net.alloc.present THEN [ok |-> TRUE, net |-> net]
  ELSE LET start == startFor(net, used)
       IN  IF start = 0 THEN [ok |-> FALSE, net |-> net]
           ELSE [ok |-> TRUE, net |-> assignPorts(net, start)]

\* The requested ports fit into the range Allocate checks.
fits(net) == Len(net.ports) <= rangeSize(net)
=============================================================================
