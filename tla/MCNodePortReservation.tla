----------------------- MODULE MCNodePortReservation -----------------------
(***************************************************************************)
(* Small instances of NodePortReservation.                                 *)
(***************************************************************************)
EXTENDS NodePortReservation, TLC

CONSTANTS s1, s2, s3, c1, c2

MCServers == {s1, s2, s3}
MCCallers == {c1, c2}

Ask(allocations, start, count) ==
  [allocations |-> allocations, start |-> start, count |-> count, base |-> 7]
Listed(nodes) ==
  [i \in 1 .. Len(nodes) |-> [name |-> i - 1, container |-> 6 + i, node |-> nodes[i]]]

\* Two bundled ports anywhere; a fixed single port in the middle; more listed
\* ports than the range holds.
MCRequests ==
  {Ask(<<>>, 0, 1), Ask(<<>>, MinPort + 1, 0), Ask(Listed(<<0, 0>>), MinPort, 0)}

\* A fixed NodePort without a range.
MCManifests ==
  {[ports |-> Listed(<<MinPort>>), alloc |-> NoAllocation]}

Symmetry == Permutations(MCServers) \cup Permutations(MCCallers)
=============================================================================
