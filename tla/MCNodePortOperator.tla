------------------------- MODULE MCNodePortOperator -------------------------
(***************************************************************************)
(* Small instances of NodePortOperator: two names, so that ranges are      *)
(* re-used after deletions.                                                *)
(***************************************************************************)
EXTENDS NodePortOperator

CONSTANTS s1, s2, c1, c2

MCServers == {s1, s2}
MCCallers == {c1, c2}
OneCaller == {c1}

Bundle(start, count) ==
  [present |-> TRUE, start |-> start, count |-> count, base |-> 7]
Port(name, container) == [name |-> name, container |-> container, node |-> 0]
Ask(allocations, start, count, base) ==
  [allocations |-> allocations, start |-> start, count |-> count, base |-> base]

\* Two ports anywhere.
TwoPorts == {Ask(<<>>, 0, 1, 7)}

\* The same, and three requests that are stored and then refused: a port
\* without a name and count = -1, a container port beyond the last one, and one
\* container port twice (which only the API server refuses).
MCRequests ==
  TwoPorts \cup {Ask(<<Port(NoName, 7)>>, MinPort, -1, 0),
                 Ask(<<>>, MinPort, 1, MaxContainerPort),
                 Ask(<<Port(0, 8)>>, MinPort, 1, 7)}

\* One listed port whose NodePort the API server picks.
MCManifests == {[ports |-> <<Port(0, 7)>>, alloc |-> NoAllocation]}

\* Nothing but the class.
EmptyManifests == {EmptyNetwork}

\* The class asks for one bundled port anywhere.
MCClassNetwork == [ports |-> <<>>, alloc |-> Bundle(0, 0)]

MCClusterPorts == MinPort .. MaxPort
=============================================================================
