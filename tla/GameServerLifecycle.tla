------------------------ MODULE GameServerLifecycle ------------------------
(***************************************************************************)
(* What users see of one GameServer name and of the volume that holds its  *)
(* game data, without caches, passes, finalizers and failing calls: the    *)
(* specification GameServerReconciler implements.                          *)
(*                                                                         *)
(*   server  the incarnation there is (uid 0: none), and whether it is     *)
(*           being deleted                                                 *)
(*   volume  whether the volume exists, and the incarnation it will be     *)
(*           deleted with (owner 0: none, it is kept)                      *)
(*   last    the latest incarnation so far: uids are never used again      *)
(***************************************************************************)
EXTENDS Naturals

VARIABLES server, volume, last

vars == <<server, volume, last>>

NoServer == [uid |-> 0, deleting |-> FALSE]
NoVolume == [exists |-> FALSE, owner |-> 0]

Init == server = NoServer /\ volume = NoVolume /\ last = 0

\* The name is free.  The volume of an earlier incarnation may still be there.
Create ==
  /\ server = NoServer
  /\ last' = last + 1
  /\ server' = [uid |-> last + 1, deleting |-> FALSE]
  /\ UNCHANGED volume

\* A delete is accepted once.  Without a volume to decide about, the server may
\* be gone at once.
Delete ==
  /\ server.uid # 0 /\ ~ server.deleting
  /\ \/ server' = [uid |-> server.uid, deleting |-> TRUE]
     \/ volume.owner # server.uid /\ server' = NoServer
  /\ UNCHANGED <<volume, last>>

\* The end of a deletion.
Gone ==
  /\ server.deleting
  /\ server' = NoServer
  /\ UNCHANGED <<volume, last>>

\* A server without a volume gets one, which belongs to it; one that is there
\* is used as it is.
Provision ==
  /\ server.uid # 0 /\ ~ volume.exists
  /\ volume' = [exists |-> TRUE, owner |-> server.uid]
  /\ UNCHANGED <<server, last>>

\* A server parts with its volume only in its deletion; a late pass may still
\* save the volume of one that is gone.
Release ==
  /\ volume.exists /\ volume.owner # 0
  /\ volume.owner = server.uid => server.deleting
  /\ volume' = [volume EXCEPT !.owner = 0]
  /\ UNCHANGED <<server, last>>

\* The volume of an incarnation that is gone is deleted; a kept one never is.
Collect ==
  /\ volume.exists /\ volume.owner \notin {0, server.uid}
  /\ volume' = NoVolume
  /\ UNCHANGED <<server, last>>

Next == Create \/ Delete \/ Gone \/ Provision \/ Release \/ Collect

Spec == Init /\ [][Next]_vars
=============================================================================
