----------------------- MODULE MCGameServerReconciler -----------------------
(***************************************************************************)
(* Small instances of GameServerReconciler: the specs users write, and     *)
(* which informers lag.                                                    *)
(***************************************************************************)
EXTENDS GameServerReconciler

Base == [storagePolicy |-> "Delete", lifecyclePolicy |-> "", class |-> FALSE,
         suspended |-> FALSE, ports |-> FALSE, protect |-> FALSE,
         valid |-> TRUE, rev |-> 1, label |-> 1, shape |-> 1]

\* Two ways of saying Retain, rendered differently.
VolumeSpecs ==
  {[Base EXCEPT !.storagePolicy = "Retain", !.lifecyclePolicy = "Delete"],
   [Base EXCEPT !.storagePolicy = "", !.lifecyclePolicy = "Retain",
                !.rev = 2, !.label = 2, !.shape = 2]}

\* A running server with a class; suspended, in another revision, with ports and
\* a snapshot instead.
LiveSpecs ==
  {[Base EXCEPT !.class = TRUE],
   [Base EXCEPT !.suspended = TRUE, !.ports = TRUE, !.protect = TRUE,
                !.rev = 2, !.label = 2, !.shape = 2]}

\* Retain only through the class.
ClassSpecs == {[Base EXCEPT !.storagePolicy = "", !.class = TRUE]}

OneSpec == {Base}

Prompt == {}
NoPods == {}
FlappingPods == {"none", "ready"}
LagVolume == {"gameserver", "pvc"}
LagClaim == {"pvc"}
LagWorkload == {"gameserver", "statefulset"}
=============================================================================
