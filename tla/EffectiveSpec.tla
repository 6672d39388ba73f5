--------------------------- MODULE EffectiveSpec ---------------------------
(***************************************************************************)
(* From a create request to the spec the operator renders: what            *)
(* gameServerFromRequest stores, what MergeWithClass fills in, and what    *)
(* ApplyStartup makes of it.  Ports are in PortAllocator and               *)
(* NodePortOperator.                                                       *)
(*                                                                         *)
(* A spec is a record with an empty value for every field; a resource list *)
(* is a function from resource names to amounts, nil when it is empty.     *)
(***************************************************************************)
EXTENDS StartupMapper

NoList == <<>>
NoStartup == [present |-> FALSE, raw |-> <<>>, variables |-> <<>>]

\* The fields a class gives defaults for; placement stands for node selector,
\* tolerations and affinity, volume for storage class, access mode and
\* restoreFrom: all of them follow the same rule, each for itself.
ClassDefaults == {"image", "command", "args", "startup", "requests", "limits",
                  "size", "mountPath", "deletePolicy", "backupPolicy",
                  "volume", "placement"}

EmptySpec ==
  [image |-> "", command |-> <<>>, args |-> <<>>, startup |-> NoStartup,
   requests |-> NoList, limits |-> NoList, size |-> 0, mountPath |-> "",
   deletePolicy |-> "", backupPolicy |-> "", volume |-> "", placement |-> "",
   env |-> <<>>, lifecyclePolicy |-> "", restartPolicy |-> "",
   existingClaim |-> ""]

NoClass == [f \in ClassDefaults |-> EmptySpec[f]]

-----------------------------------------------------------------------------
(* ApplyStartup. *)

\* Mutant: an empty argument list is taken for a missing one.
ApplyStartupKeepsArgs(spec, order) ==
  LET r == Resolve(spec.startup.raw, spec.startup.variables, spec.env, order)
  IN  IF ~ spec.startup.present THEN [ok |-> TRUE, spec |-> spec]
      ELSE [ok |-> r.ok,
            spec |-> IF r.set
                     THEN [spec EXCEPT !.command = r.command,
                                       !.args = IF r.args = <<>> THEN @ ELSE r.args]
                     ELSE spec]

ApplyStartup(spec, order) ==
  LET r == Resolve(spec.startup.raw, spec.startup.variables, spec.env, order)
  IN  IF ~ spec.startup.present THEN [ok |-> TRUE, spec |-> spec]
      ELSE [ok |-> r.ok,
            spec |-> IF r.set THEN [spec EXCEPT !.command = r.command,
                                                !.args = r.args]
                     ELSE spec]

-----------------------------------------------------------------------------
(* gameServerFromRequest. *)

MiB == 1024 * 1024

\* Cores, in ten-thousandths, become whole thousandths; memory is in MiB.
Quantities(limits) ==
  (IF limits.cpu > 0 THEN [cpu |-> limits.cpu \div 10] ELSE NoList)
    @@ (IF limits.memory > 0 THEN [memory |-> limits.memory * MiB] ELSE NoList)

\* A request: image, env, limits (cpu, memory), disk, startup (a text, empty
\* when missing) and the startup variables.
gameServerFromRequest(req, order) ==
  ApplyStartup(
    [EmptySpec EXCEPT
       !.image = req.image, !.env = req.env,
       !.deletePolicy = "Retain", !.backupPolicy = "None",
       !.lifecyclePolicy = "Retain",
       !.limits = Quantities(req.limits), !.requests = Quantities(req.limits),
       !.size = req.disk * MiB,
       !.mountPath = IF req.disk > 0 THEN "/data" ELSE "",
       !.startup = IF req.startup = <<>> THEN NoStartup
                   ELSE [present |-> TRUE, raw |-> req.startup,
                         variables |-> req.variables]],
    order)

-----------------------------------------------------------------------------
(* The operator. *)

\* Mutant: resource lists are merged entry by entry.
MergeWithClassDeep(spec, class) ==
  [f \in DOMAIN spec |->
     IF f \in {"requests", "limits"} THEN spec[f] @@ class[f]
     ELSE IF f \in ClassDefaults /\ spec[f] = EmptySpec[f] THEN class[f]
     ELSE spec[f]]

\* MergeWithClass: the class fills in what the spec leaves empty.
MergeWithClass(spec, class) ==
  [f \in DOMAIN spec |->
     IF f \in ClassDefaults /\ spec[f] = EmptySpec[f] THEN class[f] ELSE spec[f]]

HasImage(spec) == spec.image # ""

\* ValidateEffective but for the image and the network, whose checks are in
\* NodePortOperator.
ValidateEffective(spec) ==
  /\ spec.lifecyclePolicy \in {"", "Delete", "Retain"}
  /\ spec.deletePolicy \in {"", "Delete", "Retain"}
  /\ spec.backupPolicy \in {"", "None", "Snapshot", "Backup"}
  /\ spec.existingClaim = ""
  /\ spec.restartPolicy \in {"", "Always"}

\* Steps 6 and 7 of Reconcile: the effective spec of a pass.
Effective(spec, class, order) ==
  LET started == ApplyStartup(MergeWithClass(spec, class), order)
  IN  [ok |-> /\ started.ok
              /\ HasImage(started.spec) /\ ValidateEffective(started.spec),
       spec |-> started.spec]
=============================================================================
