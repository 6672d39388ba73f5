# Verification of ptero-wings-operator

ptero-wings-operator replaces the Pterodactyl Wings daemon by Kubernetes
objects. A *gateway* accepts HTTP and WebSocket requests and calls the *wings
controller*, a Go package in the same process, which creates, edits and deletes
`GameServer` objects in the API server. An *operator* process watches them and
keeps a Secret, a PersistentVolumeClaim, a Service and a StatefulSet per server.
The two processes share nothing but the API server.

This directory holds TLA+ modules that model the parts whose correctness
depends on order, timing and failure, the TLC configurations that check them,
and TLAPS proofs. `PROJECT.json` lists the runs, what each definition stands for
in the source, the hazards, the findings and the theorems.

## Inventory

| Part | State | Operations | What makes it correct |
| --- | --- | --- | --- |
| NodePort allocator (`internal/ports`) | none; reads the stored specs | `Allocate`, `Release` (empty) | the range is free, inside the interval, the lowest; running it again changes nothing |
| Wings controller, create and delete (`ptero-wings-controller/service.go`) | none | `CreateServer` (list, then create), `DeleteServer` | two servers never share a NodePort |
| Operator, reconcile loop (`controllers/`) | work queue, informer caches | `Reconcile`: finalizer, mark, merge, validate, allocate, four children, status; `finalize`: stopping, protection, detach, remove finalizer | finalizer before children, retained volumes survive, deletion ends, children follow the spec in what an update touches, the status tells one story |
| Class defaults and validation (`helpers/defaults.go`, `internal/validation`) | none | `MergeWithClass`, `ValidateEffective` | a class fills in only what is empty, and the result is sound |
| Helpers and renderers | none | pure | policies, rendered children |
| Wings controller, power and lookup | none | `SetPowerState` (get, then patch), pod lookup by `status.podName`, resources, panel push | acknowledged actions take effect |
| Startup mapping (`startup.go`) | none | substitute, split | quoting is undone, values do not disturb tokens, the order of the variables does not matter |
| Console session (`handlers/console.go`) | goroutines, pipe, write mutex | auth, log stream, commands | one writer at a time, the handler returns |
| Gateway handlers, router, authentication | none | seven routes, token or JWT | a status code says what happened |
| Gateway and operator process | flags, environment | start, stop | no state to lose but the pass or request under way |
| Webhooks | none | defaults, immutable type | not registered by `cmd/main.go` |

**Interaction.** Controller and operator meet in the API server only: the
controller writes specs, the operator writes finalizer, status and children.
Both run the same allocator, the controller on live lists, the operator on its
informer cache. Owner references let the garbage collector remove the children.
Events of the GameServer and of its children enqueue the name again.

**What is hard.** Requests run concurrently without a lock. Caches lag, so a
pass works on old objects. Patches carry no resourceVersion and go to whatever
has the name; Updates conflict. Every call can fail, or be applied and answered
with an error. The operator can stop anywhere. Names are re-used.

## Modules

| Module | Models | Built on |
| --- | --- | --- |
| `PortAllocator` | the allocator as operators | |
| `StartupMapper` | `startup.go` as operators | |
| `EffectiveSpec` | request to stored spec, class defaults, validation, startup | `StartupMapper` |
| `MCAlgorithms` | calls of these over every bounded input, against references | `PortAllocator`, `EffectiveSpec` |
| `NodePortReservation` | concurrent `CreateServer`, manifests, deletes | `PortAllocator` |
| `PortAllocatorProofs` | theorems on the allocator, and the lemmas the others use | `PortAllocator` |
| `AlgorithmsProofs` | the theorems on the ports and resources of `MCAlgorithms` | `MCAlgorithms`, `PortAllocatorProofs` |
| `StartupMapperProofs` | theorems on the startup mapper, and on the texts of `MCAlgorithms` | `MCAlgorithms`, `PortAllocatorProofs` |
| `NodePortReservationProofs` | its theorems | `NodePortReservation`, `PortAllocatorProofs` |
| `NodePortOperator` | the operator's ports and Services for several servers, composed with the reservations | `NodePortReservation` |
| `NodePortOperatorProofs` | its theorems | `NodePortOperator`, `NodePortReservationProofs` |
| `GameServerLifecycle` | abstract: what users see of a server name and its volume | |
| `GameServerReconciler` | the whole reconcile loop for one name | implements `GameServerLifecycle` |
| `GameServerReconcilerProofs` | its theorems and the refinement | `GameServerReconciler` |
| `Gateway` | concurrent HTTP requests for one name, with operator and pod | |
| `GatewayProofs` | its theorems | `Gateway` |
| `ConsoleSession` | one console session: handler, streamer, pump, commands | |
| `ConsoleSessionProofs` | its theorems | `ConsoleSession` |
| `MC...` | bounded instances | |

### PortAllocator

A network is its list of ports (name, container port, NodePort) and its
allocation (present, start, count, container base). Only which names are empty
and which are equal matters, so a name is a number: `NoName` for the empty one,
`i` for the generated `range-i`. `Reserved` is what `usedPorts` counts
for one stored server, `startFor` the choice of the first port, `assignPorts`
the loop that numbers the ports and writes the start back. Protocols are left
out; numbers stay far below 2^31. `Allocate` checks and reserves
count + 1 ports but numbers every listed one: with more listed ports than that,
the NodePorts past the range are checked by nobody, so the properties on ranges
speak of servers whose ports fit (`fits`) or of what is reserved.

### StartupMapper and EffectiveSpec

A text is a sequence of symbols, with `{{NAME}}` as one symbol, so that
substitution, quoting and escaping are all there without characters that do not
matter. `expandStartup` takes the order in which Go visits the map as an
argument; the runs try every order. Its loop, and the loop of `splitCommand`
(`scan`, which takes `splitStep` over the text, case by case as in the source),
are recursive functions of how far the loop has come. A spec in `EffectiveSpec` is a record with
an empty value per field; `MergeWithClass` is one rule for all of them, which is
what the source writes out, and fields that nothing else reads share a name.
`ApplyStartup` runs twice on a server of the gateway, once before it is stored
and once, after the merge, in each pass; the argument list it sets may be empty
and is never nil.

### NodePortReservation

`gameServerFromRequest` builds the network of a request, `ListAndAllocate` is
`CreateServer` up to and including `Allocate`,
`CreateGameServer` and `CreateFails` are its `Create`. `ApplyManifest` is
`kubectl apply`. A stored server stays listed after `DeleteServer` until
`RemoveFinalizer`. `call[c].missed` and `raced` are history: which servers were
stored between the list and the create of a call. No guard reads them.

### NodePortOperator

Adds the operator: `ResolvePorts` (steps 5 to 8 of `Reconcile`, on the cache),
`ReconcileService` (the Service write, admitted only when no other Service has
one of the NodePorts), `Finalize`, the garbage collector and the informer.
`Resolve` is merge, validation and `Allocate`; `ResolvePorts` adds the guards.
`ValidateEffective` is every network check of `internal/validation` (names,
container ports, NodePorts, count and start; the other checks are in
`EffectiveSpec`). It runs before the pass's own `Allocate`, so it sees ports the
controller generated and stored, but none that this pass generates:
`ProperPorts` is what the API server then asks of the finished list, and a
Service that fails it is rejected like one whose NodePorts are taken.
`op` holds the ports in memory between `Allocate` and the write. The class
supplies a network where the server has none.

### GameServerReconciler

One name, one worker (controller-runtime never runs two passes for one name).
Every API write of a pass is one action together with the cached reads before
it. `w.gs` is the in-memory GameServer, which a successful patch replaces by the
server's answer and a failed one leaves with the unconfirmed change. `lag` is
the set of informers behind the API server; `k \notin lag` means the cached copy
is the latest, so an Update is accepted exactly then. A status patch is a diff
against the in-memory base; the condition list is one field. `Outcome` lets a
call fail, or be applied and answered with an error. `missed` and `clean` are
history: the GameServers whose detach was passed over, and whether a call of the
latest pass has failed. `class` may be absent at first (`ClassAtFirst`) and come
later.

What is rendered is kept apart by how the code treats it in a child that exists.
`rev` stands for what is compared and updated (the data of the Secret, the ports
of the Service, the pod template), `label` for `game.type`, which goes into the
labels, and `shape` for what only a create writes (size, access mode and storage
class of the claim, type of the Service). `Compared` says which of them decide
about an update, `Updated` what an update leaves: of a claim only the labels are
compared and set; the labels of Secret and Service go along with an update but
cause none; `shape` stays. So an edit of the size or of the Service type never
reaches a child that exists, as the comments in `gameserver_resources.go` say.

Left out: names, messages, endpoints, the conditions NetworkReady,
StorageReady and PterodactylSynced, foreign finalizers and foreground deletion,
several owner references, failing cached reads.

`GameServerLifecycle` is its abstract specification, with three variables: the
incarnation of the name there is, the volume with the incarnation it will be
deleted with, and the last uid. `ImplementsLifecycle` maps the stored object,
the stored claim and the count of creations to them; caches, passes, finalizers
and faults disappear. What it promises: a volume is made only for the
incarnation that exists, only a server that is being deleted parts with its
volume, a volume that was kept is never deleted, a server that owns a volume
does not vanish without a deletion. It does not promise that Retain keeps the
volume; `RetainedUnlessMissed` says when.

### Gateway

Each request of `Calls` is one HTTP request: `ServeHTTP` is the middleware, the
route and the decoding, then one action per call to the API server, in the order
of the source, and `Return` hands the controller's error to the handler
(`Create`, `Delete`, `Get`, `Power`, `Resources`, `Logs`), which turns it into a
status code. `call[c]` keeps what the handler keeps of the object it read:
whether it was suspended and whether it named a pod. `SetPowerState` sends the
difference to that copy. The controller's client has no cache. A gateway that
stops, or a client that hangs up, is a request that takes no further step.
`seen`, `before` and `wrote` are history: the facts that held at some instant of
a call, the calls answered before it arrived, the calls that changed the object.
The operator, the StatefulSet controller and the garbage collector appear by
their effects on the object and its pod.

### ConsoleSession

One websocket. `waitForAuth`, `ReadMessage`, `StopReading` and `Return` are the
handler, `OpenLog`, `ReadLog` and `EndOfLog` the streamer, `PumpLock`,
`PumpSends` and `PumpEnds` the goroutine behind the pipe, and `Command(c)` the
goroutine of one command. `Pipe` is a Write and a Read of the `io.Pipe`, which
return together. A write ends well only when the client reads, and fails when
the connection is lost or closed, after which the websocket refuses all further
writes; when the client neither reads nor leaves, it blocks. The context ends
the log and the commands, not the pipe and not a write. Contents of messages,
chunks and outputs are left out, and so is the HTTP upgrade.

## Runs

Passing runs:

| Run | Question | Bounds |
| --- | --- | --- |
| `algorithms` | does `Allocate` agree with a reference search, reserve only free ports, and change nothing when it runs again? does `splitCommand` undo quoting, and do values leave the tokens alone in every order? does a server's own startup line decide its command, and do merged requests stay within limits? | six ports, every used set, starts just outside the interval, counts -1 to 2, up to three listed ports; tokens of two symbols, three per line; lines of four symbols; two variables; every class with or without each default |
| `reservation` | are bundled ranges disjoint unless creates raced? | 3 names, 2 calls, 4 ports, 4 creations |
| `operator_ports` | does the operator keep stored ports, act on live incarnations, never move a Service, and in the end serve every bundled server it can and say Failed for the others? | 2 names, 1 call, 3 ports, 2 creations of any name; two ports anywhere, three requests that are stored and refused, a manifest whose port the API server picks |
| `reconciler_volume` | finalizer and volume ownership, no change to a child lost, and the refinement of `GameServerLifecycle` | 2 creations of the name from 2 specs that are rendered differently, a leftover claim, GameServer and claim caches lag, 1 fault |
| `reconciler_live` | is the status coherent after a pass, do the children follow the spec, does deletion end? | 1 creation, running and suspended spec that are rendered differently, a class that is there or missing at first, a pod that comes and goes, GameServer and StatefulSet caches lag, 1 edit of spec or class or 1 fault |
| `gateway` | are answers true, are acknowledged power actions and deletes kept, do refused requests change nothing? | 3 requests of any kind, 2 creations, 1 fault, a JWT in the only second it is valid |
| `console` | one writer, the log without a gap, no mutual wait, nothing left behind? | 2 commands, 3 chunks, 2 messages under way; the client stalls, closes and disappears at any point |

`SessionEnds` says that a lost connection ends every goroutine of the session,
and that a proper close does so if the client goes on reading. The second
condition is needed: the connection is closed only after the wait for the
streamer, so a client that closes but keeps its connection and reads nothing
holds the session. `NeverStuck` is the safety part of it: once the client is
gone, or closing and reading, some goroutine can take a step until all have
ended. `CanGoOn` spells out when each of the steps that fairness is assumed of
is possible; TLC found it to agree with ENABLED in every state of the run.

`NoChangeLost` is the safety part of `EventuallyConverged`. When a pass has
dealt with every child, each is there and as rendered in the fields the code
compares, or an informer has something to deliver, or the name is queued. Both
promise no more than these fields: the rest is written once. In the run for
`NoChangeLost` the two incarnations differ in `rev`, `label` and `shape`, so the
second meets children of the first that need an update, or that the garbage
collector takes behind its back; in the run for `EventuallyConverged` the spec
is edited. `NoChangeLost` excepts children without an owner reference,
such as a claim that an earlier server of the name left under Retain: the
operator takes it over by name and updates it, but `Owns` finds no owner in its
events, so a decision made on a stale copy of it is not revised until something
else happens.
`BundledEventuallyServed` has three parts. Every bundled server ends with a
Service on its reserved ports or with the status Failed. It is served when its
network is acceptable, its create was not raced and no live Service sits on one
of its ports; a port that the API server picked for somebody else's Service is
in no spec, so neither the controller nor the operator can see it. It is Failed
for good when its network is not acceptable: `CreateServer` checks nothing of
what it stores, so a port without a name, one with `count = -1`, a container
port beyond 65535 or one that is there twice reserves its range and is refused
in every pass. `EventuallyConverged`
excuses a pod that changes state forever, since each change of the StatefulSet
makes an Update built from the cache conflict; without the excuse TLC finds that
behaviour. `StatusCoherent` speaks of the end of a pass none of whose own calls
failed, whatever earlier passes, faults and restarts left behind. In the middle of a pass Ready may be absent while the phase is Running, because
the patch that marks the pass sends the condition list of a stale copy.

`AnswersTrue` takes "not found" from the resources and logs routes to mean the
server or its pod: `status.podName` outlives the pod, and the handlers answer
"server not found" for a stopped server. `PowerNotLost` is about calls that do
not overlap: of two that do, either may win. `ExpansionKeepsTokens` is about
values of letters; a value with spaces or quotes is meant to be split, and a
value with another variable's placeholder is expanded or not depending on the
order of a Go map. `MergedRequestsWithinLimits` needs a spec that sets requests
and limits together, as the gateway does: with only one of them, the other may
come from a class and contradict it.

Runs with a counterexample, each a finding of `PROJECT.json`:
`reservation_race`, `class_ports_move`, `retain_stale_claim`,
`retain_from_class`, `hot_loop`.

The bounds are small, but each is past the point where the case it is for
happens: two incarnations are what a late finalize needs, one fault in any call
or one restart at any point reaches every retry, two creations within three ports
make a new server meet the Service of a deleted one. Informers outside `Lagging`
deliver before the next step; each run lets those lag that its properties read.
Deadlock is not checked: a cluster in which nobody asks for anything may stop.

## Fairness

The liveness runs assume weak fairness of the worker, of each informer and of
the garbage collector for each child (`NodePortOperator` uses strong fairness
per server of beginning a pass, whichever of the steps `Pass` it is, because one
worker serves all names and the queue is first in, first out). Controller-runtime requeues on error,
which `Finish(TRUE)` models, and informers relist. Nothing is assumed of users,
faults and restarts, which the bounds make stop, nor of pods.

In `ConsoleSession` a goroutine that can run does (weak fairness), and one that
waits for the mutex gets it (strong fairness, as `sync.Mutex` does not starve a
waiter). The log and the commands need to end only once the context is
cancelled. Nothing is assumed of the client.

## Proofs

Every safety property of every passing run, invariant or action property, is
also a theorem, and so is the refinement. The larger inductive invariants
(`GatewayInv`, `OperatorInv`, `ReconcilerInv`) were checked by TLC as well.

`PortAllocatorProofs` is about the operators, for every port interval, every
set of used ports and every network:

- `SearchIsFirstFit`: `findFreeRange` returns 0 exactly when no contiguous free
  run of the size exists, and otherwise the start of the lowest one. A run of
  the reference is any set of ports that is free, contiguous and large enough;
  `RunsHaveFreeStarts` and `FreeStartsAreRuns` relate it to the starts the loop
  tries, and the loop bound is where they could differ.
- `ReservesItsRange`: when the listed ports fit, what `usedPorts` will count for
  the new server is inside the interval, was free, and is as large as asked.
- `AllocateTwice`: `Allocate` on its own result returns it unchanged. The
  argument is that `assignPorts` writes the start back and keeps the size
  (`AssignedParts`, `AssignedSize`), so the second call validates the start the
  first one found.

`AlgorithmsProofs` carries them over to the specification TLC runs, where
`AllocateCase` (the result is that of `Allocate` on a well-formed network) is
the invariant: `FirstFit` (`LowestFreeRun`), `HandedOutWasFree`
(`ReservedWasFree`) and `SecondCallAgrees` (`AllocateIsIdempotent`) hold for
every interval. `RequestsStayWithinLimits` (`MergedRequestsWithinLimits`) rests
on `EffectiveWithin`, which is about any spec, class and order of variables:
each list comes whole from the server or whole from the class, and
`ApplyStartup` touches neither.

`StartupMapperProofs` is about `startup.go`, for texts of any length over any
alphabet:

- `SplitOfQuoted`: a list of non-empty tokens, each in single quotes with its
  backslashes and quotes escaped, comes back from `splitCommand`. `QuotingUndone`
  (`SplitUndoesQuoting`) is the case TLC runs.
- `ExpansionIgnoresOrder`: when no value holds a placeholder, `expandStartup`
  gives the line with all placeholders replaced at once (`Replaced`), in whatever
  order Go visits the map. Then `OwnLineDecides` (`OwnStartupDecides`): the
  stored command, the command of every pass, and every order agree.
- `SplitAfterExpansion`: the tokens of the expanded line are the tokens of the
  line as written with their placeholders replaced, and without those that are
  then empty. It asks that the values hold no quote, space, backslash or
  placeholder, and that no value that is empty follows a backslash, which would
  escape what comes next. `TokensSurviveExpansion` (`ExpansionKeepsTokens`) is
  the case TLC runs, where values are letters.

These take induction over texts. The theorems of the library on induction have
an operator as a parameter, which the provers cannot instantiate, so the proofs
use a set in its place: `SequenceInduction` says that a set which holds the empty
sequence and is closed under `Append` holds every sequence, from the existence of
a least natural in a non-empty set (a shortest sequence outside it would be an
`Append` of one inside). From it follow what the loops compute, one symbol at a
time: that a recursive function on an interval exists and obeys its equation,
what `FlattenSeq` makes of an `Append` (`FlattenAppend`), that `scan` of a longer
text is one `splitStep` further, and that substitutions of plain values compose.
For `SplitAfterExpansion` the set holds the texts after which the loop over the
line and the loop over the expanded line are in corresponding states (`Alike`:
same quote, same escape, tokens and current token replaced).
`PlaceholderAssumption` of `MCAlgorithms` says what the strings of the model
cannot: that `{{NAME}}` differs from every other symbol and between names; TLC
evaluates it.

`NodePortReservationProofs` proves for every port interval, every set of
servers, callers and requests, and every bound on creations:

- `ReservationTypeOK`: the type invariant.
- `RangesDisjointUnlessRaced`: `DisjointUnlessRaced` always holds.
- `CallRangesFree`: `CallRangeFree` always holds.

`DisjointUnlessRaced` is not inductive: it says nothing about the range a call
carries between its list and its create. `ReservationInv` adds `CallRangeFree`:
that range is disjoint from what every stored server reserves, except servers
the call has missed and an older server of its own name. `ListAndAllocate`
establishes it (`AllocateSound`, from `FoundRangeIsFree`, `StartIsFree` and
`ReservedIsRange`), each store keeps it by adding to `missed`
(`StoreKeepsCallRange`), and `CreateGameServer` turns it into the disjointness
of the new server, since a server of the same name makes the create fail. The
assumptions are those of the modules: the requests and manifests are well
formed, `NoServer` is no server, ports are naturals.

`NodePortOperatorProofs` adds the operator, for every class and every set of
ports the API server may pick from:

- `OperatorKeepsToReservations`: the composed specification implements that of
  the reservations, so what is proved there holds here
  (`DisjointBesideOperator`).
- `OperatorTypeOK` (`OpTypeOK`), `LiveIncarnation`
  (`OperatorOnLiveIncarnation`), `ReservationKept` (`OperatorKeepsReservation`)
  and `ServicesStable` (`BundledServiceStable`).

The last three follow from `OperatorInv`. A lagging cache is harmless because of
the finalizer: a server the cache shows as protected and not deleting cannot
have gone since, so incarnation and network in the cache are the stored ones
(`CacheInv`), and the server of a pass stays while the pass runs (`PassInv`).
`AllocatedInv` says that what the controller stores, or is about to store, has
its NodePorts numbered from its start; on such a network the second `Allocate`
either fails or changes no port, even on a stale list. `UidInv` keeps the
Service of an earlier incarnation from being taken for the present one's, and
`ServiceInv` says that the present one's has the reserved ports, so that the next
write changes nothing.

`GameServerReconcilerProofs` proves, for every set of specs, every choice of
lagging informers and pod states, and every bound on creations, edits, faults
and restarts:

- `ReconcilerTypeOK`: the type invariant.
- `FinalizerFirst` (`FinalizerBeforeChildren`), `StatusAlwaysCoherent`
  (`StatusCoherent`).
- The action properties `FinalizersStay` (`FinalizerOnlyLeavesWithObject`),
  `LiveVolumesStay` (`LiveVolumeStaysOwned`) and `RetainedVolumes`
  (`RetainedUnlessMissed`).
- `ChangesNotLost` (`NoChangeLost`).
- `LifecycleImplemented` (`ImplementsLifecycle`): initial states map to initial
  states, and every step to a step of `GameServerLifecycle` or to none.

`ChangesNotLost` needs `WatchInv` (below); the others follow from
`ReconcilerInv`. Its core relates three copies of the
GameServer, the stored one, the cached one and the worker's. `CacheInv`: the
cache shows an earlier version of the stored incarnation, or an earlier
incarnation; one that was seen with a finalizer and is gone was seen deleting,
and its successor is not protected yet, since protecting it takes a pass that
has seen it. `MainInv`: a pass over the children works for the stored
incarnation, whose finalizer keeps it there until the pass ends. `FinalizeInv`:
a pass of `finalize` works for the stored incarnation or for one that is gone
while the stored one has no finalizer to lose; this is why the patch by name
that removes the finalizer never strips a successor. `SpecInv` and `DetachInv`
carry the decision of `finalize` from the copy it was made on to the moment the
object goes. `StatusInv` says which copies of the status may be behind: a half
written status is always that of an object whose finalizer the cache shows, so
the pass that adds the finalizer, which patches no status, ends on a coherent
one; without that conjunct the invariant is not inductive. The steps of `Next`
are first reduced to a dozen effects on these copies (`Moves`), and each part of
the invariant is proved against the effects.

`WatchInv` is about one child at a time, its cached copy and the pass.
`FreshAt`: an informer that does not lag shows what is stored. `KeptAt`: a child
seen without an owner is still there without one, since nobody adopts it and the
garbage collector leaves it. `PassAt`: a child the pass has dealt with has no
owner, or the name is queued, or it is settled, that is, as rendered in what
the code compares (`InSync`) while its informer is up to date, and otherwise with a cached copy that exists or an owner
that is the pass's own GameServer. The last clause is what makes it inductive:
either version then has an owner, so the delivery queues the name, and what the
pass itself has just created cannot be collected because `MainInv` keeps its
owner there. `UpdatedBody` says that an update brings a child in sync although it
leaves `shape` alone. Every step is, for a given child, one of four moves (`Aside`,
`Moved`, `Told`, `Passed`).

`ConsoleSessionProofs` proves for every set of commands and every bound on log
and messages:

- `ConsoleTypeOK`: the type invariant.
- `NeverTwoWriters`: `OneWriter`, from `LockHeld` (who writes holds the mutex).
- `LogArrivesInOrder`: `LogUnbroken`. To be inductive it needs `NextChunk` (the
  pump's buffer is the chunk after the last one sent) and `NothingYet` (nothing
  is read before the session is authenticated).
- `SessionNeverStuck`: `NeverStuck`. It needs that whoever holds the mutex is in
  the middle of a write (`HolderWrites`, the converse of `LockHeld`), which in
  turn needs that a command starts once (`OnceInv`: the client sends each once),
  and in which order handler, streamer and pump come and go (`OrderInv`). A
  write always ends when the client is gone or reads, so who waits for the mutex
  waits for somebody who can go on, the pipe is between two that are both there,
  and the handler waits for a streamer that the context or the pump lets go.

`GatewayProofs` proves for every set of requests, what they ask, the clock, both
modes of authentication and every bound on creations and faults:

- `GatewayTypeOK`: the type invariant.
- `AnswersAlwaysTrue` (`AnswersTrue`), `RefusalsFinal` (`RefusalIsFinal`),
  `DeletesKept` (`DeletedForGood`) and `PowerActionsKept` (`PowerNotLost`).

All follow from `GatewayInv`. An answer
often rests on what an earlier step of the call read, so `CallInv` keeps, for a
call under way, that it has seen the present state (`SeesNow`), that its step
belongs to its operation, and that the copy it holds was true at an instant it
saw (`StepFits`). `WroteAnswered` says that who wrote has been answered and not
refused: a handler sends one write, as its last call. `UidsKnown` keeps a
re-created server from being taken for the one a delete was acknowledged for.
`PowerNotLost` needs two more parts. A call that is about to send an empty patch
is overtaken when the object no longer has the value it read, and `PowerKept`
names the call that changed it, before the power action is acknowledged;
`BeforeDone` shows that this call was not yet answered when the overtaken one
arrived. The step is proved once for the requests that look (`Looks`) and once
for each of the three writes (`SendsCreate`, `SendsDelete`, `SendsPatch`). The
only assumption used is that requests have the type the code decodes.

Only model-checked: all liveness (`EventuallyConverged`, `DeletionCompletes`,
`BundledEventuallyServed`, `SessionEnds`, `ChunksArrive`), since fairness and
ENABLED are beyond the prover. `NoChangeLost` and `NeverStuck` are the parts of
these arguments that are safety, and are proved.

## State of the plan

The modules were written in the order allocator and reservations, reconcile
loop, gateway and console, algorithms on texts and specs; every module of the
table is there, and every safety property that a run checks is proved. What
could be added next is the rest of the liveness arguments in the form of safety
properties, such as a measure that each step of finalize decreases.

## Not modelled

- The webhooks: `cmd/main.go` never registers them, so no state of the program
  depends on their defaults or refusals.
- `gateway/internal/k8s`, `gateway/internal/logs` and
  `gateway/internal/console`: no package imports them.
- The start of the two processes: flags, environment, TLS, probes, metrics.
  A stop of the operator is `Restart`; the gateway keeps no state.
- The contents of names, labels, messages and rendered objects beyond what the
  code compares, and the sums in the resources answer: copying without a
  decision.
- Generated deep copies, manifests, charts and test utilities.
