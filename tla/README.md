# Verification of CilION in TLA+

CilION routes traffic between Kubernetes clusters over SCION. A *Global
Controller* turns the `ScionPathPolicy` objects of users into
`ScionComputedPath` objects; on each node an agent is to load two eBPF programs
and fill their maps from those objects. This directory models the controller
and the node side, checks them with TLC and proves with TLAPS their safety
properties, two refinements, and that no wake-up of the controller is lost.

## The system

| Part | Source | State it keeps | Operations |
|---|---|---|---|
| API types | `api/v1alpha1` | policies, peers, computed paths in the API server | applied, changed, deleted by users and operators |
| Global Controller | `internal/controller/scionpathpolicy_controller.go` | informer caches, work queue, locals of the running `Reconcile` | `Reconcile`, the watches and filters of `SetupWithManager` |
| Manager | `cmd/main.go` | none of its own | starts the controllers |
| Other two reconcilers | `scionclusterpeer_controller.go`, `scioncomputedpath_controller.go` | none | empty |
| Loader | `pkg/bpf/loader.go` | loaded objects, XDP link | `Load`, `AttachTC`, `DetachTC`, `AttachXDP`, map updates, `Close` |
| Map keys | `pkg/bpf/types.go` | none | `IPToKey`, `IPFromKey` |
| Bindings | `pkg/bpf/*_bpfel.go` | programs and maps of an object | load and close an object |
| TC egress | `bpf/tc_egress.c` | reads `pod_policy_map`, `scion_path_cache` | one packet |
| XDP ingress | `bpf/xdp_ingress.c`, `scion_mac.h` | reads `scion_path_cache` | one packet |
| cilion-agent | `cmd/cilion-agent` | nothing yet | nothing yet |

Users, the API server, the garbage collector and the SCION control service
surround the controller. It reads from caches that lag, writes to the API server
under optimistic concurrency, and is woken by a queue fed by filtered watch
events. The computed paths are the interface to the agents; an agent calls the
Loader; Loader and eBPF programs meet in the kernel's maps.

What is hard here: the lag of the caches against the controller's own writes;
spec, peers and SCION paths that change between two calls of one `Reconcile`;
conflicts and crashes between calls; calls whose reply is lost and that arrive
long after the `Reconcile`, the process or the policy that made them; names that
are deleted and created again while the garbage collector is still busy; computed
path names that collide; events that a filter drops; TC filters that outlive the
agent while XDP links die with it; separate map instances; addresses that change
byte order on their way into a map; 16-bit lengths.
`PROJECT.json` lists each hazard at its line with the properties about it.

What makes the parts correct:

* controller: paths are written only for live policies; a path is never taken
  from a policy that is there; Ready means every counted destination has its
  path; a late write harms nothing and undoes nothing a user did; whatever is left
  to do has a wake-up coming; deletions, computations and spec changes reach
  their end;
* Loader: an attach that succeeded is in force, and packets on that interface are
  treated as the agent has said, pod by pod; nothing outlives what should hold it;
  failures leave nothing behind; a call changes one entry or nothing;
* programs: the outer lengths egress writes are the real ones; ingress reads no
  byte it has not checked and refuses no packet that is whole.

## Modules

| Module | Contents |
|---|---|
| `CilionApi` | constants and records of the three kinds; ownership by name and UID |
| `Watches` | the predicates and the pod map function, as functions of old and new object |
| `GlobalController` | the state machine: environment, watches, `Reconcile`, failures, fairness |
| `PathOwnership` | abstract specification of computed paths: create, remove, claim, collect, promise |
| `GlobalControllerProps` | properties of the controller and the refinement mapping |
| `GlobalControllerProofs` | inductive invariant and theorems |
| `GlobalControllerWakeups` | stronger invariant; no wake-up is lost, no user change undone |
| `GlobalControllerDeployment` | what follows without the grant, without the client, without colliding names |
| `PathOwnershipProofs` | what every implementation of `PathOwnership` keeps |
| `MCGlobalController` | instances for TLC |
| `MapKeys` | how an address becomes a number, and the number the bytes of a map key |
| `Datapath` | the two eBPF programs as functions of packet and maps |
| `Loader` | the Loader and its bindings, the agent process around it, the kernel objects |
| `NodeEgress` | abstract specification of a node: say, attach, detach, leave |
| `NodeEgressProofs` | what every implementation of `NodeEgress` keeps |
| `LoaderProps`, `LoaderProofs`, `MCLoader` | properties, proofs and instances of a node |

### Controller: state and code

`policy`, `paths` and `scion` are what the API server and the control service
hold; `polCache`, `pathCache`, `peers` and `pod` are the informer caches (peers
and pods are only ever read from the cache, so the stored ones are not kept
apart); `queue` and `later` are the work queue and its delayed part. `pc`, `req`,
`pol`, `listed`, `todo`, `allReady`, `cur`, `hop` are the locals of `Reconcile`.

One action is one call that leaves the process together with everything up to
the next: `StartReconcile` (Get, early returns, List: lines 55-96),
`RemoveFinalizer` (64-75), `AddFinalizer` (77-84), `FetchPath` (96-108),
`WritePath` (110-138, with the whole of `CreateOrUpdate` and the mutate
function), `NotReady` (140-144), `UpdateStatus` (146-159). `CallRefused` is a
call that cannot succeed (conflict, missing or existing object, path of another
controller, forbidden status, recovered nil dereference). An Update, or a write
of a path, is taken or goes *astray*: `Reconcile` gets an error and returns, and
the call joins `latePol` or `latePaths`, from where it may reach the API server
at any later time (`LandPolicy`, `LandPath`) or never. That covers a request
that fails, one that is applied while its reply is lost, and one that is
delayed. `ReadFails` is an error of the Get or the List before anything is
written (61, 88-91), `FetchFails` one of the control service; `Restart` loses
the process, or hands the leadership over, and fills caches and queue anew, while
astray calls stay under way.

Modelling decisions:

* An informer may skip versions: `SyncPolicy` jumps to the stored object. A name
  that was deleted and created again gives a Delete and a Create event, or, when
  the watch broke and the list is read again, one Update, which the filter drops
  if the generations of the two incarnations agree.
* The lists a new process starts from may lag (`Restart`): each object is the
  stored one or as its predecessor had seen it. A list that is older still, from
  another API server, is not modelled.
* A `resourceVersion` conflict is inequality of the object read and the object
  stored (`TakePath`, `TakePolicy`); for a Create and for a removed object "read"
  is `None`. UIDs and generations only grow, so the few histories in which an
  object returns to an equal value are ones the model accepts in addition.
* `CreateOrUpdate` reads the cache: no cached path means Create, an equal cached
  path means no call, anything else Update.
* `SetControllerReference` compares the names of owners, not their UIDs, as
  controller-runtime does, and replaces the UID.
* One worker, and one leader at a time; the requests of a former leader may
  still arrive.
* Two policies whose computed paths collide in name both stay: the second one
  fails in `SetControllerReference` on every attempt and never becomes Ready.
  `OwnerKeepsPath` is about the first; no liveness is claimed for the second.
* Only the controller and the garbage collector write computed paths.

### Node: state and code

Each loaded object has its own map instances, as the comment of type `Loader`
says, so an instance number stands for a program with its maps. `filter` and
`xdp` are what the kernel runs on each interface, `tc`, `ing` and `link` are the
fields of the Loader, `lost` are links that are open but no longer referenced:
`AttachXDP` overwrites `xdpLink`, also with nil when it fails, and the Go
finalizer of the descriptor closes the old one at some later time (`Finalize`).
`Crash` closes every descriptor: XDP programs go, TC filters stay with their
maps. `InterfaceGone` and `InterfaceNew` are pods' veths. Two history variables
hold what the agent may rely on: `tcOn`, the interfaces for which `AttachTC`
returned nil since the last `Load`, and `told`, what its map operations that
returned nil have said since then, by address.

The client may make any call at any time, one after another, on a Loader that
is loaded or not. `Load` is two steps, `LoadTc` and then `LoadXdp` or
`LoadXdpFails`, which closes the first object again; the process may die between
them (`loading`). A second `Load` overwrites the objects of the first one: they
stay open without a reference (`dropped`) until their finalizers close them
(`FinalizeObject`), and filters attached before keep their program and maps, so
they no longer count as the agent's. `DetachTC` deletes one filter: `AttachTC`
gives every filter the same handle and priority, so there is never a second one,
and it needs no loaded object.

`LoadTcEgressObjects` and `LoadXdpIngressObjects` fail when their ELF is not
embedded, as in the stubs of the repository (`Compiled` = {}), or for any reason
of the kernel. Closing an object closes its program and maps; `close(2)` of a BPF
descriptor does not fail, so the early return of `_TcEgressClose` is not taken.

`MapKeys` follows an address into a map: `net.IP` in four or sixteen bytes,
`To4`, the number of `binary.NativeEndian`, the bytes `cilium/ebpf` writes for a
number. The maps of the model are indexed by those bytes, as in the kernel, and
the programs look up the source address of the packet; `told` is indexed by the
address the agent meant. That both agree is what `EgressFollowsAgent` and
`ImplementsNodeEgress` say, and what a wrong byte order breaks.

`NodeEgress` is what is left when programs, instances, keys, limits and links are
taken away: the agent says something about a pod or a path, it attaches and
detaches interfaces, it leaves. On attached interfaces packets are treated as
said up to now; elsewhere what was there stays as it was.

`tc_egress.c` and `xdp_ingress.c` keep no state, so they are operators, applied
by the invariants to packets that end before, at and after the bytes a check
asks for. The ingress program is a chain of steps in the order of the source
(`Classify`, `Decapsulate`): a step names the bytes of the frame it uses and the
condition to go on. Helper calls may fail, hence sets of outcomes. Sizes are those of the C structs under the
ABI of the compiler (12, 24, 7, 8 and 16 bytes). The C sources do not compile as
they stand (`scion` and `meta` are undeclared at lines 121-122 of
`tc_egress.c`, a bit field is indexed in `scion_mac.h`); the model follows what
their statements do up to the step the source marks as to be done (line 117):
the SCION headers inside the UDP payload are not modelled, so no property relates
what egress adds to what ingress strips. `clamp_tcp_mss` is an
empty function and left out; the MAC computation is the stub of the source.

## Runs

| Run | Instance | Question | Result |
|---|---|---|---|
| `ctl_names` | 2 policies with one path name, one spec without preference, 2 incarnations each, 1 fault | who owns a path, and for whom is it written; is a deletion ever forgotten | holds, 3.1 million states |
| `ctl_peers` | 1 policy, 2 peers, 2 clusters, 2 faults | is Ready true, are paths coherent | holds, 2.6 million |
| `ctl_late` | 1 policy, 2 incarnations, 2 generations, 1 rotation, 1 fault | what may a late write do; is a begun computation ever forgotten; is it `PathOwnership` | holds, 2.8 million |
| `ctl_liveness` | 1 policy, 1 peer, 1 pod, 2 generations, 1 fault, fair | do deletions, computations, changes end | holds, 64 thousand |
| `loader` | 2 interfaces, 2 pods, 2 policy ids, maps of one entry, 4 objects | does the node do what its agent said; does it leak; are packets read and measured right; is it `NodeEgress` | holds, 0.70 million |
| `v_applied` | | an applied policy is computed | violated |
| `v_peers` | | a new peer recalculates all policies | violated |
| `v_current` | 4 generations | Ready paths have the current spec | violated |
| `v_status` | RBAC as in the repository | started computations end | violated |
| `v_optional` | no preference | started computations end | violated |
| `v_close` | | Close detaches XDP | violated |
| `v_ingress` | | ingress delivers | violated |

The `v_` runs show disagreements between code and documents or comments; each is
a finding in `PROJECT.json` with the line it quotes. In short: after adding the
finalizer nothing wakes the controller; the peer watch enqueues the peer's name;
a stale cached path hides that the stored one is out of date; the status may not
be written; the optional preference is dereferenced; a failed `AttachXDP` loses
the link; the XDP program reads maps nobody writes.

The passing controller runs set `HasScionClient` and `StatusWritable` to TRUE:
they show what the controller does once it is given a client and the grant,
neither of which `cmd/main.go` and `config/rbac` give it today. The safety
theorems hold for both values.

Bounds. `MaxUid` counts incarnations of a name: two give the race between old
paths and a new owner. `MaxGen` bounds user updates; `MaxVer` rotations;
`MaxFaults` failing or astray calls and restarts together. Peers, pods, deletes,
garbage collection, events and the arrival of astray calls are not bounded.
Colliding names need two policies, a mixed-up peer two clusters, a partly
written policy two peers. In `ctl_late` one fault is one astray write; what
races with it are the retries of the same process, the next incarnation of the
policy, a rotation and a changed spec, which is also what wakes the controller
up after the rotation. `ctl_liveness` has one policy, so no path name collides,
and the pod's events only enqueue the default policy: they are noise in the
queue and never do the work of a retry. For a node, two interfaces let one link
replace another, maps of one entry make every write of a second key meet the
limit, and four instances give two complete loads, by two agents or by one that
loads twice, or one and two halves. The packets that arrive count one info and two
hop fields and end inside the IP header, one byte before, at and after the end of
the headers, and with the last byte of the inner IP header; one names a hop field
beyond the last, one has an IP header length of zero. Those that leave are of 20
bytes and of 65500, where the headers no longer fit in 16 bits. The two
pods have addresses that are each other's in the wrong byte order (10.0.0.1,
1.0.0.10), so that a wrong order shows as the policy of the wrong pod; an IPv6
address stands for what `IPToKey` refuses. TLC's integers have 32 bits, hence
addresses whose number is small in both orders; the proofs are for all octets.
Deadlock checking is off because the bounds on users' and agents' actions let
every instance come to rest. Symmetry is used only in runs without liveness:
policies in `ctl_names`, interfaces in `loader`. Pods are not symmetric, as
their addresses are numbers.

Fairness (`FairSpec`). Watches deliver, delays end and calls return: weak
fairness of `SyncPolicy`, `SyncPath`, `TimerFires` and `ReconcileStep`. The work
queue is first-in first-out, so a key that keeps being queued is taken: strong
fairness of `StartReconcile(k)`. The garbage collector and the control service
do their work eventually: weak fairness of `GarbageCollect` and `ScionUp`.
Users, peers, pods and faults are not fair.

## Proofs

### Controller

`GlobalControllerProofs` proves for every value of the constants: `TypeCorrect`,
`LivePoliciesOnly`, `ReadyMeansPaths`, `CoherentPaths`, `OwnersKeepTheirPaths`,
`HopsOnlyAdvance` and `Implementation` (the refinement of `PathOwnership`). The
assumptions are those in `CilionApi` and `GlobalController`: policies are keys,
`PathName` is any function (collisions included), specs are well-formed, `None`
is none of the objects.

None of the properties is inductive. `LivePoliciesOnly` speaks of the stored
policy while `Reconcile` trusts a cached one. The argument: a finalizer is only
removed by an Update of a `Reconcile` that saw the deletion of the incarnation
that is stored (`PolicyHeld`, `Removable`), so a cached policy that has the
finalizer and is not being deleted cannot be an incarnation that is gone
(`CacheBehind`); UIDs are never reused (`UidsKnown`). `ReadyMeansPaths` needs
that the loop has written a path for each peer it has passed (`LoopProgress`),
also where `CreateOrUpdate` made no call because the cache already had the path:
then the stored path is still owned by the policy (`PathCacheBehind`), as no one
takes it and the garbage collector only removes the ownerless.

Calls that are astray must do no harm whenever they are taken (`LateSound`). A
late Update (`SoundUpdate`) keeps UID and deletion mark and never drops a
finalizer unless the policy may go, and the paths its Ready condition counts are
there if the incarnation still is (`Backed`). A late write of a path
(`SoundPut`) never has an older version of the same AS than the one it replaces,
and replaces only a path of its own policy name and of no later incarnation.
Both stay true while the call is under way because they only speak of what does
not change back. `SeenBehind` bounds every path that is stored, cached or under
way (`Seen`): it comes from one peer spec (`Coherent`) and is no fresher than
the control service and than what `Reconcile` has just fetched; that gives
`CoherentPaths`, and the version order in `SoundPut`.

`IInv` conjoins these with `TypeOK`; TLC checked it on the instances of the
passing runs before it was proved. The step lemmas say what any step does to a
policy (`PolicyStep`), a path (`PathStep`), the caches (`CacheMoves`), the
locals (`FrameMoves`) and the calls under way, so each conjunct is proved once
over a few cases.

### No wake-up is lost

`GlobalControllerWakeups` proves the safety part of the controller's liveness.
A policy `k` is *pending* (`Pending`) when it is queued or delayed, when a
`Reconcile` of it is running, or when an event the generation filter lets through
is still to be delivered (`EventDue`). `DeletionNeverStalls`: a terminating policy
is always pending. `ComputationNeverStalls`: so is a policy that has a path or a
Ready condition and is not Ready for its current generation. What liveness adds
is that pending leads to progress, which needs fairness and stays with TLC.
`AppliedIsComputed` fails just because a policy with a finalizer and no path yet
is not among them. `UpdatesUndoNothing` is `UserChangesStay`, and
`SelectedAreHeard` is `PodsAreHeard`: a pod that gets its IP enqueues every policy
that selects it, or an event that will is due, although the map function reads a
cache that lags. Its premise `~Recreated(k)` leaves out a cache that shows an
earlier incarnation: the one Update for both may be filtered.

The invariant `WInv` adds to `IInv`: what the cache has of a stored incarnation
is no newer, and the same spec and deletion mark when the generation is the same
(`CacheKnowsGeneration`), so an event is due exactly when the generations differ;
the finalizer comes before a deletion that waits, a Ready condition and any path,
stored or under way (`FinalizerFirst`), so a policy that is pending is never
passed over as having nothing to do; the cache has heard of an incarnation before
the controller adds its finalizer (`KnownFirst`), so whatever is pending is known
to the cache, and the one Update of a delete and a create is never the event it
waits for; calls that are under way leave generation and spec as they found them and
report as Ready the generation they leave (`UpdatesFaithful`). `BegunIsPending`
strengthens `ComputationIsPending` to paths that are only under way, as a late
write may begin a computation whose `Reconcile` is over. TLC checked `WInv` on
the instances of `ctl_late` and `ctl_names` before the proof. The
argument goes by what a step does to the policy (`EditStep`): a user's change
bumps the generation, so an event is due (`TouchedIsDue`); otherwise what was
pending stays so (`PendingStays`, from `KeyMoves`, `RunMoves` and `DueStays`), or
the `Reconcile` ended with an Update that was taken (`EndsWith`), and that one
removes the policy, adds a finalizer to a policy that has begun nothing, or makes
it Ready for its generation.

### Deployments

`GlobalControllerDeployment` says what particular values of the constants lead
to; each theorem states its hypothesis. `NoGrantNoStatus`: without the grant on
`scionpathpolicies/status` (`config/rbac/role.yaml`) no policy is ever Ready, in
no behaviour, which `v_status` shows for one. `NoClientNoPaths`: without the
client (`cmd/main.go`) no path is ever stored, and Ready counts no destination.
`ApartNamesNeverBlock`: when no two policies compute the same path name, no
`Reconcile` finds another policy's path in its way, not in the API server, not in
the cache. The colliding names of `ctl_names` are the case its hypothesis leaves
out.

### Abstract specifications

`PathOwnershipProofs` and `NodeEgressProofs` prove what the two abstract
specifications are good for, so that a refinement means something.
`PromisesHold`: what a policy is Ready with it owns. `NobodyIsRobbed`: what a live
incarnation owns stays its own, and a path passes only to a later self of its
owner. Both assume that `None` is neither a number nor an owner, which is
`OwnerAssumption` of `CilionApi`. `AttachedAreAlike`: all attached interfaces
treat packets as the agent has said. `LeftoversAreLeft`: what a former agent left
behind changes only by being detached.

### Node

`LoaderProofs` proves all properties of the `loader` run: `TypeCorrect`,
`AttachedIsObeyed`, `XdpStaysHeld`, `OpenIsOwned`, `LengthsStayHonest` and
`Implementation` (the refinement of `NodeEgress`), for any number of interfaces,
loads and crashes, all addresses and both byte orders. `UsesStayInside` and
`WholeGetsThrough` are what `ReadsAreInside` and `WholePacketsGetThrough` ask of
the ingress program, for every packet and every result of its lookup: they are
about the program alone, as it keeps no state. The first says that its checks are
strong enough, the second that they are no stronger.

The inductive invariant adds that an unloaded Loader holds nothing (`Unloaded`),
that filters `AttachTC` added run the current program
(`FiltersAreOurs`), that the maps of that program hold what the agent has said
(`ToldIsStored`), and that a lost link still holds a program
(`LostAreAttached`), which is why a new link is never a lost one. `ToldIsStored`
rests on `PodKeyIsAddress`: the bytes of the key are the bytes of the address,
in both byte orders, from `OctetsOfNumber`, which takes a number apart into the
octets it was made of. `IPFromKeyInverts` states that `IPFromKey` undoes
`IPToKey`, and `KeysAreUnique` that two addresses share a key only when they are
one IPv4 address.

Two more theorems bound the violated properties of a node. `CloseMissesOnlyLost`:
a Close leaves programs attached only where `AttachXDP` lost the link.
`IngressAlwaysDrops`: an attached XDP program drops every SCION packet whatever
the agent writes, because the maps of an XDP object are never written
(`IngressIsDeaf`); `v_ingress` is one behaviour, the theorem is about all.

`LengthsStayHonest` has no assumption on packets. With at most 256 bytes of path
the lengths are right for every packet that leaves room for `LargestRoom`; a
segment to be offloaded may not, nothing in `tc_egress.c` checks it, and then the
16-bit lengths are wrong: the second half of the property says that this happens
for no other packet.

Only model-checked: the liveness properties (`DeletionCompletes`,
`StartedIsFinished`, `ReadyFollowsSpec`), which are outside the prover; their
safety part is proved above. `PodsAreHeard` is proved and not the property of a
run: it needs pods and a policy that selects them, and such an instance is too
large beside the other properties of the runs.

## Not modelled

Start-up flags, TLS, metrics and probes, and a `SetupWithManager` that fails
unnoticed (`Complete`, line 238): they decide whether the process starts, and
the model begins when it has. The empty reconcilers, which change no state. The
generated deep copies: values in TLA+ are not shared. The `.bk` file, which is
not compiled; the agent, of which there is no source; manifests except the one
missing grant; the test helpers; label selectors beyond the set of pods they
select; raw hop bytes. A policy with an invalid selector is skipped by the pod
map function, which is a policy that selects no pod.

Some hazards have no property of a run, each with its reason in `PROJECT.json`.
Whether `path_len` counts the path meta header: ingress strips it
(`xdp_ingress.c:103`), while `maps.h:11-12` and `ebpf-integration.md:77-78`, with a
`PathLen` of 64 at line 162, leave it out, so ingress would strip seven bytes more
than egress added. No program writes those headers yet (`tc_egress.c:117`), and a
property would have to make them up.
The paths of a removed peer stay, and packets leave as cleartext between the two
map writes of an agent; the code does so and no document says otherwise. The pod
map function reads a cache that may lag: that is `SelectedAreHeard`. A path that
expires while its policy is Ready is not fetched again, because no event says so
(`reconciling.md:368` expects it); the model has the rotation, and
`HopsNeverGoBack` is about the writes that follow one.

`DetachTC` leaves the clsact qdisc although its comment (line 97) says it removes
it: the model has the code's behaviour, no property is about it.

## Plan

1. Done: the controller with astray calls, its refinement, liveness and proofs; the
   Loader, its bindings, the map keys and the eBPF programs with their invariants,
   the refinement of `NodeEgress` and proofs; the safety part of the controller's
   liveness, the deployments, and the abstract specifications.
2. Once the agent exists: its reaction to computed paths, composed with the
   controller and the Loader, and the order of its two map writes.
3. Once the source builds the SCION headers: their contents, `path_len` against the
   meta header, and the MAC.
