# Specifications of digi

digi is a framework of model-driven "digis" on Kubernetes. A digi is a custom
resource (its *model*) and a *driver*, a Python process that watches the model
and edits it. Digis are composed by *mounting* one into another: the parent's
model then holds a copy of the child's, which the parent's driver keeps in step
with the child. Controllers written in Go (package `space`) synchronise
attributes between digis, decide which parent a shared child obeys, and review
creations; a data plane copies records between pools of a Zed lake.

Users drive all of it with the `digi` command line.

Everything a driver or a controller does is a read of a model at the API server, a
computation, and a conditional write; everything it knows comes from events that
are late, merged and repeated. The command line adds processes and goroutines that
share files. The hard part of the program is in how generations, skip marks,
caches and files cope with that, and this is what these specifications are about.

## 1. Inventory

### Components, their state and their operations

| Component | Source | State | Operations | Correct when |
|---|---|---|---|---|
| conditional patch | `driver/digi/util.py` 208-264, `control.py` | locals `rv`, `cur_gen` of each call; the model at the API server | get, compare the generation, patch with a resourceVersion, retry on 409 | a call is one atomic compare and merge |
| reconciler | `driver/digi/main.py`, `reconcile.py`, `filter.py` | `skip_gen`, `last_seen_gen`, `_skip`, `_pending_handler`, handler list; kopf's last-handled snapshot | `reconcile` (create, resume, update), `do_not_skip`, restart | no write undone, no change left without its effect, only own writes skipped |
| mounter | `driver/digi/mount.py` | `_children_gen`, `_children_skip_gen`, `_parent_skip_gen`, `_children_watches`; two models and kopf's annotations | handlers of parent and child events, in several threads | copy and child equal in the end, no newer value overwritten, status flows up only (strict), unmount on delete |
| digi-graph | `space/mount/webhook/graph/multitree.go` | nodes, children, root sets, trees | add and remove nodes and edges | always a multitree; root sets right; refusals exact |
| mount webhook | `space/mount/webhook/cmd/main.go` | the digi-graph under a lock (it stays empty, see section 3) | discovery, review of creations and updates | every review is answered |
| sync controller | `space/sync/.../sync_controller.go` | bindings by name and by model, watched kinds | Sync created, changed, deleted; source or target changed; finalize | bound attributes equal in the end; nothing enforced for a binding that is gone |
| yield policy controller | `space/policy/.../yieldpolicy_controller.go` | policies by name and by model | policy or model changed: move the active mount | a shared child has one active parent |
| mount and pipe operations | `api/mount`, `api/pipe`, `api/client`, `cmd/digi/space` | none (read, edit JSON, update) | mount, unmount, yield, activate; pipe | the edit is applied once or reported as failed |
| data sync | `driver/digi/data/sync.py` | `source_ts`, commit log of the destination | once = read + load, event loop, resume | every record copied once, in order |
| data router, pool | `driver/digi/data/router.py`, `pool.py` | running syncs by name | restart on a change of ingress, egress or mounts | one running sync per configured flow |
| lake digi | `lake/driver` | `HEADS`, statistics in the model | pool and commit events, polling | heads and counts agree with the lake |
| alias, configuration | `api/alias`, `api/config` | `~/.digi/config`, and a copy of it in each process | set, resolve, clear, discover | no alias and no setting lost |
| digi command line | `cmd/digi/digi`, `cmd/digi/helper`, `model/Makefile` | variables its goroutines share; a build directory per kind; profile, archive and registry of kinds | run, stop, expose, build, push, pull, rmk, alias, config, gc | what a command reports done is done |
| spaces | `cmd/digi/space`, `api/k8s`, `sidecar/ctx` | `~/.kube/config`, `~/.kube/kubectx` | add, delete, use, alias, rename | no space lost; `use -` leads back |
| model generator, other side cars, benchmarks, deployments | `model`, `sidecar`, `benchmark`, `gpt`, `net`, `message`, `object` | none, or third-party | | |

### Interactions

* kopf (a fork, not in the repository) delivers events. What the code in
  `driver/` relies on: a handler is called with the newest snapshot of an object
  (older ones are dropped from the queue), one call at a time per object and
  operator; the snapshot of the last call that ended is kept in an annotation of
  the object, survives restarts and gives the `diff`; a call that raises is
  repeated unless it raised `PermanentError`; after a start every object gets a
  create or resume call.
* The API server moves `resourceVersion` on every write and `generation` only
  when the spec changes; a patch that names an old `resourceVersion` gets 409; a
  merge patch leaves what it does not name; attributes the schema does not list
  are pruned.
* The mounter and the reconciler of a driver are independent kopf operators: they
  meet only in the models. For the reconciler a mounter's write is a foreign
  write; for the mounter a reconciler's write of the parent or of a child is a
  user's write.
* The mounter's threads (one for the parent, one per child) share three
  dictionaries without a lock.
* The yield policy controller and the CLI change the `status` of mount entries,
  to which the parent's mounter reacts; the webhook sees creations and updates of
  all digis.
* The syncer, the policer and `digi space mount` write the same digis, each a whole
  object with the resourceVersion it was read at; `digi space pipe` creates and
  deletes the bindings the syncer serves.
* Commands meet in the files of the home directory, in the build directory of a
  kind, in the space in use (kubectl reads it at every call), and in the space
  itself.

The hazards that follow are listed in `PROJECT.json` with their lines. The classes
are: values compared before a request and used after it; self-writes recognised by
a generation alone while events are merged; memory set before, after or without
the write it describes; echoes between two directions; positions that advance apart from the data they describe; restarts that keep kopf's
annotation and lose the driver's memory; a loop over several objects that one of
them ends; failures swallowed on the way; deletions left in the background; root sets maintained by difference; caches that are added to under a
new key and not removed from the old one; two objects written one after the other;
files read at the start of a command and written back whole at its end.

## 2. Plan

| # | Modules | Composition |
|---|---|---|
| 1 | `AtomicPatch`, `GenPatch`, `GenPatch_proofs` | `GenPatch` implements `AtomicPatch` |
| 2 | `Reconciler`, `Reconciler_proofs` | uses the atomic patch |
| 3 | `Mounter`, `Mounter_proofs` | uses the atomic patch |
| 4 | `MultiTree`, `MultiTree_proofs`, `Webhook`, `Webhook_proofs` | `Webhook` extends the graph, which it never adds to; `MCWebhook` runs the two programs that link it |
| 5 | `DataSync`, `DataSync_proofs` | |
| 6 | `SpaceStore`, `SyncController`, `YieldPolicy`, `MountClient`, `Space`, `Space_proofs` | `Space` composes the two controllers and the clients over one store |
| 7 | `DigiHome`, `Kinds`, `Spaces`, `Cli`, `Cli_proofs` | `Cli` composes the three kinds of files with the commands |

All of it is written, checked and, where section 5 says so, proved. What would come
next: an abstract in-order copy for `DataSync` with its refinement, runs of `Mounter`
with two children (starvation, the single `_parent_skip_gen`), and the lake digi.

## 3. Modules

### AtomicPatch, GenPatch: the conditional patch

`GenPatch` has one action per request of `check_gen_and_patch_spec`: `GetSpec`
or `GenOutdated` (the comparison), `PatchSpec`, `PatchConflict` (409, round
again), `PatchFail`, and `GetSpecFail` for the `None` of `get_spec`. `call[c]`
is the program counter with the arguments and the result of client `c`, `seen[c]`
its locals `rv` and `cur_gen`, `obj` the model at the API server with
`resourceVersion` and `generation`. Between any two requests others write the
spec (`ForeignWrite`) or kopf's annotations only (`MetaWrite`). `AtomicPatch`
says what the callers rely on: a pending call is decided in one step that compares
and merges. `GenPatch!Implements` is that refinement, with the mapping "inside
the loop" |-> "pending". This is what lets the other modules use the loop as one
action.

### Reconciler

The model of a digi is reduced to one counter pair per handler: `in[h]`, how often
others changed the attributes `h` subscribes to, and `out[h]`, the change whose
effect `h` last wrote back. That is all the properties can tell apart: a handler
that ran on the latest input makes `out[h] = in[h]`, a lost one leaves a gap, a
reverting write decreases a counter. `Deliver`, `Start` and `Persist` are kopf;
`SkipLastSeen`, `SkipSelfWrite`, `Run` and `RunRaises` are the call up to the end
of `rc.run`; `PatchApplied`, `PatchOutdated`, `PatchRejected` and `GetSpecRaises`
its end. `ToRun` is the test of `filter.path_changed` or pending; the order by
priority matters in `RunRaises` only. Handlers are assumed to be idempotent in
their input and to edit the attributes they subscribe to.

### Mounter

A child's spec is an intent and a status (the two kinds of attribute the strict
mode treats differently); a mount entry is `active`, the copy and the generation
the copy was taken at. The parent's thread is `PStart`, `PSkip`/`PCheck`
(watches, and which children to push to), `PPush`, `PMark`, ..., `PDone`; the
thread of child `c` is `CStart`, `CSyncFromParent` (create or resume), `CSkip`/
`CCheck`, `CToParent`, `CMark` and the failures. The response of a patch and the
assignments after it are separate steps (`PMark`, `CMark`), because the other
thread reads these variables in between. Users mount, unmount, yield and
activate with exactly the writes of `api/mount/mount.go`, edit copies, children
edit themselves, children are deleted, the driver restarts and keeps nothing but
kopf's annotations.

Two start states: `Init`, a driver that starts with the digis mounted or not, in
any values; `Steady`, the state such a start reaches when nobody interferes,
which puts the long interleavings within reach of the bounds.

Not modelled: what is below a child (mode hide/expose), a child created anew
under its old name, several operators of one process writing one last-handled
annotation, the empty dictionary left behind when the last child of a kind is
unmounted (`_prune_mounts` patches the key `mounts`, which no model has).

### MultiTree

The state is `nodes`, `children`, `roots` and `trees` as in the Go structures;
`AddNode`, `AddEdge`, `RemoveEdge`, `RemoveNode` are the exported methods. The
recursions `deepUpdateRoots` and `deepCompareRoots` visit what is below a node;
`Below` is that set, defined as the intersection of the sets closed under child
edges, so that no recursive operator is needed.

### Webhook

The webhook of `cmd/main.go`. A creation is `Ask` (the API server sends it for
review, or lets it through when the process is down), `Lock`, `Grant` and, at the API
server, `Store`; `Update` and `Delete` pass without a look at the graph, because the
code answers them at once. `Scan`, `Replace` and `Discovered` are `discoverGraph`,
which lists without the lock and then replaces the graph under it. `Crash` is any end
of the process, also over a List that fails, whose nil result is read (main.go:128).
The registration is of version v1beta1 and names no failurePolicy, which there means
Ignore: a review without an answer lets the digi pass.

What a digi mounts is read as the code reads it. `getFlattenRefs` (main.go:206-220)
takes the prefix `.spec.mount` for one key at the top of the object, which no object
has, and returns no name: `Object`, `GetFlattenRefs` and `GetCompositionRefs` are that
look-up. So `mountEdges` has nothing to list, `addMountNodeAndEdges` adds no node, no
edge and refuses nothing, in a review as in the discovery, and the graph stays as
`NewMultiTree` makes it (`HookNext` leaves the variables of `MultiTree` alone). The
refusal of an edge and a discovery that gives up over one are not modelled because
the program cannot do them. No property says that admitted digis form a multitree: they
need not. What the graph would do with edges is what `MultiTree` says of the library,
which its test calls directly; `MCWebhook` runs either of the two programs that link
it, the test (`Next`, any calls in any order) or the webhook (`HookNext`).

### SpaceStore, SyncController, YieldPolicy, MountClient, Space

`SpaceStore` is what the two controllers and the clients share: digis with one
attribute and their mounts, Sync and YieldPolicy objects, the controllers' queues,
and the cache both controllers have a copy of (`CacheAdd`, `CacheRemove`,
`WatchesBoth`). A resourceVersion is represented by the readers that hold the
present one (`fresh`). controller-runtime 0.6.3 reads unstructured objects from
the API server, not from a cache, so reads are of the present state.

`SyncController` has one worker; `SyncAdd`, `SyncGone` and `SyncEnforce` take a
request, `SyncRead` is one turn of the loop of `doEnforce`, `SyncWrite`,
`SyncConflict` and `SyncFails` the three outcomes of `matchAttr`, `SyncDone` the
return. The error `doEnforce` returns is that of the last binding: a write that
failed earlier is not repeated (`masked`). What an earlier spec of a binding left
in the index stays there (`spoiled`) and may keep two values turning (`Contended`,
an exception of `ComesToRest` only). `YieldPolicy` writes the source
and then the target of a policy, and loses half a yield when the target changed
in between (`dropped`). `MountClient` reads the target once and sends the same
version again after an error; it reports success in any case, since client.go:120
hides the error from line 132.

`Space` adds users, drivers, faults and `digi space pipe`, whose deletion and
creation of a binding are two requests. `NothingLeft`, `BindingsSettle`,
`PoliciesEnforced` name in their exceptions exactly the cases above.

### DigiHome, Kinds, Spaces, Cli

`DigiHome` is `~/.digi/config`: a process reads it once (`Load`), a change is made
to its memory (`Copy`, `Set`) and the whole file is truncated (`Open`) and written
(`Fill`). `Kinds` is the build directory `/tmp/digi-build-KIND` with the profile,
archive and registry. `Spaces` is `~/.kube/config` and the context noted by the
`ctx` side car, after the write. `Cli` runs the commands in terminals: `digi run`
and `digi stop` start a goroutine per digi, each a sequence of `make` targets,
with kubectl calls that go to the space in use at that moment (`Here`). The targets
are those of `model/Makefile`. `make` is run with `--ignore-errors` and `RunMake`
never returns an error, so that a command goes on, and writes the alias, whatever
make did; the goroutines of `stop` share the variable `kind` (digi.go:872-880);
`log.Fatalf` in the loop of `stop` leaves those already started in whatever place
they were; `rmk --all` never deletes the CRD; `gc` deletes kinds it counted empty
earlier.

Every call of make whose failure a property would notice may fail: rsync, the apply
of the CRD and `zed drop` (`MakeReadyFails`, `BuildReadyFails`), `helm template`
(`MakeTemplateFails`), kubectl on the `run.yaml` and `zed create` (`MakeApplyFails`),
docker (`BuildImageFails`), and in `stop` `zed drop` (`StopMakeFails`), the deletion of
the driver (`StopDeleteFails`) and each of the deletions in the background
(`StopLateFails`); in `gc` the count (`GcCountFails`, taken for none).

`make stop` (Makefile:185-197) deletes in the background, with `&`, all but the
deployment and the secret: `Background` has the model, the service (volume, account
and roles go its way) and the nodeport service. A foreground `digi stop` reads make's
output until all of that has ended (`StillWaits`, the stage `wait`); `digi stop -q`
does not, so that its deletions are still due when it returns (`late`, `StopLate`)
and may hit what a later `run` or `expose` makes under the name.

Two variables are history and delimit what a command can promise. `hit`: another
command had a hand in it (it was in the same build directory, had to do with the same
digi or kind, or changed the space in use). `spoilt`: the command went wrong by
itself, that is, two makes of the one `digi run` met in the build directory, something
make called failed, or `log.Fatalf` ended its loop. `crossed` and `strayed` are the same
for the files of aliases and spaces.
`digi space delete` deletes by name (kubeconfig.go:112): `SpacesKept` excepts the
contexts whose cluster or user has the name of the space that is deleted.

### DataSync

The ingress half of a digi's router and the Sync threads it starts. A record is
its ts; `pool[s]` holds the committed records of a source, `writing` those that
`ZedPool.load` has stamped and not yet loaded. `sync[<<n, g>>]` is the Sync object
the router built for ingress `n` in its `g`-th `update()`: the place of its
thread in `run`/`_event_loop` (`pc`), `source_ts`, the batch between read and load,
the stop flag and the lines waiting on its event stream. `mark[s]` is what
`_fetch_source_ts` would find in the destination's commit log. The router's
`stop`, `update` and `start` are `StopReturns`/`StopSets`/`Joined`, `Build` and
`Start`, one ingress at a time; a thread's steps are `Begin`, `Read`, `Load`,
`Connect`, `OnEvent`, `OnBlank` (the empty line after an event), `OnStop` and `Fail`.
`late`, `overtaken` and a sync's `missed` are history the code does not keep: they
name the three cases in which the copy is not exactly-once.

Assumed of the lake, as the code relies on it: a commit is atomic with its meta
data, an open event stream shows every commit, `max(ts)` over no record yields no
record. A query over several sources is one snapshot here; each property looks at
one source at a time. Every ts is distinct: a second record of an equal ts is lost
like a late one. A request still under way when the process dies either took
effect before or never does.

Not modelled: polling, `eoio` off, `skip_history`, flows that filter or
aggregate, offloaded pipelets, ingresses that come, go or pause, egresses (the
same restart with one source and a branch of the pool as destination), `Watch`.

## 4. Runs

Run with `tlc -config <cfg> <module>`.

| Run | cfg | Question and answer |
|---|---|---|
| gen_patch | MCGenPatch.cfg | Is the loop atomic, and does it return? Yes: `Implements`, `NeverOntoNewer`, `SeenIsCurrent`, `CallReturns`. |
| reconciler | MCReconciler.cfg | With restarts, exceptions and failed requests, is anything undone, or somebody else's change skipped? No: `NeverReverts`, `SkipsOnlySelfWrites`. And until the first of these faults, is any change lost? No: `NoLostWork`, `PendingHasAFuture`, and in the end `Converges`. |
| reconciler_retry | MCReconcilerRetry.cfg | Do pending handlers run again when a read fails? No: `PendingIsInvoked` (finding 1). |
| mounter | MCMounter.cfg | Do a child and its copy come together and to rest, without stale overwrites, when copies are edited at rest? Yes: `Converges`, `NoStaleOverwrite`, `SkipLosesNothing`. |
| mounter_start | MCMounterStart.cfg | In strict mode, from the start of the driver, with every operation and fault, is a child's status ever written? No: `StatusIsTheChilds`. |
| mounter_quick | MCMounterQuick.cfg | And when a copy is edited twice in quick succession? They may differ for good (finding 2). |
| webhook | MCWebhook.cfg | The library, called in any order as its test does: are the root sets right after any sequence of operations, and the refusals exact? Yes: `RootsAreRight`, `CheckIsExact`. The webhook, with reviews, discovery and crashes side by side: does each review end? Yes: `EveryReviewAnswered`. |
| data_sync | MCDataSync.cfg | Does an ingress copy every record once and in order, through restarts, crashes and failed or unanswered loads? Yes, but for late records (`NothingSkipped`) and for syncs overtaken by their replacement (`InOrderOnce`); and while its thread lives it copies them all (`EveryRecordCopied`). Does a restart of the router end? With the next commit that reaches the thread (`StopEndsWithAnEvent`). |
| data_sync_shared | MCDataSyncShared.cfg | Also when two ingresses have a common source? No: `NoRecordLost` (finding 3). |
| space | MCSpace.cfg | With conflicts, failed requests, restarts, digis and bindings that come, go and change: are bindings and policies enforced when no request is left? Yes, with the exceptions named: `BindingsSettle`, `PoliciesEnforced`. Is anything left of a binding that is gone, or written for it? No: `NothingLeft`, `BoundWrites`. Do yields and mount calls lose mounts, or activate a child at a policy's target before its source lets go? No: `MountsKept`, `TargetAfterSource`. Do the controllers come to rest? Yes: `ComesToRest`. |
| cli | MCCli.cfg | Two terminals and calls of make that fail: is what `run`, `build` and `stop` report done, unless another command had a hand in it or the command itself went wrong (`spoilt`)? Yes: `MakesAll`, `StopStopsAll`. Do the files of aliases and of spaces lose anything? Only to commands that cross each other: `HomeKept`, `SpacesKept`. |
| cli_run | MCCliRun.cfg | Does one `digi run` of two digis, alone and with nothing failing, start both? No: `RunStartsAll` (finding 4). |

### Bounds

* gen_patch: two clients, one attribute of two values, foreign writes and calls
  start below generation 2 and annotation writes below resourceVersion 3. Two
  clients, a foreign writer and a metadata writer give every order of two reads,
  two patches and a write of each kind; a third client meets the same conflicts
  as the foreign writer makes. The proofs remove the bound.
* reconciler: two handlers (one that changed and one that is pending, in both
  orders of priority), foreign writes below generation 5: several of them
  before, between and after the own writes. One restart, one exception and one
  failing request, which gives every pair of faults in every order.
* mounter: one child (the threads of two children share only `_parent_skip_gen`
  and the loop of the parent's thread), two values, three user operations from
  the steady state, generations below 9, a bound no behaviour reaches while
  copies are edited at rest; two operations, one API error and generations below
  5 from the start state. A user operation beyond the bound meets the states an
  earlier one already met.
* webhook: every state of the library on five nodes, room for a diamond, which the
  comparison of root sets must refuse, and a node above or below it; and the webhook
  with three digis that may have a common child or close a cycle, three requests of
  users and two crashes, two List calls for discovery to be caught between.
* space: four digis of three kinds, two bindings and a policy, two values, one
  client. Seven instances, each a question of its own with two or three user
  operations, at most one failed request and one crash: a pipe removed under a
  crash, two bindings of one source, a changed spec, a binding both ways, a policy
  against mount calls, a policy fulfilled before its child is mounted, a pipe
  that sets off a policy. The proofs remove the bounds for every property of the run
  but `ComesToRest`.
* cli: two terminals, two digis, two kinds, three contexts on two servers; twelve
  instances of up to four commands, at most one kill and one or two failing calls of
  make, each with the commands that share a file, a directory, a kind or a space. Two
  commands side by side give every pair of crossings; a third, earlier one leaves state
  to meet. No instance tells the two terminals apart, nor does any property, so that
  they are a symmetry set (all properties are invariants or properties of steps). The
  proofs remove the bounds for every property of the run.
* cli_run: one terminal and one command, `digi run` of two digis of a kind; nothing
  fails and nobody is killed. More digis meet in the same directory.
* data_sync: one ingress of two sources, two loads under way at a time, three
  records (two of one source committed in the wrong order and one of the other),
  one restart or crash of the router and one failed request. The syncs of
  different ingresses meet only in the commit log, which data_sync_shared shows
  with two ingresses of one source, two records, one writer and no error. A second
  restart starts from the same commit log as the first, with older syncs overtaken.

Deadlock is not checked where the system rests by design: the programs wait for
the next event or command once everything is handled, and users are bounded. That
they do not wait for one another is what the liveness properties show.

### Fairness

`GenPatch`: weak fairness of a call's own steps: a thread in the loop gets
scheduled and its requests answered. Conflicts end only because other writers
pause (their number is bounded); the code has no back-off. `Reconciler`: weak
fairness of delivery and of kopf's worker; none for foreign writes, faults or
`do_not_skip`. `Mounter`: weak fairness of the parent's thread and of each
child's thread, which kopf runs as operators of their own; none for users,
restarts or errors. `DataSync`: weak fairness of each sync's thread, of the
router once it has begun a restart, and of a load that is under way; none for new
records, restarts, crashes or errors. `Webhook`: weak fairness of the process, and
strong fairness of each review's lock (a Go mutex is starvation-free: a waiter of
more than 1 ms is handed the lock). `Space`: weak fairness of each controller (one
worker, in a process kubernetes restarts) and of each mount call; none for users,
failures or crashes. `Cli` states none: its properties are of commands that have
returned.

### Findings

1. `PendingIsInvoked`: a failed read inside `check_gen_and_patch_spec` raises after
   `last_seen_gen` was set; kopf's retry is then skipped as "last-seen".
2. `CopyFollows`: two quick edits of a copy leave it different from the child for
   good, or let the two exchange their values for ever.
3. `NoRecordLost`: the commit log's entry of a source is shared by all ingresses
   of the digi; the one behind at a restart resumes from the other's ts and never
   copies what lies between.
4. `RunStartsAll`: the help of `digi run` promises that all digis of a call are
   started (digi.go:703); their makes share `/tmp/digi-build-KIND`, which each removes
   when it begins and when it ends, so that one digi's `run.yaml` is applied for another
   or none is there, and nothing reports it.

Seen while modelling, part of the models or of the exceptions their properties name:
pending handlers are forgotten on a restart;
`on_child_delete` passes `spec` twice and raises, so that a deleted child stays
mounted; a record committed after a larger ts was read is never copied (`late`);
two restarts of the router in one reconciliation can leave a sync beside its
replacement, both copying (`overtaken`); a sync whose thread died stays down until
the next restart; in permissive mode a copy's status is pushed to the child; after a
restart of the driver `_children_gen` is set before the copy is refreshed
(mount.py:168), so that the resumed parent may push an old copy over what the child
wrote meanwhile (the run mounter, which asks for `NoStaleOverwrite`, has no restarts);
the webhook reads no mounts (main.go:211), so that the digi-graph its README describes
(space/mount/webhook/README.md:3) is always empty and nothing is refused; the syncer
forgets a failed write when the last binding of the request went well (`masked`);
a policy's yield may be left half done (`dropped`); `Clusters`, `Users` and
`Contexts` of kubeconfig.go start from `make([]string, len-1)`, which panics for
an empty list and holds an empty name for two or more; aliases are not told apart by space;
`digi space gc` takes a count that failed for none and deletes the kind with its
models.

Seen and not modelled: if `.spec.mount` were resolved, `m.(string)` (main.go:215) would
meet mount entries, which are maps, and panic; with two children an edit of one copy may be
folded into the mounter's own write of the other and skipped; a missing child ends
the loop of `_sync_to_children` for its siblings; the comment at mount.py:386
announces a push of all copies on creation, where the diff is not empty and none
is pushed; `SetMounts` drops the other fields of a mount entry; a policy condition
that is no jq program ends the policer (`log.Fatalln`); the lake digi's
`patch_existing_pools` drops keys from its argument on every retry and counts
pools without a lock (event.py:53).

## 5. Proofs

All proofs are checked by `tlapm` and hold for every value of the constants, in
particular for any number of clients, handlers and writes. They use the modules'
named assumptions on constants only (`GenPatchAssumption`,
`ReconcilerAssumption`: the bounds are natural numbers, `Prio` maps handlers to
natural numbers, there is at least one value; `StoreAssumption`,
`SpaceAssumption`: names of bindings, policies, clients and controllers are
distinct, the special values are none of them, a digi is of its own kind, what is
deployed and what objects may be given is well-formed, the bounds of a deployment are
natural numbers; `MounterAssumption`: `None` is neither a value nor a mount entry, the
bounds are natural numbers, the trims are sets of attributes; `DataSyncAssumption`: the
bounds are natural numbers and each ingress has a set of sources; `HomeAssumption`,
`SpacesAssumption`, `CliAssumption`: the special values are none of the names, the
sessions a run may start from hold well-formed files, spaces and commands, there are
finitely many kinds (not so digis, terminals or contexts), none of them called like a
service; `WebhookAssumption`: the digis are names and those the resources list, the
holders of the lock can be told apart). `MultiTree` needs none.

`GenPatch_proofs`
* `TypeCorrect`, then `SeenCurrent`: `SeenIsCurrent` is inductive given the types.
  Every write moves `resourceVersion`, so that as long as it stands still the
  generation compared before the request is the model's when the request lands.
* `PatchNeverOntoNewer` follows from it step by step: only `PatchSpec` ends a call
  in success, at the `resourceVersion` seen.
* `Refinement`: initial states map to initial states; `GetSpec` and
  `PatchConflict` are stutters, `PatchSpec` is `Apply` because of
  `SeenIsCurrent`, `GenOutdated` is `Refuse`, the two failures are `Fail`.

`Reconciler_proofs`
* `TypeCorrect`, then `OrderInvariant`: kopf's snapshots are in order, handled
  before event before queue before model, in generation and in every counter;
  equal generations mean equal snapshots. `NeverReverts` follows: a write is
  accepted only if its event is the model itself.
* `SkipsOnlySelfWrites` needs `SkipInv`, which follows `skip_gen` from the write
  that set it, through the recording of the event it answered, to the event that
  is skipped: the generation before it is the one recorded.
* `Work`: until the first fault, every effect missing from the recorded snapshot
  is owed by a pending handler or by the difference with the next event.
  `NoLostWork` and `PendingHasAFuture` are its consequences at rest. After a fault
  the two are false by the code's own design (a handler that raises is not
  retried, a restart forgets the pending ones), which is why they say
  `Faultless`.

`Mounter_proofs`
* `TypesKept`: from both start states. The types need that what the parent's thread
  pushes is mounted in its event (`ToPush`) and that a child's own last write is not
  ahead of it (`OwnInPast`).
* `ChildKeepsItsStatus`, under the hypothesis `"status" \in TrimParent`, which is the
  strict mode of the driver (`TRIM_FROM_PARENT`): one step of the mounter writes a
  child (`OnlyPPush`), and what it writes has the child's status (`PushWrites`).
* `PushesAreCurrent` and `SkipsAreEchoes` need `OrderInv`: the copies the parent's
  thread works on are not newer than the parent's, those not newer than what the
  children's threads have seen (`CopiesInOrder`), nothing that was seen or written is
  newer than the child (`KnownInPast`), and whenever a generation the mounter takes for
  its own, in `_children_gen`, in `_children_skip_gen` or in the response it has not
  recorded yet, is not behind a child's own last write, the copies have that write
  (`WritesKnown`). That is why the comparison of generations before a push is enough.
  Both assume `Undisturbed` of the constant `Env`: the driver's process does not
  restart and no mount comes or goes; users still write children and copies, yield,
  activate and delete, and requests fail. The hypothesis is needed for both. `on_child_create`
  remembers the child's generation (`_children_gen`) before the copy has what the
  child wrote, so that after a restart a parent's thread that resumes pushes the old
  copy; when the two requests that
  should refresh the copy then fail as well, the echo of that push is skipped and
  `SkipLosesNothing` is false too. A child unmounted and mounted again breaks both
  within four user operations, without an error.

`Space_proofs`
* `SpaceInvariant`: `IInv` is inductive. `CacheIsCurrent`: what the binding cache
  holds is the object, or the object's request is queued; `IndexIsCache`: what the
  index holds is the cache, under the source or target it has there;
  `WorkIsIndexed`: the worker enforces what is in the index, and what it is about to
  write is of the cache; `WritersAreKnown`: a value that a binding brought is at
  the target the cache has, or, after a restart, the object has. None of these
  survives a step alone: `NothingLeft` needs the cache to be current at a deletion,
  which needs the index to be the cache for what was in progress. The steps of the
  policer and of mount calls are shown at once by `QuietKeeps`.
* `NothingLeftTheorem` and `BoundWritesTheorem` are its consequences.
* `MountsInvariant`: `MInv` says that what the policer or a call is about to send
  agrees with the digi in all it did not decide, while the reader holds the
  present version (`YieldIsCurrent`, `CallIsCurrent`). Every write by somebody else
  takes the version away (`WriteMountsFacts`, `AsideKeeps`).
* `MountsKeptTheorem` and `TargetAfterSourceTheorem` follow step by step.
* `PoliciesInvariant`: a policy whose request was handled is filed under its digis,
  which are watched (`PoliciesAreFiled`), and a policy whose condition holds while its
  source has the child is asked for in the queue or in the worker's hands, still to be
  looped over or on its way with what it read (`DueIsPending`). Only a yield whose
  second update met a conflict (`dropped`) is neither. With the policer at rest
  nothing is asked for and nothing in hand: `PoliciesEnforcedTheorem`.
* `BindingsInvariant`: the same of each binding (`Bound`), whose two sides are written
  by users, drivers and other bindings. Every change of a watched digi posts its
  request, so that a binding set apart by a write is `Wanted`; taking the request
  turns that into `AtWork`: the binding is still to be read, or the write in hand
  makes its sides equal and its target's version is the present one, or the write
  was lost and the worker knows (`syn.lost`), or a binding both ways whose target
  has nothing to copy makes the request an error, which puts it back (`Failing`).
  `AtHome` and `Tracked` say where the index has it. A conflict or a failure moves a
  binding from the write in hand to `lost`, the end of the request from there to the
  queue or to `masked`. `BindingsSettleTheorem` is what is left at rest.
* `TypesInvariant` and `SpaceTypes`: a controller that is down hears nothing and what
  is about to be sent is a digi's mounts, which the types of the rest need.

`DataSync_proofs`
* `LakeTheorem`: `LakeInv` is inductive. A record belongs to one source (`Stamped`);
  where a sync and the commit log are is a record of the source (`OnRecords`); what
  a sync holds between its read and its load was read up to its `source_ts`
  (`Held`); the commit log has passed over nothing (`MarkSkipsNothing`) and what was
  copied is not beyond it (`CopiedMarked`); what the router has built and not started
  has not run (`Built`). `NothingSkipped` cannot stand alone: a restarted sync
  resumes from the commit log, so that what the log says must be true as well.
* `SyncTypeTheorem` and `NothingSkippedTheorem` are its consequences.
* `InOrderOnceTheorem` adds `OrderInv`: as long as nothing was overtaken, only syncs
  of the current generation run and those `stop` went through have ended
  (`OnlyCurrentRun`), and the current sync is not behind what was copied
  (`CurrentAhead`).
* That a read has a largest ts (`LargestExists`) comes from the well-foundedness of
  the natural numbers.

`MultiTree_proofs`
* `GraphTheorem`: `GraphInv`, that is the types, that edges are between nodes of the
  graph (`WellFormed`), `RootsAreRight` and `IsMultiTree`, is inductive: one lemma per
  method (`AddNodeKeeps`, `AddEdgeKeeps`, `RemoveEdgeKeeps`, `RemoveNodeKeeps`). None
  of the parts can do without another: what `deepUpdateRoots` removes below an edge
  is right only since in a multitree a node below has no other path from the roots of
  the upper end (`OneParentBelow`).
* Nothing is assumed of the set of names, which may be infinite: `Below` is the least
  closed set, and what an induction along paths would show is shown by naming a
  closed set (`BelowIsLeast`, `BelowWith`, `BelowWithout`).
* `CheckIsExactTheorem`: the comparison of root sets is sound (`CheckIsSound`) and
  complete (`CheckIsComplete`).

`Webhook_proofs`
* `WebhookTypeTheorem`: `HookTypeOK` is inductive. Beside the types it says that the
  lock is held by a review that has no answer yet and by the discovery exactly while it
  builds the graph, which is what `EveryReviewAnswered` rests on: whoever holds the lock
  is about to give it back.
* `NothingIsRead`: whatever a digi mounts, the webhook reads no edge of it; the steps
  that handle a review or list a resource need no case for an edge or its refusal.

`Cli_proofs`, for any number of terminals, digis and contexts
* `TypesTheorem`, `CInvTheorem`: `CInv` adds to the types that a goroutine is at a step
  of its own command and belongs to a digi named (`ThreadsAreItsOwn`), that a loop has
  left some of what its command was given (`TodoOK`), and that whoever is in a build
  directory finds a `run.yaml` there (`YamlOK`). The actions fall into seven groups
  (`Groups`); the commands that are entered are one step with an argument (`Began`).
* `HomeTheorem` needs `HomeInv`: until two processes cross, one of them at most is
  about to write the file, all it writes is its memory, and that has every change
  (`InTurn`); or two are at the file already, so that they will cross (`WillCross`).
  The property itself says nothing while a goroutine is at the file: it is what
  happens meanwhile that the invariant is for.
* `SpacesTheorem` needs `KubeInv`: what a command read of `~/.kube/config` is the file as long
  as nobody else wrote it, and the context noted is the one last left.
  `ChangedLeads` shows for each command what its change leaves of the other contexts.
* `MakesTheorem` needs `MakeInv`, of every command that is in neither `hit` nor `spoilt`
  (`Marked`): nobody else is in its build directory, neither another command nor another
  goroutine of its own (`Alone`, by `Fellows`); the kind of `run` is in the profile and
  each goroutine has made what its stage says (`Progress`: the directory is whole, the
  `run.yaml` in it is this digi's, the digi runs once `make` is at `clean`); `build` has an
  image of every kind its loop is through with (`Built`). `Alone` cannot be left out:
  `make` empties and refills one directory per kind. What others do spares all of it
  (`MakeSpares`, `StopSpares`, `LoopSpares`, `RestSpares`), or it is in `hit`; a call
  that fails puts its command in `spoilt`.
  The theorem says what holds with these exceptions; that one of them, makes of one
  command that meet, is met by every `digi run` of two digis is finding 4.
* `StopsTheorem` needs `StopInv`: of the digis `stop` has come to, the pool is gone and,
  from the deletion on, the driver; of everything it deletes in the background (`Aims`:
  service, nodeport service and the model of each kind it may have to do with), the
  object is not there (`Has`), or its deletion is still due (`late`), which for a
  goroutine that has ended is so only when `stop` is quiet (`Halted`). The variable
  `kind` holds the kind of one of the digis named. What is gone stays gone (`Drains`),
  since only `run` and `expose` add to a space and both leave their mark in `hit`. That
  the shared variable does no harm as long as it has one value to take is `TwoKinds`, for
  which the kinds have to be finite.

Model-checked only: the liveness properties (`CallReturns`, `Converges` of both
modules, `EveryRecordCopied`, `StopEndsWithAnEvent`, `EveryReviewAnswered`,
`ComesToRest`), since fairness is out of the prover's reach. What is proved of
`Mounter` under `Undisturbed` has no counterpart for mounts and restarts, where it is
false.

## 6. Not modelled

* Mounter: what is below a child, a child created anew, two children at a time.
* Data: polling, `eoio` off, `skip_history`, filters, egresses, offloaded
  pipelets, `Watch`.
* The lake digi: two threads that keep heads and counts of pools in the model; its
  state is that of the lake, which is not in the repository.
* Webhook: the refusal of an edge and a discovery that gives up over one, which the
  program cannot do since it reads no mounts; flags, certificates and the discovery of
  API groups.
* Command line: snapshots (`commit`, `recreate`), `gen`, `edit`, `test`, `attach`,
  `logs` and the listing commands; `space start` and `stop`, which install and
  remove the controllers as a whole; the lake, net and box commands, which forward
  a port; the side cars `ens` (namespaces, which digi does not use) and `neat`. Of
  make: calls of `rmk`, `push`, `pull` and `gc`'s deletion that fail and leave things
  as they were, the secret `stop` deletes, images that stay with the local docker, and
  two pending deletions of one object by one terminal, which count as one.
* Decorators and views (`on.py`, `view.py`: pure functions over dictionaries),
  reflex processors (they evaluate user-supplied programs), the model generator
  (text to text), benchmarks, deployments and the GPT example.
