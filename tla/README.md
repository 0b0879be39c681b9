# The mesh agent, specified

TLA+ specifications of the RDK-B mesh agent (`src/source/MeshAgentSsp`), the TLC runs
that check them on small instances, and TLAPS proofs of the results that hold for every
instance. File names below without a directory are in `src/source/MeshAgentSsp`; `A` is
`cosa_mesh_apis.c`.

The agent sits between the gateway's own software (syscfg, sysevent, systemd, dnsmasq,
the CCSP data model, webconfig) and the mesh vendor's software, which talks to it over a
Unix socket. It is one process of several threads with almost no locks: `msgQServer`
(vendor socket), `Mesh_sysevent_handler`, `leaseServer` (dnsmasq), the data model's
message-bus thread, the webconfig executor, one short-lived thread per request to
enable or disable mesh, and short-lived threads for notifications. The only lock is
`mesh_handler_mutex`.

## Inventory

| component | state | operations | interacts with |
|---|---|---|---|
| Mesh enable (A, `cosa_apis_util.c`) | `mesh_enable` in syscfg (working and committed copy), `/nvram/mesh_enabled`, the `meshwifi` service, `g_pMeshAgent->meshEnable`, `last_set`, `meshError`, `mesh_handler_mutex` | `Mesh_SetEnabled`, `mesh_set_enabled`, `meshSetSyscfg`, `handleMeshEnable`, `Mesh_SetDefaults`, `Mesh_Recovery`, WIFI_RESET | called from four threads; systemd, sysevent |
| Client table (`mesh_client_table.c`) | a pool of 100 items, buckets with counts, an iterator | `HashAdd`, `HashDelete`, `HashFind`, iteration | the data model's thread and the sysevent thread, no lock |
| Ethernet pod detection (`ethpod_error_det.c`) | list of pods with state and deadline | `meshAddPod`, `meshHandleEvent`, `meshHandleTimeout` | `msgQServer` adds, `leaseServer` and the data model's thread drive; alarms go to `notifyEvent` |
| Vendor socket server (A:972-1172, 3100-3231) | ten slots, `clientSocketsMask`, the kernel's descriptors | accept, read, hang-up, `msgQSend`, lease synchronisation and updates | every thread sends |
| Sysevent handler (A:3297-4702) | none of its own but `s_SysEventHandler_ready`; the position of `strtok`, which is the process's | one branch per event: parse, filter out what came from the vendor, forward or act | mesh enable, client table, socket |
| Webconfig (`cosa_webconfig_api.c`, `helpers.c`) | the cache of the settings and its backup, the stored version | unpack, hand over, execute, roll back | mesh enable, Ethernet backhaul |
| Feature flags (A:2196-2436) | OVS, GRE acceleration, Opensync, cache, retry, each in syscfg and in `g_pMeshAgent` | `Mesh_SetOVS`, `Mesh_SetGreAcc`, `Opensync_Set`, ... | exclude one another; mesh enable turns some off |
| Pod filter and tunnels (A:348-498, 684-803, 2145-2189) | `EthPodMacs` (16), `dnsmasqFd`, `gmssClamped`, the backhaul flag | learn, send one, send all, clean up, build tunnels | dnsmasq, `msgQServer`, data model, webconfig |
| Parodus notifications (`cosa_mesh_parodus.c`) | the parodus instance and its URL, `deviceMAC` | connect with backoff, send | a thread per notification |
| Data model (`cosa_meshagent_dml.c`, `cosa_meshagent_internal.c`) | `g_pMeshAgent` | get, set, validate, commit, rollback of single parameters | everything above |
| Start-up and bus glue (`ssp_*.c`, `plugin_main.c`) | none | registration | CCSP |
| Host filter (`src/scripts/active_host_filter.*`) | none | filters the host table for active clients | `Mesh_InitClientList` |
| Message queue client (`clientTest/meshQTest.c`) | none | a manual test program | vendor socket |

What is hard here, and what each component has to keep:

* **Mesh enable.** Several threads want different things; the wish is stored first, in two
  places, and only then made to happen, by a thread that may be overtaken; each step may
  fail; the process or the device may restart between any two. It is correct when the
  stored wish and the state of mesh agree once nothing is in flight, when last_set never
  runs ahead of what was announced, when the mutex always comes free, and when nothing
  starts the service while mesh is off.
* **Client table.** Two threads, no lock, a fixed pool. Correct when no item leaks, no
  thread adds a client twice, a removal removes one client, and a walk for a report
  reaches everybody and ends although clients come and go meanwhile.
* **Pod detection.** A deadline that two threads set and one looks at, on a clock that may
  be moved. Correct when there is one watch per pod, no alarm before its time, and no pod
  that stays half connected without one.
* **Socket server.** Slots, a bit per slot and descriptors changed by every thread that
  meets an error. Correct when the three stay consistent, when no lease is lost to a
  connection that is being set up, and when every peer in a slot is served.
* **Sysevent handler.** One hand-written parser per event, over a `strtok` shared with other
  threads, and events the vendor caused itself among them. Correct when a value arrives with
  each field in its place, nothing the vendor set is sent back to it, its status is answered,
  and a restart of the wifi leaves the vendor's service as mesh is.
* **Webconfig.** Two settings in two stores, one document, a rollback and error codes that
  change their type on the way. Correct when a document that is refused turns nothing on, then or
  later, and when the cache the next one is compared with is what is stored.
* **Feature flags.** Flags that exclude or need each other, each stored twice, with setters that call
  each other. Correct when never both OVS and GRE acceleration, neither without mesh, and
  what is shown is what is kept.
* **Pod filter.** Four threads, one descriptor, datagrams, and a dnsmasq without memory.
  Correct when a pod that is remembered ends up filtered, disabling ends the filter, and each
  pod keeps its tunnel.
* **Notifications.** Two series of waits that do not know of each other, and an address several threads write.
  Correct when the connection is there in time and an address that is known is sent whole.

## Modules

| module | models |
|---|---|
| `MeshEnable` | mesh enable, with the boot code, WIFI_RESET, crashes and reboots |
| `MeshSwitch` | what mesh enable promises when asked for one thing at a time |
| `ClientTable` | the client table and the two threads that use it |
| `ClientSet` | what that table promises: clients with a count and a limit, taken in by users that do not know of each other |
| `EthPods` | pod detection |
| `SocketServer` | the vendor's socket |
| `SyncMessages` | what goes over that socket: the sysevent handler, all nineteen kinds of events |
| `FeatureFlags` | the setters of the flags and how they call each other, with the boot code |
| `WebConfig` | documents, from their arrival to the answer or the rollback |
| `PodBackhaul` | the pods the agent remembers, dnsmasq's filter, the tunnels |
| `Parodus` | the connection to parodus and a notification |
| `MC...` | small instances for TLC |
| `...Proofs` | theorems about all of them; `AlarmProofs` is about `EthPods` and `Parodus`, each other module has its own |

Operators whose comment begins "Mutant of" are wrong on purpose:
each is a plausible bug, kept to show that a property would notice it. No specification
uses them.

### MeshEnable

A *job* is one request, from the comparison with syscfg to the end of
`handleMeshEnable`; `job[j].pc` is where it is, `by` the caller's thread, `want` the value.
`Request` is `Mesh_SetEnabled` or `mesh_set_enabled` up to the comparison. `meshSetSyscfg` is
three steps: `StoreStep` is `syscfg_set`, `CommitStep` is `syscfg_commit`, each of which may fail
and has the pair tried again (`tries`, `Retries`), and `FlagStep` is the recovery flag, which may
fail too. The agent or the device may restart between any two: a crash then keeps the value in
`syscfg`, a reboot goes back to `disk`. Anybody else's commit (`OthersCommit`) keeps a value that
a crash left behind. The actions of `Handles` are the handler in the
order of the code: lock, redundant?, preconditions, service, `meshEnable`, sysevent,
`last_set`, or the undoing of the stores after a failure, again in three steps. `Boot` is
`Mesh_SetDefaults`/`Mesh_Recovery`, `BootSkips` the path on which it hands nothing on because
the value could not be looked up. `Faults` selects what the environment does wrong.

Abstractions. A wish is a Boolean. What `systemctl` does is one step. The checks that may
veto an enabling (radio down, bridge mode, band steering) are one nondeterministic outcome.
On XB3 disabling mesh first turns OVS and GRE acceleration off; that, and the status value
published beside `mesh_enable`, is left to `FeatureFlags`. At boot the value
grepped out of syscfg.db ends with a newline and matches neither word, so the recovery
flag decides (`BootValue`).

`MeshSwitch` is the abstract specification: a wish, the copy of it that survives a power cycle, and
a switch. The wish changes only while the switch agrees; then it is kept, and only then
the switch follows, or the wish to be on is withdrawn. A restart turns the switch
off and leaves wish and copy as they are, apart (`torn`) if it came before the wish was kept; a power
cycle goes back to the copy. The mapping is `wish <- syscfg`, `kept <- disk`, `on <- lastSet`,
and `torn` is a difference of the two stores that nobody is about to commit.

### ClientTable

A client is a MAC and an interface, an item is a number, the list of a bucket the
sequence of its items. `HashAdd` is two steps, the search (`BeginAdd`) and the rest
(`EndAdd`), so that two threads can stand between them; every other operation is one step.
That is coarser than the machine: two threads inside `HashAlloc` could take the same item,
or break a list while linking, and the model does not show it; nor does it show an iterator that
reads an item in the middle of `HashDelete` (`Walk` and `Disconnect` are one step each).
Any thread may begin an operation while another is between its two steps. The hash is a function; that
`HashMe` uses `strtok`, whose position is shared by threads, is shown in `SyncMessages`
only, from the side of the parsers. Host names are left out: every name and mac the agent gets is
shorter than its field.

`Disconnect` keeps the condition of the loop in `HashDelete` as it is: the loop lets go of
an item only when interface and MAC both differ. `Walk` and `Announce` are the iteration of
the sysevent thread, `due` and `cut` record what it still owes and whether the item under
it was deleted.

`ClientSet` is the abstract specification: how often each client is there, how many entries that
makes, and whom each user missed and is about to take in; a client that is missing is taken in, or
turned away when there is no room, and one entry at a time
leaves. No user sees what the others are about to do, so that two may bring the same client: the
specification promises what the unlocked search can promise. The mapping forgets pool, buckets and
lists: `copies` counts the items a client holds, `size` is `sHashItemCount`, `coming` is who each
thread is about to add. `OncePerThread` bounds what comes of it: no client is there, or on its way in,
more often than there are threads.

### EthPods

`HandleEvent` and `SetTimeout` are the two assignments of a handler, `Sweep` is
`meshHandleTimeout` (one step: alarms of one sweep are not told apart). Deadlines are kept
as distances from the clock, so time needs no bound. `SetBack` moves the wall clock back;
forward moves are left out, since nothing the code does could keep an alarm from coming
early then. `SelectFails` dispatches the message read before once more, as the loop of
`leaseServer` does after a negative result. A `getTime` that fails in a sweep leaves everything as
it is, which is a stuttering step. `waited` and `torn` are history: ticks since
the last event, and entries whose last two handlers overlapped.

### SocketServer

One record per thread says where it is in `msgQServer` or `msgQSend`, in which slot, and
what it holds in its registers. `net` is the world outside: each peer, the backlog, unread
messages and the kernel's descriptors, of which the lowest free one is handed out. Each
assignment to `clientSocketsMask` is a load and a store. `leaseServer` stands for itself,
`sysevent` for all other senders. With `~Overlap` a send runs only while `msgQServer` is
blocked in `select`, and the two never meet inside a slot; whether an update passes the
mask is decided at any moment either way. No lock keeps the threads apart in the code: `sockets`
says that a thread by itself leaves nothing behind, `socket_mask` what two of them do.

Left out: a failing `accept`, a peer that does not read (its full buffer would block
`send` for ever), other files of the process that may get a reused descriptor, and
SIGPIPE, which the source neither ignores nor avoids: the model takes the error return the
code handles.

### SyncMessages

`Kinds` is the table of the nineteen events: which origin the branch listens to, the types
of the fields it takes apart, and what it does then. A value is a sequence of tokens, a
field that was empty being `""` (`Empty`); `Strtok` is a call of `strtok`: it passes over
empty fields, returns the next token and moves to what follows it. `Hear` takes a notification,
each `Parse` is one round of a branch's loop, and one action per kind of branch ends it:
`TellVendor`, `Forward`, `SetUrl`, `ReportClients`, `SetEnabled`, `WifiReset`. `Convert` and
`Fits` are `strtol`, the comparison with "true", the lookup of a status and the refusal of
`strcpy_s`. `rest` is `strtok`'s one position; `OtherStrtok` is another thread that starts on a
string of its own or takes a token from this one, and `h.mixed` remembers that it did.

`ProcessSyncMessage` is a message of the vendor that becomes an event, `GatewaySets` a
change of the gateway's. `Switch...` are the three visible steps of `handleMeshEnable`
(`MeshEnable` has the rest), next to which `WifiReset` looks at `meshEnable` and `SetService`
acts on it later; `raced` remembers that the two met. A new event arises only while none
waits: the handler takes one at a time and keeps nothing between them.

### FeatureFlags

A setter is an operation with a program counter: `load` (at boot, from syscfg), `decide`
(compare, lower the wish: `Granted`; call other setters first: `First`), `store`, `publish`.
The operations a thread has before it are its stack `todo`; a setter that calls another
pushes it. `store` is syscfg, `ram` is `g_pMeshAgent`. `Mesh_SetDefaults` is the stack
of all flags in its order. What an operation saw is what `Decide` read, and nothing keeps
another thread from storing before it does. The properties are about an agent that is `Settled`:
`undisturbed` is history, set by each boot and lost by a failure, by a request made while
another is under way, and by webconfig's disabling of mesh, which does not go through
the detour that turns the others off. `Init` is any content of syscfg, so that each boot has
to repair it.

### WebConfig

A document is a sequence of entries. `Unpack` is what `process_meshdocparams` makes of it:
it waits for `Ethbhaul` only, so an `Enable` after it is not read; a document without the
wrapper reads as both off. `exec.pc` walks through `Process_MB_WebConfigRequest`,
`set_meshbackhaul_conf`, `apply_mb_cache_ToDB` and `rollback_MeshBackhaul`. The framework that has
them executed is external: `Take` has it choose any document that waits. `MeshSetEnabled` is
`mesh_set_enabled`, `SetMesh` the store and `handleMeshEnable` as one step, in which the store, the
precheck, the start or the stop may fail and the store that takes the value back may fail as well
(`Written`, `Outcomes`, `Stores`); the error code is the last handling's and comes back as a
`bool`, which is why `Reported` is false for a refused document only. A handler the data model
starts runs in a thread and leaves the code alone, but for the redundant skip. `wanted` is history:
what was on when the agent started or somebody has asked to be on since, by getting as far as
setting it; `tainted` is history: a setting did not take, or somebody else set one meanwhile.

### PodBackhaul

`pods` is `EthPodMacs`, `fd` is `dnsmasqFd` with its three kinds of value (0, -1, open). What
a thread has left to do is its sequence of steps: `sock` and `send` are the two halves of
`Mesh_SendEthernetMac`, between which another thread may close the descriptor; `next` is the
loop of `Mesh_SendPodAddresses`, `add` is `Mesh_PodAddress`, `clean`, `unclamp`, `clamp`,
`clamped` are `Mesh_EBCleanup` and the end of `Mesh_EthPodTunnel`, which the platforms `XB3` and `HUB4`
(`Platform`) leave out. `filter` is dnsmasq,
`asked` the vendor's pending answer to an RFC update, `tunnel` the kernel's interfaces. `disturbed`
tells a fault or an overlap before the flag was last set from one since; `known` holds the
tunnels this run of the agent made for pods it remembered.

### Parodus

Time is in seconds, steps take none, waits do (`Second`). `conn` is `connect_parodus`, `note` one
notification from `notifyEvent` on, `others` the rest of them as far as they look at and write
`deviceMAC`, which is empty, partly or wholly written; `early` is history: the notification began
before it was whole. `Backoff` is a constant, 2^c - 1 in the
code; what is proved holds for any waits that do not shrink. The URL that cannot be read
makes the library's `libparodus_init` fail: an assumption about code that is not here. The names of its specification have a prefix (`ParodusInit`,
`ParodusSpec`), so that one module of proofs can be about it and `EthPods`.

## Runs

| run | instance | shows |
|---|---|---|
| `enable_faults` | 2 jobs, XB3, any interleaving, 1 retry; failing sets, commits, recovery flag and preconditions, a service that will not stop, crashes, reboots | `LastSetPublished`: on for the handler means announced, whatever interleaves. `MutexReleased`: every path gives the mutex back |
| `enable_serial` | 2 jobs, one request at a time; failing reads, preconditions, starts, unknown service state, crashes and reboots at every step, between set and commit too | `Agreement`, `NoStartWhileDisabled`, `Converges`, and `ImplementsSwitch` |
| `enable_crash` | 1 job, crashes | **violation** of `ServiceOffWhenDisabled`: after a restart a disabling is redundant although the service runs |
| `client_table` | 3 MACs, 2 interfaces, 3 items, 2 buckets, 1 pod | `PoolAccounted`, `ImplementsClientSet`, `OncePerThread`, `ReportComplete`, `WalkEnds` |
| `eth_pods` | 2 pods, list of 2, deadline of 2 ticks, clock back by 1 | `WatchedOnce`, `DeadlineKept`, `WaitEnds` |
| `sockets` | 3 peers, 2 slots, 3 descriptors | `SlotsAccounted`, `LeaseNotLost`, `EveryClientServed` |
| `socket_mask` | the same, threads inside together | **violation** of `MaskShowsConnection`: mask 0 with a peer connected |
| `flags` | XB3, the four flags that depend on each other, four threads, every fault, any syscfg to begin with | `OneAccelerator`, `FlagsFollowMesh`, `ShownIsKept`: each boot repairs what failures and crashes left, and undisturbed setters keep it so |
| `webconfig` | three documents (entries in either order, and a bare one), executed in any order, 1 crash, every fault, settings of the data model in between | `RefusedStaysOff`: what is refused is not turned on by a later rollback. `CacheFollows` |
| `backhaul` | 2 pods, room for 2, four threads (data model and webconfig both set), 2 calls, 1 fault | `RememberedPodFiltered`, `DisabledIsUnfiltered`, `TunnelsApart` |
| `parodus` | the code's waits and retries | `ConnectedInTime` (47 s), `WholeOnceKnown` |
| `sync` | every kind of event, 1 waiting, good and bad tokens for each type, another thread's `strtok` | `ToldAsSet`, `NoEcho`, `StatusAnswered`, `ServiceFollowsMesh` |

Each passing run also checks its module's `TypeOK` (`ParodusTypeOK`), `enable_serial` excepted, which shares a
module with `enable_faults`. A violation is of a sentence the repository says about itself,
quoted in `PROJECT.json`.

Why the bounds are enough. *Jobs*: two are the least that can overtake each other; every
conflict in the handler is between the holder of the mutex and one other. Requests follow
each other without bound, since a job is reused. *Clients*: six clients for three
items fill the pool, two MACs share a bucket and two clients share a MAC, which are all the
ways a list can be confused; two buckets let the iterator skip an empty one. *Pods*: two entries
with one MAC are what distinguishes first from later; two ticks separate "set" from
"about to expire", one more is the clock's step. *Sockets*: with two slots a loop has a slot
behind and a slot ahead; the third peer reuses a slot or finds none; descriptors cannot run
out before peers do. *Flags*: all setters that depend on one another; the cache, the retry and
the Ethernet backhaul depend on nothing and are left out of the instance. *Documents*: the two
orders of entries differ in what is read, the bare one disables what the others enable; all three may wait at once, and a rollback
goes back over one document only. *Backhaul*: two pods fill the list and have different
tunnels; with one fault and two calls every fault can fall between any two steps of an
overlapping pair, the two setters among them; a third call adds only longer sequences of the same.
*Retries*: one is enough for a pair of calls to fail, succeed half, and be done again; the proofs
are for any number. *Parodus*: no bound but the code's. *Events*: the handler
keeps nothing from one event to the next, so one at a time is all there is; a
value has all its fields or the first only, each good, wrong, too long or empty.

Fairness. `MeshEnable`: a thread that can run does; nothing of who gets the mutex or that
requests come; systemd restarts the process (`Restart=always`). `ClientTable`: the sysevent
thread continues a walk it began. `EthPods`: handlers finish, time passes, a silent socket
ends in a sweep (the 2 s timeout of `select`), and only on condition that dnsmasq falls
silent (`Quiet`). `SocketServer`: threads run, the sysevent handler comes up, and `select`
gets its turn between sends (strong fairness, because with `~Overlap` each send holds it off;
the real `select` is not held off at all). `PodBackhaul`: the threads run, dnsmasq goes on complaining of a pod it does not
filter (each time the pod asks for its lease), and the vendor answers an RFC update. `SyncMessages`: the handler's
thread runs. `FeatureFlags`, `WebConfig` and `Parodus` state none: what they promise is safety,
the 47 seconds included, since time passes only when no step is due.

Deadlock is checked in every run but `backhaul`, whose calls and faults are bounded and
run out.

## Proofs

`MeshEnableProofs`, for any set of jobs, on either platform:

* `TypeCorrect`, under any faults.
* `LastSetIsPublished`, under any faults and any interleaving. `LastSetPublished` is not
  inductive: it says nothing while a job holds the mutex. `MutexInv` adds that a job is in
  the locked part of the handler exactly when it holds the mutex, so there is one such job;
  `AnnounceInv` adds what that job has announced at each of its steps.
* `NoStartWhenSerial`, under the assumptions of the next item: `ResetInv` relates `meshEnable`,
  which WIFI_RESET reads without the mutex, to `last_set`.
* `AgreementWhenSerial` and `SerialImplementsSwitch`: under `Serial`, and for faults
  that spare the writing of syscfg and of the recovery flag and the stopping of the service (the
  `Repairable` assumption, which is what the run `enable_serial` checks).
  `SerialInv` says for the one job in flight what the stores hold at each step, the one between a set
  and its commit included, and that without one they agree or were torn by a crash. The refinement
  maps each step to a step of `MeshSwitch`
  or a stutter. Both assumptions are needed: with overlapping
  requests, or with a service that refuses to stop, `Agreement` is false.

`ClientTableProofs`, for any macs, interfaces, hash, pool and number of buckets:

* `TypeCorrect` and `PoolIsAccounted`, however the two threads interleave inside `HashAdd`. The
  invariant is `PoolAccounted` with its places spelled out (`Lists`, `Placed`, and the total as
  the number of items in use, `PoolInv`). `LinkKeeps` and `UnlinkKeeps` say what the two operations that change a
  list do to it; they rest on `AllocIsFree` (an item that `HashAlloc` hands out is in no
  list, because the invariant says so), on `VictimIsPlace` (`HashDelete` stops inside
  the list) and on lemmas about removal from a sequence and least elements.
* `NoMoreThanOncePerThread`: a thread begins to add a client only when no item has it, so that every
  copy but the first was on its way in with another thread when the first was not yet there. The
  invariant counts the two together, and `HoldsIsInUse` says that the search of
  one bucket is a search of the whole pool.
* `TableImplementsSet`: each step is a step of `ClientSet` or a stutter, however the threads interleave.
  `FullPool` ties the abstract limit to `HashAlloc`: it finds nothing exactly when the count is
  that of the pool, because the count is that of the items in use. `LinkTakesIn` and `UnlinkLetsGo` are
  the two halves of the mapping: one item more, or one fewer, changes the copies of its own client by one
  and of no other.
* `ReportsAreComplete`, the action property. `WalkInv` says that
  the iterator stands on an item of its bucket and that every client still due is in some
  place it has yet to come to (`ToCome`). It survives because an addition leaves every
  item in its place (`LinkKeepsPlaces`) and a removal leaves the others in their order
  (`UnlinkKeepsOrder`), and it is enough because a walk ends only where no later bucket has an item
  (`FirstFromReaches`).

`AlarmProofs`, about `EthPods`, for any pods, list length, deadline and clock step:

* `EthPodsTypeCorrect`; `OnePodOneWatch`, inductive as it stands once the events' effects are lemmas;
* `NoEarlyAlarm`, the action property. `DeadlineInv` says that time waited plus
  distance of the deadline covers the timeout, for an entry whose deadline is set
  (`Set`), for one a handler is about to set (`AboutToSet`), and what the other
  thread's unfinished handler leaves (`OtherEnds`); only overlapping handlers escape, and they are `torn`.

and about `Parodus`, for any waits that do not shrink and any number of retries:

* `ParodusTypeCorrect`, for which `ParodusInv` adds that the exponent of a notification
  goes with the number of its attempts (`Counted`); `WaitsBounded` bounds what is left of a wait;
* `ConnectsInTime`: the connection cannot outwait `Patience`. The invariant `Within` relates how
  long parodus has been there to where the connection's thread is: one wait may have begun
  before the URL could be read, the next one ends in a connection, and `TwoWaits` adds the two up;
* `AddressIsWhole`: once the address is whole no thread finds it empty, and one that still writes
  writes what is there; a notification that sees part of it began before it was whole (`early`).

`FeatureFlagsProofs`, for either platform, any faults and any set of flags that has the
four that depend on each other:

* `TypeCorrect` is hard to come by, because a setter calls others: the sequences a
  thread can have to do are to be known. `Stacks` says them: an operation alone, OVS on or mesh off with
  GRE acceleration being turned off first, or mesh off with OVS and then GRE acceleration before
  it (`Alone`, `AfterGre`, `AfterOvs`), and under them what the boot has left to set, in its
  order. It holds whatever fails and whoever overlaps, and bounds how many setters are on top of
  one another.
* `NeverBothAccelerators`, `FlagsDoFollowMesh` and `ShownIsAlwaysKept` speak of an agent at rest and
  are not inductive: nothing in them says what a setter half-way has relied on.
  `Agreement` adds, for the one thread at work, what each operation has stored (`KeptIn`), what
  its decision saw and still holds (`DecidedIn`, `UnderGre`), and which flags the boot has
  not come to (`ToBoot`). That the boot sets every flag, in the order the later ones rely
  on, follows from `SortedAppend`.

`SocketServerProofs`, for any finite set of peers, any number of slots and at least a descriptor per
peer:

* `TypeCorrect`, however the threads overlap: `Kernel` is that a connection has one
  descriptor, so that `accept` finds one; `Control` is where a thread can be.
  `SlotsAccounted` and `LeaseNotLost` are checked, not proved: they hold of one thread inside at a time,
  which no lock of the code provides.

`PodBackhaulProofs`, for any pods, room, setters, platform, calls and faults:

* `TypeCorrect`: `Scripts` says which steps a thread can have left, and that a message once
  made up goes out next.
* `DisablingArrives`: `InOrder` says of an undisturbed agent that one thread at most is at
  work, that its message says what the flag says, and that a filter which must go is gone or a
  setter is on its way; `OpenForSend` that the descriptor is open only for a message about
  to go out.
* `TunnelsStayApart` adds only that -1 is no index (`Indexed`).

`WebConfigProofs`, for any documents, faults and number of crashes:

* `TypeCorrect`, for which a document with all it needs must unpack to two settings, and the answer
  has to go with the place of the executor (`Executions`).
* `RefusedTurnsNothingOn`: besides what is stored, what the cache and its backup would turn on
  has been asked for too, unless the executor is on its way to ask for it; a refusal goes
  back to the backup before anything else can read the cache.
* `CacheIsTheTruth`, the action property: `Progress` says at each place
  of the executor which of the settings is the document's already, what cache and backup hold,
  and that the error codes are the document's own.

`SyncMessagesProofs`, for any sample values of the fields, any number of notifications
that wait, and another thread's `strtok` at any moment:

* `TypeCorrect`: what waits is an event somebody can set (`Posted`), and a message
  under construction has a value for each field of its kind, a flag being true or false (`Fitting`).
  No parse writes a field its message does not have, wherever `rest` was moved by others.
* `NothingComesBack`, the action property: `Heard` says that an event whose parse got past the first token has an
  origin the branch listens to, and that a value was found only in such an event. It
  survives a torn parse because the origin is the one token that is compared before
  anybody else can move the position.
* `ToldFieldByField`, the action property: `TakenApart` says of a whole value that the fields
  before the one under way are converted and in place, that the others are blank still, and
  that `rest` is the value from there on (`InStep`). It rests on
  `StrtokSteps`, what `strtok` does to a value without an empty field.
* `NoServiceWithoutMesh`: as long as no restart of the wifi met a switch, `Follows` says that one which is
  about to act found mesh on, and that the service runs only with mesh on or while it is being
  switched on.

Model-checked only: the liveness properties (`MutexReleased`, `Converges`, `WalkEnds`, `WaitEnds`,
`EveryClientServed`, `RememberedPodFiltered`, `StatusAnswered`), because fairness
and `ENABLED` are beyond the prover; `SlotsAccounted` and `LeaseNotLost`; and what the two
violation runs show. Every other
invariant and every action property of a passing run, and both refinements, are theorems.

## Seen on the way

Behaviour that writing the model brought up and that no run claims, because the repository
promises nothing about it or promises the opposite in passing. The two
findings are the violation runs above.

* **Two requests to enable and disable that overlap** may leave mesh in the opposite state
  of what was stored last: the handlers wait for the mutex in no order (A:2574). `Agreement`
  holds for one request at a time, as proved, and fails as soon as two overlap.
* **Two threads that add the same client** add it twice (`mesh_client_table.c`:211), against the
  comment that it is added "if it isn't already there"; `OncePerThread` is what is left of that.
* **`HashDelete` may remove another client** of the bucket: its loop stops at an item with the same
  interface *or* the same mac (`mesh_client_table.c`:277). `Victim` keeps the condition.
* **`meshHandleEvent` returns 0** for a pod it knows, where the unit test expects `true`
  (`src/source/test/EthpodErrDet.cpp`:33); its caller does not look.
* **Lease updates pass while a resynchronisation is under way**: the bit that is set for its duration
  makes the mask non-zero, and `Mesh_sendDhcpLeaseUpdate` asks only whether the mask is 0 (A:3159, A:3193).
* **A failed webconfig document is reported as a success**, its version stored and nothing
  rolled back: the error code becomes the `bool` 1 and matches no code (`cosa_webconfig_api.c`:50).
  The code tested may also be that of an earlier handling that somebody else asked for.
* **An `Enable` after `Ethbhaul` is not read**, and a document without its wrapper turns both
  settings off (`helpers.c`:238).
* **`init_mb_cache` has no caller**: until the first document is applied, a rollback goes back
  to both off, whatever was stored.
* **Disabling mesh with the backhaul enabled** sends dnsmasq a START for the dummy address,
  not a STOP, because the flag is still set when the message is made up.

## Not modelled

* Setting the URL and the state by hand, connected clients set by hand, reading parameters and
  validation in the data model: single assignments with a message each, under no
  interleaving the other modules do not have.
* The wifi preconditions of an enabling (radio down, bridge mode, band steering, channel
  selection) in detail: each is one outcome, in `MeshEnable` and in `WebConfig`.
* The XHS port message of dnsmasq, and the vendor's own tunnel messages to the switch
  database, which this build does not contain.
* Host names of clients.
* A peer that does not read, for which `send` waits for ever; a failing `accept`; SIGPIPE.
* What a hash torn by another thread's `strtok` does to the client table.
* Start-up and the message bus (registration without state), the host filter scripts (text), and the
  manual test client.

## Plan

1. Abstract specifications of the other components: of the socket server, a lease log
   that every connected peer reads whole.
2. `HashAlloc` and the linking of `HashAdd` step by step, to show what two threads inside
   them do to the pool.
3. The data model's remaining setters and the wifi preconditions one by one.
