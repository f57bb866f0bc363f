# ExtensionsManager: TLA+ models, checks and proofs

ExtensionsManager runs third-party extensions ("plugins") for a host
application. A TypeScript library (`src/src`) gives the host its API; a Rust
kernel (`src/rust/extensions-kernel`), run as a daemon (`src/rust/extensionsd`)
or embedded through a C ABI, loads plugins, starts them as processes, wasm
instances or remote endpoints, and calls them. This directory holds TLA+ modules
of the parts whose correctness depends on order: threads, queues, locks, pipes,
timers, sessions, reservations, audit records, promises. TLC checks them on small
instances; TLAPS proves every safety property of the passing runs for every value of
the constants, and that the scheduler implements its abstract specification. Liveness is
checked by TLC alone.

`PROJECT.json` lists the components, the runs, a broken variant for every checked
property, the source lines behind every definition, the hazards, the findings and
the theorems. Paths below are relative to the repository.

## Inventory

### How the parts interact

```
 host code
   |  calls, promises, onPolicyConsent, onAudit
   v
 ExtensionManager --- PluginStore (files)      TypeScript, one thread
   |                       |
   |  runtime adapters     | catalog
   v                       v
 LocalKernelBridge | CommandKernelBridge
                        |  JSON lines: request in, response / accepted marker /
                        |  session event / audit event out
                        v
 extensionsd: daemon thread ---- writer thread        Rust
   |   sessions, tombstones, policy, reservations, audit ring
   |   job channel, in_flight, sink
   v
 worker pool --- Mutex<RuntimeHandle> per plugin instance
                        |  ManagedProcess: pending table, event staging queue
                        v
 plugin process (Node launcher or any executable) / wasm instance / remote endpoint
```

### Components

| component (source) | state it keeps | operations | what is hard | what makes it correct |
|---|---|---|---|---|
| Kernel scheduler (`lib.rs`, `extensionsd/src/main.rs`) | policy, pool generation, job channels, `in_flight_invokes`, handles and their mutexes, sink | policy.set, load, activate, deactivate, invoke; worker loop; writer loop | three kinds of threads; pool replaced under load; check and increment are two steps; the slot is freed before the answer is delivered | exact slot count, cap never passed, one answer for every accepted invoke, one call at a time in an instance |
| Plugin process channel (`lib.rs`) | pending table, staging queue, alive flag, next id | request, reader thread, take events, shutdown | answers late, twice, out of order or never; death at any point | answers not mixed up, entries not leaked, events conserved, death wakes callers |
| Kernel sessions (`lib.rs`) | sessions, tombstone ring and set, session ids | openSession, send, cancel, close | quota in the middle of a batch, tombstone eviction, reload under open sessions | host and kernel agree on what is usable; nothing after an end |
| Kernel admission (`lib.rs`) | policy, loaded extensions, reservations, caps of instances | policy.set, load, consent, activate | policy changes under what is loaded; failure in the middle of a load | reservations match what is loaded; no limit passed without a record |
| Kernel audit and accounting (`lib.rs`) | ring of 1024 records, counters, fuel and leak ratchets | record, query, stream | polling with a cursor while the ring drops; two copies of the accounting code | no record missed or repeated; reports match what happened |
| Wasm runtime (`wasm_runtime.rs`) | an instance, limiter counters, fuel armed and not yet taken | activate, invoke, byte invoke, tick, drain | counters that a failing call leaves for the next | a plugin is charged once |
| C ABI and Node binding (`capi.rs`, `extensions-kernel-napi`) | one kernel, data-plane handles, the receiver of the sink | request, handles, byte calls, reset, sink, drain | handles that outlive what they name; a sink installed again | a handle names one extension; the stream is complete |
| Security core (`extensions-security-core`) | none | the verdict on a manifest | the order of its checks decides what is reported and trusted | what is loaded is vouched for |
| Remote HTTP runtime | none between calls | calls | - | - |
| CommandKernelBridge (`src/src/kernel/CommandKernelBridge.ts`) | pending requests and their timers, session queues and readers, `closed` | load, invoke, openSession, session.send / cancel / close, nextEvent, dispose | marker and answer in either order, late answers, exit with requests in flight | callers get the final answer to their own request; nobody waits for good |
| LocalKernelBridge (`LocalKernelBridge.ts`) | records of loaded runtimes, active extensions | load, activate, deactivate, invoke, openSession, dispose | concurrent calls that interleave at awaits; runtimes that are spawned again | it agrees with the manager, and an ended process is replaced |
| ExtensionManager (`src/src/core/ExtensionManager.ts`) | registered extensions, permission grants, settings | load, activate, deactivate, invoke, openSession, dispose; the instance that load and get return | a permission prompt across an await; an instance that goes to the bridge without the manager | a decision ends with the deactivation after it; manager and bridge agree as far as the host lets them |
| PluginStore (`src/src/core/PluginStore.ts`) | installed files, pins | install, update, uninstall, pin | a sequence of file operations that stops half way | no mixture of versions |
| Runtime adapters, Node launcher, validation, TypeScript security core, config | little or none | forwarding, pure checks | - | - |

`PROJECT.json` has the same list with the status of each part, and 40 hazards: the
places where a test would hardly reach what goes wrong, each with the properties
that would notice.

## Modules

| module | models | checked by |
|---|---|---|
| `InvokeService` | the abstract promise of the scheduler: an invoke is answered at once or takes one of `cap` slots, executes, and is answered once | implemented by `KernelScheduler` |
| `KernelScheduler` | daemon thread, pool generations, workers, instance mutexes, sink, writer | `Scheduler`, `SchedulerHungPlugin` |
| `CallChannel` | the abstract promise of the channel to a plugin: calls one at a time, each ended once, by a failure or its own answer, with the events printed before it | implemented by `ProcessChannel` |
| `ProcessChannel` | one plugin process: callers, reader thread, pending table, staging queue | `Channel`, `ChannelLostAnswer` |
| `KernelSessions` | session handlers, event quota, tombstones | `Sessions`, `SessionsHostMistake` |
| `SecurityCore` | the verdict on a manifest: signature, trust, revocation | in `Admission` |
| `KernelAdmission` | policy and derived fuel, admission, reservations, consent, instance limits | `Admission`, `AdmissionEmbedded` |
| `WasmPlugin` | a wasm instance: memory limiter, fuel, counters to drain | in `Embedded` |
| `AuditLog` | the audit ring and the accounting of a plugin, as functions | in `Embedded` |
| `AuditStream` | the abstract promise of the audit log: numbered entries, a subscriber that is sent all of them, a reader that gets the oldest kept one it has not read | implemented by `EmbeddedKernel` |
| `EmbeddedKernel` | the kernel in its host's process: requests, handles, byte calls, audit log, sink | `Embedded` |
| `CommandKernelBridge` | the host's transport and sessions | `Bridge` |
| `ExtensionManager` | manager, the instance it gives out, local bridge and process adapter: calls on one extension | `Manager`, `ManagerStaleGrant` |
| `KernelSchedulerProofs`, `ProcessChannelProofs`, `KernelSessionsProofs`, `KernelAdmissionProofs`, `EmbeddedKernelProofs`, `CommandKernelBridgeProofs`, `ExtensionManagerProofs` | theorems and proofs about the module they are named after | TLAPS |
| `DataInduction` | lemmas for those proofs: induction over numbers, prefixes of a sequence and finite sets, the functions defined by it, greatest and least elements, sums | TLAPS |
| `MC...` | instances for TLC | |

The modules share boundaries and not variables. `KernelScheduler` treats a plugin
call as one interval in which the mutex is held; `ProcessChannel` says what happens
inside it. `KernelSessions` takes the batch of events of a call as given;
`ProcessChannel` says how the batch is collected. `KernelAdmission` decides whether
a load succeeds; the other kernel modules start where it did. `SecurityCore`, `WasmPlugin`
and `AuditLog` hold no variables: they are the functions that `KernelAdmission` and
`EmbeddedKernel` are built from.
`CommandKernelBridge` has the kernel as its environment, reduced to the lines it can
print and their order: in particular a worker's answer may be printed before the
daemon thread prints the accepted marker, which is what `KernelScheduler` allows
(`Enqueue` precedes `Reply`).

### KernelScheduler and the code

The daemon thread reads a request, runs the handler and prints one line.
`daemon.pc` is where it stands: in a handler that takes one step without waiting
the action is the whole handler (`SetPolicy`, `Reload`, `InvokeInactive`,
`InvokeBusy`), and a handler that waits or publishes is cut where other threads can
see the difference. `dispatch_invoke_async` is `InvokeAsync` (capacity check, pool
ensured, instance cloned), `Reserve` (`fetch_add`), `Enqueue` (`send`), `Reply`
(main prints). `run_async_job` is `Lock`, `Return`, `Settle` (`fetch_sub`),
`Deliver` (the sink). A plugin call is the interval between `Lock` and `Return`
(`DaemonLock` and `DaemonCallOk`/`DaemonCallFails`). A replaced pool keeps its
workers until its channel is empty (`Quit`). `PluginDies` is the environment.

Left out: session operations, which hold the daemon thread as `Deactivate` does;
wasm instances, never given to the pool; audit records, written and not read here.

### ProcessChannel and the code

`Begin` takes the mutex and an id, `WriteRequest` writes the line, `Insert` makes the
entry in `pending`, in the order of the code, and `ReturnDone` / `ReturnDead` are the
two ways out of the waiting loop. `TakeEvents` and `Kill` are what `RuntimeHandle`
does after the answer. `ReadFrame`, `ReadEof`, `MarkDead` and `FailAll` are the
reader thread. The plugin answers whatever it was asked, any number of times, prints
events and lines nobody can read, and dies.

### KernelSessions and the code

A handler is one action, since only the daemon thread touches sessions. A call to
the plugin is its outcome and a batch of events; `AppendSessionEvents` is the loop
with its early returns, and `Push` the capped queue. `fatal` is the error the daemon
exited with. Three variables are history. `stream` is what the host has seen of each
session; a close ends it in every case, since the host is always answered ok (1766-1787).
`early` holds the ids that the host closed before the daemon issued them. `serving` has the
runtime sessions a plugin has opened and was never asked to close: `Close` asks for one
by the number it had and on the instance the extension has now, and forgets it whatever the
plugin answers (1777, 1782).

What the model shows and no property forbids: an id closed early is refused only while its
tombstone lasts, and usable afterwards, even if the host closed it again and was answered
ok; a session used after its extension was reloaded calls the new instance by the number of
the old one (1743), which may be another session's; a plugin that refuses a close, or
was asked for it under such a number, keeps a session nobody can name.

### KernelAdmission and the code

A handler is one action. The capability list is folded to its strictest class as the
code does it; sums wrap at `Modulus` (2^64 in the code). `DeriveFuel` computes the fuel per
call from frame budget, share and calibration. `Embedded` tells a host that survives a
failed handler from a daemon that exits.

`Load` asks `SecurityCore.Verdict` with the context the request carries (policy, keys,
trust bundle, revocation list, clock). A manifest is a record of what the verdict looks
at; its canonical form is the manifest without its signature (`Unsigned`), and a
signature is who signed what, so that a manifest changed after it was signed does not
verify.

### EmbeddedKernel and the code

Every call of the host takes the mutex of the one kernel and is one action. A guest
call is what the guest does in it (fuel it burns, pages it asks for, the answer it
gives); `WasmPlugin.Run` is fuel and limiter. `Settle` is the accounting after a call:
`settle_invoke` for byte invokes and `account_fuel_trap` / `drain_wasm_telemetry` for
JSON invokes, which charge the same but at different outcomes: a failing JSON invoke
(`InvokeFails`) and a tick (`TickPtr`) leave their fuel and growth events in the instance.
They go with it when a load replaces it (1404-1416), and a failed activation drops what its
instance met (`ActivateFails`). `LoadFails` is the load that fails on the runtime's
contract after the reservation is gone (1395-1396): what is loaded goes on without a
slice. `LoadRejected` stands for the two ways in which a load is turned down before that.
`truth` is a history of what guests did, which the kernel's counters are compared with:
fuel and growth events an instance met (`burned`, `events`, advanced by `Ran`), the events
that went with an instance before they were drained (`lost`), the memory
and cost of each settled call (`usages`, `overs`), the reports made (`reports`) and the
handles given out (`given`). `host` polls from the last entry it was given, and `receiver` is the channel behind
`drain_async_responses`. Left out: latencies and call counts, null pointers and the
thread-local last error, process plugins and the pool, which `KernelScheduler` models.

What the model does and the documents do not say, or say otherwise: a tick is never
compared with the declared slice (`lib.rs` 784-809, though
`docs/embedded-kernel-data-plane.md` 94-96 speaks of ticks); `lastSeq` of a query is the
newest number of all, so that a host that goes on from it skips what `limit` cut off
(1238, `docs/host-integration-guide.md` 560); a deactivated wasm instance stays callable
(1479-1483); after `emk_reset` handles are numbered from one again.

### ExtensionManager and the code

One extension, with a runtime that is a process. A call of the host is a `task`, and an
action takes it from one await to the next. `ManagerOps` are the manager's operations;
`InstanceOps` those of the instance that `load` and `get` return (352-375), which go to the
bridge without the manager's flag and without the permission gate, as soon as the host
`held` one. `used` records which of the calls in `OneSided` the host has made, those that
set the flag of one layer only; `epoch` counts the deactivations, and `answers` what the user
decided, with the epochs in which the prompt was put and answered. When a promise settles,
the continuations of the callers run one layer per turn of the microtask queue: `queue` holds the calls
that are ready, and a call joins its end anew for each layer it returns through. That
order matters: the manager's flag is set a turn after the bridge's, and a model in which
ready calls go on in any order has states the program cannot reach. A call that has
spawned a process takes several turns before it adopts it, so it is on no turn (`Adopt`).
Plugin, timers and the user answer when no call is ready; the host may start a call at
any moment, since it runs between continuations too. A process that exits settles the
deactivates it answered, and the requests left on it fail (`Exits`).

Left out: settings, status probes, admission in the local bridge
(a load succeeds or fails), and runtimes that the bridge does not spawn again.

What the model shows and no property forbids: a load of a registered extension fails
after the bridge has replaced its process, and later invokes go to one that was never
activated (`LocalKernelBridge.ts` 49); two calls that recreate a runtime at once leave a
process behind; two first invokes ask the user twice; `openSession` asks nobody; a
process that died cannot be deactivated, hence not reinitialized (`deactivate` rejects and
the extension stays active); the instance's `invoke` and `openSession` ask nobody, and
its `activate` and `deactivate` leave manager and bridge with different flags.

### CommandKernelBridge and the code

JavaScript has one thread: an action is what runs between two returns to the event
loop. `Request` is `CommandKernelTransport.request`, `HandleLine` the line handler
with `handleResponse` and the event queue, `Timeout`, `WriteFails`, `ChildClose` and
`Dispose` the callbacks, and the `...Resumes` actions the continuation of an async
function after its await. Left out: audit events and their backlog, `activate`,
`deactivate` and `getAudit` (to the transport they are the modelled requests). A
kill takes effect at once, and lines of the same chunk behind a line that cannot be
read are not handled.

## Runs

Times are with two workers.

| run | bounds | states | result |
|---|---|---|---|
| `Scheduler` | 3 invokes, 1 extension, threads {0, 1, 2}, cap 2, 2 instances, 2 pools, 4 control requests | 223 815 | passes, 80 s |
| `SchedulerHungPlugin` | 2 extensions, one may hang | - | violated |
| `Channel` | 2 callers, 2 calls, 4 frames | 645 309 | passes, 31 s |
| `ChannelLostAnswer` | 1 caller, 1 call | - | violated |
| `Sessions` | 3 sessions, 2 instances, quota 2, capacity 1, batches of up to 3 | 1 786 807 | passes, 120 s |
| `SessionsHostMistake` | as above, smaller | - | violated |
| `Admission` | 2 extensions, 8 requests, 5 security contexts, 3 policies, modulus 64 | 45 915 | passes, 45 s |
| `AdmissionEmbedded` | as above, embedded host | - | violated |
| `Bridge` | 3 requests, 1 session, 2 events, 1 reader | 3 462 686 | passes, 80 s |
| `Embedded` | 2 extensions, 7 calls of the host, ring of 2, thresholds of 2 | 873 840 | passes, 45 s |
| `Manager` | 3 calls under way at once, 5 in all, 3 processes | 720 074 | passes, 20 s |
| `ManagerStaleGrant` | as above | - | violated |

### What the passing runs show

`Scheduler`: the threads implement `InvokeService` (`ImplementsService`), so no invoke
is answered twice and none is accepted while the cap in force is used up; the counter equals the number of
queued and executing invokes in every state (`SlotAccounting`); an instance is
entered by one thread at a time (`OneCallPerInstance`); an accepted invoke is answered
unless the daemon exits (`AcceptedIsAnswered`), over replaced pools, reloads,
deactivations and deaths.

`Channel`: pipe, reader and table implement `CallChannel` (`ImplementsCallChannel`), so a
call returns once and with the answer to its own id, even when older answers come late
or twice; the pending table holds entries of waiting callers only; a session's
events are handed on once, in order, and those printed before an answer are taken
with it; the death of the process releases everyone.

`Sessions`: apart from ids the host closed before they were issued (`early`), nothing
reaches the host after an end or a close it was answered (`NothingAfterEnd`), a
session the host saw end is refused for good, also after its tombstone was evicted, and one
it did not see end is usable (`HostAgrees`). Ring and set agree. What a running plugin
keeps and was never asked to close has an entry under which it can be closed
(`PluginSessionsHeld`); whether a plugin does what it is asked is its own affair.

`Admission`: reservations are those of the loaded residents, and a load passes a limit
only with a recorded override, over re-loads that change the class and policies
that change between. What is loaded was vouched for under the context it was loaded with:
signed with a known key over exactly this manifest where a signature is required, not
revoked, and issued by an authorized issuer of its publisher (`LoadedIsVouched`).

`Bridge`: a resolved promise has the final result of its own request, whichever of
marker and answer came first; every pending request has a timer, so none depends on
the daemon; the child's exit settles all; a session's events reach readers once and
in order; a closed session leaves no reader.

`Embedded`: a growth event of a guest is in the account of its extension, or waits in the
instance, or went with an instance before anyone drained it, and is never in two of these;
no fuel is counted twice, although failing calls, ticks and deactivates leave counters
behind (`ChargedOnce`); violations
and leaks are reported once per episode over both ways to invoke
(`ReportsMatchHistory`); a host that polls with a limit misses only what the ring had
dropped (`PollMissesNothing`); ring, query and sink implement `AuditStream`
(`ImplementsAuditStream`), so one that drains the sink has all since it was installed; a
handle names the extension it was given out for until the kernel is reset.

`Manager`: a deactivation that completes takes with it every decision the user gave
before, and the gate lets an invoke through only on a yes given since the invoke was made
(`DecisionsEndWithDeactivation`). The prompt may be older than that: see
`ManagerStaleGrant`. No call waits for a process that has exited (`TypeOK`). Once all calls
have returned, the bridge has the extension active if the manager has, unless the host
disposed the manager or deactivated the instance; the manager has if the bridge has, unless
the host disposed the manager or activated the instance; and a process that ended will be
replaced (`LifecycleSound`), whatever loads fail and plugins die in between.

### Bounds

Two workers, two pool generations and three invokes are the least with which a job
is queued in a replaced pool while a worker of it and one of the new pool execute;
four control requests are what it takes to activate, resize, reload and activate again.
Two callers and two calls let an answer of an earlier call meet a later one, and
four frames let an event, a duplicate and an unreadable line surround the two
answers. A quota of 2 with batches of 3 puts the breach before, at and after the
end event; a capacity of 1 with 3 sessions evicts. The manifests lie on both sides of
every cap. Three requests let the bridge have one late, one accepted and one pending
at the exit. A ring of 2 drops within the calls that report a violation; seven calls of the
host are enough to load, activate, resolve, pass both thresholds and poll twice. Three calls
at once put two deactivates, or a prompt and a deactivate, beside an activate, and five in
all end an activation and begin the next. The real values: quota 4096, tombstones 65 536, audit ring 1024, request
timeout 5 s and 120 s after the marker, `Modulus` 2^64. Quotas, capacities and
caps, and the thresholds of leaks (32) and violations (8), enter by comparison only, and `Modulus` by the wrapped sum of admission.

### Fairness

`KernelScheduler`: the daemon thread, every worker and the writer thread are weakly
fair, as threads of one process are. Weak fairness does not promise a waiting thread
the mutex, and none is needed: other owners run out of finite queues. A call into an instance is fair unless its
extension is in `Hanging`: the code waits for a plugin without a timeout, so that a
plugin answers is an assumption and not a promise. The host owes nothing.
`ProcessChannel`: callers and the reader are fair, the plugin is not; the waiting
loop looks at `alive` every 100 ms, so a death is noticed without a notification.
`KernelSessions`, `KernelAdmission`, `EmbeddedKernel`, `ExtensionManager` and
`CommandKernelBridge` assume no fairness:
`PendingIsTimed` is the safety form of "every promise is settled", and needs only
that timers fire.

## Findings

Each violated run states what a comment of the repository says, and TLC shows a
behaviour of the code that does not do so.

- `SchedulerHungPlugin` / `OtherPluginsProceed`: workers are shared by all plugins and
  a call has no timeout, and `deactivate` waits for the instance on the daemon
  thread; one plugin that never answers starves the others, which the comment on
  `ManagedProcess` excludes.
- `ChannelLostAnswer` / `AnsweredCallReturns`: the request is written (`lib.rs` 2158)
  before its entry exists (2165), and the reader drops an answer without entry (2131).
- `SessionsHostMistake` / `HostMistakesAreAnswered`: "extension not loaded" and "session
  not found" are not among the texts `is_expected_runtime_error` knows (1108-1117),
  and the daemon exits on them.
- `AdmissionEmbedded` / `ReservedForTheLoad`: a re-load that fails after 1395 leaves a
  resident without its reservation when the kernel is embedded.
- `ManagerStaleGrant` / `PromptedSinceDeactivation`: an invoke asks the user, the extension
  is reinitialized, the user says yes, and the yes opens the gate of the new activation
  (`ExtensionManager.ts` 200-201), where by the comments at 151 and 173-174 a prompt of its own
  is due.

Read from the code and modelled in `LoadResumes`, without a run: the bridge looks for
KERNEL_CONSENT_REQUIRED in a message that never contains it (`CommandKernelBridge.ts`
96-97, 535), so the consent handler that the comment at 49-51 promises is never called.

## Proofs

Every theorem holds for all values of the constants that satisfy the module's
assumptions: bounds are natural numbers, and what the host may send is well formed
(`RequestsAssumption`, `ContextsAssumption`, `PoliciesAssumption`, `EmbeddedAssumption`:
sizes are numbers, optional fields have at most one value, a bundle is a list).
`SchedulerAssumption` asks for one extension and one cap, `ChannelAssumption` for a session
and a value that is no caller, `ManagerAssumption` for finitely many calls under way. TLC
evaluates each assumption on its run. The invariants below were checked by TLC on the
runs' instances before they were proved. In each module there is one lemma for each
action, which says what the action keeps of the invariant, and the theorem named
`...Inductive` or `...Types` combines them; the other theorems follow from it.

| theorem | property | component |
|---|---|---|
| `TypeCorrect`, `SlotsAccounted`, `EveryAnswerIsFinal`, `BackpressureHolds` | `TypeOK`, `SlotAccounting`, `AnsweredOnce`, `Backpressure` | scheduler |
| `CallsAreSerialized` | `OneCallPerInstance` | scheduler |
| `SchedulerImplementsService` | `ImplementsService` | scheduler |
| `ChannelTypeOK`, `AnswersAreOwn`, `EntriesHaveCallers` | `TypeOK`, `AnswerIsOwn`, `NoAbandonedEntry` | process channel |
| `ChannelImplements` | `ImplementsCallChannel` | process channel |
| `EventsAreConserved`, `EventsPrecedeAnswers` | `EventsConserved`, `EventsBeforeAnswer` | process channel |
| `SessionTypeOK`, `BatchesAreAppended`, `TombstonesAreBounded` | `TypeOK`, `AppendedAsDescribed`, `TombstonesBounded` | sessions |
| `NothingFollowsTheEnd`, `HostAndKernelAgree`, `NothingIsOrphaned` | `NothingAfterEnd`, `HostAgrees`, `PluginSessionsHeld` | sessions |
| `AdmissionTypeOK`, `StrictestTierIsTaken`, `LoadsAreVouched` | `TypeOK`, `TierIsStrictest`, `LoadedIsVouched` | admission |
| `DaemonReservations`, `InstancesAreAsAdmitted`, `LoadsKeepThePolicy` | `ReservedForTheLoad`, `InstanceAsAdmitted`, `ExceptionsAreRecorded` | admission |
| `EmbeddedTypeOK`, `HandlesAreStable`, `CallsAreChargedOnce` | `TypeOK`, `HandleNamesOne`, `ChargedOnce` | embedded kernel |
| `ReportsAreTrue`, `PollsMissNothing`, `StreamIsComplete` | `ReportsMatchHistory`, `PollMissesNothing`, `StreamedAsRecorded` | embedded kernel |
| `AuditStreamImplemented` | `ImplementsAuditStream` | embedded kernel |
| `BridgeTypeOK`, `EveryCallIsTimed`, `ExitLeavesNobodyWaiting` | `TypeOK`, `PendingIsTimed`, `ExitSettlesAll` | bridge |
| `AnswersAreFinal`, `ClosedSessionsAreEmpty`, `EventsComeInOrder` | `AnswerIsFinal`, `ClosedLeavesNothing`, `EventsInOrder` | bridge |
| `ManagerTypeOK`, `PromptsHold`, `LifecycleIsSound` | `TypeOK`, `DecisionsEndWithDeactivation`, `LifecycleSound` | manager |

`AnswerIsOwn` and `StreamedAsRecorded` are not properties of a run of their own: TLC checks
the refinements that contain them (`ImplementsCallChannel`, `ImplementsAuditStream`).

Two theorems have hypotheses of their own. `DaemonReservations` is about the daemon
(`Embedded = FALSE`): the run `AdmissionEmbedded` shows that an embedded kernel breaks the
property. `LoadsKeepThePolicy` asks that the extensions are finitely many and that what
residents declare cannot add up to `Modulus`: the kernel adds declared sizes
without a check (`lib.rs` 1355), and with declarations near 2^64 a load would pass the
total unseen. The run's instance satisfies it (2 extensions of 2 MiB, `Modulus` 64).

### KernelSchedulerProofs

`SlotAccounting` is not inductive alone. `Settle` subtracts one from the counter and
removes a request from `Holding`: that it leaves `Holding` needs that nobody else owns
it (`OneOwner`), that the worker has one (`JobHeld`), and the count needs `Holding` to be
finite. `Enqueue` moves a request from the daemon to a channel: that it is not
already somewhere needs `DaemonRequest` (requests not yet sent are nowhere).
`Backpressure` needs that the daemon, between its check and `Reserve`, still has a free
slot, although policy changes are impossible then and workers only free slots
(`DispatchReady`). So

    IInv = TypeOK /\ SlotAccounting /\ OneOwner /\ JobHeld /\ DaemonRequest
           /\ Answers /\ DispatchReady

`OneCallPerInstance` needs `MutexInv` besides: a thread is in an instance exactly while
it owns its mutex (`MutexHeld`). An `Activate` starts an instance with a free mutex, which
keeps that only because nobody knows the number of an instance before it is started
(`InstancesKnown`), and a worker finds a mutex to take because every dispatched invoke was
given an instance (`InstanceGiven`).

`SchedulerImplementsService` maps a request to the stage of the abstract service by who
holds it (`StatusOf`), and `Executing` to `Holding`, whose size is the counter. The initial state maps to
the initial state; `Reserve` is an accept, which `Backpressure` allows; `Settle` finishes
an execution; `Deliver` answers it; a final reply of the daemon answers at once; a policy
reconfigures; the exit of the daemon is the stop of the service; every other step
stutters, each shown from the invariant.

### ProcessChannelProofs

`TypeInv` adds to the types that the mutex is with the one caller that is not idle
(`OneCall`). Answers: an answered entry stands under its own id (`EntryIsOwn`), so the
caller takes its own whatever came before. Events: `SeenInOrder` says that events behind
a response in the pipe were printed after it, and that what an answer had before it is
staged or handed on once it is delivered; that is what `EventsBeforeAnswer` needs at the
moment when the caller returns, and it depends on one reader handling frames in order.

`ChannelImplements` reads the mutex as the turn, `next_id - 1` as the number of calls made
and `outcome` as the result. `Begin` opens a call, the plugin's answers and events are
`Answer` and `Emit`, the three ways in which a request ends are `Settle`, `TakeEvents`
is `HandOn`, `Kill` is `Release`; writing, the entry in the table and every step of the
reader stutter. `Settle` needs that the answer was given to that call by the plugin
(`Given`: what is in the pipe or in the table was), and that it saw no more events than
were printed; `HandOn` needs that what is staged are the next events (`EventsConserved`)
and the answer's events among them (`SeenInOrder`); `Stands` says what a caller has in
hand where it stands. The abstract channel is without the crash of the plugin: a call it
interrupts fails, which `Settle` allows at any time.

### KernelSessionsProofs

`BatchesAreAppended` is about the loop: for a batch of any length its early returns
leave what the description says, by induction over the positions of the batch. Tombstones:
queue and set name the same ids, none twice. `NothingAfterEnd` and `HostAgrees` follow from `StreamInv`:
but for the ids in `early`, the host's view of a stream is open exactly for the sessions in
the table that are not closed, and a tombstone is of an issued id that has left the table.
`HeldInv` (a session that a running plugin was not asked to close has an entry in the table) needs
that instances are fresh: a session of an earlier instance never passes for one of
the running instance (`InstancesFresh`).

### KernelAdmissionProofs

`StrictestTierIsTaken` is an induction over the fold of capability classes.
`LoadsAreVouched` unfolds the verdict branch by branch. `InstanceAsAdmitted` is
inductive with the types; `ReservedForTheLoad` is, for the daemon, since the daemon ends
when a load fails after it released the old reservation. `LoadsKeepThePolicy` needs the
sum over all reservations: `TotalIsSum` shows that the library's fold is a sum in which
any element may be taken first, so that what is reserved after a load is what it declares
and what the others hold, and `SumBound` keeps it below the word.

### EmbeddedKernelProofs

    Inv = LoadedInv /\ ChargeInv /\ ReportsInv /\ HandleInv /\ LogInv

`ChargeInv`: growth events charged to an extension, those that wait in its
instance and those lost with an earlier one add up to those it met, and no pending fuel was
charged before. `ReportsInv`: each ratchet is a function of the whole history (`Agrees`): the high water is the greatest usage, the
count of new highs the number of times it rose, the streak the length of the last run of
calls above the slice, and violations the number of runs that reached the threshold.
`LogInv`: the ring holds the newest numbers without a gap (`LogOK`), the queue of the sink
is everything since it was installed (`StreamInv`), and the host's cursor, what it read and
what it missed fit the ring (`PollInv`). A call that records several entries is
proved by induction over the entries.

`AuditStreamImplemented` reads `next - 1` as the number of entries recorded. A call of the
host or of a guest that records entries is `Write` (one that records none stutters),
`Install` is `Subscribe`, `Drain` is `Deliver`, `Poll` is `Read` and `Reset` is `Restart`;
everything else stutters. `Read` needs that the query, a loop over the ring, answers with
consecutive entries from the first that is kept and newer than the cursor (`QueryFacts`,
from `LogOK`); `Write` that the entries are numbered on from `next` (`EntriesFacts`).

### CommandKernelBridgeProofs

`PendingIsTimed` is inductive with the shapes of its two functions. `ExitSettlesAll`
needs `ClosedWithChild`: nothing can be sent after the close, since the close handler
sets `closed` and `request` looks at it first. The others rest on `BridgeInv`, which
ties the promises to the two pipes: a request is read once and marked once
(`StdinInv`, `MarkersInv`), a marker is only ever for an invoke that is not settled
(`LinesInv`), and behind the answer to a close no event of the session is printed
(`CloseInv`), so that a session the host has shut stays empty (`ShutInv`). `SeenInv` adds that
readers and queue have a run of events without a gap.

### ExtensionManagerProofs

    Inv = TypeInv /\ TaskInv /\ OwnedInv /\ EndedInv /\ QueueInv /\ AgreeInv
          /\ DecisionsEndWithDeactivation

`LifecycleSound` speaks only of states in which all calls have returned. What holds in
between: a process belongs to one record, or to the one call that has spawned and not
adopted it (`OwnedInv`); a record whose process has ended will spawn another, or the
call that ended it is about to say so (`EndedInv`); and of the calls in the microtask queue
that are about to set the manager's flag, the last one agrees with the bridge's flag
(`AgreeInv`). That is so until the host makes a call that sets one layer's flag alone, and
then still for the value of the bridge's flag that this call does not produce (`Taints`).
Here the order of continuations enters: flags are set in the order in which the bridge's
were, because the queue is first in, first out.

### DataInduction

The induction theorems of the library take an operator as a parameter, which the provers
cannot instantiate. `DataInduction` derives from the well-foundedness of the numbers
versions that take a set instead ("a set with 0 and every successor is `Nat`",
`PrefixInduction`, `SubsetInduction`), and that a function defined step by step over
`0..n`, or element by element over the subsets of a finite set, exists. So the recursive
functions and the folds of the models can be unfolded. Models and proofs declare no
RECURSIVE operator.

### Only model-checked

`AcceptedIsAnswered` and `DeathReleasesCallers` are liveness under fairness, which TLAPS
does not prove, and are checked on the instances of `Scheduler` and `Channel`. The violated
runs are counterexamples and prove nothing beyond themselves. That the modules fit
together at their boundaries is argued above and not proved.

## Not modelled

The remote runtime of the kernel (one blocking exchange per call, no state between
calls); the wasm engine, module cache and calibration; manifest validation and
artifact resolution, the configuration entry point (pure or run once); the TypeScript
security core, which computes what `SecurityCore` models from the same data; the Node
launcher (environment of `ProcessChannel`); `PluginStore`, whose steps are file
operations; the adapters other than the process's; the backlog of audit records in
`CommandKernelBridge`.

## Plan

Done: `InvokeService`, `KernelScheduler`, `CallChannel`, `ProcessChannel`, `KernelSessions`,
`KernelAdmission`, `CommandKernelBridge`, `SecurityCore`, `WasmPlugin`, `AuditLog`, `AuditStream`,
`EmbeddedKernel`, `ExtensionManager`, and the proofs of every safety property their
passing runs check.

Next:

1. Composition over the abstract specifications: `KernelSessions` and `KernelScheduler`
   as clients of `CallChannel`, whose batches and answers they take as given now.
2. `PluginStore`: install, update and uninstall as sequences of file operations that
   stop anywhere.
3. Session operations in `KernelScheduler`: the daemon thread waits for an instance in
   them as in `Deactivate`.
