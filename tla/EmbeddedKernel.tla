--------------------------- MODULE EmbeddedKernel ---------------------------
(***************************************************************************)
(* The kernel inside its host's process: the C ABI (capi.rs), the Node     *)
(* binding (extensions-kernel-napi), wasm plugins called with JSON or with *)
(* bytes through a data-plane handle, what their calls are charged for,    *)
(* and the audit log that the host polls and drains.                       *)
(*                                                                         *)
(* Every call of the host holds the mutex of the one kernel, so it is one  *)
(* action.  A call that only answers an error (an unknown handle, a null   *)
(* pointer, an extension that is not active) changes nothing and is not an *)
(* action.  Admission and its reasons are KernelAdmission's; process       *)
(* plugins and the pool are KernelScheduler's.                             *)
(***************************************************************************)
EXTENDS Naturals, Sequences, FiniteSets, FiniteSetsExt, SequencesExt,
        WasmPlugin, AuditLog

CONSTANTS
  Extensions,
  Loads,       \* what an extension may be loaded with
  Guests,      \* what a guest may do in a call
  Limits,      \* limits the host polls with
  MaxSteps     \* bound: calls of the host

Requests == {"fits", "large"}
Exports == {"ext_call", "ext_tick", "numeric", "lifecycle"}

ASSUME EmbeddedAssumption ==
  /\ Loads \subseteq [exports : SUBSET Exports, soft : Nat, hard : Nat, initial : Nat,
                     fuel : Nat, slice : SUBSET Nat]
  /\ \A l \in Loads : \A x, y \in l.slice : x = y
  /\ \A g \in Guests : {g.burn, g.grow} \subseteq Nat /\ g.answer \in {"ok", "bad"}
  /\ Limits \subseteq Nat /\ DefaultFuel \in Nat

VARIABLES
  loaded,      \* what each loaded extension was loaded with; slice is its reservation's
  plugin,      \* the instance of each extension with a runtime handle
  handles,     \* data-plane handles: KernelDaemon.handles
  nextHandle,
  accounting,  \* PluginAccounting of each extension
  audit,       \* AuditLog
  sink,        \* is there a response sink?
  receiver,    \* what DRAIN receives (sequence numbers) and what was drained of it
  host,        \* the cursor of the host's polls and what it read with them
  steps        \* counts the calls of the host

\* What really happened, in terms the kernel does not use.
VARIABLES
  burned,      \* fuel burned by each extension
  events,      \* growth events its instances met
  lost,        \* those of them that went with an instance, not yet drained
  usages,      \* the memory seen at each of its settled calls
  overs,       \* were its settled calls with a known cost above their slice?
  reports,     \* the reports made about it
  given        \* the handles given out, with their extensions

ran == <<burned, events, lost>>
settled == <<usages, overs, reports>>
truth == <<ran, settled, given>>
kernel == <<loaded, plugin, handles, nextHandle, accounting, audit, sink>>
vars == <<kernel, receiver, host, truth, steps>>

ForEach(value) == [e \in Extensions |-> value]
NoReports == [leaks |-> 0, violations |-> 0]

NewHost == [cursor |-> 0, read |-> <<>>, missed |-> {}]

Init ==
  /\ loaded = <<>> /\ plugin = <<>>
  /\ handles = <<>> /\ nextHandle = 1
  /\ accounting = ForEach(NoAccounting)
  /\ audit = EmptyLog
  /\ sink = FALSE
  /\ receiver = [from |-> 1, queue |-> <<>>, drained |-> <<>>]
  /\ host = NewHost
  /\ burned = ForEach(0) /\ events = ForEach(NoEvents) /\ lost = ForEach(NoEvents)
  /\ usages = ForEach(<<>>) /\ overs = ForEach(<<>>) /\ reports = ForEach(NoReports)
  /\ given = {}
  /\ steps = 0

With(f, x, v) == [y \in DOMAIN f \cup {x} |-> IF y = x THEN v ELSE f[y]]
Without(f, x) == [y \in DOMAIN f \ {x} |-> f[y]]

-----------------------------------------------------------------------------
(* The audit log of the running kernel: what is pushed is streamed first, and what
   the ring then drops, the host can no longer read.                        *)

Seqs(entries) == [i \in DOMAIN entries |-> entries[i].seq]
SeqsIn(log) == {log.ring[i].seq : i \in DOMAIN log.ring}

Record(e, kinds) ==
  LET new == Entries(audit, e, kinds)
  IN  /\ audit' = Push(audit, new)
      /\ receiver' = IF sink THEN [receiver EXCEPT !.queue = @ \o Seqs(new)] ELSE receiver
      /\ host' = [host EXCEPT !.missed =
                   @ \cup {s \in host.cursor + 1 .. audit'.next - 1 : s \notin SeqsIn(audit')}]

-----------------------------------------------------------------------------
(* Requests (emk_request).                                                  *)

\* The growth events and the fuel that an instance has not been charged for.
Waiting(e) == IF e \in DOMAIN plugin THEN NewEvents(plugin[e]) ELSE NoEvents
Pending(e) == IF e \in DOMAIN plugin THEN plugin[e].pending ELSE {}

\* kernel.load of something admitted, by the host's override or without: the instance
\* goes with what was not drained of it; handles and accounting stay.
Load(e, l, override) ==
  /\ override => l.soft = l.hard
  /\ Record(e, When(override, "policy.consent_override"))
  /\ loaded' = With(loaded, e, l)
  /\ plugin' = Without(plugin, e)
  /\ lost' = [lost EXCEPT ![e] = Plus(@, Waiting(e))]
  /\ UNCHANGED <<burned, events, settled, given>>
  /\ UNCHANGED <<handles, nextHandle, accounting, sink>>

\* A load that is rejected or needs consent, entries that nothing here tells apart.
LoadRejected(e) ==
  /\ Record(e, <<"admission.rejected">>)
  /\ UNCHANGED <<loaded, plugin, handles, nextHandle, accounting, sink, truth>>

\* kernel.load fails on the runtime's contract, after the old reservation is gone:
\* what is loaded has no slice any more, and the fuel that is derived without one.
LoadFails(e, override) ==
  /\ override \/ e \in DOMAIN loaded
  /\ Record(e, When(override, "policy.consent_override"))
  /\ \E fuel \in {DefaultFuel} \cup {l.fuel : l \in Loads} :
       loaded' = [x \in DOMAIN loaded |->
                    IF x = e THEN [loaded[x] EXCEPT !.slice = {}, !.fuel = fuel] ELSE loaded[x]]
  /\ UNCHANGED <<plugin, handles, nextHandle, accounting, sink, truth>>

\* What happened in a guest call that took the plugin p to q and burned this fuel.
Ran(e, p, q, fuel) ==
  /\ burned' = [burned EXCEPT ![e] = @ + fuel]
  /\ events' = [events EXCEPT ![e] = Plus(@, Minus(q.events, p.events))]
  /\ UNCHANGED lost

\* The guest's own activate, where it has one, does as asked.
Activates(p, g) == "lifecycle" \in p.exports => ~Traps(p, g) /\ g.answer = "ok"

\* kernel.activate: the guest's own activate runs under the default fuel, its calls
\* under what the load derived.
Activate(e, g) ==
  /\ e \in DOMAIN loaded \ DOMAIN plugin
  /\ Instantiates(loaded[e])
  /\ LET fresh == Instantiate(loaded[e])
         ready == Lifecycle(fresh, g)
     IN  /\ Activates(fresh, g)
         /\ plugin' = With(plugin, e, [ready EXCEPT !.fuel = loaded[e].fuel])
         /\ burned' = [burned EXCEPT ![e] = @ + LifecycleBurned(fresh, g)]
         /\ events' = [events EXCEPT ![e] = Plus(@, ready.events)]
  /\ UNCHANGED <<lost, settled, given>>
  /\ UNCHANGED <<loaded, handles, nextHandle, accounting, audit, sink, receiver, host>>

\* kernel.activate fails in the limiter or in the guest: the new instance is dropped.
ActivateFails(e, g) ==
  /\ e \in DOMAIN loaded \ DOMAIN plugin
  /\ LET fresh == Instantiate(loaded[e])
         runs == Instantiates(loaded[e])
         met == IF runs THEN Lifecycle(fresh, g).events ELSE fresh.events
     IN  /\ ~(runs /\ Activates(fresh, g))
         /\ burned' = [burned EXCEPT ![e] = @ + IF runs THEN LifecycleBurned(fresh, g) ELSE 0]
         /\ events' = [events EXCEPT ![e] = Plus(@, met)]
         /\ lost' = [lost EXCEPT ![e] = Plus(@, met)]
  /\ UNCHANGED <<settled, given>>
  /\ UNCHANGED <<kernel, receiver, host>>

\* kernel.deactivate: the guest's own deactivate may trap, and the instance stays.
Deactivate(e, g) ==
  /\ e \in DOMAIN plugin
  /\ LET p == plugin[e]
         q == Lifecycle(p, g)
     IN  /\ plugin' = [plugin EXCEPT ![e] = q]
         /\ Ran(e, p, q, LifecycleBurned(p, g))
  /\ UNCHANGED <<settled, given>>
  /\ UNCHANGED <<loaded, handles, nextHandle, accounting, audit, sink, receiver, host>>

\* settle_invoke, or account and drain_wasm_telemetry: p has become q.
Settle(e, p, q, fuel, trap) ==
  LET a == accounting[e]
      slice == loaded[e].slice
      kinds == Reports(a, trap, NewEvents(q), q.pages, q.pending, slice)
      Is(kind) == IF Contains(kinds, kind) THEN 1 ELSE 0
  IN  /\ accounting' = [accounting EXCEPT ![e] =
                          Charge(a, trap, NewEvents(q), q.pages, q.pending, slice)]
      /\ Record(e, kinds)
      /\ plugin' = [plugin EXCEPT ![e] = Drained(q)]
      /\ Ran(e, p, q, fuel)
      /\ usages' = [usages EXCEPT ![e] = Append(@, q.pages)]
      /\ overs' = IF q.pending = {} \/ slice = {} THEN overs
                  ELSE [overs EXCEPT ![e] = Append(@, OverSlice(q.pending, slice))]
      /\ reports' = [reports EXCEPT ![e] =
                       [leaks |-> @.leaks + Is("leak.suspected"),
                        violations |-> @.violations + Is("contract.violation")]]
      /\ UNCHANGED given

\* What a JSON invoke calls.
EntryOf(p) == IF "ext_call" \in p.exports THEN "ext_call" ELSE "numeric"

\* kernel.invoke: telemetry is drained after success only.
InvokeSucceeds(e, request, g) ==
  /\ e \in DOMAIN plugin
  /\ LET p == plugin[e]
     IN  /\ Outcome(p, EntryOf(p), request, g) = "ok"
         /\ Settle(e, p, Called(p, EntryOf(p), request, g),
                   Burned(p, EntryOf(p), request, g), FALSE)
  /\ UNCHANGED <<loaded, handles, nextHandle, sink>>

InvokeFails(e, request, g) ==
  /\ e \in DOMAIN plugin
  /\ LET p == plugin[e]
         q == Called(p, EntryOf(p), request, g)
         outcome == Outcome(p, EntryOf(p), request, g)
     IN  /\ outcome # "ok"
         /\ accounting' = [accounting EXCEPT ![e] = RecordTrap(@, outcome = "trap")]
         /\ Record(e, When(outcome = "trap", "fuel.trap"))
         /\ plugin' = [plugin EXCEPT ![e] = q]
         /\ Ran(e, p, q, Burned(p, EntryOf(p), request, g))
  /\ UNCHANGED <<settled, given>>
  /\ UNCHANGED <<loaded, handles, nextHandle, sink>>

\* kernel.audit.query, by a host that goes on from the last entry it was given.
Poll(limit) ==
  /\ LET seqs == Seqs(Query(audit, host.cursor, limit))
     IN  /\ seqs # <<>>
         /\ host' = [host EXCEPT !.cursor = Last(seqs), !.read = @ \o seqs]
  /\ UNCHANGED <<kernel, receiver, truth>>

-----------------------------------------------------------------------------
(* The data plane and the rest of the C ABI and the Node binding.           *)

\* Broken variant: handles are numbered by how many there are.
NextHandleByCount == Cardinality(DOMAIN handles) + 1

NextHandle == nextHandle

\* emk_handle_resolve: the handle the extension has, or a new one.
Resolve(e) ==
  /\ e \in DOMAIN loaded
  /\ \A h \in DOMAIN handles : handles[h] # e
  /\ handles' = With(handles, NextHandle, e)
  /\ nextHandle' = NextHandle + 1
  /\ given' = given \cup {<<NextHandle, e>>}
  /\ UNCHANGED <<ran, settled>>
  /\ UNCHANGED <<loaded, plugin, accounting, audit, sink, receiver, host>>

\* emk_handle_release.
Release(h) ==
  /\ h \in DOMAIN handles
  /\ handles' = Without(handles, h)
  /\ UNCHANGED <<loaded, plugin, nextHandle, accounting, audit, sink, receiver, host,
                 truth>>

\* invoke_bytes: telemetry is drained whatever the outcome.
InvokeBytes(e, request, g) ==
  LET p == plugin[e]
  IN  Settle(e, p, Called(p, "ext_call", request, g), Burned(p, "ext_call", request, g),
             Outcome(p, "ext_call", request, g) = "trap")

\* tick_bytes: nothing is charged for a tick.
TickBytes(e, request, g) ==
  LET p == plugin[e]
      q == Called(p, "ext_tick", request, g)
  IN  /\ plugin' = [plugin EXCEPT ![e] = q]
      /\ Ran(e, p, q, Burned(p, "ext_tick", request, g))
      /\ UNCHANGED <<settled, given>>

\* The handle is registered and its extension is active.
Reaches(h) == h \in DOMAIN handles /\ handles[h] \in DOMAIN plugin

\* emk_invoke_ptr.
InvokePtr(h, request, g) ==
  /\ Reaches(h)
  /\ InvokeBytes(handles[h], request, g)
  /\ UNCHANGED <<loaded, handles, nextHandle, sink>>

\* emk_tick_ptr.
TickPtr(h, request, g) ==
  /\ Reaches(h)
  /\ TickBytes(handles[h], request, g)
  /\ UNCHANGED <<loaded, handles, nextHandle, accounting, audit, sink, receiver, host>>

\* emk_reset: a new kernel, numbered from one again and without a sink.  The host
\* knows, and polls from the start.
Reset ==
  /\ loaded' = <<>> /\ plugin' = <<>>
  /\ handles' = <<>> /\ nextHandle' = 1
  /\ accounting' = ForEach(NoAccounting)
  /\ audit' = EmptyLog
  /\ sink' = FALSE
  /\ host' = NewHost
  /\ burned' = ForEach(0) /\ events' = ForEach(NoEvents) /\ lost' = ForEach(NoEvents)
  /\ usages' = ForEach(<<>>) /\ overs' = ForEach(<<>>) /\ reports' = ForEach(NoReports)
  /\ given' = {}
  /\ UNCHANGED receiver

\* install_response_sink: the new receiver replaces the old with what is left in it.
Install ==
  /\ sink' = TRUE
  /\ receiver' = [from |-> audit.next, queue |-> <<>>, drained |-> <<>>]
  /\ UNCHANGED <<loaded, plugin, handles, nextHandle, accounting, audit, host, truth>>

\* Broken variant: one envelope is returned and the others go with it.
DrainOne ==
  /\ receiver.queue # <<>>
  /\ receiver' = [receiver EXCEPT !.drained = Append(@, Head(receiver.queue)), !.queue = <<>>]
  /\ UNCHANGED <<kernel, host, truth>>

\* drain_async_responses.
Drain ==
  /\ receiver.queue # <<>>
  /\ receiver' = [receiver EXCEPT !.drained = @ \o receiver.queue, !.queue = <<>>]
  /\ UNCHANGED <<kernel, host, truth>>

-----------------------------------------------------------------------------

GuestStep(g) ==
  \/ \E e \in Extensions : Activate(e, g) \/ ActivateFails(e, g) \/ Deactivate(e, g)
  \/ \E request \in Requests :
       \/ \E e \in Extensions : InvokeSucceeds(e, request, g) \/ InvokeFails(e, request, g)
       \/ \E h \in DOMAIN handles : InvokePtr(h, request, g) \/ TickPtr(h, request, g)

Step ==
  \/ \E g \in Guests : GuestStep(g)
  \/ \E e \in Extensions, override \in BOOLEAN :
       (\E l \in Loads : Load(e, l, override)) \/ LoadFails(e, override)
  \/ \E e \in Extensions : LoadRejected(e) \/ Resolve(e)
  \/ \E h \in DOMAIN handles : Release(h)
  \/ \E limit \in Limits : Poll(limit)
  \/ Reset \/ Install \/ Drain

Next ==
  \/ steps < MaxSteps /\ steps' = steps + 1 /\ Step
  \/ steps = MaxSteps /\ UNCHANGED vars

Spec == Init /\ [][Next]_vars

-----------------------------------------------------------------------------
(* Properties.                                                              *)

\* Type correctness; the ring holds the newest entries, numbered without a gap.
TypeOK ==
  /\ DOMAIN loaded \subseteq Extensions /\ DOMAIN plugin \subseteq DOMAIN loaded
  /\ \A e \in DOMAIN plugin :
       /\ plugin[e].pages <= plugin[e].hard
       /\ Cardinality(plugin[e].pending) <= 1
  /\ DOMAIN handles \subseteq 1..nextHandle - 1
  /\ Seqs(audit.ring) = [i \in DOMAIN audit.ring |-> audit.next - 1 - Len(audit.ring) + i]
  /\ Len(audit.ring) = Min({Capacity, audit.next - 1})
  /\ sink \in BOOLEAN

\* A handle names the extension it was given out for and no other, until the host
\* resets the kernel: however often extensions are loaded, resolved and released, a
\* host that calls through an old handle does not reach another extension.
HandleNamesOne ==
  /\ \A h \in DOMAIN handles : <<h, handles[h]>> \in given
  /\ \A x, y \in given : x[1] = y[1] => x[2] = y[2]
  /\ \A h, k \in DOMAIN handles : handles[h] = handles[k] => h = k

\* A plugin is charged at most once for what its guest did, and nothing is made up: a
\* growth event is in its account, or waits in the instance, or went with an instance
\* that a load replaced or whose activation failed before a settled call drained it;
\* and no fuel is counted twice, whichever calls fail, tick or are refused in between.
ChargedOnce ==
  \A e \in Extensions :
    /\ accounting[e].soft + Waiting(e).soft + lost[e].soft = events[e].soft
    /\ accounting[e].denied + Waiting(e).denied + lost[e].denied = events[e].denied
    /\ accounting[e].consumed + Max({0} \cup Pending(e)) <= burned[e]

\* The ends of the maximal runs of TRUE that reach the threshold.
Episodes(over) ==
  {i \in StreakThreshold..Len(over) :
     /\ \A j \in i - StreakThreshold + 1 .. i : over[j]
     /\ i > StreakThreshold => ~over[i - StreakThreshold]}

\* The observations above all earlier ones.
HighWaters(seen) ==
  {i \in DOMAIN seen : seen[i] > Max({0} \cup {seen[j] : j \in 1..i - 1})}

\* The audit log reports a contract violation once per episode of too many settled
\* calls in a row above the slice, and a suspected leak exactly once, when the memory
\* reached its threshold of new high waters: over both ways to invoke, reloads and
\* calls that leave telemetry behind for the next one.
ReportsMatchHistory ==
  \A e \in Extensions :
    /\ reports[e].violations = Cardinality(Episodes(overs[e]))
    /\ reports[e].violations = accounting[e].violations
    /\ reports[e].leaks =
         IF Cardinality(HighWaters(usages[e])) >= LeakThreshold THEN 1 ELSE 0

\* A host that polls from the last entry it was given reads entries in order, none
\* twice, and misses only what the ring had dropped before it polled.
PollMissesNothing ==
  /\ \A i, j \in DOMAIN host.read : i < j => host.read[i] < host.read[j]
  /\ 1..host.cursor \subseteq Range(host.read) \cup host.missed
  /\ host.missed \cap SeqsIn(audit) = {}

\* What the host drained and what waits to be drained is what the kernel recorded
\* since the sink was installed, complete and in order, until the kernel is reset.
StreamedAsRecorded ==
  LET streamed == receiver.drained \o receiver.queue
  IN  /\ streamed = [i \in DOMAIN streamed |-> receiver.from + i - 1]
      /\ sink => receiver.from + Len(streamed) = audit.next

-----------------------------------------------------------------------------
(* The abstract audit stream.                                               *)

Stream == INSTANCE AuditStream
            WITH recorded <- audit.next - 1, streaming <- sink, waiting <- receiver.queue,
                 delivered <- receiver.drained, cursor <- host.cursor, read <- host.read,
                 Kept <- Capacity

\* The ring, the loop of a query and the sink implement the abstract audit stream: a
\* host that polls gets the oldest kept entries it has not read, and one that drains
\* gets all that was recorded since it installed its sink.
ImplementsAuditStream == Stream!Spec
=============================================================================
