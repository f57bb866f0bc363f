----------------------------- MODULE WasmPlugin -----------------------------
(***************************************************************************)
(* An in-process wasm plugin (rust/extensions-kernel/src/wasm_runtime.rs): *)
(* the memory limiter, fuel, and the counters the kernel drains.           *)
(*                                                                         *)
(*   plugin  [exports, soft, hard, fuel, pages, events, reported, pending] *)
(*           with the fuel per call, the limiter's counters and what was   *)
(*           already drained of them, and the fuel consumed by the last    *)
(*           armed call that nobody has taken yet (a set of at most one)   *)
(*   guest   [burn, grow, answer]: what the guest does in a call.  Fuel    *)
(*           beyond its budget traps; it may ask for more pages once; its  *)
(*           answer is "bad" if it reports failure, is out of range or too *)
(*           large for the caller's buffer.  A request that cannot be      *)
(*           written to the guest's memory is [0, 0, "bad"]: fuel is       *)
(*           armed, and the guest not run.                                 *)
(***************************************************************************)
EXTENDS Naturals, FiniteSets, FiniteSetsExt

CONSTANT DefaultFuel  \* DEFAULT_CALL_FUEL

\* Growth events are counted above the soft limit and where they are denied.
NoEvents == [soft |-> 0, denied |-> 0]
SoftEvent == [soft |-> 1, denied |-> 0]
DeniedEvent == [soft |-> 0, denied |-> 1]
Plus(x, y) == [soft |-> x.soft + y.soft, denied |-> x.denied + y.denied]
Minus(x, y) == [soft |-> x.soft - y.soft, denied |-> x.denied - y.denied]

\* Broken variant: the size before the growth is compared with the limit.
GrowFromCurrent(p, desired) ==
  IF p.pages >= p.hard THEN [p EXCEPT !.events = Plus(p.events, DeniedEvent)]
  ELSE [p EXCEPT !.pages = desired,
                 !.events = IF desired > p.soft THEN Plus(p.events, SoftEvent) ELSE p.events]

\* MemoryLimiter::memory_growing: beyond the hard limit growth is denied, beyond the
\* soft limit it is counted.
Grow(p, desired) ==
  IF desired > p.hard THEN [p EXCEPT !.events = Plus(p.events, DeniedEvent)]
  ELSE [p EXCEPT !.pages = desired,
                 !.events = IF desired > p.soft THEN Plus(p.events, SoftEvent) ELSE p.events]

\* An instance for the load l before its first page, which the limiter sees as well.
Fresh(l) ==
  [exports |-> l.exports, soft |-> Min({l.soft, l.hard}), hard |-> l.hard,
   fuel |-> DefaultFuel, pages |-> 0, events |-> NoEvents, reported |-> NoEvents,
   pending |-> {}]

Instantiates(l) == l.initial <= l.hard
Instantiate(l) == IF l.initial = 0 THEN Fresh(l) ELSE Grow(Fresh(l), l.initial)

\* What a run burns of the fuel armed for it.
Burn(p, g) == Min({g.burn, p.fuel})

\* arm_fuel and the guest's run.
Run(p, g) ==
  LET grown == IF g.grow = 0 THEN p ELSE Grow(p, p.pages + g.grow)
  IN  [grown EXCEPT !.pending = {Burn(p, g)}]

Traps(p, g) == g.burn > p.fuel

\* call_bytes_into and tick_bytes_into give up before fuel is armed.
Refuses(p, export, request) == export \notin p.exports \/ request = "large"

\* The plugin after a call, and what the caller gets.
Called(p, export, request, g) == IF Refuses(p, export, request) THEN p ELSE Run(p, g)

Burned(p, export, request, g) == IF Refuses(p, export, request) THEN 0 ELSE Burn(p, g)

Outcome(p, export, request, g) ==
  IF Refuses(p, export, request) THEN "refused"
  ELSE IF Traps(p, g) THEN "trap" ELSE g.answer

\* call_optional_lifecycle.
Lifecycle(p, g) == IF "lifecycle" \in p.exports THEN Run(p, g) ELSE p

LifecycleBurned(p, g) == IF "lifecycle" \in p.exports THEN Burn(p, g) ELSE 0

\* take_memory_events: the counters since they were last drained.
NewEvents(p) == Minus(p.events, p.reported)

\* Broken variant: the fuel of the last call stays to be taken again.
DrainedEvents(p) == [p EXCEPT !.reported = p.events]

\* The plugin after take_memory_events and take_fuel_consumed.
Drained(p) == [p EXCEPT !.reported = p.events, !.pending = {}]
=============================================================================
