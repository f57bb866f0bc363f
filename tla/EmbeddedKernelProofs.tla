------------------------ MODULE EmbeddedKernelProofs ------------------------
(***************************************************************************)
(* Proofs about EmbeddedKernel, for any extensions, loads and guests, and  *)
(* for any number of calls of the host.                                    *)
(***************************************************************************)
EXTENDS EmbeddedKernel, DataInduction, FiniteSetTheorems, SequenceTheorems

-----------------------------------------------------------------------------
(* The inductive invariant, part by part.                                   *)

Growth == [soft : Nat, denied : Nat]

Plugins ==
  [exports : SUBSET Exports, soft : Nat, hard : Nat, fuel : Nat, pages : Nat,
   events : Growth, reported : Growth, pending : SUBSET Nat]

AtLeast(x, y) == x.soft >= y.soft /\ x.denied >= y.denied

\* An instance within its limit, that reported no more than it met.
PluginOK(p) ==
  /\ p \in Plugins
  /\ p.pages <= p.hard
  /\ AtLeast(p.events, p.reported)
  /\ \A x, y \in p.pending : x = y

Accounts ==
  [traps : Nat, soft : Nat, denied : Nat, highWater : Nat, newHighs : Nat,
   leakReported : BOOLEAN, consumed : Nat, streak : Nat, violations : Nat]

\* What an extension was loaded with, whether its slice is still reserved or not.
LoadOK(l) ==
  /\ l \in [exports : SUBSET Exports, soft : Nat, hard : Nat, initial : Nat, fuel : Nat,
            slice : SUBSET Nat]
  /\ \A x, y \in l.slice : x = y

LoadedInv ==
  /\ DOMAIN loaded \subseteq Extensions /\ DOMAIN plugin \subseteq DOMAIN loaded
  /\ \A e \in DOMAIN loaded : LoadOK(loaded[e])
  /\ \A e \in DOMAIN plugin : PluginOK(plugin[e])
  /\ accounting \in [Extensions -> Accounts]

\* The account a, what waits to be charged and what is gone add up to what happened.
Charged(a, waiting, gone, pending, met, fuel) ==
  /\ a.soft + waiting.soft + gone.soft = met.soft
  /\ a.denied + waiting.denied + gone.denied = met.denied
  /\ a.consumed <= fuel
  /\ \A c \in pending : a.consumed + c <= fuel

ChargeInv ==
  /\ burned \in [Extensions -> Nat] /\ events \in [Extensions -> Growth]
  /\ lost \in [Extensions -> Growth]
  /\ \A e \in Extensions :
       Charged(accounting[e], Waiting(e), lost[e], Pending(e), events[e], burned[e])

HandleInv ==
  /\ nextHandle \in Nat \ {0}
  /\ handles \in [DOMAIN handles -> Extensions]
  /\ DOMAIN handles \subseteq 1..nextHandle - 1
  /\ given \subseteq (1..nextHandle - 1) \X Extensions
  /\ HandleNamesOne

Kinds == {"fuel.trap", "memory.growth_denied", "memory.pressure", "leak.suspected",
          "contract.violation", "admission.rejected", "policy.consent_override"}
Rows == [seq : Nat, kind : Kinds, extension : Extensions]

\* The number of the oldest entry in the ring.
Oldest(log) == log.next - Len(log.ring)

\* The ring holds the newest entries, numbered without a gap.
LogOK(log) ==
  /\ log \in [ring : Seq(Rows), next : Nat \ {0}]
  /\ Len(log.ring) = Min({Capacity, log.next - 1})
  /\ \A i \in DOMAIN log.ring : log.ring[i].seq = Oldest(log) + i - 1

StreamInv ==
  /\ sink \in BOOLEAN
  /\ receiver \in [from : Nat \ {0}, queue : Seq(Nat), drained : Seq(Nat)]
  /\ StreamedAsRecorded

PollInv ==
  /\ host \in [cursor : Nat, read : Seq(Nat), missed : SUBSET Nat]
  /\ host.cursor < audit.next
  /\ \A i \in DOMAIN host.read : host.read[i] <= host.cursor
  /\ \A i, j \in DOMAIN host.read : i < j => host.read[i] < host.read[j]
  /\ 1..host.cursor \subseteq Range(host.read) \cup host.missed
  /\ host.cursor + 1 .. Oldest(audit) - 1 \subseteq host.missed
  /\ \A s \in host.missed : s < Oldest(audit)

\* highWater is the largest of what was seen, and 0 before anything was.
HighWaterOf(seen, highWater) ==
  /\ \A i \in DOMAIN seen : seen[i] <= highWater
  /\ highWater # 0 => \E i \in DOMAIN seen : seen[i] = highWater

\* The last streak elements of over are TRUE, and the one before them is not.
StreakOf(over, streak) ==
  /\ streak <= Len(over)
  /\ \A j \in Len(over) - streak + 1 .. Len(over) : over[j]
  /\ streak < Len(over) => ~over[Len(over) - streak]

Reported == [leaks : Nat, violations : Nat]

\* The account a and the reports made agree with the memory seen and the slices exceeded.
Agrees(a, seen, over, made) ==
  /\ HighWaterOf(seen, a.highWater)
  /\ a.newHighs = Cardinality(HighWaters(seen))
  /\ a.leakReported <=> a.newHighs >= LeakThreshold
  /\ made.leaks = IF a.leakReported THEN 1 ELSE 0
  /\ StreakOf(over, a.streak)
  /\ a.violations = Cardinality(Episodes(over))
  /\ made.violations = a.violations

ReportsInv ==
  /\ usages \in [Extensions -> Seq(Nat)] /\ overs \in [Extensions -> Seq(BOOLEAN)]
  /\ reports \in [Extensions -> Reported]
  /\ \A e \in Extensions : Agrees(accounting[e], usages[e], overs[e], reports[e])

-----------------------------------------------------------------------------
(* What the model's assumptions say of a load and of a guest.               *)

LEMMA LoadFacts ==
  ASSUME NEW l, LoadOK(l)
  PROVE  /\ l.exports \subseteq Exports
         /\ l.soft \in Nat /\ l.hard \in Nat /\ l.initial \in Nat /\ l.fuel \in Nat
         /\ l.slice \in SUBSET Nat /\ \A x, y \in l.slice : x = y
  BY DEF LoadOK

LEMMA GuestFacts ==
  ASSUME NEW g \in Guests
  PROVE  g.burn \in Nat /\ g.grow \in Nat
  BY EmbeddedAssumption

LEMMA NatConcat ==
  ASSUME NEW s \in Seq(Nat), NEW t \in Seq(Nat), NEW u \in Seq(Nat)
  PROVE  (s \o t) \o u = s \o (t \o u)
  OBVIOUS

LEMMA MinOfTwo ==
  ASSUME NEW a \in Nat, NEW b \in Nat
  PROVE  /\ Min({a, b}) \in Nat /\ Min({a, b}) <= a /\ Min({a, b}) <= b
         /\ Min({a, b}) = a \/ Min({a, b}) = b
         /\ a <= b => Min({a, b}) = a
         /\ b <= a => Min({a, b}) = b
  <1>1. {a, b} \in SUBSET Nat /\ {a, b} # {}
    OBVIOUS
  <1>2. Min({a, b}) \in {a, b} /\ \A y \in {a, b} : Min({a, b}) <= y
    BY <1>1, MinFact
  <1> QED
    BY <1>2

-----------------------------------------------------------------------------
(* WasmPlugin: what a step of an instance keeps, and what it adds.          *)

LEMMA GrowthFacts ==
  /\ NoEvents \in Growth /\ NoEvents.soft = 0 /\ NoEvents.denied = 0
  /\ SoftEvent \in Growth /\ DeniedEvent \in Growth
  /\ \A x, y \in Growth : Plus(x, y) \in Growth /\ AtLeast(Plus(x, y), x)
  /\ \A x, y \in Growth : AtLeast(x, y) => Minus(x, y) \in Growth
  BY DEF NoEvents, SoftEvent, DeniedEvent, Plus, Minus, AtLeast, Growth

LEMMA PluginFacts ==
  ASSUME NEW p, PluginOK(p)
  PROVE  /\ p \in Plugins /\ p.hard \in Nat /\ p.soft \in Nat /\ p.fuel \in Nat
         /\ p.pages \in Nat /\ p.pages <= p.hard
         /\ p.events \in Growth /\ p.reported \in Growth
         /\ AtLeast(p.events, p.reported)
         /\ p.pending \in SUBSET Nat /\ \A x, y \in p.pending : x = y
         /\ NewEvents(p) \in Growth
  <1>1. p \in Plugins /\ p.pages <= p.hard /\ AtLeast(p.events, p.reported)
        /\ \A x, y \in p.pending : x = y
    BY DEF PluginOK
  <1>2. p.events \in Growth /\ p.reported \in Growth
    BY <1>1 DEF Plugins
  <1>3. NewEvents(p) \in Growth
    BY <1>1, <1>2, GrowthFacts DEF NewEvents
  <1> QED
    BY <1>1, <1>2, <1>3 DEF Plugins

LEMMA GrowOK ==
  ASSUME NEW p, PluginOK(p), NEW desired \in Nat
  PROVE  /\ PluginOK(Grow(p, desired))
         /\ Grow(p, desired).reported = p.reported
         /\ Grow(p, desired).pending = p.pending
         /\ AtLeast(Grow(p, desired).events, p.events)
  <1>1. /\ Plus(p.events, SoftEvent) \in Growth /\ AtLeast(Plus(p.events, SoftEvent), p.events)
        /\ Plus(p.events, DeniedEvent) \in Growth /\ AtLeast(Plus(p.events, DeniedEvent), p.events)
    BY PluginFacts, GrowthFacts
  <1>2. AtLeast(p.events, p.events)
    BY PluginFacts DEF AtLeast, Growth
  <1>3. PICK n \in Growth : AtLeast(n, p.events)
                             /\ \/ Grow(p, desired) = [p EXCEPT !.events = n]
                                \/ /\ desired <= p.hard
                                   /\ Grow(p, desired) = [p EXCEPT !.pages = desired, !.events = n]
    <2>1. CASE desired > p.hard
      BY <1>1, <2>1 DEF Grow
    <2>2. CASE ~(desired > p.hard) /\ desired > p.soft
      <3>1. desired <= p.hard
        BY <2>2, PluginFacts
      <3>2. Grow(p, desired) = [p EXCEPT !.pages = desired, !.events = Plus(p.events, SoftEvent)]
        BY <2>2 DEF Grow
      <3> QED
        BY <1>1, <3>1, <3>2
    <2>3. CASE ~(desired > p.hard) /\ ~(desired > p.soft)
      <3>1. desired <= p.hard /\ p.events \in Growth
        BY <2>3, PluginFacts
      <3>2. Grow(p, desired) = [p EXCEPT !.pages = desired, !.events = p.events]
        BY <2>3 DEF Grow
      <3> QED
        BY <1>2, <3>1, <3>2
    <2> QED
      BY <2>1, <2>2, <2>3
  <1>4. AtLeast(n, p.reported)
    BY <1>3, PluginFacts DEF AtLeast, Growth
  <1>5. CASE Grow(p, desired) = [p EXCEPT !.events = n]
    <2> DEFINE q == [p EXCEPT !.events = n]
    <2>1. /\ q \in Plugins /\ q.pages = p.pages /\ q.hard = p.hard /\ q.events = n
          /\ q.reported = p.reported /\ q.pending = p.pending
      BY PluginFacts DEF Plugins
    <2> HIDE DEF q
    <2>2. PluginOK(q)
      BY <2>1, <1>4, PluginFacts DEF PluginOK
    <2> QED
      BY <1>3, <1>5, <2>1, <2>2 DEF q
  <1>6. CASE desired <= p.hard
             /\ Grow(p, desired) = [p EXCEPT !.pages = desired, !.events = n]
    <2> DEFINE q == [p EXCEPT !.pages = desired, !.events = n]
    <2> p \in Plugins
      BY PluginFacts
    <2>1. /\ q \in Plugins /\ q.pages = desired /\ q.hard = p.hard /\ q.events = n
          /\ q.reported = p.reported /\ q.pending = p.pending
      BY DEF Plugins
    <2> HIDE DEF q
    <2>2. PluginOK(q)
      BY <2>1, <1>4, <1>6, PluginFacts DEF PluginOK
    <2> QED
      BY <1>3, <1>6, <2>1, <2>2 DEF q
  <1> QED
    BY <1>3, <1>5, <1>6

LEMMA InstantiateOK ==
  ASSUME NEW l, LoadOK(l)
  PROVE  /\ PluginOK(Instantiate(l))
         /\ Instantiate(l).reported = NoEvents
         /\ Instantiate(l).pending = {}
  <1>1. /\ Fresh(l) \in Plugins /\ Fresh(l).pages = 0 /\ Fresh(l).hard = l.hard
        /\ Fresh(l).events = NoEvents /\ Fresh(l).reported = NoEvents
        /\ Fresh(l).pending = {}
    <2>1. Min({l.soft, l.hard}) \in Nat
      BY LoadFacts, MinOfTwo
    <2>2. DefaultFuel \in Nat
      BY EmbeddedAssumption
    <2> QED
      BY <2>1, <2>2, LoadFacts, GrowthFacts DEF Fresh, Plugins
  <1>2. PluginOK(Fresh(l))
    BY <1>1, LoadFacts, GrowthFacts DEF PluginOK, AtLeast
  <1>3. CASE l.initial = 0
    BY <1>1, <1>2, <1>3 DEF Instantiate
  <1>4. CASE l.initial # 0
    <2>1. Instantiate(l) = Grow(Fresh(l), l.initial) /\ l.initial \in Nat
      BY <1>4, LoadFacts DEF Instantiate
    <2> QED
      BY <1>1, <1>2, <2>1, GrowOK
  <1> QED
    BY <1>3, <1>4

\* What a call may do to an instance and its fuel.
Progress(p, q, fuel) ==
  /\ PluginOK(q)
  /\ q.reported = p.reported
  /\ AtLeast(q.events, p.events)
  /\ fuel \in Nat
  /\ \/ q.pending = p.pending /\ fuel = 0
     \/ q.pending = {fuel}

LEMMA NoProgress ==
  ASSUME NEW p, PluginOK(p)
  PROVE  Progress(p, p, 0)
  BY PluginFacts DEF Progress, AtLeast, Growth

LEMMA RunOK ==
  ASSUME NEW p, PluginOK(p), NEW g \in Guests
  PROVE  Progress(p, Run(p, g), Burn(p, g))
  <1>1. Burn(p, g) \in Nat
    BY GuestFacts, PluginFacts, MinOfTwo DEF Burn
  <1> DEFINE r == IF g.grow = 0 THEN p ELSE Grow(p, p.pages + g.grow)
             q == [r EXCEPT !.pending = {Burn(p, g)}]
  <1>2. PluginOK(r) /\ r.reported = p.reported /\ AtLeast(r.events, p.events)
    <2>1. CASE g.grow = 0
      BY <2>1, PluginFacts DEF AtLeast, Growth
    <2>2. CASE g.grow # 0
      <3>1. p.pages + g.grow \in Nat
        BY GuestFacts, PluginFacts
      <3> QED
        BY <2>2, <3>1, GrowOK
    <2> QED
      BY <2>1, <2>2
  <1>3. Run(p, g) = q
    BY DEF Run
  <1> HIDE DEF r
  <1>4. /\ q \in Plugins /\ q.pages = r.pages /\ q.hard = r.hard /\ q.events = r.events
        /\ q.reported = r.reported /\ q.pending = {Burn(p, g)}
    BY <1>1, <1>2, PluginFacts DEF Plugins
  <1> HIDE DEF q
  <1>5. PluginOK(q)
    BY <1>2, <1>4, PluginFacts DEF PluginOK
  <1> QED
    BY <1>1, <1>2, <1>3, <1>4, <1>5 DEF Progress

LEMMA CalledOK ==
  ASSUME NEW p, PluginOK(p), NEW g \in Guests, NEW export, NEW request
  PROVE  Progress(p, Called(p, export, request, g), Burned(p, export, request, g))
  BY NoProgress, RunOK DEF Called, Burned

LEMMA LifecycleOK ==
  ASSUME NEW p, PluginOK(p), NEW g \in Guests
  PROVE  Progress(p, Lifecycle(p, g), LifecycleBurned(p, g))
  BY NoProgress, RunOK DEF Lifecycle, LifecycleBurned

LEMMA DrainedOK ==
  ASSUME NEW p, PluginOK(p)
  PROVE  /\ PluginOK(Drained(p))
         /\ Drained(p).pending = {}
         /\ NewEvents(Drained(p)) = NoEvents
  <1> DEFINE q == Drained(p)
  <1>1. /\ q \in Plugins /\ q.pages = p.pages /\ q.hard = p.hard /\ q.events = p.events
        /\ q.reported = p.events /\ q.pending = {}
    <2>1. p \in Plugins /\ p.events \in Growth
      BY PluginFacts
    <2> QED
      BY ONLY <2>1 DEF Drained, Plugins
  <1> HIDE DEF q
  <1>2. PluginOK(q)
    BY <1>1, PluginFacts DEF PluginOK, AtLeast, Growth
  <1>3. NewEvents(q) = NoEvents
    BY <1>1, PluginFacts DEF NewEvents, Minus, NoEvents, Growth
  <1> QED
    BY <1>1, <1>2, <1>3 DEF q
\* Activation sets the fuel of the load.
LEMMA RefuelledOK ==
  ASSUME NEW p, PluginOK(p), NEW fuel \in Nat
  PROVE  LET q == [p EXCEPT !.fuel = fuel]
         IN  /\ PluginOK(q) /\ q.pending = p.pending
             /\ q.events = p.events /\ q.reported = p.reported
  <1> DEFINE q == [p EXCEPT !.fuel = fuel]
  <1>1. /\ q \in Plugins /\ q.pages = p.pages /\ q.hard = p.hard /\ q.events = p.events
        /\ q.reported = p.reported /\ q.pending = p.pending
    <2>1. p \in Plugins
      BY PluginFacts
    <2> QED
      BY <2>1 DEF Plugins
  <1> HIDE DEF q
  <1>2. PluginOK(q)
    BY <1>1, PluginFacts DEF PluginOK
  <1> QED
    BY <1>1, <1>2 DEF q

-----------------------------------------------------------------------------
(* PluginAccounting: what a settled call changes.                           *)

LEMMA RecordTrapFacts ==
  ASSUME NEW a \in Accounts, NEW trap \in BOOLEAN
  PROVE  LET b == RecordTrap(a, trap)
         IN  /\ b \in Accounts /\ b.soft = a.soft /\ b.denied = a.denied
             /\ b.highWater = a.highWater /\ b.newHighs = a.newHighs
             /\ b.leakReported = a.leakReported /\ b.consumed = a.consumed
             /\ b.streak = a.streak /\ b.violations = a.violations
  <1>1. PICK n \in Nat : RecordTrap(a, trap) = [a EXCEPT !.traps = n]
    <2>1. a.traps \in Nat /\ a.traps + 1 \in Nat
      BY DEF Accounts
    <2>2. CASE trap
      BY <2>1, <2>2 DEF RecordTrap
    <2>3. CASE ~trap
      BY <2>1, <2>3 DEF RecordTrap
    <2> QED
      BY <2>2, <2>3
  <1> QED
    BY <1>1 DEF Accounts

LEMMA RecordEventsFacts ==
  ASSUME NEW a \in Accounts, NEW new \in Growth
  PROVE  LET b == RecordEvents(a, new)
         IN  /\ b \in Accounts
             /\ b.soft = a.soft + new.soft /\ b.denied = a.denied + new.denied
             /\ b.highWater = a.highWater /\ b.newHighs = a.newHighs
             /\ b.leakReported = a.leakReported /\ b.consumed = a.consumed
             /\ b.streak = a.streak /\ b.violations = a.violations
  <1> DEFINE soft == a.soft + new.soft
             denied == a.denied + new.denied
  <1>1. soft \in Nat /\ denied \in Nat
    <2>1. new.soft \in Nat /\ new.denied \in Nat
      BY DEF Growth
    <2>2. a.soft \in Nat /\ a.denied \in Nat
      BY DEF Accounts
    <2> QED
      BY <2>1, <2>2
  <1>2. RecordEvents(a, new) = [a EXCEPT !.soft = soft, !.denied = denied]
    BY DEF RecordEvents
  <1> HIDE DEF soft, denied
  <1>3. LET b == RecordEvents(a, new)
        IN  /\ b \in Accounts /\ b.soft = soft /\ b.denied = denied
            /\ b.highWater = a.highWater /\ b.newHighs = a.newHighs
            /\ b.leakReported = a.leakReported /\ b.consumed = a.consumed
            /\ b.streak = a.streak /\ b.violations = a.violations
    BY <1>1, <1>2 DEF Accounts
  <1> QED
    BY <1>3 DEF soft, denied

LEMMA ObserveUsageFacts ==
  ASSUME NEW a \in Accounts, NEW usage \in Nat
  PROVE  LET b == ObserveUsage(a, usage)
         IN  /\ b \in Accounts /\ b.soft = a.soft /\ b.denied = a.denied
             /\ b.highWater = IF usage > a.highWater THEN usage ELSE a.highWater
             /\ b.newHighs = IF usage > a.highWater THEN a.newHighs + 1 ELSE a.newHighs
             /\ b.leakReported <=> a.leakReported \/ LeakSuspected(a, usage)
             /\ b.consumed = a.consumed
             /\ b.streak = a.streak /\ b.violations = a.violations
  <1>1. CASE usage > a.highWater
    <2>2. a.newHighs + 1 \in Nat
      BY DEF Accounts
    <2> DEFINE reported == a.leakReported \/ LeakSuspected(a, usage)
    <2>3. reported \in BOOLEAN
      OBVIOUS
    <2>4. ObserveUsage(a, usage) =
            [a EXCEPT !.highWater = usage, !.newHighs = a.newHighs + 1, !.leakReported = reported]
      BY <1>1 DEF ObserveUsage
    <2> HIDE DEF reported
    <2>5. /\ ObserveUsage(a, usage) \in Accounts
          /\ ObserveUsage(a, usage).leakReported = reported
          /\ ObserveUsage(a, usage).highWater = usage
          /\ ObserveUsage(a, usage).newHighs = a.newHighs + 1
          /\ ObserveUsage(a, usage).soft = a.soft /\ ObserveUsage(a, usage).denied = a.denied
          /\ ObserveUsage(a, usage).consumed = a.consumed
          /\ ObserveUsage(a, usage).streak = a.streak
          /\ ObserveUsage(a, usage).violations = a.violations
      BY <2>2, <2>3, <2>4 DEF Accounts
    <2> QED
      BY <1>1, <2>5 DEF reported
  <1>2. CASE ~(usage > a.highWater)
    <2>1. ObserveUsage(a, usage) = a /\ ~LeakSuspected(a, usage)
      BY <1>2 DEF ObserveUsage, LeakSuspected
    <2> QED
      BY <1>2, <2>1
  <1> QED
    BY <1>1, <1>2

\* Is the cost of a call known, and is there a slice to compare it with?
Counted(consumed, slice) == consumed # {} /\ slice # {}

LEMMA CountFuelFacts ==
  ASSUME NEW a \in Accounts, NEW consumed \in SUBSET Nat, NEW slice \in SUBSET Nat,
         \A x, y \in consumed : x = y
  PROVE  LET b == CountFuel(a, consumed, slice)
         IN  /\ b \in Accounts /\ b.soft = a.soft /\ b.denied = a.denied
             /\ b.highWater = a.highWater /\ b.newHighs = a.newHighs
             /\ b.leakReported = a.leakReported
             /\ ~Counted(consumed, slice) =>
                  /\ b.consumed = a.consumed
                  /\ b.streak = a.streak /\ b.violations = a.violations
             /\ Counted(consumed, slice) =>
                  /\ \A c \in consumed : b.consumed = a.consumed + c
                  /\ b.streak = IF OverSlice(consumed, slice) THEN a.streak + 1 ELSE 0
                  /\ b.violations =
                       IF Violates(a, consumed, slice) THEN a.violations + 1 ELSE a.violations
  <1>1. CASE ~Counted(consumed, slice)
    <2>1. CountFuel(a, consumed, slice) = a
      BY <1>1 DEF CountFuel, Counted
    <2> QED
      BY <1>1, <2>1
  <1>2. CASE Counted(consumed, slice)
    <2>1. PICK c \in consumed : TRUE
      BY <1>2 DEF Counted
    <2>2. c \in Nat /\ \A d \in consumed : d = c
      BY <2>1
    <2>3. Max(consumed) = c
      <3>1. \A y \in consumed : y \in Nat /\ y <= c
        BY <2>2
      <3> QED
        BY <2>2, <3>1, MaxFact
    <2> DEFINE total == a.consumed + Max(consumed)
               streak == IF OverSlice(consumed, slice) THEN a.streak + 1 ELSE 0
               violations ==
                 IF Violates(a, consumed, slice) THEN a.violations + 1 ELSE a.violations
    <2>4. total \in Nat /\ streak \in Nat /\ violations \in Nat
      BY <2>2, <2>3 DEF Accounts
    <2>5. CountFuel(a, consumed, slice) =
            [a EXCEPT !.consumed = total, !.streak = streak, !.violations = violations]
      BY <1>2 DEF CountFuel, Counted
    <2>6. \A d \in consumed : total = a.consumed + d
      BY <2>2, <2>3
    <2> HIDE DEF total, streak, violations
    <2>7. LET b == CountFuel(a, consumed, slice)
          IN  /\ b \in Accounts /\ b.soft = a.soft /\ b.denied = a.denied
              /\ b.highWater = a.highWater /\ b.newHighs = a.newHighs
              /\ b.leakReported = a.leakReported
              /\ b.consumed = total /\ b.streak = streak /\ b.violations = violations
      BY <2>4, <2>5 DEF Accounts
    <2> QED
      BY <1>2, <2>6, <2>7 DEF streak, violations
  <1> QED
    BY <1>1, <1>2

\* b is the account a after a settled call.
AfterCall(a, b, new, usage, consumed, slice) ==
  /\ b \in Accounts
  /\ b.soft = a.soft + new.soft /\ b.denied = a.denied + new.denied
  /\ b.highWater = IF usage > a.highWater THEN usage ELSE a.highWater
  /\ b.newHighs = IF usage > a.highWater THEN a.newHighs + 1 ELSE a.newHighs
  /\ b.leakReported <=> a.leakReported \/ LeakSuspected(a, usage)
  /\ ~Counted(consumed, slice) =>
       /\ b.consumed = a.consumed
       /\ b.streak = a.streak /\ b.violations = a.violations
  /\ Counted(consumed, slice) =>
       /\ \A c \in consumed : b.consumed = a.consumed + c
       /\ b.streak = IF OverSlice(consumed, slice) THEN a.streak + 1 ELSE 0
       /\ b.violations =
            IF Violates(a, consumed, slice) THEN a.violations + 1 ELSE a.violations

LEMMA ChargeFacts ==
  ASSUME NEW a \in Accounts, NEW trap \in BOOLEAN, NEW new \in Growth, NEW usage \in Nat,
         NEW consumed \in SUBSET Nat, NEW slice \in SUBSET Nat,
         \A x, y \in consumed : x = y
  PROVE  AfterCall(a, Charge(a, trap, new, usage, consumed, slice), new, usage, consumed, slice)
  <1> DEFINE r == RecordTrap(a, trap)
             s == RecordEvents(r, new)
             t == ObserveUsage(s, usage)
             b == CountFuel(t, consumed, slice)
  <1>1. Charge(a, trap, new, usage, consumed, slice) = b
    BY DEF Charge
  <1>2. /\ r \in Accounts /\ r.soft = a.soft /\ r.denied = a.denied
        /\ r.highWater = a.highWater /\ r.newHighs = a.newHighs
        /\ r.leakReported = a.leakReported /\ r.consumed = a.consumed
        /\ r.streak = a.streak /\ r.violations = a.violations
    BY RecordTrapFacts
  <1> HIDE DEF r
  <1>3. /\ s \in Accounts
        /\ s.soft = a.soft + new.soft /\ s.denied = a.denied + new.denied
        /\ s.highWater = a.highWater /\ s.newHighs = a.newHighs
        /\ s.leakReported = a.leakReported /\ s.consumed = a.consumed
        /\ s.streak = a.streak /\ s.violations = a.violations
    BY <1>2, RecordEventsFacts
  <1> HIDE DEF s
  <1>4. LeakSuspected(s, usage) <=> LeakSuspected(a, usage)
    BY <1>3 DEF LeakSuspected
  <1>5. /\ t \in Accounts /\ t.soft = s.soft /\ t.denied = s.denied
        /\ t.highWater = IF usage > s.highWater THEN usage ELSE s.highWater
        /\ t.newHighs = IF usage > s.highWater THEN s.newHighs + 1 ELSE s.newHighs
        /\ t.leakReported <=> s.leakReported \/ LeakSuspected(s, usage)
        /\ t.consumed = s.consumed
        /\ t.streak = s.streak /\ t.violations = s.violations
    BY <1>3, ObserveUsageFacts
  <1> HIDE DEF t
  <1>6. Violates(t, consumed, slice) <=> Violates(a, consumed, slice)
    BY <1>3, <1>5 DEF Violates
  <1>7. /\ b \in Accounts /\ b.soft = t.soft /\ b.denied = t.denied
        /\ b.highWater = t.highWater /\ b.newHighs = t.newHighs
        /\ b.leakReported = t.leakReported
        /\ ~Counted(consumed, slice) =>
             /\ b.consumed = t.consumed
             /\ b.streak = t.streak /\ b.violations = t.violations
        /\ Counted(consumed, slice) =>
             /\ \A c \in consumed : b.consumed = t.consumed + c
             /\ b.streak = IF OverSlice(consumed, slice) THEN t.streak + 1 ELSE 0
             /\ b.violations =
                  IF Violates(t, consumed, slice) THEN t.violations + 1 ELSE t.violations
    BY <1>5, CountFuelFacts
  <1> HIDE DEF b
  <1>8. AfterCall(a, b, new, usage, consumed, slice)
    BY <1>3, <1>4, <1>5, <1>6, <1>7 DEF AfterCall
  <1> QED
    BY <1>1, <1>8

-----------------------------------------------------------------------------
(* AuditLog: what a push leaves in the ring, and what is reported.          *)

LEMMA WhenFacts ==
  ASSUME NEW condition \in BOOLEAN, NEW kind \in Kinds
  PROVE  /\ When(condition, kind) \in Seq(Kinds)
         /\ \A x : Contains(When(condition, kind), x) <=> condition /\ x = kind
  <1>1. CASE condition
    <2>1. When(condition, kind) = <<kind>>
      BY <1>1 DEF When
    <2>2. <<kind>> \in Seq(Kinds) /\ 1..Len(<<kind>>) = {1} /\ <<kind>>[1] = kind
      <3>1. <<kind>> \in Seq(Kinds) /\ Len(<<kind>>) = 1 /\ <<kind>>[1] = kind
        OBVIOUS
      <3>2. 1..1 = {1}
        OBVIOUS
      <3> QED
        BY <3>1, <3>2, Zenon
    <2>3. \A x : Contains(<<kind>>, x) <=> x = kind
      BY ONLY <2>2, Zenon DEF Contains
    <2> QED
      BY ONLY <1>1, <2>1, <2>2, <2>3, Zenon
  <1>2. CASE ~condition
    <2>1. When(condition, kind) = <<>>
      BY <1>2 DEF When
    <2>2. <<>> \in Seq(Kinds) /\ 1..Len(<<>>) = {}
      OBVIOUS
    <2>3. \A x : ~Contains(<<>>, x)
      BY ONLY <2>2, Zenon DEF Contains
    <2> QED
      BY ONLY <1>2, <2>1, <2>2, <2>3, Zenon
  <1> QED
    BY <1>1, <1>2

LEMMA ContainsConcat ==
  ASSUME NEW S, NEW s \in Seq(S), NEW t \in Seq(S)
  PROVE  /\ s \o t \in Seq(S)
         /\ \A x : Contains(s \o t, x) <=> Contains(s, x) \/ Contains(t, x)
  <1>1. s \o t \in Seq(S) /\ Len(s \o t) = Len(s) + Len(t)
        /\ \A i \in 1..Len(s) + Len(t) :
             (s \o t)[i] = IF i <= Len(s) THEN s[i] ELSE t[i - Len(s)]
    BY ConcatProperties
  <1> DEFINE u == s \o t
  <1>2. Len(s) \in Nat /\ Len(t) \in Nat
    OBVIOUS
  <1> HIDE DEF u
  <1>3. ASSUME NEW x, Contains(u, x) PROVE Contains(s, x) \/ Contains(t, x)
    <2>1. PICK i \in 1..Len(s) + Len(t) : u[i] = x
      BY <1>1, <1>3 DEF Contains, u
    <2>2. CASE i <= Len(s)
      <3>1. i \in 1..Len(s) /\ s[i] = x
        BY <1>1, <1>2, <2>1, <2>2 DEF u
      <3> QED
        BY <3>1 DEF Contains
    <2>3. CASE ~(i <= Len(s))
      <3>1. i - Len(s) \in 1..Len(t) /\ t[i - Len(s)] = x
        BY <1>1, <1>2, <2>1, <2>3 DEF u
      <3> QED
        BY <3>1 DEF Contains
    <2> QED
      BY <2>2, <2>3
  <1>4. ASSUME NEW x, Contains(s, x) PROVE Contains(u, x)
    <2>1. PICK i \in 1..Len(s) : s[i] = x
      BY <1>4 DEF Contains
    <2>2. i \in 1..Len(u) /\ u[i] = x
      BY <1>1, <1>2, <2>1 DEF u
    <2> QED
      BY <2>2 DEF Contains
  <1>5. ASSUME NEW x, Contains(t, x) PROVE Contains(u, x)
    <2>1. PICK i \in 1..Len(t) : t[i] = x
      BY <1>5 DEF Contains
    <2>2. Len(s) + i \in 1..Len(u) /\ u[Len(s) + i] = x
      BY <1>1, <1>2, <2>1 DEF u
    <2> QED
      BY <2>2 DEF Contains
  <1> QED
    BY <1>1, <1>3, <1>4, <1>5 DEF u

LEMMA ReportsFacts ==
  ASSUME NEW a \in Accounts, NEW trap \in BOOLEAN, NEW new, NEW usage, NEW consumed, NEW slice
  PROVE  LET kinds == Reports(a, trap, new, usage, consumed, slice)
         IN  /\ kinds \in Seq(Kinds)
             /\ Contains(kinds, "leak.suspected") <=> LeakSuspected(a, usage)
             /\ Contains(kinds, "contract.violation") <=> Violates(a, consumed, slice)
  <1> DEFINE c1 == new.denied > 0
             c2 == new.denied = 0 /\ new.soft > 0
             c3 == LeakSuspected(a, usage)
             c4 == Violates(a, consumed, slice)
             k0 == When(trap, "fuel.trap")
             k1 == When(c1, "memory.growth_denied")
             k2 == When(c2, "memory.pressure")
             k3 == When(c3, "leak.suspected")
             k4 == When(c4, "contract.violation")
  <1>1. Reports(a, trap, new, usage, consumed, slice) = (((k0 \o k1) \o k2) \o k3) \o k4
    BY DEF Reports
  <1>2. c1 \in BOOLEAN /\ c2 \in BOOLEAN /\ c3 \in BOOLEAN /\ c4 \in BOOLEAN
    BY DEF LeakSuspected, Violates
  <1> HIDE DEF c1, c2, c3, c4
  <1>0. /\ "fuel.trap" \in Kinds /\ "memory.growth_denied" \in Kinds
        /\ "memory.pressure" \in Kinds /\ "leak.suspected" \in Kinds
        /\ "contract.violation" \in Kinds
    BY DEF Kinds
  <1>3. k0 \in Seq(Kinds) /\ \A x : Contains(k0, x) <=> trap /\ x = "fuel.trap"
    BY <1>0, <1>2, WhenFacts, Zenon
  <1>4. k1 \in Seq(Kinds) /\ \A x : Contains(k1, x) <=> c1 /\ x = "memory.growth_denied"
    BY <1>0, <1>2, WhenFacts, Zenon
  <1>5. k2 \in Seq(Kinds) /\ \A x : Contains(k2, x) <=> c2 /\ x = "memory.pressure"
    BY <1>0, <1>2, WhenFacts, Zenon
  <1>6. k3 \in Seq(Kinds) /\ \A x : Contains(k3, x) <=> c3 /\ x = "leak.suspected"
    BY <1>0, <1>2, WhenFacts, Zenon
  <1>7. k4 \in Seq(Kinds) /\ \A x : Contains(k4, x) <=> c4 /\ x = "contract.violation"
    BY <1>0, <1>2, WhenFacts, Zenon
  <1> HIDE DEF k0, k1, k2, k3, k4
  <1> DEFINE s1 == k0 \o k1
             s2 == s1 \o k2
             s3 == s2 \o k3
             s4 == s3 \o k4
  <1>8. s1 \in Seq(Kinds) /\ \A x : Contains(s1, x) <=> Contains(k0, x) \/ Contains(k1, x)
    BY <1>3, <1>4, ContainsConcat
  <1> HIDE DEF s1
  <1>9. s2 \in Seq(Kinds) /\ \A x : Contains(s2, x) <=> Contains(s1, x) \/ Contains(k2, x)
    BY <1>5, <1>8, ContainsConcat
  <1> HIDE DEF s2
  <1>10. s3 \in Seq(Kinds) /\ \A x : Contains(s3, x) <=> Contains(s2, x) \/ Contains(k3, x)
    BY <1>6, <1>9, ContainsConcat
  <1> HIDE DEF s3
  <1>11. s4 \in Seq(Kinds) /\ \A x : Contains(s4, x) <=> Contains(s3, x) \/ Contains(k4, x)
    BY <1>7, <1>10, ContainsConcat
  <1> HIDE DEF s4
  <1>12. \A x : Contains(s4, x) <=> \/ Contains(k0, x) \/ Contains(k1, x) \/ Contains(k2, x)
                                    \/ Contains(k3, x) \/ Contains(k4, x)
    BY ONLY <1>8, <1>9, <1>10, <1>11, Zenon
  <1>13. Contains(s4, "leak.suspected") <=> c3
    <2> DEFINE x == "leak.suspected"
    <2>1. /\ x # "fuel.trap" /\ x # "memory.growth_denied"
          /\ x # "memory.pressure" /\ x # "contract.violation"
      OBVIOUS
    <2> QED
      BY ONLY <1>3, <1>4, <1>5, <1>6, <1>7, <1>12, <2>1, Zenon
  <1>15. Contains(s4, "contract.violation") <=> c4
    <2> DEFINE x == "contract.violation"
    <2>1. /\ x # "fuel.trap" /\ x # "memory.growth_denied"
          /\ x # "memory.pressure" /\ x # "leak.suspected"
      OBVIOUS
    <2> QED
      BY ONLY <1>3, <1>4, <1>5, <1>6, <1>7, <1>12, <2>1, Zenon
  <1>14. Reports(a, trap, new, usage, consumed, slice) = s4
    BY <1>1 DEF s4, s3, s2, s1
  <1> QED
    BY <1>11, <1>13, <1>14, <1>15 DEF c3, c4

LEMMA EntriesFacts ==
  ASSUME NEW log, LogOK(log), NEW e \in Extensions, NEW kinds \in Seq(Kinds)
  PROVE  LET new == Entries(log, e, kinds)
         IN  /\ new \in Seq(Rows) /\ Len(new) = Len(kinds)
             /\ \A i \in 1..Len(new) : new[i].seq = log.next + i - 1
  <1> DEFINE new == Entries(log, e, kinds)
  <1>1. log.next \in Nat /\ log.next # 0
    BY DEF LogOK
  <1>2. Len(kinds) \in Nat /\ DOMAIN kinds = 1..Len(kinds)
        /\ \A i \in 1..Len(kinds) : kinds[i] \in Kinds
    OBVIOUS
  <1>3. new = [i \in 1..Len(kinds) |-> [seq |-> log.next + i - 1, kind |-> kinds[i], extension |-> e]]
    BY <1>2 DEF Entries
  <1>4. \A i \in 1..Len(kinds) : log.next + i - 1 \in Nat
    BY <1>1
  <1>5. \A i \in 1..Len(kinds) :
          [seq |-> log.next + i - 1, kind |-> kinds[i], extension |-> e] \in Rows
    BY <1>2, <1>4 DEF Rows
  <1>6. new \in [1..Len(kinds) -> Rows]
    BY <1>3, <1>5
  <1>7. new \in Seq(Rows) /\ Len(new) = Len(kinds)
    BY <1>2, <1>6
  <1> QED
    BY <1>3, <1>7

LEMMA LastNFacts ==
  ASSUME NEW S, NEW s \in Seq(S), NEW n \in Nat \ {0}
  PROVE  LET k == Min({n, Len(s)})
         IN  /\ LastN(s, n) \in Seq(S) /\ Len(LastN(s, n)) = k
             /\ \A i \in 1..k : LastN(s, n)[i] = s[Len(s) - k + i]
  <1> DEFINE k == Min({n, Len(s)})
             first == Len(s) - k + 1
  <1>1. Len(s) \in Nat /\ k \in Nat /\ k <= Len(s) /\ (k = n \/ k = Len(s))
        /\ (n <= Len(s) => k = n) /\ (Len(s) <= n => k = Len(s))
    BY MinOfTwo
  <1> HIDE DEF k
  <1>2. Max({1, Len(s) - n + 1}) = first
    <2>1. first \in {1, Len(s) - n + 1} /\ \A y \in {1, Len(s) - n + 1} : first >= y
      BY <1>1
    <2>2. Max({1, Len(s) - n + 1}) \in {1, Len(s) - n + 1}
          /\ \A y \in {1, Len(s) - n + 1} : Max({1, Len(s) - n + 1}) >= y
      BY <2>1 DEF Max
    <2>3. Max({1, Len(s) - n + 1}) \in Int /\ first \in Int
      BY <1>1, <2>2
    <2> QED
      BY <2>1, <2>2, <2>3
  <1>3. LastN(s, n) = SubSeq(s, first, Len(s))
    BY <1>2 DEF LastN
  <1>4. first \in Int /\ Len(s) \in Int /\ first >= 1
    BY <1>1
  <1>5. \A i \in first..Len(s) : s[i] \in S
    BY <1>4
  <1>6. /\ SubSeq(s, first, Len(s)) \in Seq(S)
        /\ Len(SubSeq(s, first, Len(s))) = IF first <= Len(s) THEN Len(s) - first + 1 ELSE 0
        /\ \A i \in 1..Len(s) - first + 1 : SubSeq(s, first, Len(s))[i] = s[first + i - 1]
    BY <1>4, <1>5, SubSeqProperties
  <1>7. /\ Len(s) - first + 1 = k
        /\ \A i \in 1..k : first + i - 1 = Len(s) - k + i
    BY <1>1
  <1> HIDE DEF first
  <1>8. LastN(s, n) \in Seq(S) /\ Len(LastN(s, n)) = k
    BY <1>1, <1>3, <1>4, <1>6, <1>7
  <1>9. \A i \in 1..k : LastN(s, n)[i] = s[Len(s) - k + i]
    BY <1>3, <1>6, <1>7
  <1> QED
    BY <1>8, <1>9 DEF k

LEMMA LogFacts ==
  ASSUME NEW log, LogOK(log)
  PROVE  /\ log.ring \in Seq(Rows) /\ Len(log.ring) \in Nat
         /\ log.next \in Nat /\ log.next # 0
         /\ Len(log.ring) <= Capacity /\ Len(log.ring) <= log.next - 1
         /\ Oldest(log) \in Nat /\ Oldest(log) >= 1 /\ Oldest(log) <= log.next
         /\ Oldest(log) + Len(log.ring) = log.next
         /\ \A i \in 1..Len(log.ring) : log.ring[i].seq = Oldest(log) + i - 1
  <1>1. log.ring \in Seq(Rows) /\ log.next \in Nat /\ log.next # 0
    BY DEF LogOK
  <1>2. Capacity \in Nat /\ log.next - 1 \in Nat
    BY <1>1, AuditAssumption
  <1>3. Len(log.ring) \in Nat /\ Len(log.ring) <= Capacity /\ Len(log.ring) <= log.next - 1
    <2>1. /\ Min({Capacity, log.next - 1}) \in Nat
          /\ Min({Capacity, log.next - 1}) <= Capacity
          /\ Min({Capacity, log.next - 1}) <= log.next - 1
      BY ONLY <1>2, MinOfTwo
    <2>2. Len(log.ring) = Min({Capacity, log.next - 1})
      BY DEF LogOK
    <2> QED
      BY ONLY <2>1, <2>2
  <1>4. /\ Oldest(log) \in Nat /\ Oldest(log) >= 1 /\ Oldest(log) <= log.next
        /\ Oldest(log) + Len(log.ring) = log.next
    BY <1>1, <1>3 DEF Oldest
  <1>5. DOMAIN log.ring = 1..Len(log.ring)
    BY <1>1
  <1>6. \A i \in 1..Len(log.ring) : log.ring[i].seq = Oldest(log) + i - 1
    BY <1>5 DEF LogOK
  <1> QED
    BY <1>1, <1>3, <1>4, <1>6

LEMMA SeqsInFacts ==
  ASSUME NEW log, LogOK(log)
  PROVE  \A s \in Nat : s \in SeqsIn(log) <=> s >= Oldest(log) /\ s < log.next
  <1>1. DOMAIN log.ring = 1..Len(log.ring)
    BY LogFacts
  <1>2. ASSUME NEW s \in Nat, s \in SeqsIn(log) PROVE s >= Oldest(log) /\ s < log.next
    <2>1. PICK i \in 1..Len(log.ring) : s = Oldest(log) + i - 1
      BY <1>1, <1>2, LogFacts DEF SeqsIn
    <2> QED
      BY <2>1, LogFacts
  <1>3. ASSUME NEW s \in Nat, s >= Oldest(log), s < log.next PROVE s \in SeqsIn(log)
    <2> DEFINE i == s - Oldest(log) + 1
    <2>1. i \in 1..Len(log.ring) /\ s = Oldest(log) + i - 1
      BY <1>3, LogFacts
    <2> HIDE DEF i
    <2>2. log.ring[i].seq = s
      BY <2>1, LogFacts
    <2> QED
      BY <1>1, <2>1, <2>2 DEF SeqsIn
  <1> QED
    BY <1>2, <1>3

\* A push keeps the newest entries, without a gap.
LEMMA PushFacts ==
  ASSUME NEW log, LogOK(log), NEW new \in Seq(Rows),
         \A i \in 1..Len(new) : new[i].seq = log.next + i - 1
  PROVE  /\ LogOK(Push(log, new))
         /\ Push(log, new).next = log.next + Len(new)
         /\ Oldest(Push(log, new)) >= Oldest(log)
  <1> DEFINE s == log.ring \o new
             k == Min({Capacity, Len(s)})
             after == Push(log, new)
  <1>1. /\ s \in Seq(Rows) /\ Len(s) = Len(log.ring) + Len(new)
        /\ \A i \in 1..Len(log.ring) + Len(new) :
             s[i] = IF i <= Len(log.ring) THEN log.ring[i] ELSE new[i - Len(log.ring)]
    BY LogFacts, ConcatProperties
  <1> HIDE DEF s
  <1>2. Len(new) \in Nat /\ Len(log.ring) \in Nat /\ Len(s) \in Nat
    BY <1>1, LogFacts
  <1>3. \A i \in 1..Len(s) : s[i].seq = Oldest(log) + i - 1
    <2> SUFFICES ASSUME NEW i \in 1..Len(s) PROVE s[i].seq = Oldest(log) + i - 1
      OBVIOUS
    <2>1. CASE i <= Len(log.ring)
      <3>1. i \in 1..Len(log.ring)
        BY <2>1
      <3> QED
        BY <1>1, <2>1, <3>1, LogFacts
    <2>2. CASE ~(i <= Len(log.ring))
      <3>1. i - Len(log.ring) \in 1..Len(new) /\ s[i] = new[i - Len(log.ring)]
        BY <1>1, <1>2, <2>2
      <3>2. s[i].seq = log.next + (i - Len(log.ring)) - 1
        BY <3>1
      <3> QED
        BY <1>2, <3>2, LogFacts
    <2> QED
      BY <2>1, <2>2
  <1>4. Capacity \in Nat \ {0}
    BY AuditAssumption
  <1>5. /\ LastN(s, Capacity) \in Seq(Rows) /\ Len(LastN(s, Capacity)) = k
        /\ \A i \in 1..k : LastN(s, Capacity)[i] = s[Len(s) - k + i]
    BY <1>1, <1>4, LastNFacts
  <1>6. after = [ring |-> LastN(s, Capacity), next |-> log.next + Len(new)]
    BY DEF Push, s
  <1>7. k \in Nat /\ k <= Len(s) /\ k <= Capacity
        /\ (Capacity <= Len(s) => k = Capacity) /\ (Len(s) <= Capacity => k = Len(s))
    BY <1>2, <1>4, MinOfTwo
  <1> HIDE DEF k
  <1>8. after.ring = LastN(s, Capacity) /\ after.next = log.next + Len(new)
        /\ after \in [ring : Seq(Rows), next : Nat \ {0}]
    BY <1>2, <1>5, <1>6, LogFacts
  <1> HIDE DEF after
  <1>9. Oldest(after) = Oldest(log) + Len(s) - k
    <2>1. Oldest(after) = after.next - Len(after.ring)
      BY DEF Oldest
    <2>2. after.next = log.next + Len(new) /\ Len(after.ring) = k
      BY <1>5, <1>8
    <2>3. /\ Len(log.ring) \in Nat /\ log.next \in Nat /\ Oldest(log) \in Nat
          /\ Oldest(log) + Len(log.ring) = log.next
      BY LogFacts
    <2>4. Len(s) = Len(log.ring) + Len(new) /\ Len(new) \in Nat /\ k \in Nat
      BY <1>1, <1>2, <1>7
    <2> QED
      BY ONLY <2>1, <2>2, <2>3, <2>4
  <1>10. k = Min({Capacity, after.next - 1})
    <2>1. after.next - 1 \in Nat /\ after.next - 1 >= Len(s)
      <3>1. /\ Len(log.ring) \in Nat /\ log.next \in Nat /\ Len(log.ring) <= log.next - 1
        BY LogFacts
      <3>2. after.next = log.next + Len(new)
        BY <1>8
      <3>3. Len(s) = Len(log.ring) + Len(new) /\ Len(new) \in Nat
        BY <1>1, <1>2
      <3> QED
        BY ONLY <3>1, <3>2, <3>3
    <2>2. CASE Len(s) >= Capacity
      <3>1. Min({Capacity, after.next - 1}) = Capacity
        <4>1. /\ Capacity \in Nat /\ after.next - 1 \in Nat
              /\ Capacity <= after.next - 1
          BY <1>1, <1>2, <1>4, <2>1, <2>2
        <4> QED
          BY ONLY <4>1, MinOfTwo
      <3> QED
        BY <1>2, <1>4, <1>7, <2>2, <3>1
    <2>3. CASE ~(Len(s) >= Capacity)
      <3>1. Len(log.ring) < Capacity
        BY <1>1, <1>2, <1>4, <2>3
      <3>2. Len(log.ring) = Min({Capacity, log.next - 1})
        BY DEF LogOK
      <3>3. Len(log.ring) = log.next - 1
        <4>1. Capacity \in Nat /\ log.next - 1 \in Nat
          BY <1>4, LogFacts
        <4>2. Min({Capacity, log.next - 1}) = Capacity \/ Min({Capacity, log.next - 1}) = log.next - 1
          BY ONLY <4>1, MinOfTwo
        <4> QED
          BY <1>2, <1>4, <3>1, <3>2, <4>1, <4>2
      <3>4. after.next - 1 = Len(s)
        BY <1>1, <1>2, <1>8, <3>3, LogFacts
      <3>5. Min({Capacity, after.next - 1}) = after.next - 1
        <4>1. Capacity \in Nat /\ after.next - 1 \in Nat /\ after.next - 1 <= Capacity
          BY <1>2, <1>4, <2>1, <2>3, <3>4
        <4> QED
          BY ONLY <4>1, MinOfTwo
      <3> QED
        BY <1>2, <1>4, <1>7, <2>3, <3>4, <3>5
    <2> QED
      BY <2>2, <2>3
  <1>11. \A i \in 1..k : after.ring[i].seq = Oldest(after) + i - 1
    <2> SUFFICES ASSUME NEW i \in 1..k PROVE after.ring[i].seq = Oldest(after) + i - 1
      OBVIOUS
    <2>1. after.ring[i] = s[Len(s) - k + i]
      BY <1>5, <1>8
    <2>2. Len(s) - k + i \in 1..Len(s)
      BY <1>2, <1>7
    <2>3. s[Len(s) - k + i].seq = Oldest(log) + (Len(s) - k + i) - 1
      BY <1>3, <2>2
    <2> QED
      BY <1>2, <1>7, <1>9, <2>1, <2>3, LogFacts
  <1>12. DOMAIN after.ring = 1..k
    BY <1>5, <1>8
  <1>13. LogOK(after)
    BY <1>5, <1>8, <1>10, <1>11, <1>12 DEF LogOK
  <1> QED
    BY <1>2, <1>7, <1>8, <1>9, <1>13, LogFacts DEF after

-----------------------------------------------------------------------------
(* Queries of the log: Since and Query.                                     *)

\* The loop's values exist, and follow from one another.
LEMMA SinceUnfolds ==
  ASSUME NEW log, LogOK(log), NEW c \in Nat
  PROVE  \E g \in [0..Len(log.ring) -> Seq(Rows)] :
           /\ g[0] = <<>>
           /\ \A n \in 1..Len(log.ring) :
                g[n] = IF log.ring[n].seq > c THEN Append(g[n - 1], log.ring[n]) ELSE g[n - 1]
           /\ Since(log, c) = g[Len(log.ring)]
  <1> DEFINE L == Len(log.ring)
             Loop(f) == [n \in 0..L |->
                           IF n = 0 THEN <<>>
                           ELSE IF log.ring[n].seq > c THEN Append(f[n - 1], log.ring[n])
                                                       ELSE f[n - 1]]
             next == [n \in 1..L |-> [t \in Seq(Rows) |->
                        IF log.ring[n].seq > c THEN Append(t, log.ring[n]) ELSE t]]
             new == CHOOSE f : f = Loop(f)
  <1>1. L \in Nat /\ L \in 0..L /\ 0 \in 0..L
        /\ \A n \in 1..L : log.ring[n] \in Rows /\ n \in 0..L /\ n # 0 /\ n - 1 \in 0..L
    BY LogFacts
  <1>2. <<>> \in Seq(Rows)
    OBVIOUS
  <1>3. next \in [1..L -> [Seq(Rows) -> Seq(Rows)]]
    BY <1>1
  <1>4. PICK g \in [0..L -> Seq(Rows)] : Unfolds(g, L, <<>>, next)
    <2> HIDE DEF next, L
    <2> QED
      BY <1>1, <1>2, <1>3, PrefixRecursion
  <1>5. g[0] = <<>> /\ \A n \in 1..L : g[n] = IF log.ring[n].seq > c
                                              THEN Append(g[n - 1], log.ring[n]) ELSE g[n - 1]
    <2>1. g[0] = <<>> /\ \A n \in 1..L : g[n] = next[n][g[n - 1]]
      BY <1>4 DEF Unfolds
    <2>2. \A n \in 1..L : g[n - 1] \in Seq(Rows)
      BY <1>1, <1>4
    <2> QED
      BY <2>1, <2>2
  <1>6. g = Loop(g)
    <2>1. \A n \in 0..L : g[n] = IF n = 0 THEN <<>>
                                 ELSE IF log.ring[n].seq > c THEN Append(g[n - 1], log.ring[n])
                                                             ELSE g[n - 1]
      BY <1>1, <1>5
    <2> QED
      BY <1>4, <2>1
  <1>7. new = Loop(new)
    BY <1>6
  <1>8. new[L] = g[L]
    <2> DEFINE S == {n \in 0..L : new[n] = g[n]}
    <2>1. new[0] = <<>> /\ \A n \in 1..L : new[n] = IF log.ring[n].seq > c
                                            THEN Append(new[n - 1], log.ring[n]) ELSE new[n - 1]
      <3> HIDE DEF new
      <3> QED
        BY <1>1, <1>7
    <2> HIDE DEF new, L
    <2>2. 0 \in S
      BY <1>1, <1>5, <2>1
    <2>3. ASSUME NEW n \in 1..L, n - 1 \in S PROVE n \in S
      BY <1>1, <1>5, <2>1, <2>3
    <2>4. 0..L \subseteq S
      <3> HIDE DEF S
      <3> QED
        BY <1>1, <2>2, <2>3, PrefixInduction
    <2> QED
      BY <1>1, <2>4
  <1>9. Since(log, c) = new[L]
    BY DEF Since
  <1> QED
    BY <1>4, <1>5, <1>8, <1>9

\* How many entries of the ring are no newer than c.
Skipped(log, c) == IF c < Oldest(log) THEN 0 ELSE c - Oldest(log) + 1

\* What is newer than c is a suffix of the ring.
LEMMA SinceFacts ==
  ASSUME NEW log, LogOK(log), NEW c \in Nat, c < log.next
  PROVE  LET d == Skipped(log, c)
         IN  /\ d \in 0..Len(log.ring)
             /\ Since(log, c) \in Seq(Rows) /\ Len(Since(log, c)) = Len(log.ring) - d
             /\ \A i \in 1..Len(log.ring) - d : Since(log, c)[i] = log.ring[d + i]
  <1> DEFINE d == Skipped(log, c)
             L == Len(log.ring)
             SuffixOf(t, n) == /\ Len(t) = IF n <= d THEN 0 ELSE n - d
                               /\ \A i \in 1..Len(t) : t[i] = log.ring[d + i]
  <1>1. d \in 0..L /\ L \in Nat
    BY LogFacts DEF Skipped
  <1>2. \A n \in 1..L : log.ring[n] \in Rows /\ (log.ring[n].seq > c <=> n > d)
    BY LogFacts DEF Skipped
  <1>3. PICK g \in [0..L -> Seq(Rows)] :
           /\ g[0] = <<>>
           /\ \A n \in 1..L :
                g[n] = IF log.ring[n].seq > c THEN Append(g[n - 1], log.ring[n]) ELSE g[n - 1]
           /\ Since(log, c) = g[L]
    BY SinceUnfolds
  <1> DEFINE S == {n \in 0..L : SuffixOf(g[n], n)}
  <1> HIDE DEF d, L
  <1>4. 0 \in S
    BY <1>1, <1>3
  <1>5. ASSUME NEW n \in 1..L, n - 1 \in S PROVE n \in S
    <2>1. n \in 0..L /\ n - 1 \in 0..L /\ n \in Nat /\ n - 1 \in Nat /\ d \in Nat
      BY <1>1
    <2>2. PICK t \in Seq(Rows) : t = g[n - 1]
      BY <1>3, <2>1
    <2>3. Len(t) = (IF n - 1 <= d THEN 0 ELSE (n - 1) - d)
          /\ \A i \in 1..Len(t) : t[i] = log.ring[d + i]
      BY <1>5, <2>2
    <2>4. CASE n > d
      <3>1. g[n] = Append(t, log.ring[n]) /\ log.ring[n] \in Rows
        BY <1>2, <1>3, <2>2, <2>4
      <3>2. Len(t) = n - 1 - d
        BY <2>1, <2>3, <2>4
      <3>3. Len(g[n]) = n - d
            /\ \A i \in 1..n - d : g[n][i] = IF i = n - d THEN log.ring[n] ELSE t[i]
        BY <2>1, <2>4, <3>1, <3>2
      <3>4. \A i \in 1..n - d : g[n][i] = log.ring[d + i]
        <4> SUFFICES ASSUME NEW i \in 1..n - d PROVE g[n][i] = log.ring[d + i]
          OBVIOUS
        <4>1. CASE i = n - d
          <5>1. d + i = n
            BY <2>1, <4>1
          <5> QED
            BY <3>3, <4>1, <5>1
        <4>2. CASE i # n - d
          <5>1. i \in 1..Len(t)
            BY <2>1, <3>2, <4>2
          <5> QED
            BY <2>3, <3>3, <4>2, <5>1
        <4> QED
          BY <4>1, <4>2
      <3> QED
        BY <2>1, <2>4, <3>3, <3>4
    <2>5. CASE ~(n > d)
      <3>1. g[n] = t
        BY <1>2, <1>3, <2>2, <2>5
      <3>2. n <= d /\ n - 1 <= d
        BY <2>1, <2>5
      <3> QED
        BY <2>1, <2>3, <3>1, <3>2
    <2> QED
      BY <2>4, <2>5
  <1>6. 0..L \subseteq S
    <2> HIDE DEF S
    <2> QED
      BY <1>1, <1>4, <1>5, PrefixInduction
  <1>7. L \in 0..L /\ L \in S
    BY <1>1, <1>6
  <1>8. Since(log, c) \in Seq(Rows)
    BY <1>3, <1>7
  <1> DEFINE new == Since(log, c)
  <1>11. SuffixOf(new, L)
    BY <1>3, <1>7
  <1>12. L <= d => L - d = 0
    BY <1>1
  <1> HIDE DEF new
  <1>9. Len(new) = L - d
    BY <1>11, <1>12
  <1>10. \A i \in 1..L - d : new[i] = log.ring[d + i]
    BY <1>9, <1>11
  <1> QED
    BY <1>1, <1>8, <1>9, <1>10 DEF d, L, new

\* A query answers with consecutive entries, from the first that is newer and still kept.
LEMMA QueryFacts ==
  ASSUME NEW log, LogOK(log), NEW c \in Nat, c < log.next, NEW limit \in Nat
  PROVE  LET seqs == Seqs(Query(log, c, limit))
             first == IF c < Oldest(log) THEN Oldest(log) ELSE c + 1
         IN  /\ seqs \in Seq(Nat)
             /\ \A i \in 1..Len(seqs) : seqs[i] = first + i - 1
             /\ first + Len(seqs) <= log.next
  <1> DEFINE new == Since(log, c)
             d == Skipped(log, c)
             first == IF c < Oldest(log) THEN Oldest(log) ELSE c + 1
             n == Min({limit, Len(new)})
             q == SubSeq(new, 1, n)
             seqs == Seqs(q)
  <1>1. /\ d \in 0..Len(log.ring)
        /\ new \in Seq(Rows) /\ Len(new) = Len(log.ring) - d
        /\ \A i \in 1..Len(log.ring) - d : new[i] = log.ring[d + i]
    BY SinceFacts
  <1>2. first = Oldest(log) + d /\ first \in Nat
    BY LogFacts DEF Skipped
  <1> HIDE DEF new, d, first
  <1>3. n \in Nat /\ n <= Len(new)
    <2>1. Len(new) \in Nat
      BY <1>1
    <2> QED
      BY ONLY <2>1, limit \in Nat, MinOfTwo DEF n
  <1> HIDE DEF n
  <1>4. q \in Seq(Rows) /\ Len(q) = n /\ \A i \in 1..n : q[i] = new[i]
    <2>1. \A i \in 1..n : new[i] \in Rows
      BY <1>1, <1>3
    <2> QED
      BY <1>3, <2>1, SubSeqProperties
  <1> HIDE DEF q
  <1>5. \A i \in 1..n : q[i].seq = first + i - 1
    <2> SUFFICES ASSUME NEW i \in 1..n PROVE q[i].seq = first + i - 1
      OBVIOUS
    <2>1. i \in 1..Len(log.ring) - d /\ d + i \in 1..Len(log.ring)
      BY <1>1, <1>3, LogFacts
    <2>2. q[i] = log.ring[d + i]
      BY <1>1, <1>4, <2>1
    <2>3. q[i].seq = Oldest(log) + (d + i) - 1
      BY <2>1, <2>2, LogFacts
    <2> QED
      BY <1>1, <1>2, <2>3, LogFacts
  <1>6. seqs = [i \in 1..n |-> q[i].seq]
    BY <1>4 DEF Seqs
  <1>7. \A i \in 1..n : q[i].seq \in Nat
    BY <1>2, <1>3, <1>5
  <1>8. seqs \in Seq(Nat) /\ Len(seqs) = n
    BY <1>3, <1>6, <1>7
  <1>9. \A i \in 1..Len(seqs) : seqs[i] = first + i - 1
    BY <1>5, <1>6, <1>8
  <1>10. first + Len(seqs) <= log.next
    BY <1>1, <1>2, <1>3, <1>8, LogFacts
  <1>11. Seqs(Query(log, c, limit)) = seqs
    BY DEF Query, q, new, n
  <1> QED
    BY <1>8, <1>9, <1>10, <1>11 DEF first

-----------------------------------------------------------------------------
(* What the host polls and drains.                                          *)

Consecutive(s, from) == \A i \in 1..Len(s) : s[i] = from + i - 1

LEMMA ConsecutiveConcat ==
  ASSUME NEW s \in Seq(Nat), NEW t \in Seq(Nat), NEW from \in Nat,
         Consecutive(s, from), Consecutive(t, from + Len(s))
  PROVE  Consecutive(s \o t, from)
  <1>1. /\ Len(s \o t) = Len(s) + Len(t)
        /\ \A i \in 1..Len(s) + Len(t) : (s \o t)[i] = IF i <= Len(s) THEN s[i] ELSE t[i - Len(s)]
    BY ConcatProperties
  <1>2. Len(s) \in Nat /\ Len(t) \in Nat
    OBVIOUS
  <1>3. ASSUME NEW i \in 1..Len(s) + Len(t) PROVE (s \o t)[i] = from + i - 1
    <2>1. CASE i <= Len(s)
      <3>1. i \in 1..Len(s)
        BY <1>2, <2>1
      <3> QED
        BY <1>1, <2>1, <3>1 DEF Consecutive
    <2>2. CASE ~(i <= Len(s))
      <3>1. i - Len(s) \in 1..Len(t)
        BY <1>2, <2>2
      <3>2. t[i - Len(s)] = (from + Len(s)) + (i - Len(s)) - 1
        BY <3>1 DEF Consecutive
      <3>3. (from + Len(s)) + (i - Len(s)) - 1 = from + i - 1
        BY <1>2
      <3> QED
        BY <1>1, <2>2, <3>2, <3>3
    <2> QED
      BY <2>1, <2>2
  <1> QED
    BY <1>1, <1>3 DEF Consecutive

\* StreamedAsRecorded of a receiver that was typed.
LEMMA StreamedFacts ==
  ASSUME NEW s \in Seq(Nat), NEW from
  PROVE  s = [i \in DOMAIN s |-> from + i - 1] <=> Consecutive(s, from)
  <1>1. DOMAIN s = 1..Len(s) /\ s = [i \in 1..Len(s) |-> s[i]]
    OBVIOUS
  <1> QED
    BY <1>1 DEF Consecutive

Receivers == [from : Nat \ {0}, queue : Seq(Nat), drained : Seq(Nat)]
Hosts == [cursor : Nat, read : Seq(Nat), missed : SUBSET Nat]

LEMMA ReceiverFacts ==
  ASSUME NEW r \in Receivers
  PROVE  LET streamed == r.drained \o r.queue
         IN  /\ streamed = [i \in DOMAIN streamed |-> r.from + i - 1]
                  <=> Consecutive(streamed, r.from)
             /\ streamed \in Seq(Nat) /\ r.from \in Nat
             /\ r.drained \in Seq(Nat) /\ r.queue \in Seq(Nat)
  <1> DEFINE streamed == r.drained \o r.queue
  <1>1. r.drained \in Seq(Nat) /\ r.queue \in Seq(Nat) /\ r.from \in Nat
    BY DEF Receivers
  <1>2. streamed \in Seq(Nat)
    BY <1>1, ConcatProperties
  <1>3. streamed = [i \in DOMAIN streamed |-> r.from + i - 1] <=> Consecutive(streamed, r.from)
    BY <1>2, StreamedFacts
  <1> QED
    BY <1>1, <1>2, <1>3

LEMMA RecordStreams ==
  ASSUME LogOK(audit), StreamInv, NEW e \in Extensions, NEW kinds \in Seq(Kinds),
         Record(e, kinds), sink' = sink
  PROVE  StreamInv'
  <1> DEFINE new == Entries(audit, e, kinds)
             streamed == receiver.drained \o receiver.queue
             more == Seqs(new)
  <1>1. new \in Seq(Rows) /\ \A i \in 1..Len(new) : new[i].seq = audit.next + i - 1
    BY EntriesFacts
  <1>2. audit' = Push(audit, new)
        /\ receiver' = IF sink THEN [receiver EXCEPT !.queue = receiver.queue \o more] ELSE receiver
    BY DEF Record
  <1>3. audit'.next = audit.next + Len(new) /\ audit.next \in Nat
    BY <1>1, <1>2, PushFacts, LogFacts
  <1>4. sink \in BOOLEAN /\ receiver \in Receivers
    BY DEF StreamInv, Receivers
  <1>5. /\ Consecutive(streamed, receiver.from)
        /\ sink => receiver.from + Len(streamed) = audit.next
        /\ streamed \in Seq(Nat) /\ receiver.from \in Nat
        /\ receiver.drained \in Seq(Nat) /\ receiver.queue \in Seq(Nat)
    BY <1>4, ReceiverFacts DEF StreamInv, StreamedAsRecorded
  <1>6. more \in Seq(Nat) /\ Len(more) = Len(new) /\ Consecutive(more, audit.next)
    <2> HIDE DEF new
    <2>1. more = [i \in 1..Len(new) |-> new[i].seq]
      BY <1>1 DEF Seqs
    <2>2. Len(new) \in Nat /\ \A i \in 1..Len(new) : new[i].seq \in Nat
      BY <1>1, <1>3
    <2>3. more \in Seq(Nat) /\ Len(more) = Len(new)
      BY <2>1, <2>2
    <2> QED
      BY <1>1, <2>1, <2>3 DEF Consecutive
  <1> HIDE DEF new, more
  <1>7. CASE sink
    <2>1. receiver' = [receiver EXCEPT !.queue = receiver.queue \o more]
      BY <1>2, <1>7
    <2>2. receiver.queue \o more \in Seq(Nat)
      BY <1>5, <1>6, ConcatProperties
    <2>3. /\ receiver' \in Receivers /\ receiver'.from = receiver.from
          /\ receiver'.drained = receiver.drained /\ receiver'.queue = receiver.queue \o more
      BY <1>4, <2>1, <2>2 DEF Receivers
    <2>4. receiver'.drained \o receiver'.queue = streamed \o more
      <3>1. (receiver.drained \o receiver.queue) \o more = receiver.drained \o (receiver.queue \o more)
        <4>1. receiver.drained \in Seq(Nat) /\ receiver.queue \in Seq(Nat) /\ more \in Seq(Nat)
          BY <1>5, <1>6
        <4> QED
          BY ONLY <4>1, NatConcat
      <3> QED
        BY <2>3, <3>1
    <2>5. Consecutive(streamed \o more, receiver.from)
      BY <1>5, <1>6, <1>7, ConsecutiveConcat
    <2>6. Len(streamed \o more) = Len(streamed) + Len(more)
      BY <1>5, <1>6, ConcatProperties
    <2>7. receiver'.from + Len(streamed \o more) = audit'.next
      <3> HIDE DEF streamed
      <3>1. Len(streamed) \in Nat /\ Len(more) \in Nat
        BY <1>5, <1>6
      <3> QED
        BY <1>3, <1>5, <1>6, <1>7, <2>3, <2>6, <3>1
    <2>8. LET u == receiver'.drained \o receiver'.queue
          IN  u = [i \in DOMAIN u |-> receiver'.from + i - 1] <=> Consecutive(u, receiver'.from)
      BY <2>3, ReceiverFacts
    <2>9. StreamedAsRecorded'
      BY <2>3, <2>4, <2>5, <2>7, <2>8 DEF StreamedAsRecorded
    <2> QED
      BY <1>4, <2>3, <2>9 DEF StreamInv, Receivers
  <1>8. CASE ~sink
    <2>1. receiver' = receiver /\ ~sink'
      BY <1>2, <1>8
    <2> QED
      BY <1>4, <1>8, <2>1 DEF StreamInv, StreamedAsRecorded
  <1> QED
    BY <1>7, <1>8

LEMMA RecordPolls ==
  ASSUME LogOK(audit), PollInv, NEW e \in Extensions, NEW kinds \in Seq(Kinds),
         Record(e, kinds)
  PROVE  LogOK(audit') /\ PollInv'
  <1> DEFINE new == Entries(audit, e, kinds)
             after == Push(audit, new)
             gone == {s \in host.cursor + 1 .. after.next - 1 : s \notin SeqsIn(after)}
  <1>1. new \in Seq(Rows) /\ \A i \in 1..Len(new) : new[i].seq = audit.next + i - 1
    BY EntriesFacts
  <1>2. LogOK(after) /\ after.next = audit.next + Len(new) /\ Oldest(after) >= Oldest(audit)
    BY <1>1, PushFacts
  <1>3. audit' = after /\ host' = [host EXCEPT !.missed = host.missed \cup gone]
    BY DEF Record
  <1>4. audit.next \in Nat /\ Oldest(audit) \in Nat /\ after.next \in Nat
        /\ Oldest(after) \in Nat /\ Oldest(after) <= after.next /\ Len(new) \in Nat
    BY <1>1, <1>2, LogFacts
  <1> HIDE DEF new, after
  <1>5. host \in Hosts /\ host.cursor \in Nat /\ host.missed \in SUBSET Nat
    BY DEF PollInv, Hosts
  <1>6. gone = host.cursor + 1 .. Oldest(after) - 1
    <2>1. ASSUME NEW s \in gone PROVE s \in host.cursor + 1 .. Oldest(after) - 1
      <3>1. s \in Nat /\ s > host.cursor /\ s < after.next /\ s \notin SeqsIn(after)
        BY <1>4, <1>5
      <3>2. ~(s >= Oldest(after))
        BY <1>2, <3>1, SeqsInFacts
      <3> QED
        BY <1>4, <1>5, <3>1, <3>2
    <2>2. ASSUME NEW s \in host.cursor + 1 .. Oldest(after) - 1 PROVE s \in gone
      <3>1. s \in Nat /\ s > host.cursor /\ s < after.next /\ ~(s >= Oldest(after))
        BY <1>4, <1>5
      <3>2. s \notin SeqsIn(after)
        BY <1>2, <3>1, SeqsInFacts
      <3> QED
        BY <1>4, <1>5, <3>1, <3>2
    <2> QED
      BY <2>1, <2>2
  <1> HIDE DEF gone
  <1>7. gone \in SUBSET Nat
    BY <1>4, <1>5, <1>6
  <1>8. /\ host' \in Hosts /\ host'.cursor = host.cursor /\ host'.read = host.read
        /\ host'.missed = host.missed \cup gone
    BY <1>3, <1>5, <1>7 DEF Hosts
  <1>9. host'.cursor < audit'.next
    BY <1>2, <1>3, <1>4, <1>5, <1>8 DEF PollInv
  <1>10. host'.cursor + 1 .. Oldest(audit') - 1 \subseteq host'.missed
    BY <1>3, <1>6, <1>8
  <1>11. \A s \in host'.missed : s < Oldest(audit')
    <2>1. \A s \in host.missed : s \in Nat /\ s < Oldest(audit)
      BY <1>5 DEF PollInv
    <2>2. \A s \in gone : s < Oldest(after)
      BY <1>4, <1>5, <1>6
    <2> QED
      BY <1>2, <1>3, <1>4, <1>8, <2>1, <2>2
  <1>12. 1..host'.cursor \subseteq Range(host'.read) \cup host'.missed
    BY <1>8 DEF PollInv
  <1> QED
    BY <1>2, <1>3, <1>8, <1>9, <1>10, <1>11, <1>12 DEF PollInv, Hosts

LEMMA PollKeeps ==
  ASSUME LogOK(audit), PollInv, NEW limit \in Limits, Poll(limit)
  PROVE  PollInv'
  <1> DEFINE seqs == Seqs(Query(audit, host.cursor, limit))
             first == IF host.cursor < Oldest(audit) THEN Oldest(audit) ELSE host.cursor + 1
  <1>1. host \in Hosts /\ host.cursor \in Nat /\ host.read \in Seq(Nat)
        /\ host.missed \in SUBSET Nat /\ host.cursor < audit.next
    BY DEF PollInv, Hosts
  <1>2. limit \in Nat
    BY EmbeddedAssumption
  <1>3. /\ seqs \in Seq(Nat)
        /\ \A i \in 1..Len(seqs) : seqs[i] = first + i - 1
        /\ first + Len(seqs) <= audit.next
    BY <1>1, <1>2, QueryFacts
  <1>4. /\ seqs # <<>> /\ audit' = audit
        /\ host' = [host EXCEPT !.cursor = Last(seqs), !.read = host.read \o seqs]
    BY DEF Poll, kernel
  <1>5. first \in Nat /\ first > host.cursor /\ Oldest(audit) \in Nat /\ audit.next \in Nat
    BY <1>1, LogFacts
  <1>6. first = Oldest(audit) \/ first = host.cursor + 1
    OBVIOUS
  <1>7. first >= Oldest(audit)
    BY <1>1, <1>5
  <1> HIDE DEF seqs, first
  <1>8. Len(seqs) \in Nat /\ Len(seqs) >= 1
    BY <1>3, <1>4
  <1> DEFINE last == first + Len(seqs) - 1
  <1>9. Last(seqs) = last /\ last \in Nat /\ last >= first /\ last < audit.next
    BY <1>3, <1>5, <1>8 DEF Last
  <1>10. /\ host.read \o seqs \in Seq(Nat)
         /\ Len(host.read \o seqs) = Len(host.read) + Len(seqs)
         /\ \A i \in 1..Len(host.read) + Len(seqs) :
              (host.read \o seqs)[i] =
                IF i <= Len(host.read) THEN host.read[i] ELSE seqs[i - Len(host.read)]
    BY <1>1, <1>3, ConcatProperties
  <1> DEFINE both == host.read \o seqs
             n == Len(host.read)
  <1> HIDE DEF both
  <1>11. /\ host' \in Hosts /\ host'.cursor = last /\ host'.read = both
         /\ host'.missed = host.missed
    BY <1>1, <1>4, <1>9, <1>10 DEF Hosts, both
  <1>12. n \in Nat /\ DOMAIN host.read = 1..n /\ DOMAIN both = 1..n + Len(seqs)
    BY <1>1, <1>8, <1>10 DEF both
  <1> HIDE DEF n, last
  <1>13. \A i \in 1..n : both[i] = host.read[i] /\ both[i] \in Nat /\ both[i] <= host.cursor
    <2> SUFFICES ASSUME NEW i \in 1..n
                 PROVE  both[i] = host.read[i] /\ both[i] \in Nat /\ both[i] <= host.cursor
      OBVIOUS
    <2>1. i <= n /\ i \in 1..n + Len(seqs)
      BY <1>8, <1>12
    <2>2. both[i] = host.read[i]
      BY <1>10, <2>1 DEF both, n
    <2>3. host.read[i] \in Nat /\ host.read[i] <= host.cursor
      BY <1>1, <1>12 DEF PollInv
    <2> QED
      BY <2>2, <2>3
  <1>14. \A i \in 1..n + Len(seqs) : i > n => both[i] = first + (i - n) - 1
    <2> SUFFICES ASSUME NEW i \in 1..n + Len(seqs), i > n PROVE both[i] = first + (i - n) - 1
      OBVIOUS
    <2>1. i - n \in 1..Len(seqs) /\ ~(i <= n)
      BY <1>8, <1>12
    <2>2. both[i] = seqs[i - n]
      BY <1>10, <2>1 DEF both, n
    <2> QED
      BY <1>3, <2>1, <2>2
  <1>15. \A i \in DOMAIN both : both[i] <= last
    <2> SUFFICES ASSUME NEW i \in 1..n + Len(seqs) PROVE both[i] <= last
      BY <1>12
    <2>1. CASE i > n
      <3>1. both[i] = first + (i - n) - 1 /\ i - n <= Len(seqs)
        BY <1>8, <1>12, <1>14, <2>1
      <3> QED
        BY <1>5, <1>8, <1>12, <3>1 DEF last
    <2>2. CASE ~(i > n)
      <3>1. i \in 1..n
        BY <1>12, <2>2
      <3> QED
        BY <1>1, <1>5, <1>9, <1>13, <3>1
    <2> QED
      BY <2>1, <2>2
  <1>16. \A i, j \in DOMAIN both : i < j => both[i] < both[j]
    <2> SUFFICES ASSUME NEW i \in 1..n + Len(seqs), NEW j \in 1..n + Len(seqs), i < j
                 PROVE  both[i] < both[j]
      BY <1>12
    <2>1. CASE j <= n
      <3>1. i \in 1..n /\ j \in 1..n
        BY <1>12, <2>1
      <3>2. host.read[i] < host.read[j]
        BY <1>12, <3>1 DEF PollInv
      <3> QED
        BY <1>13, <3>1, <3>2
    <2>2. CASE j > n /\ i <= n
      <3>1. i \in 1..n /\ both[j] = first + (j - n) - 1
        BY <1>12, <1>14, <2>2
      <3>2. both[i] \in Nat /\ both[i] <= host.cursor
        BY <1>13, <3>1
      <3> QED
        BY <1>1, <1>5, <1>12, <2>2, <3>1, <3>2
    <2>3. CASE j > n /\ i > n
      <3>1. both[i] = first + (i - n) - 1 /\ both[j] = first + (j - n) - 1
        BY <1>14, <2>3
      <3> QED
        BY <1>5, <1>12, <3>1
    <2> QED
      BY <1>12, <2>1, <2>2, <2>3
  <1>17. 1..last \subseteq Range(both) \cup host.missed
    <2> SUFFICES ASSUME NEW s \in 1..last, s \notin host.missed PROVE s \in Range(both)
      OBVIOUS
    <2>0. s \in Nat
      BY <1>9
    <2>1. CASE s <= host.cursor
      <3>1. s \in Range(host.read)
        <4>1. s \in 1..host.cursor
          BY <1>1, <2>0, <2>1
        <4> QED
          BY <4>1 DEF PollInv
      <3>2. PICK i \in 1..n : s = host.read[i]
        BY <1>12, <3>1 DEF Range
      <3>3. i \in DOMAIN both /\ both[i] = s
        BY <1>8, <1>12, <1>13, <3>2
      <3> QED
        BY <3>3 DEF Range
    <2>2. CASE s > host.cursor /\ s < first
      <3>1. first = Oldest(audit)
        BY <1>1, <1>5, <1>6, <2>0, <2>2
      <3>2. s \in host.cursor + 1 .. Oldest(audit) - 1
        BY <1>1, <1>5, <2>0, <2>2, <3>1
      <3> QED
        BY <3>2 DEF PollInv
    <2>3. CASE s >= first
      <3> DEFINE i == n + (s - first) + 1
      <3>1. i \in 1..n + Len(seqs) /\ i > n /\ first + (i - n) - 1 = s
        <4>1. /\ s \in Nat /\ first \in Nat /\ n \in Nat /\ Len(seqs) \in Nat
              /\ s >= first /\ s <= last
          BY <1>5, <1>8, <1>9, <1>12, <2>0, <2>3
        <4>2. last = first + Len(seqs) - 1
          BY DEF last
        <4> QED
          BY ONLY <4>1, <4>2 DEF i
      <3> HIDE DEF i
      <3>2. i \in DOMAIN both /\ both[i] = s
        BY <1>12, <1>14, <3>1
      <3> QED
        BY <3>2 DEF Range
    <2> QED
      BY <1>1, <1>5, <2>0, <2>1, <2>2, <2>3
  <1>18. last + 1 .. Oldest(audit) - 1 \subseteq host.missed
    <2>1. last + 1 > Oldest(audit) - 1
      BY <1>5, <1>7, <1>9
    <2> QED
      BY <1>5, <1>9, <2>1
  <1> QED
    BY <1>4, <1>9, <1>11, <1>15, <1>16, <1>17, <1>18 DEF PollInv, Hosts

LEMMA DrainKeeps ==
  ASSUME StreamInv, Drain
  PROVE  StreamInv'
  <1>1. sink \in BOOLEAN /\ receiver \in Receivers
    BY DEF StreamInv, Receivers
  <1> DEFINE streamed == receiver.drained \o receiver.queue
  <1>2. /\ receiver' = [receiver EXCEPT !.drained = streamed, !.queue = <<>>]
        /\ sink' = sink /\ audit' = audit
    BY DEF Drain, kernel
  <1>3. streamed \in Seq(Nat)
    BY <1>1, ReceiverFacts
  <1>4. /\ receiver' \in Receivers /\ receiver'.from = receiver.from
        /\ receiver'.drained = streamed /\ receiver'.queue = <<>>
    <2> HIDE DEF streamed
    <2>1. <<>> \in Seq(Nat)
      OBVIOUS
    <2> QED
      BY <1>1, <1>2, <1>3, <2>1 DEF Receivers
  <1>5. streamed \o <<>> = streamed
    BY <1>3, ConcatEmptySeq
  <1>6. receiver'.drained \o receiver'.queue = streamed
    BY <1>4, <1>5
  <1>7. StreamedAsRecorded'
    BY <1>2, <1>4, <1>6 DEF StreamInv, StreamedAsRecorded
  <1> QED
    BY <1>1, <1>2, <1>4, <1>7 DEF StreamInv, Receivers

\* A receiver with nothing yet.
LEMMA NewReceiver ==
  ASSUME NEW from \in Nat \ {0}
  PROVE  LET r == [from |-> from, queue |-> <<>>, drained |-> <<>>]
             streamed == r.drained \o r.queue
         IN  /\ r \in Receivers
             /\ streamed = [i \in DOMAIN streamed |-> r.from + i - 1]
             /\ r.from + Len(streamed) = from
  <1> DEFINE r == [from |-> from, queue |-> <<>>, drained |-> <<>>]
             streamed == r.drained \o r.queue
  <1>1. <<>> \in Seq(Nat) /\ Len(<<>>) = 0
    OBVIOUS
  <1>2. r \in Receivers /\ r.from = from /\ r.drained = <<>> /\ r.queue = <<>>
    BY <1>1 DEF Receivers
  <1>3. streamed = <<>>
    BY <1>1, ConcatEmptySeq
  <1>4. Consecutive(streamed, from)
    BY <1>1, <1>3 DEF Consecutive
  <1>5. streamed = [i \in DOMAIN streamed |-> r.from + i - 1]
    BY <1>1, <1>2, <1>3, <1>4, StreamedFacts
  <1> QED
    BY <1>1, <1>2, <1>3, <1>5

LEMMA InstallKeeps ==
  ASSUME LogOK(audit), Install
  PROVE  StreamInv'
  <1>1. audit.next \in Nat \ {0}
    BY LogFacts
  <1>2. sink' = TRUE /\ audit' = audit
        /\ receiver' = [from |-> audit.next, queue |-> <<>>, drained |-> <<>>]
    BY DEF Install
  <1> QED
    BY <1>1, <1>2, NewReceiver DEF StreamInv, StreamedAsRecorded, Receivers

LEMMA EmptyLogOK == LogOK(EmptyLog) /\ EmptyLog.next = 1 /\ Oldest(EmptyLog) = 1
  <1>1. EmptyLog.ring = <<>> /\ EmptyLog.next = 1 /\ Len(<<>>) = 0 /\ <<>> \in Seq(Rows)
    BY DEF EmptyLog
  <1>2. Min({Capacity, 0}) = 0
    <2>1. Capacity \in Nat /\ 0 \in Nat /\ 0 <= Capacity
      BY AuditAssumption
    <2> QED
      BY ONLY <2>1, MinOfTwo
  <1>3. EmptyLog \in [ring : Seq(Rows), next : Nat \ {0}]
    BY <1>1 DEF EmptyLog
  <1> QED
    BY <1>1, <1>2, <1>3 DEF LogOK, Oldest

-----------------------------------------------------------------------------
(* What really happened to a plugin, and what its account knows of it.      *)

LEMMA AppendFacts ==
  ASSUME NEW S, NEW s \in Seq(S), NEW x \in S
  PROVE  /\ Append(s, x) \in Seq(S) /\ Len(Append(s, x)) = Len(s) + 1
         /\ DOMAIN Append(s, x) = 1..Len(s) + 1 /\ DOMAIN s = 1..Len(s) /\ Len(s) \in Nat
         /\ \A i \in 1..Len(s) : Append(s, x)[i] = s[i]
         /\ Append(s, x)[Len(s) + 1] = x
  OBVIOUS

LEMMA HighWatersFinite ==
  ASSUME NEW seen \in Seq(Nat)
  PROVE  HighWaters(seen) \subseteq 1..Len(seen) /\ IsFiniteSet(HighWaters(seen))
  <1>1. HighWaters(seen) \subseteq 1..Len(seen) /\ Len(seen) \in Nat
    BY DEF HighWaters
  <1>2. IsFiniteSet(1..Len(seen))
    BY <1>1, FS_Interval
  <1> QED
    BY <1>1, <1>2, FS_Subset

\* A new observation is a high water exactly if it is above the largest so far.
LEMMA ObserveAppend ==
  ASSUME NEW seen \in Seq(Nat), NEW hw \in Nat, HighWaterOf(seen, hw), NEW usage \in Nat
  PROVE  LET more == Append(seen, usage)
             next == IF usage > hw THEN usage ELSE hw
         IN  /\ HighWaterOf(more, next)
             /\ Cardinality(HighWaters(more)) =
                  IF usage > hw THEN Cardinality(HighWaters(seen)) + 1
                                ELSE Cardinality(HighWaters(seen))
  <1> DEFINE more == Append(seen, usage)
             n == Len(seen)
             next == IF usage > hw THEN usage ELSE hw
  <1>1. /\ more \in Seq(Nat) /\ Len(more) = n + 1 /\ DOMAIN more = 1..n + 1
        /\ DOMAIN seen = 1..n /\ n \in Nat
        /\ \A i \in 1..n : more[i] = seen[i] /\ seen[i] \in Nat
        /\ more[n + 1] = usage
    BY AppendFacts
  <1> HIDE DEF more, n
  <1>2. \A i \in 1..n : seen[i] <= hw
    BY <1>1 DEF HighWaterOf
  <1>3. hw # 0 => \E i \in 1..n : seen[i] = hw
    BY <1>1 DEF HighWaterOf
  <1>4. HighWaterOf(more, next)
    <2>1. \A i \in 1..n + 1 : i \in 1..n \/ i = n + 1
      BY <1>1
    <2>2. \A i \in 1..n + 1 : more[i] <= next
      BY <1>1, <1>2, <2>1
    <2>3. next # 0 => \E i \in 1..n + 1 : more[i] = next
      <3>1. CASE usage > hw
        <4>1. n + 1 \in 1..n + 1
          BY <1>1
        <4> QED
          BY <1>1, <3>1, <4>1
      <3>2. CASE ~(usage > hw)
        <4>1. \A i \in 1..n : i \in 1..n + 1
          BY <1>1
        <4> QED
          BY <1>1, <1>3, <3>2, <4>1
      <3> QED
        BY <3>1, <3>2
    <2> QED
      BY <1>1, <2>2, <2>3 DEF HighWaterOf
  <1>5. \A i \in 1..n : {more[j] : j \in 1..i - 1} = {seen[j] : j \in 1..i - 1}
    <2>1. \A i \in 1..n : \A j \in 1..i - 1 : j \in 1..n
      BY <1>1
    <2> QED
      BY <1>1, <2>1
  <1>6. Max({0} \cup {more[j] : j \in 1..(n + 1) - 1}) = hw
    <2> DEFINE T == {0} \cup {more[j] : j \in 1..(n + 1) - 1}
    <2>1. 1..(n + 1) - 1 = 1..n
      BY <1>1
    <2>2. \A y \in T : y \in Nat /\ y <= hw
      BY <1>1, <1>2, <2>1
    <2>3. hw \in T
      BY <1>1, <1>3, <2>1
    <2> HIDE DEF T
    <2> QED
      BY <2>2, <2>3, MaxFact DEF T
  <1>7. \A i \in 1..n : i \in HighWaters(more) <=> i \in HighWaters(seen)
    <2> SUFFICES ASSUME NEW i \in 1..n PROVE i \in HighWaters(more) <=> i \in HighWaters(seen)
      OBVIOUS
    <2>1. i \in 1..n + 1
      BY <1>1
    <2>2. i \in HighWaters(more) <=> more[i] > Max({0} \cup {more[j] : j \in 1..i - 1})
      BY <1>1, <2>1 DEF HighWaters
    <2>3. i \in HighWaters(seen) <=> seen[i] > Max({0} \cup {seen[j] : j \in 1..i - 1})
      BY <1>1 DEF HighWaters
    <2> QED
      BY <1>1, <1>5, <2>2, <2>3
  <1>8. n + 1 \in HighWaters(more) <=> usage > hw
    <2>1. n + 1 \in DOMAIN more
      BY <1>1
    <2>2. n + 1 \in HighWaters(more)
            <=> more[n + 1] > Max({0} \cup {more[j] : j \in 1..(n + 1) - 1})
      BY <2>1 DEF HighWaters
    <2> QED
      BY <1>1, <1>6, <2>2
  <1>9. HighWaters(more) \subseteq 1..n + 1 /\ HighWaters(seen) \subseteq 1..n
        /\ IsFiniteSet(HighWaters(seen))
    BY <1>1, HighWatersFinite DEF n
  <1>10. HighWaters(more) = IF usage > hw THEN HighWaters(seen) \cup {n + 1} ELSE HighWaters(seen)
    <2>1. \A i \in 1..n + 1 : i \in 1..n \/ i = n + 1
      BY <1>1
    <2>2. CASE usage > hw
      <3>1. n + 1 \in HighWaters(more)
        BY <1>8, <2>2
      <3>2. \A i : i \in HighWaters(more) <=> i \in HighWaters(seen) \/ i = n + 1
        BY ONLY <1>7, <1>9, <2>1, <3>1
      <3> QED
        BY <2>2, <3>2
    <2>3. CASE ~(usage > hw)
      <3>1. n + 1 \notin HighWaters(more)
        BY <1>8, <2>3
      <3>2. \A i : i \in HighWaters(more) <=> i \in HighWaters(seen)
        <4>1. \A i \in 1..n : i \in 1..n + 1
          BY <1>1
        <4> QED
          BY ONLY <1>7, <1>9, <2>1, <3>1, <4>1
      <3> QED
        BY <2>3, <3>2
    <2> QED
      BY <2>2, <2>3
  <1>11. n + 1 \notin HighWaters(seen)
    BY <1>1, <1>9
  <1>12. Cardinality(HighWaters(seen) \cup {n + 1}) = Cardinality(HighWaters(seen)) + 1
    BY <1>9, <1>11, FS_AddElement
  <1> QED
    BY <1>4, <1>10, <1>12 DEF more

LEMMA EpisodesFinite ==
  ASSUME NEW over \in Seq(BOOLEAN)
  PROVE  Episodes(over) \subseteq 1..Len(over) /\ IsFiniteSet(Episodes(over))
  <1>1. StreakThreshold \in Nat /\ StreakThreshold # 0
    BY AuditAssumption
  <1>2. Episodes(over) \subseteq 1..Len(over) /\ Len(over) \in Nat
    BY <1>1 DEF Episodes
  <1>3. IsFiniteSet(1..Len(over))
    BY <1>2, FS_Interval
  <1> QED
    BY <1>2, <1>3, FS_Subset

\* A new episode is complete exactly when the streak reaches the threshold.
LEMMA OverAppend ==
  ASSUME NEW over \in Seq(BOOLEAN), NEW streak \in Nat, StreakOf(over, streak), NEW b \in BOOLEAN
  PROVE  LET more == Append(over, b)
         IN  /\ StreakOf(more, IF b THEN streak + 1 ELSE 0)
             /\ Cardinality(Episodes(more)) =
                  IF b /\ streak + 1 = StreakThreshold THEN Cardinality(Episodes(over)) + 1
                                                       ELSE Cardinality(Episodes(over))
  <1> DEFINE more == Append(over, b)
             n == Len(over)
             T == StreakThreshold
  <1>0. T \in Nat /\ T # 0
    BY AuditAssumption
  <1>1. /\ more \in Seq(BOOLEAN) /\ Len(more) = n + 1 /\ n \in Nat
        /\ \A i \in 1..n : more[i] = over[i]
        /\ more[n + 1] = b
    BY AppendFacts
  <1>2. /\ streak <= n
        /\ \A j \in n - streak + 1 .. n : over[j]
        /\ streak < n => ~over[n - streak]
    BY DEF StreakOf
  <1> HIDE DEF more, n, T
  <1>3. StreakOf(more, IF b THEN streak + 1 ELSE 0)
    <2>1. CASE b
      <3>1. \A j \in (n + 1) - (streak + 1) + 1 .. n + 1 : more[j]
        <4> SUFFICES ASSUME NEW j \in (n + 1) - (streak + 1) + 1 .. n + 1 PROVE more[j]
          OBVIOUS
        <4>1. CASE j = n + 1
          BY <1>1, <2>1, <4>1
        <4>2. CASE j # n + 1
          <5>1. j \in n - streak + 1 .. n /\ j \in 1..n
            BY <1>1, <1>2, <4>2
          <5> QED
            BY <1>1, <1>2, <5>1
        <4> QED
          BY <4>1, <4>2
      <3>2. streak + 1 < n + 1 => ~more[(n + 1) - (streak + 1)]
        <4> SUFFICES ASSUME streak + 1 < n + 1 PROVE ~more[(n + 1) - (streak + 1)]
          OBVIOUS
        <4>1. (n + 1) - (streak + 1) = n - streak /\ n - streak \in 1..n /\ streak < n
          BY <1>1
        <4> QED
          BY <1>1, <1>2, <4>1
      <3>3. streak + 1 <= n + 1
        BY <1>1, <1>2
      <3> QED
        BY <1>1, <2>1, <3>1, <3>2, <3>3 DEF StreakOf
    <2>2. CASE ~b
      <3>1. \A j \in (n + 1) - 0 + 1 .. n + 1 : FALSE
        BY <1>1
      <3>2. (n + 1) - 0 = n + 1 /\ 0 <= n + 1
        BY <1>1
      <3> QED
        BY <1>1, <2>2, <3>1, <3>2 DEF StreakOf
    <2> QED
      BY <2>1, <2>2
  <1>4. \A i \in T..n : i \in Episodes(more) <=> i \in Episodes(over)
    <2> SUFFICES ASSUME NEW i \in T..n PROVE i \in Episodes(more) <=> i \in Episodes(over)
      OBVIOUS
    <2>1. i \in T..n + 1 /\ i \in Nat
      BY <1>0, <1>1
    <2>2. \A j \in i - T + 1 .. i : more[j] = over[j]
      <3>1. \A j \in i - T + 1 .. i : j \in 1..n
        BY <1>0, <1>1, <2>1
      <3> QED
        BY <1>1, <3>1
    <2>3. i > T => more[i - T] = over[i - T]
      <3>1. i > T => i - T \in 1..n
        BY <1>0, <1>1, <2>1
      <3> QED
        BY <1>1, <3>1
    <2>4. i \in Episodes(more) <=> /\ \A j \in i - T + 1 .. i : more[j]
                                   /\ i > T => ~more[i - T]
      BY <1>1, <2>1 DEF Episodes, T
    <2>5. i \in Episodes(over) <=> /\ \A j \in i - T + 1 .. i : over[j]
                                   /\ i > T => ~over[i - T]
      BY DEF Episodes, T, n
    <2> QED
      BY <2>2, <2>3, <2>4, <2>5
  <1>5. n + 1 \in Episodes(more) <=> b /\ streak + 1 = T
    <2>1. n + 1 \in Episodes(more) <=> /\ n + 1 >= T
                                       /\ \A j \in (n + 1) - T + 1 .. n + 1 : more[j]
                                       /\ n + 1 > T => ~more[(n + 1) - T]
      <3>1. n + 1 \in T..n + 1 <=> n + 1 >= T
        BY <1>0, <1>1
      <3> QED
        BY <1>1, <3>1 DEF Episodes, T
    <2>2. ASSUME b, streak + 1 = T PROVE n + 1 \in Episodes(more)
      <3>1. n + 1 >= T
        BY <1>1, <1>2, <2>2
      <3>2. \A j \in (n + 1) - T + 1 .. n + 1 : more[j]
        <4> SUFFICES ASSUME NEW j \in (n + 1) - T + 1 .. n + 1 PROVE more[j]
          OBVIOUS
        <4>1. CASE j = n + 1
          BY <1>1, <2>2, <4>1
        <4>2. CASE j # n + 1
          <5>1. j \in n - streak + 1 .. n /\ j \in 1..n
            BY <1>1, <1>2, <2>2, <4>2
          <5> QED
            BY <1>1, <1>2, <5>1
        <4> QED
          BY <4>1, <4>2
      <3>3. n + 1 > T => ~more[(n + 1) - T]
        <4> SUFFICES ASSUME n + 1 > T PROVE ~more[(n + 1) - T]
          OBVIOUS
        <4>1. (n + 1) - T = n - streak /\ n - streak \in 1..n /\ streak < n
          BY <1>0, <1>1, <2>2
        <4> QED
          BY <1>1, <1>2, <4>1
      <3> QED
        BY <2>1, <3>1, <3>2, <3>3
    <2>3. ASSUME n + 1 \in Episodes(more) PROVE b /\ streak + 1 = T
      <3>1. /\ n + 1 >= T
            /\ \A j \in (n + 1) - T + 1 .. n + 1 : more[j]
            /\ n + 1 > T => ~more[(n + 1) - T]
        BY <2>1, <2>3
      <3>2. b
        <4>1. n + 1 \in (n + 1) - T + 1 .. n + 1
          BY <1>0, <1>1
        <4> QED
          BY <1>1, <3>1, <4>1
      <3>3. ~(streak + 1 < T)
        <4> SUFFICES ASSUME streak + 1 < T PROVE FALSE
          OBVIOUS
        <4>1. streak < n /\ n - streak \in 1..n /\ n - streak \in (n + 1) - T + 1 .. n + 1
          BY <1>0, <1>1, <3>1
        <4> QED
          BY <1>1, <1>2, <3>1, <4>1
      <3>4. ~(streak + 1 > T)
        <4> SUFFICES ASSUME streak + 1 > T PROVE FALSE
          OBVIOUS
        <4>1. n + 1 > T /\ (n + 1) - T \in 1..n /\ (n + 1) - T \in n - streak + 1 .. n
          BY <1>0, <1>1, <1>2
        <4> QED
          BY <1>1, <1>2, <3>1, <4>1
      <3> QED
        BY <1>0, <3>2, <3>3, <3>4
    <2> QED
      BY <2>2, <2>3
  <1>6. Episodes(more) \subseteq T..n + 1 /\ Episodes(over) \subseteq T..n
    BY <1>1 DEF Episodes, T, n
  <1>7. Episodes(more) = IF b /\ streak + 1 = T THEN Episodes(over) \cup {n + 1} ELSE Episodes(over)
    <2>1. \A i \in T..n + 1 : i \in T..n \/ i = n + 1
      BY <1>0, <1>1
    <2>2. n + 1 \notin T..n
      BY <1>0, <1>1
    <2> QED
      BY <1>4, <1>5, <1>6, <2>1, <2>2
  <1>8. IsFiniteSet(Episodes(over))
    BY EpisodesFinite
  <1>9. n + 1 \notin Episodes(over)
    BY <1>0, <1>1, <1>6
  <1>10. Cardinality(Episodes(over) \cup {n + 1}) = Cardinality(Episodes(over)) + 1
    BY <1>8, <1>9, FS_AddElement
  <1> QED
    BY <1>3, <1>7, <1>10 DEF more, T

LEMMA NothingHappened ==
  /\ HighWaterOf(<<>>, 0) /\ Cardinality(HighWaters(<<>>)) = 0
  /\ StreakOf(<<>>, 0) /\ Cardinality(Episodes(<<>>)) = 0
  <1>1. Len(<<>>) = 0 /\ DOMAIN <<>> = {} /\ <<>> \in Seq(Nat) /\ <<>> \in Seq(BOOLEAN)
    OBVIOUS
  <1>2. 1..0 = {}
    OBVIOUS
  <1>3. HighWaters(<<>>) = {} /\ Episodes(<<>>) = {}
    BY <1>1, <1>2, HighWatersFinite, EpisodesFinite
  <1>4. HighWaterOf(<<>>, 0) /\ StreakOf(<<>>, 0)
    BY <1>1, <1>2 DEF HighWaterOf, StreakOf
  <1> QED
    BY <1>3, <1>4, FS_EmptySet

-----------------------------------------------------------------------------
(* One call, seen by the account of its plugin.                             *)

\* A call that is not settled leaves what it did to be charged.
LEMMA ProgressCharged ==
  ASSUME NEW a \in Accounts, NEW p, NEW q, NEW fuel, NEW met \in Growth, NEW gone \in Growth, NEW burnt \in Nat,
         PluginOK(p), Progress(p, q, fuel), Charged(a, NewEvents(p), gone, p.pending, met, burnt)
  PROVE  LET after == Plus(met, Minus(q.events, p.events))
         IN  /\ after \in Growth /\ burnt + fuel \in Nat
             /\ Charged(a, NewEvents(q), gone, q.pending, after, burnt + fuel)
  <1> DEFINE after == Plus(met, Minus(q.events, p.events))
  <1>1. PluginOK(q) /\ q.reported = p.reported /\ AtLeast(q.events, p.events) /\ fuel \in Nat
        /\ ((q.pending = p.pending /\ fuel = 0) \/ q.pending = {fuel})
    BY DEF Progress
  <1>2. p.events \in Growth /\ p.reported \in Growth /\ q.events \in Growth /\ p.pending \in SUBSET Nat
    BY <1>1, PluginFacts
  <1>3. after \in Growth
    BY <1>1, <1>2, GrowthFacts
  <1>4. a.soft \in Nat /\ a.denied \in Nat /\ a.consumed \in Nat
    BY DEF Accounts
  <1>5. /\ a.soft + NewEvents(q).soft + gone.soft = after.soft
        /\ a.denied + NewEvents(q).denied + gone.denied = after.denied
    <2>1. /\ p.events.soft \in Nat /\ p.events.denied \in Nat
          /\ p.reported.soft \in Nat /\ p.reported.denied \in Nat
          /\ q.events.soft \in Nat /\ q.events.denied \in Nat
          /\ met.soft \in Nat /\ met.denied \in Nat /\ gone.soft \in Nat /\ gone.denied \in Nat
      BY <1>2 DEF Growth
    <2>2. /\ after.soft = met.soft + (q.events.soft - p.events.soft)
          /\ after.denied = met.denied + (q.events.denied - p.events.denied)
      BY DEF Plus, Minus
    <2>3. /\ NewEvents(q).soft = q.events.soft - p.reported.soft
          /\ NewEvents(q).denied = q.events.denied - p.reported.denied
          /\ NewEvents(p).soft = p.events.soft - p.reported.soft
          /\ NewEvents(p).denied = p.events.denied - p.reported.denied
      BY <1>1 DEF NewEvents, Minus
    <2>4. /\ a.soft + NewEvents(p).soft + gone.soft = met.soft
          /\ a.denied + NewEvents(p).denied + gone.denied = met.denied
      BY DEF Charged
    <2> HIDE DEF after
    <2> QED
      BY <1>4, <2>1, <2>2, <2>3, <2>4
  <1>6. a.consumed <= burnt + fuel /\ \A c \in q.pending : a.consumed + c <= burnt + fuel
    <2>1. a.consumed <= burnt /\ \A c \in p.pending : a.consumed + c <= burnt
      BY DEF Charged
    <2> QED
      BY <1>1, <1>2, <1>4, <2>1
  <1> HIDE DEF after
  <1>7. burnt + fuel \in Nat
    BY <1>1
  <1>8. Charged(a, NewEvents(q), gone, q.pending, after, burnt + fuel)
    BY <1>5, <1>6 DEF Charged
  <1> QED
    BY <1>3, <1>7, <1>8 DEF after

\* A call that is settled is charged, with what earlier calls left.
LEMMA SettleCharged ==
  ASSUME NEW a \in Accounts, NEW q, NEW met \in Growth, NEW gone \in Growth, NEW burnt \in Nat,
         PluginOK(q), Charged(a, NewEvents(q), gone, q.pending, met, burnt),
         NEW trap \in BOOLEAN, NEW slice \in SUBSET Nat
  PROVE  LET b == Charge(a, trap, NewEvents(q), q.pages, q.pending, slice)
         IN  b \in Accounts /\ Charged(b, NoEvents, gone, {}, met, burnt)
  <1> DEFINE b == Charge(a, trap, NewEvents(q), q.pages, q.pending, slice)
  <1>1. NewEvents(q) \in Growth /\ q.pages \in Nat /\ q.pending \in SUBSET Nat
        /\ \A x, y \in q.pending : x = y
    BY PluginFacts
  <1>2. /\ b \in Accounts
        /\ b.soft = a.soft + NewEvents(q).soft /\ b.denied = a.denied + NewEvents(q).denied
        /\ ~Counted(q.pending, slice) => b.consumed = a.consumed
        /\ Counted(q.pending, slice) => \A c \in q.pending : b.consumed = a.consumed + c
    <2>1. AfterCall(a, b, NewEvents(q), q.pages, q.pending, slice)
      BY <1>1, ChargeFacts
    <2> HIDE DEF b
    <2> QED
      BY <2>1 DEF AfterCall
  <1> HIDE DEF b
  <1>3. /\ b.soft + NoEvents.soft + gone.soft = met.soft
        /\ b.denied + NoEvents.denied + gone.denied = met.denied
    <2>1. b.soft \in Nat /\ b.denied \in Nat
      BY <1>2 DEF Accounts
    <2> QED
      BY <1>2, <2>1, GrowthFacts DEF Charged
  <1>4. b.consumed <= burnt
    <2>1. CASE Counted(q.pending, slice)
      <3>1. PICK c \in q.pending : b.consumed = a.consumed + c
        BY <1>2, <2>1 DEF Counted
      <3> QED
        BY <3>1 DEF Charged
    <2>2. CASE ~Counted(q.pending, slice)
      BY <1>2, <2>2 DEF Charged
    <2> QED
      BY <2>1, <2>2
  <1>5. Charged(b, NoEvents, gone, {}, met, burnt)
    BY <1>3, <1>4 DEF Charged
  <1> QED
    BY <1>2, <1>5 DEF b

\* What waits in an instance that goes is gone, and so is what a lost instance met.
LEMMA GoneCharged ==
  ASSUME NEW a \in Accounts, NEW waiting \in Growth, NEW gone \in Growth, NEW met \in Growth,
         NEW pending, NEW burnt, Charged(a, waiting, gone, pending, met, burnt)
  PROVE  Charged(a, NoEvents, Plus(gone, waiting), {}, met, burnt)
  <1>1. /\ a.soft \in Nat /\ a.denied \in Nat
        /\ waiting.soft \in Nat /\ waiting.denied \in Nat
        /\ gone.soft \in Nat /\ gone.denied \in Nat
    BY DEF Accounts, Growth
  <1>2. /\ Plus(gone, waiting).soft = gone.soft + waiting.soft
        /\ Plus(gone, waiting).denied = gone.denied + waiting.denied
    BY DEF Plus
  <1> QED
    BY <1>1, <1>2, GrowthFacts DEF Charged

LEMMA LostCharged ==
  ASSUME NEW a \in Accounts, NEW gone \in Growth, NEW met \in Growth,
         NEW new \in Growth, NEW burnt \in Nat, NEW fuel \in Nat,
         Charged(a, NoEvents, gone, {}, met, burnt)
  PROVE  Charged(a, NoEvents, Plus(gone, new), {}, Plus(met, new), burnt + fuel)
  <1>1. /\ a.soft \in Nat /\ a.denied \in Nat /\ a.consumed \in Nat
        /\ new.soft \in Nat /\ new.denied \in Nat
        /\ gone.soft \in Nat /\ gone.denied \in Nat
    BY DEF Accounts, Growth
  <1>2. /\ Plus(gone, new).soft = gone.soft + new.soft
        /\ Plus(gone, new).denied = gone.denied + new.denied
        /\ Plus(met, new).soft = met.soft + new.soft
        /\ Plus(met, new).denied = met.denied + new.denied
    BY DEF Plus
  <1> QED
    BY <1>1, <1>2, GrowthFacts DEF Charged

\* What the account and the reports say after a settled call.
AtMostOne(S) == \A x, y \in S : x = y

\* The account and its history agree after the call is settled.
SettledAgree(a, seen, over, made, trap, new, usage, consumed, slice) ==
  LET b == Charge(a, trap, new, usage, consumed, slice)
      over2 == IF consumed = {} \/ slice = {} THEN over
               ELSE Append(over, OverSlice(consumed, slice))
      leaks == made.leaks + (IF LeakSuspected(a, usage) THEN 1 ELSE 0)
      violations == made.violations + (IF Violates(a, consumed, slice) THEN 1 ELSE 0)
      made2 == [leaks |-> leaks, violations |-> violations]
  IN  /\ Append(seen, usage) \in Seq(Nat) /\ over2 \in Seq(BOOLEAN)
      /\ made2 \in Reported
      /\ Agrees(b, Append(seen, usage), over2, made2)

LEMMA SettleAgrees ==
  ASSUME NEW a \in Accounts, NEW seen \in Seq(Nat), NEW over \in Seq(BOOLEAN),
         NEW made \in Reported, Agrees(a, seen, over, made),
         NEW trap \in BOOLEAN, NEW new \in Growth, NEW usage \in Nat,
         NEW consumed \in SUBSET Nat, NEW slice \in SUBSET Nat, AtMostOne(consumed)
  PROVE  SettledAgree(a, seen, over, made, trap, new, usage, consumed, slice)
  <1> DEFINE b == Charge(a, trap, new, usage, consumed, slice)
             over2 == IF consumed = {} \/ slice = {} THEN over
                      ELSE Append(over, OverSlice(consumed, slice))
             leaks == made.leaks + (IF LeakSuspected(a, usage) THEN 1 ELSE 0)
             violations == made.violations + (IF Violates(a, consumed, slice) THEN 1 ELSE 0)
             made2 == [leaks |-> leaks, violations |-> violations]
  <1>1. /\ b \in Accounts
        /\ b.highWater = IF usage > a.highWater THEN usage ELSE a.highWater
        /\ b.newHighs = IF usage > a.highWater THEN a.newHighs + 1 ELSE a.newHighs
        /\ b.leakReported <=> a.leakReported \/ LeakSuspected(a, usage)
        /\ ~Counted(consumed, slice) => b.streak = a.streak /\ b.violations = a.violations
        /\ Counted(consumed, slice) =>
             /\ b.streak = IF OverSlice(consumed, slice) THEN a.streak + 1 ELSE 0
             /\ b.violations =
                  IF Violates(a, consumed, slice) THEN a.violations + 1 ELSE a.violations
    <2>1. AfterCall(a, b, new, usage, consumed, slice)
      BY ChargeFacts DEF AtMostOne
    <2> HIDE DEF b
    <2> QED
      BY <2>1 DEF AfterCall
  <1> HIDE DEF b
  <1>2. /\ a.highWater \in Nat /\ a.newHighs \in Nat /\ a.leakReported \in BOOLEAN
        /\ a.streak \in Nat /\ a.violations \in Nat /\ b.leakReported \in BOOLEAN
        /\ made.leaks \in Nat /\ made.violations \in Nat
    BY <1>1 DEF Accounts, Reported
  <1>3. /\ HighWaterOf(seen, a.highWater) /\ a.newHighs = Cardinality(HighWaters(seen))
        /\ a.leakReported <=> a.newHighs >= LeakThreshold
        /\ made.leaks = IF a.leakReported THEN 1 ELSE 0
        /\ StreakOf(over, a.streak) /\ a.violations = Cardinality(Episodes(over))
        /\ made.violations = a.violations
    BY DEF Agrees
  <1>4. /\ HighWaterOf(Append(seen, usage), b.highWater)
        /\ b.newHighs = Cardinality(HighWaters(Append(seen, usage)))
    BY <1>1, <1>2, <1>3, ObserveAppend
  <1>5. LeakThreshold \in Nat
    BY AuditAssumption
  <1>6. b.leakReported <=> b.newHighs >= LeakThreshold
    <2>1. CASE usage > a.highWater
      BY <1>1, <1>2, <1>3, <1>5, <2>1 DEF LeakSuspected
    <2>2. CASE ~(usage > a.highWater)
      BY <1>1, <1>2, <1>3, <1>5, <2>2 DEF LeakSuspected
    <2> QED
      BY <2>1, <2>2
  <1>7. leaks = IF b.leakReported THEN 1 ELSE 0
    <2>1. LeakSuspected(a, usage) => ~a.leakReported
      BY DEF LeakSuspected
    <2>2. CASE LeakSuspected(a, usage)
      BY <1>1, <1>3, <2>1, <2>2
    <2>3. CASE ~LeakSuspected(a, usage)
      BY <1>1, <1>2, <1>3, <2>3
    <2> QED
      BY <2>2, <2>3
  <1>8. /\ over2 \in Seq(BOOLEAN) /\ StreakOf(over2, b.streak)
        /\ b.violations = Cardinality(Episodes(over2)) /\ violations = b.violations
    <2> DEFINE o == OverSlice(consumed, slice)
    <2>1. CASE Counted(consumed, slice)
      <3>1. o \in BOOLEAN /\ over2 = Append(over, o)
        BY <2>1 DEF OverSlice, Counted
      <3>2. Violates(a, consumed, slice) <=> o /\ a.streak + 1 = StreakThreshold
        BY DEF Violates
      <3>3. b.streak = IF o THEN a.streak + 1 ELSE 0
        BY <1>1, <2>1
      <3>4. b.violations = IF Violates(a, consumed, slice) THEN a.violations + 1 ELSE a.violations
        BY <1>1, <2>1
      <3> HIDE DEF o, over2
      <3>5. /\ StreakOf(Append(over, o), IF o THEN a.streak + 1 ELSE 0)
            /\ Cardinality(Episodes(Append(over, o))) =
                 IF o /\ a.streak + 1 = StreakThreshold THEN Cardinality(Episodes(over)) + 1
                                                        ELSE Cardinality(Episodes(over))
        BY <1>2, <1>3, <3>1, OverAppend
      <3>6. over2 \in Seq(BOOLEAN)
        BY <3>1, AppendFacts
      <3>7. StreakOf(over2, b.streak)
        BY <3>1, <3>3, <3>5
      <3>8. CASE Violates(a, consumed, slice)
        BY <1>3, <3>1, <3>2, <3>4, <3>5, <3>6, <3>7, <3>8
      <3>9. CASE ~Violates(a, consumed, slice)
        BY <1>2, <1>3, <3>1, <3>2, <3>4, <3>5, <3>6, <3>7, <3>9
      <3> QED
        BY <3>8, <3>9
    <2>2. CASE ~Counted(consumed, slice)
      <3>1. over2 = over
        BY <2>2 DEF Counted
      <3>2. ~Violates(a, consumed, slice)
        BY <2>2 DEF Violates, OverSlice, Counted
      <3> QED
        BY <1>1, <1>2, <1>3, <2>2, <3>1, <3>2
    <2> QED
      BY <2>1, <2>2
  <1>9. Append(seen, usage) \in Seq(Nat)
    BY AppendFacts
  <1>10. leaks \in Nat /\ violations \in Nat
    BY <1>2
  <1> HIDE DEF over2, leaks, violations
  <1>11. made2 \in Reported /\ made2.leaks = leaks /\ made2.violations = violations
    BY <1>10 DEF Reported
  <1>12. Agrees(b, Append(seen, usage), over2, made2)
    BY <1>3, <1>4, <1>6, <1>7, <1>8, <1>11 DEF Agrees
  <1> QED
    BY <1>8, <1>9, <1>11, <1>12 DEF SettledAgree, b, over2, leaks, violations

-----------------------------------------------------------------------------
(* Steps of the kernel.                                                     *)

LEMMA LoadedFacts ==
  ASSUME LoadedInv, NEW e \in DOMAIN plugin
  PROVE  /\ e \in Extensions /\ e \in DOMAIN loaded /\ LoadOK(loaded[e])
         /\ PluginOK(plugin[e]) /\ accounting[e] \in Accounts
         /\ Waiting(e) = NewEvents(plugin[e]) /\ Pending(e) = plugin[e].pending
  BY DEF LoadedInv, Waiting, Pending

SameCharge(a, b) == a.soft = b.soft /\ a.denied = b.denied /\ a.consumed = b.consumed

\* A call that is not settled: InvokeFails, TickBytes, Deactivate.
LEMMA UnsettledCall ==
  ASSUME LoadedInv, ChargeInv, NEW e \in DOMAIN plugin, NEW q, NEW fuel,
         Progress(plugin[e], q, fuel), plugin' = [plugin EXCEPT ![e] = q],
         Ran(e, plugin[e], q, fuel), loaded' = loaded,
         accounting' \in [Extensions -> Accounts],
         \A x \in Extensions : SameCharge(accounting[x], accounting'[x])
  PROVE  LoadedInv' /\ ChargeInv'
  <1>1. /\ e \in Extensions /\ PluginOK(plugin[e]) /\ accounting[e] \in Accounts
        /\ Waiting(e) = NewEvents(plugin[e]) /\ Pending(e) = plugin[e].pending
    BY LoadedFacts
  <1>2. /\ burned \in [Extensions -> Nat] /\ events \in [Extensions -> Growth]
        /\ lost \in [Extensions -> Growth]
        /\ \A x \in Extensions : Charged(accounting[x], Waiting(x), lost[x], Pending(x), events[x], burned[x])
    BY DEF ChargeInv
  <1> DEFINE met == Plus(events[e], Minus(q.events, plugin[e].events))
  <1>3. /\ met \in Growth /\ burned[e] + fuel \in Nat
        /\ Charged(accounting[e], NewEvents(q), lost[e], q.pending, met, burned[e] + fuel)
    <2>1. Charged(accounting[e], NewEvents(plugin[e]), lost[e], plugin[e].pending, events[e], burned[e])
      BY <1>1, <1>2
    <2>2. events[e] \in Growth /\ burned[e] \in Nat /\ lost[e] \in Growth
      BY <1>1, <1>2
    <2> QED
      BY <1>1, <2>1, <2>2, ProgressCharged
  <1>4. /\ burned' = [burned EXCEPT ![e] = burned[e] + fuel]
        /\ events' = [events EXCEPT ![e] = met]
        /\ lost' = lost
    BY DEF Ran
  <1> HIDE DEF met
  <1>5. /\ burned' \in [Extensions -> Nat] /\ events' \in [Extensions -> Growth]
        /\ burned'[e] = burned[e] + fuel /\ events'[e] = met
        /\ \A x \in Extensions : x # e => burned'[x] = burned[x] /\ events'[x] = events[x]
    BY <1>1, <1>2, <1>3, <1>4
  <1>6. /\ DOMAIN plugin' = DOMAIN plugin /\ plugin'[e] = q
        /\ \A x \in DOMAIN plugin : x # e => plugin'[x] = plugin[x]
    OBVIOUS
  <1>7. \A x \in DOMAIN plugin' : PluginOK(plugin'[x])
    <2>1. PluginOK(q)
      BY DEF Progress
    <2>2. \A x \in DOMAIN plugin : PluginOK(plugin[x])
      BY DEF LoadedInv
    <2> QED
      BY <1>6, <2>1, <2>2
  <1>8. LoadedInv'
    BY <1>6, <1>7 DEF LoadedInv
  <1>9. ASSUME NEW x \in Extensions
        PROVE  Charged(accounting'[x], Waiting(x)', lost'[x], Pending(x)', events'[x], burned'[x])
    <2>1. SameCharge(accounting[x], accounting'[x])
      OBVIOUS
    <2>2. CASE x = e
      <3>1. Waiting(x)' = NewEvents(q) /\ Pending(x)' = q.pending
        BY <1>6, <2>2 DEF Waiting, Pending
      <3>2. Charged(accounting[x], NewEvents(q), lost[x], q.pending, met, burned[e] + fuel)
        BY <1>3, <2>2
      <3> QED
        BY <1>4, <1>5, <2>1, <2>2, <3>1, <3>2 DEF Charged, SameCharge
    <2>3. CASE x # e
      <3>1. Waiting(x)' = Waiting(x) /\ Pending(x)' = Pending(x)
        BY <1>6, <2>3 DEF Waiting, Pending
      <3>2. Charged(accounting[x], Waiting(x), lost[x], Pending(x), events[x], burned[x])
        BY <1>2
      <3> QED
        BY <1>4, <1>5, <2>1, <2>3, <3>1, <3>2 DEF Charged, SameCharge
    <2> QED
      BY <2>2, <2>3
  <1> QED
    BY <1>2, <1>4, <1>5, <1>8, <1>9 DEF ChargeInv

\* A call that is settled: InvokeSucceeds, InvokeBytes.
LEMMA SettledCall ==
  ASSUME LoadedInv, ChargeInv, ReportsInv, NEW e \in DOMAIN plugin, NEW q, NEW fuel,
         NEW trap \in BOOLEAN, Progress(plugin[e], q, fuel),
         Settle(e, plugin[e], q, fuel, trap), loaded' = loaded
  PROVE  /\ LoadedInv' /\ ChargeInv' /\ ReportsInv'
         /\ \E kinds \in Seq(Kinds) : Record(e, kinds)
         /\ given' = given
  <1> DEFINE a == accounting[e]
             slice == loaded[e].slice
             kinds == Reports(a, trap, NewEvents(q), q.pages, q.pending, slice)
             b == Charge(a, trap, NewEvents(q), q.pages, q.pending, slice)
             met == Plus(events[e], Minus(q.events, plugin[e].events))
             over == IF q.pending = {} \/ slice = {} THEN overs[e]
                     ELSE Append(overs[e], OverSlice(q.pending, slice))
             made == [leaks |-> reports[e].leaks + (IF LeakSuspected(a, q.pages) THEN 1 ELSE 0),
                      violations |-> reports[e].violations
                                       + (IF Violates(a, q.pending, slice) THEN 1 ELSE 0)]
             seen == Append(usages[e], q.pages)
  <1>1. /\ e \in Extensions /\ PluginOK(plugin[e]) /\ a \in Accounts /\ LoadOK(loaded[e])
        /\ Waiting(e) = NewEvents(plugin[e]) /\ Pending(e) = plugin[e].pending
    BY LoadedFacts
  <1>2. slice \in SUBSET Nat
    BY <1>1, LoadFacts
  <1>3. PluginOK(q) /\ NewEvents(q) \in Growth /\ q.pages \in Nat /\ q.pending \in SUBSET Nat
        /\ \A x, y \in q.pending : x = y
    <2>1. PluginOK(q)
      BY DEF Progress
    <2> QED
      BY <2>1, PluginFacts
  <1>4. /\ kinds \in Seq(Kinds)
        /\ Contains(kinds, "leak.suspected") <=> LeakSuspected(a, q.pages)
        /\ Contains(kinds, "contract.violation") <=> Violates(a, q.pending, slice)
    BY <1>1, ReportsFacts
  <1>5. /\ accounting' = [accounting EXCEPT ![e] = b]
        /\ Record(e, kinds)
        /\ plugin' = [plugin EXCEPT ![e] = Drained(q)]
        /\ burned' = [burned EXCEPT ![e] = burned[e] + fuel]
        /\ events' = [events EXCEPT ![e] = met]
        /\ lost' = lost
        /\ usages' = [usages EXCEPT ![e] = seen]
        /\ given' = given
    BY DEF Settle, Ran
  <1>6. overs' = IF q.pending = {} \/ slice = {} THEN overs
                 ELSE [overs EXCEPT ![e] = Append(overs[e], OverSlice(q.pending, slice))]
    BY DEF Settle
  <1>7. reports' = [reports EXCEPT ![e] = made]
    <2>1. reports' = [reports EXCEPT ![e] =
            [leaks |-> reports[e].leaks + (IF Contains(kinds, "leak.suspected") THEN 1 ELSE 0),
             violations |-> reports[e].violations
                              + (IF Contains(kinds, "contract.violation") THEN 1 ELSE 0)]]
      BY DEF Settle
    <2> HIDE DEF kinds
    <2> QED
      BY <1>4, <2>1
  <1>8. /\ burned \in [Extensions -> Nat] /\ events \in [Extensions -> Growth]
        /\ lost \in [Extensions -> Growth]
        /\ \A x \in Extensions : Charged(accounting[x], Waiting(x), lost[x], Pending(x), events[x], burned[x])
    BY DEF ChargeInv
  <1>9. /\ met \in Growth /\ burned[e] + fuel \in Nat
        /\ Charged(a, NewEvents(q), lost[e], q.pending, met, burned[e] + fuel)
    <2>1. Charged(a, NewEvents(plugin[e]), lost[e], plugin[e].pending, events[e], burned[e])
      BY <1>1, <1>8
    <2>2. events[e] \in Growth /\ burned[e] \in Nat /\ lost[e] \in Growth
      BY <1>1, <1>8
    <2> QED
      BY <1>1, <2>1, <2>2, ProgressCharged
  <1> HIDE DEF met
  <1>10. b \in Accounts /\ Charged(b, NoEvents, lost[e], {}, met, burned[e] + fuel)
    <2>1. lost[e] \in Growth
      BY <1>1, <1>8
    <2> HIDE DEF b
    <2>2. LET c == Charge(a, trap, NewEvents(q), q.pages, q.pending, slice)
          IN  c \in Accounts /\ Charged(c, NoEvents, lost[e], {}, met, burned[e] + fuel)
      BY <1>1, <1>2, <1>3, <1>9, <2>1, SettleCharged
    <2> QED
      BY <2>2 DEF b
  <1>11. /\ usages \in [Extensions -> Seq(Nat)] /\ overs \in [Extensions -> Seq(BOOLEAN)]
         /\ reports \in [Extensions -> Reported]
         /\ \A x \in Extensions : Agrees(accounting[x], usages[x], overs[x], reports[x])
    BY DEF ReportsInv
  <1>12. seen \in Seq(Nat) /\ over \in Seq(BOOLEAN) /\ made \in Reported
         /\ Agrees(b, seen, over, made)
    <2>1. usages[e] \in Seq(Nat) /\ overs[e] \in Seq(BOOLEAN) /\ reports[e] \in Reported
          /\ Agrees(a, usages[e], overs[e], reports[e])
      BY <1>1, <1>11
    <2>2. a \in Accounts /\ NewEvents(q) \in Growth /\ q.pages \in Nat
          /\ q.pending \in SUBSET Nat /\ AtMostOne(q.pending)
      BY <1>1, <1>3 DEF AtMostOne
    <2> HIDE DEF a, slice
    <2>3. SettledAgree(a, usages[e], overs[e], reports[e], trap, NewEvents(q), q.pages,
                       q.pending, slice)
      BY ONLY <1>2, <2>1, <2>2, trap \in BOOLEAN, SettleAgrees
    <2> QED
      BY ONLY <2>3 DEF SettledAgree, b, over, made, seen, kinds
  <1>13. overs' = [overs EXCEPT ![e] = over]
    BY <1>1, <1>6, <1>11
  <1> HIDE DEF b, over, made, seen
  <1>14. /\ accounting \in [Extensions -> Accounts] /\ accounting' \in [Extensions -> Accounts]
         /\ accounting'[e] = b
         /\ \A x \in Extensions : x # e => accounting'[x] = accounting[x]
    BY <1>1, <1>5, <1>10 DEF LoadedInv
  <1>15. /\ burned' \in [Extensions -> Nat] /\ events' \in [Extensions -> Growth]
         /\ burned'[e] = burned[e] + fuel /\ events'[e] = met
         /\ \A x \in Extensions : x # e => burned'[x] = burned[x] /\ events'[x] = events[x]
    BY <1>1, <1>5, <1>8, <1>9
  <1>16. /\ DOMAIN plugin' = DOMAIN plugin /\ plugin'[e] = Drained(q)
         /\ \A x \in DOMAIN plugin : x # e => plugin'[x] = plugin[x]
    BY <1>5
  <1>17. PluginOK(Drained(q)) /\ NewEvents(Drained(q)) = NoEvents /\ Drained(q).pending = {}
    BY <1>3, DrainedOK
  <1>18. LoadedInv'
    <2>1. \A x \in DOMAIN plugin' : PluginOK(plugin'[x])
      <3>1. \A x \in DOMAIN plugin : PluginOK(plugin[x])
        BY DEF LoadedInv
      <3> QED
        BY <1>16, <1>17, <3>1
    <2> QED
      BY <1>14, <1>16, <2>1 DEF LoadedInv
  <1>19. ASSUME NEW x \in Extensions
         PROVE  Charged(accounting'[x], Waiting(x)', lost'[x], Pending(x)', events'[x], burned'[x])
    <2>1. CASE x = e
      <3>1. Waiting(x)' = NoEvents /\ Pending(x)' = {}
        BY <1>16, <1>17, <2>1 DEF Waiting, Pending
      <3> QED
        BY <1>5, <1>10, <1>14, <1>15, <2>1, <3>1
    <2>2. CASE x # e
      <3>1. Waiting(x)' = Waiting(x) /\ Pending(x)' = Pending(x)
        BY <1>16, <2>2 DEF Waiting, Pending
      <3> QED
        BY <1>5, <1>8, <1>14, <1>15, <2>2, <3>1
    <2> QED
      BY <2>1, <2>2
  <1>20. ChargeInv'
    BY <1>5, <1>8, <1>15, <1>19 DEF ChargeInv
  <1>21. /\ usages' \in [Extensions -> Seq(Nat)] /\ overs' \in [Extensions -> Seq(BOOLEAN)]
         /\ reports' \in [Extensions -> Reported]
         /\ usages'[e] = seen /\ overs'[e] = over /\ reports'[e] = made
         /\ \A x \in Extensions : x # e => /\ usages'[x] = usages[x] /\ overs'[x] = overs[x]
                                           /\ reports'[x] = reports[x]
    BY <1>1, <1>5, <1>7, <1>11, <1>12, <1>13
  <1>22. \A x \in Extensions : Agrees(accounting'[x], usages'[x], overs'[x], reports'[x])
    BY <1>11, <1>12, <1>14, <1>21
  <1>23. ReportsInv'
    BY <1>21, <1>22 DEF ReportsInv
  <1> QED
    BY <1>4, <1>5, <1>18, <1>20, <1>23

-----------------------------------------------------------------------------
(* The invariant and its steps.                                             *)

LogInv == LogOK(audit) /\ StreamInv /\ PollInv

Inv == LoadedInv /\ ChargeInv /\ ReportsInv /\ HandleInv /\ LogInv

LEMMA LogFrame ==
  ASSUME LogInv, UNCHANGED <<audit, sink, receiver, host>>
  PROVE  LogInv'
  <1>1. LogOK(audit)'
    BY DEF LogInv, LogOK, Oldest
  <1>2. StreamInv'
    BY DEF LogInv, StreamInv, StreamedAsRecorded
  <1>3. PollInv'
    BY DEF LogInv, PollInv, Oldest
  <1> QED
    BY <1>1, <1>2, <1>3 DEF LogInv

LEMMA RecordKeeps ==
  ASSUME LogInv, NEW e \in Extensions, NEW kinds \in Seq(Kinds), Record(e, kinds), sink' = sink
  PROVE  LogInv'
  BY RecordStreams, RecordPolls DEF LogInv

\* A step that puts entries into the log, or none.
Records == sink' = sink /\ \E e \in Extensions, kinds \in Seq(Kinds) : Record(e, kinds)

LEMMA HandleFrame ==
  ASSUME HandleInv, UNCHANGED <<handles, nextHandle, given>>
  PROVE  HandleInv'
  BY DEF HandleInv, HandleNamesOne

LEMMA ChargeFrame ==
  ASSUME LoadedInv, ChargeInv, UNCHANGED <<loaded, plugin, accounting, ran>>
  PROVE  LoadedInv' /\ ChargeInv'
  BY DEF LoadedInv, ChargeInv, Waiting, Pending, ran

LEMMA ReportsFrame ==
  ASSUME ReportsInv, UNCHANGED <<accounting, settled>>
  PROVE  ReportsInv'
  BY DEF ReportsInv, settled

\* What waits is growth, for an extension with an instance and for one without.
LEMMA WaitingFacts ==
  ASSUME Inv, NEW e \in Extensions
  PROVE  /\ Waiting(e) \in Growth /\ lost[e] \in Growth /\ events[e] \in Growth
         /\ accounting[e] \in Accounts /\ burned[e] \in Nat
         /\ Charged(accounting[e], Waiting(e), lost[e], Pending(e), events[e], burned[e])
  <1>1. Waiting(e) \in Growth
    <2>1. CASE e \in DOMAIN plugin
      BY <2>1, LoadedFacts, PluginFacts DEF Inv
    <2>2. CASE e \notin DOMAIN plugin
      BY <2>2, GrowthFacts DEF Waiting
    <2> QED
      BY <2>1, <2>2
  <1> QED
    BY <1>1 DEF Inv, ChargeInv, LoadedInv

\* The entries of an override, or none.
LEMMA OverrideFacts ==
  ASSUME NEW override \in BOOLEAN
  PROVE  When(override, "policy.consent_override") \in Seq(Kinds)
  <1>1. "policy.consent_override" \in Kinds
    BY DEF Kinds
  <1>2. <<"policy.consent_override">> \in Seq(Kinds) /\ <<>> \in Seq(Kinds)
    BY <1>1
  <1> QED
    BY <1>2 DEF When

LEMMA LoadKeeps ==
  ASSUME Inv, NEW e \in Extensions, NEW l \in Loads, NEW override \in BOOLEAN,
         Load(e, l, override)
  PROVE  Inv' /\ Records
  <1>1. /\ Record(e, When(override, "policy.consent_override"))
        /\ loaded' = With(loaded, e, l) /\ plugin' = Without(plugin, e)
        /\ lost' = [lost EXCEPT ![e] = Plus(lost[e], Waiting(e))]
        /\ UNCHANGED <<burned, events, settled, given>>
        /\ UNCHANGED <<handles, nextHandle, accounting, sink>>
    BY DEF Load
  <1>2. /\ DOMAIN loaded' = DOMAIN loaded \cup {e} /\ loaded'[e] = l
        /\ \A x \in DOMAIN loaded : x # e => loaded'[x] = loaded[x]
        /\ DOMAIN plugin' = DOMAIN plugin \ {e}
        /\ \A x \in DOMAIN plugin : x # e => plugin'[x] = plugin[x]
    BY <1>1 DEF With, Without
  <1>3. LoadedInv'
    <2>1. LoadOK(l)
      BY EmbeddedAssumption DEF LoadOK
    <2>2. \A x \in DOMAIN loaded' : LoadOK(loaded'[x])
      BY <1>2, <2>1 DEF Inv, LoadedInv
    <2>3. \A x \in DOMAIN plugin' : PluginOK(plugin'[x])
      BY <1>2 DEF Inv, LoadedInv
    <2> QED
      BY <1>1, <1>2, <2>2, <2>3 DEF Inv, LoadedInv
  <1>4. /\ burned \in [Extensions -> Nat] /\ events \in [Extensions -> Growth]
        /\ lost \in [Extensions -> Growth]
        /\ \A x \in Extensions : Charged(accounting[x], Waiting(x), lost[x], Pending(x), events[x], burned[x])
    BY DEF Inv, ChargeInv
  <1>5. /\ Plus(lost[e], Waiting(e)) \in Growth
        /\ Charged(accounting[e], NoEvents, Plus(lost[e], Waiting(e)), {}, events[e], burned[e])
    BY WaitingFacts, GoneCharged, GrowthFacts
  <1>6. /\ lost' \in [Extensions -> Growth] /\ lost'[e] = Plus(lost[e], Waiting(e))
        /\ \A x \in Extensions : x # e => lost'[x] = lost[x]
    BY <1>1, <1>4, <1>5
  <1>7. ASSUME NEW x \in Extensions
        PROVE  Charged(accounting'[x], Waiting(x)', lost'[x], Pending(x)', events'[x], burned'[x])
    <2>1. CASE x = e
      <3>1. Waiting(x)' = NoEvents /\ Pending(x)' = {}
        BY <1>2, <2>1 DEF Waiting, Pending
      <3> QED
        BY <1>1, <1>5, <1>6, <2>1, <3>1
    <2>2. CASE x # e
      <3>1. Waiting(x)' = Waiting(x) /\ Pending(x)' = Pending(x)
        BY <1>2, <2>2 DEF Waiting, Pending
      <3> QED
        BY <1>1, <1>4, <1>6, <2>2, <3>1
    <2> QED
      BY <2>1, <2>2
  <1>8. ChargeInv'
    BY <1>1, <1>4, <1>6, <1>7 DEF ChargeInv
  <1>9. ReportsInv' /\ HandleInv'
    BY <1>1, ReportsFrame, HandleFrame DEF Inv
  <1>10. LogInv' /\ Records
    BY <1>1, OverrideFacts, RecordKeeps DEF Inv, Records
  <1> QED
    BY <1>3, <1>8, <1>9, <1>10 DEF Inv

LEMMA LoadRejectedKeeps ==
  ASSUME Inv, NEW e \in Extensions, LoadRejected(e)
  PROVE  Inv'
  <1>1. Record(e, <<"admission.rejected">>)
        /\ UNCHANGED <<loaded, plugin, handles, nextHandle, accounting, sink, truth>>
    BY DEF LoadRejected
  <1>2. <<"admission.rejected">> \in Seq(Kinds)
    <2>1. "admission.rejected" \in Kinds
      BY DEF Kinds
    <2> QED
      BY <2>1
  <1>3. LogInv'
    BY <1>1, <1>2, RecordKeeps DEF Inv
  <1>4. LoadedInv' /\ ChargeInv' /\ ReportsInv' /\ HandleInv'
    BY <1>1, ChargeFrame, ReportsFrame, HandleFrame DEF Inv, truth
  <1> QED
    BY <1>3, <1>4 DEF Inv

LEMMA LoadFailsKeeps ==
  ASSUME Inv, NEW e \in Extensions, NEW override \in BOOLEAN, LoadFails(e, override)
  PROVE  Inv' /\ Records
  <1>1. PICK fuel \in {DefaultFuel} \cup {l.fuel : l \in Loads} :
          loaded' = [x \in DOMAIN loaded |->
                       IF x = e THEN [loaded[x] EXCEPT !.slice = {}, !.fuel = fuel]
                                ELSE loaded[x]]
    BY DEF LoadFails
  <1>2. Record(e, When(override, "policy.consent_override"))
        /\ UNCHANGED <<plugin, handles, nextHandle, accounting, sink, truth>>
    BY DEF LoadFails
  <1>3. fuel \in Nat
    BY EmbeddedAssumption
  <1>4. ASSUME NEW x \in DOMAIN loaded' PROVE LoadOK(loaded'[x])
    <2>1. LoadOK(loaded[x])
      BY <1>1 DEF Inv, LoadedInv
    <2>2. LoadOK([loaded[x] EXCEPT !.slice = {}, !.fuel = fuel])
      BY <1>3, <2>1 DEF LoadOK
    <2> QED
      BY <1>1, <2>1, <2>2
  <1>5. LoadedInv'
    BY <1>1, <1>2, <1>4 DEF Inv, LoadedInv
  <1>6. ChargeInv'
    BY <1>2 DEF Inv, ChargeInv, Waiting, Pending, truth, ran
  <1>7. ReportsInv' /\ HandleInv'
    BY <1>2, ReportsFrame, HandleFrame DEF Inv, truth
  <1>8. LogInv' /\ Records
    BY <1>2, OverrideFacts, RecordKeeps DEF Inv, Records
  <1> QED
    BY <1>5, <1>6, <1>7, <1>8 DEF Inv

LEMMA ActivateKeeps ==
  ASSUME Inv, NEW e \in Extensions, NEW g \in Guests, Activate(e, g)
  PROVE  Inv'
  <1> DEFINE fresh == Instantiate(loaded[e])
             ready == Lifecycle(fresh, g)
             fuel == LifecycleBurned(fresh, g)
             p == [ready EXCEPT !.fuel = loaded[e].fuel]
             met == Plus(events[e], ready.events)
  <1>1. /\ e \in DOMAIN loaded /\ e \notin DOMAIN plugin /\ Instantiates(loaded[e])
        /\ plugin' = With(plugin, e, p)
        /\ burned' = [burned EXCEPT ![e] = burned[e] + fuel]
        /\ events' = [events EXCEPT ![e] = met]
        /\ UNCHANGED <<lost, settled, given>>
        /\ UNCHANGED <<loaded, handles, nextHandle, accounting, audit, sink, receiver, host>>
    BY DEF Activate
  <1>2. LoadOK(loaded[e]) /\ loaded[e].fuel \in Nat
    BY <1>1, LoadFacts DEF Inv, LoadedInv
  <1>3. PluginOK(fresh) /\ fresh.reported = NoEvents /\ fresh.pending = {}
    BY <1>1, <1>2, InstantiateOK
  <1>4. Progress(fresh, ready, fuel)
    BY <1>3, LifecycleOK
  <1> HIDE DEF fresh, ready, fuel
  <1>5. /\ PluginOK(ready) /\ ready.reported = NoEvents /\ fuel \in Nat
        /\ (ready.pending = {} /\ fuel = 0) \/ ready.pending = {fuel}
    BY <1>3, <1>4 DEF Progress
  <1>6. /\ PluginOK(p) /\ p.pending = ready.pending /\ p.events = ready.events
        /\ p.reported = NoEvents
    BY <1>2, <1>5, RefuelledOK
  <1> HIDE DEF p
  <1>7. /\ burned \in [Extensions -> Nat] /\ events \in [Extensions -> Growth]
        /\ lost \in [Extensions -> Growth]
        /\ \A x \in Extensions : Charged(accounting[x], Waiting(x), lost[x], Pending(x), events[x], burned[x])
        /\ accounting \in [Extensions -> Accounts]
    BY DEF Inv, ChargeInv, LoadedInv
  <1>8. /\ met \in Growth /\ burned[e] + fuel \in Nat
        /\ Charged(accounting[e], NewEvents(p), lost[e], p.pending, met, burned[e] + fuel)
    <2>1. Waiting(e) = NoEvents /\ Pending(e) = {}
      BY <1>1 DEF Waiting, Pending
    <2>2. ready.events \in Growth /\ events[e] \in Growth /\ burned[e] \in Nat
          /\ accounting[e] \in Accounts /\ lost[e] \in Growth
          /\ Charged(accounting[e], NoEvents, lost[e], {}, events[e], burned[e])
      BY <1>5, <1>7, <2>1, PluginFacts
    <2>3. met \in Growth
      BY <2>2, GrowthFacts
    <2>4. /\ ready.events.soft \in Nat /\ ready.events.denied \in Nat
          /\ events[e].soft \in Nat /\ events[e].denied \in Nat
          /\ accounting[e].soft \in Nat /\ accounting[e].denied \in Nat
          /\ accounting[e].consumed \in Nat /\ lost[e].soft \in Nat /\ lost[e].denied \in Nat
      BY <2>2 DEF Accounts, Growth
    <2>5. /\ accounting[e].soft + lost[e].soft = events[e].soft
          /\ accounting[e].denied + lost[e].denied = events[e].denied
          /\ accounting[e].consumed <= burned[e]
      BY <2>2, <2>4, GrowthFacts DEF Charged
    <2>6. /\ met.soft = events[e].soft + ready.events.soft
          /\ met.denied = events[e].denied + ready.events.denied
          /\ NewEvents(p).soft = ready.events.soft /\ NewEvents(p).denied = ready.events.denied
      BY <1>6, <2>4, GrowthFacts DEF Plus, NewEvents, Minus
    <2> HIDE DEF met
    <2>7. accounting[e].consumed <= burned[e] + fuel
          /\ \A c \in p.pending : accounting[e].consumed + c <= burned[e] + fuel
      BY <1>5, <1>6, <2>2, <2>4, <2>5
    <2>8. Charged(accounting[e], NewEvents(p), lost[e], p.pending, met, burned[e] + fuel)
      BY <2>4, <2>5, <2>6, <2>7 DEF Charged
    <2> QED
      BY <1>5, <2>2, <2>3, <2>8
  <1> HIDE DEF met
  <1>9. /\ DOMAIN plugin' = DOMAIN plugin \cup {e} /\ plugin'[e] = p
        /\ \A x \in DOMAIN plugin : x # e => plugin'[x] = plugin[x]
    BY <1>1 DEF With, Without
  <1>10. LoadedInv'
    <2>1. \A x \in DOMAIN plugin' : PluginOK(plugin'[x])
      BY <1>6, <1>9 DEF Inv, LoadedInv
    <2> QED
      BY <1>1, <1>9, <2>1 DEF Inv, LoadedInv
  <1>11. /\ burned' \in [Extensions -> Nat] /\ events' \in [Extensions -> Growth]
         /\ burned'[e] = burned[e] + fuel /\ events'[e] = met
         /\ \A x \in Extensions : x # e => burned'[x] = burned[x] /\ events'[x] = events[x]
    BY <1>1, <1>7, <1>8
  <1>12. ASSUME NEW x \in Extensions
         PROVE  Charged(accounting'[x], Waiting(x)', lost'[x], Pending(x)', events'[x], burned'[x])
    <2>1. CASE x = e
      <3>1. Waiting(x)' = NewEvents(p) /\ Pending(x)' = p.pending
        BY <1>9, <2>1 DEF Waiting, Pending
      <3> QED
        BY <1>1, <1>8, <1>11, <2>1, <3>1
    <2>2. CASE x # e
      <3>1. Waiting(x)' = Waiting(x) /\ Pending(x)' = Pending(x)
        BY <1>9, <2>2 DEF Waiting, Pending
      <3> QED
        BY <1>1, <1>7, <1>11, <2>2, <3>1
    <2> QED
      BY <2>1, <2>2
  <1>13. ChargeInv'
    BY <1>1, <1>7, <1>11, <1>12 DEF ChargeInv
  <1>14. ReportsInv' /\ HandleInv' /\ LogInv'
    BY <1>1, ReportsFrame, HandleFrame, LogFrame DEF Inv
  <1> QED
    BY <1>10, <1>13, <1>14 DEF Inv

LEMMA ActivateFailsKeeps ==
  ASSUME Inv, NEW e \in Extensions, NEW g \in Guests, ActivateFails(e, g)
  PROVE  Inv'
  <1> DEFINE fresh == Instantiate(loaded[e])
             runs == Instantiates(loaded[e])
             met == IF runs THEN Lifecycle(fresh, g).events ELSE fresh.events
             fuel == IF runs THEN LifecycleBurned(fresh, g) ELSE 0
  <1>1. /\ e \in DOMAIN loaded /\ e \notin DOMAIN plugin
        /\ burned' = [burned EXCEPT ![e] = burned[e] + fuel]
        /\ events' = [events EXCEPT ![e] = Plus(events[e], met)]
        /\ lost' = [lost EXCEPT ![e] = Plus(lost[e], met)]
        /\ UNCHANGED <<settled, given>> /\ UNCHANGED <<kernel, receiver, host>>
    BY DEF ActivateFails
  <1>2. UNCHANGED <<loaded, plugin, handles, nextHandle, accounting, audit, sink>>
    BY <1>1 DEF kernel
  <1>3. PluginOK(fresh)
    BY <1>1, InstantiateOK DEF Inv, LoadedInv
  <1>4. met \in Growth /\ fuel \in Nat
    <2>1. Progress(fresh, Lifecycle(fresh, g), LifecycleBurned(fresh, g))
      BY <1>3, LifecycleOK
    <2> HIDE DEF fresh
    <2>2. PluginOK(Lifecycle(fresh, g)) /\ LifecycleBurned(fresh, g) \in Nat
      BY <2>1 DEF Progress
    <2> QED
      BY <1>3, <2>2, PluginFacts
  <1> HIDE DEF met, fuel
  <1>5. /\ burned \in [Extensions -> Nat] /\ events \in [Extensions -> Growth]
        /\ lost \in [Extensions -> Growth]
        /\ \A x \in Extensions : Charged(accounting[x], Waiting(x), lost[x], Pending(x), events[x], burned[x])
    BY DEF Inv, ChargeInv
  <1>6. /\ Plus(lost[e], met) \in Growth /\ Plus(events[e], met) \in Growth
        /\ burned[e] + fuel \in Nat
        /\ Charged(accounting[e], NoEvents, Plus(lost[e], met), {}, Plus(events[e], met),
                   burned[e] + fuel)
    <2>1. Waiting(e) = NoEvents /\ Pending(e) = {}
      BY <1>1 DEF Waiting, Pending
    <2>2. /\ lost[e] \in Growth /\ events[e] \in Growth /\ burned[e] \in Nat
          /\ accounting[e] \in Accounts
          /\ Charged(accounting[e], NoEvents, lost[e], {}, events[e], burned[e])
      BY <2>1, WaitingFacts
    <2> QED
      BY <1>4, <2>2, LostCharged, GrowthFacts
  <1>7. /\ burned' \in [Extensions -> Nat] /\ events' \in [Extensions -> Growth]
        /\ lost' \in [Extensions -> Growth]
        /\ burned'[e] = burned[e] + fuel /\ events'[e] = Plus(events[e], met)
        /\ lost'[e] = Plus(lost[e], met)
        /\ \A x \in Extensions : x # e => /\ burned'[x] = burned[x] /\ events'[x] = events[x]
                                          /\ lost'[x] = lost[x]
    BY <1>1, <1>5, <1>6
  <1>8. \A x \in Extensions : Waiting(x)' = Waiting(x) /\ Pending(x)' = Pending(x)
    BY <1>2 DEF Waiting, Pending
  <1>9. Waiting(e) = NoEvents /\ Pending(e) = {}
    BY <1>1 DEF Waiting, Pending
  <1>10. ASSUME NEW x \in Extensions
         PROVE  Charged(accounting'[x], Waiting(x)', lost'[x], Pending(x)', events'[x], burned'[x])
    <2>1. CASE x = e
      BY <1>2, <1>6, <1>7, <1>8, <1>9, <2>1
    <2>2. CASE x # e
      BY <1>2, <1>5, <1>7, <1>8, <2>2
    <2> QED
      BY <2>1, <2>2
  <1>11. ChargeInv'
    BY <1>7, <1>10 DEF ChargeInv
  <1>12. LoadedInv'
    BY <1>2 DEF Inv, LoadedInv
  <1>13. ReportsInv' /\ HandleInv' /\ LogInv'
    BY <1>1, <1>2, ReportsFrame, HandleFrame, LogFrame DEF Inv
  <1> QED
    BY <1>11, <1>12, <1>13 DEF Inv

LEMMA SameAccounts ==
  ASSUME LoadedInv, accounting' = accounting
  PROVE  /\ accounting' \in [Extensions -> Accounts]
         /\ \A x \in Extensions : SameCharge(accounting[x], accounting'[x])
  BY DEF LoadedInv, SameCharge

LEMMA DeactivateKeeps ==
  ASSUME Inv, NEW e \in Extensions, NEW g \in Guests, Deactivate(e, g)
  PROVE  Inv'
  <1> DEFINE q == Lifecycle(plugin[e], g)
             fuel == LifecycleBurned(plugin[e], g)
  <1>1. /\ e \in DOMAIN plugin /\ plugin' = [plugin EXCEPT ![e] = q]
        /\ Ran(e, plugin[e], q, fuel)
        /\ UNCHANGED <<settled, given>>
        /\ UNCHANGED <<loaded, handles, nextHandle, accounting, audit, sink, receiver, host>>
    BY DEF Deactivate
  <1>2. Progress(plugin[e], q, fuel)
    BY <1>1, LoadedFacts, LifecycleOK DEF Inv
  <1> HIDE DEF q, fuel
  <1>3. LoadedInv' /\ ChargeInv'
    BY <1>1, <1>2, SameAccounts, UnsettledCall DEF Inv
  <1>4. ReportsInv' /\ HandleInv' /\ LogInv'
    BY <1>1, ReportsFrame, HandleFrame, LogFrame DEF Inv
  <1> QED
    BY <1>3, <1>4 DEF Inv

LEMMA SettledKeeps ==
  ASSUME Inv, NEW e \in DOMAIN plugin, NEW q, NEW fuel, NEW trap \in BOOLEAN,
         Progress(plugin[e], q, fuel), Settle(e, plugin[e], q, fuel, trap),
         UNCHANGED <<loaded, handles, nextHandle, sink>>
  PROVE  Inv' /\ Records
  <1>1. /\ LoadedInv' /\ ChargeInv' /\ ReportsInv'
        /\ \E kinds \in Seq(Kinds) : Record(e, kinds)
        /\ given' = given
    BY SettledCall DEF Inv
  <1>2. e \in Extensions
    BY LoadedFacts DEF Inv
  <1>3. LogInv'
    BY <1>1, <1>2, RecordKeeps DEF Inv
  <1>4. HandleInv'
    BY <1>1, HandleFrame DEF Inv
  <1>5. Records
    BY <1>1, <1>2 DEF Records
  <1> QED
    BY <1>1, <1>3, <1>4, <1>5 DEF Inv

LEMMA InvokeSucceedsKeeps ==
  ASSUME Inv, NEW e \in Extensions, NEW request \in Requests, NEW g \in Guests,
         InvokeSucceeds(e, request, g)
  PROVE  Inv' /\ Records
  <1> DEFINE p == plugin[e]
             q == Called(p, EntryOf(p), request, g)
             fuel == Burned(p, EntryOf(p), request, g)
  <1>1. e \in DOMAIN plugin /\ Settle(e, p, q, fuel, FALSE)
        /\ UNCHANGED <<loaded, handles, nextHandle, sink>>
    BY DEF InvokeSucceeds
  <1>2. Progress(p, q, fuel)
    BY <1>1, LoadedFacts, CalledOK DEF Inv
  <1> HIDE DEF q, fuel
  <1> QED
    BY <1>1, <1>2, SettledKeeps

LEMMA InvokeFailsKeeps ==
  ASSUME Inv, NEW e \in Extensions, NEW request \in Requests, NEW g \in Guests,
         InvokeFails(e, request, g)
  PROVE  Inv' /\ Records
  <1> DEFINE p == plugin[e]
             q == Called(p, EntryOf(p), request, g)
             fuel == Burned(p, EntryOf(p), request, g)
             trap == Outcome(p, EntryOf(p), request, g) = "trap"
             b == RecordTrap(accounting[e], trap)
  <1>1. /\ e \in DOMAIN plugin
        /\ accounting' = [accounting EXCEPT ![e] = b]
        /\ Record(e, When(trap, "fuel.trap"))
        /\ plugin' = [plugin EXCEPT ![e] = q]
        /\ Ran(e, p, q, fuel)
        /\ UNCHANGED <<settled, given>>
        /\ UNCHANGED <<loaded, handles, nextHandle, sink>>
    BY DEF InvokeFails
  <1>2. Progress(p, q, fuel)
    BY <1>1, LoadedFacts, CalledOK DEF Inv
  <1>3. trap \in BOOLEAN
    OBVIOUS
  <1> HIDE DEF q, fuel, trap
  <1>4. /\ b \in Accounts /\ b.soft = accounting[e].soft /\ b.denied = accounting[e].denied
        /\ b.highWater = accounting[e].highWater /\ b.newHighs = accounting[e].newHighs
        /\ b.leakReported = accounting[e].leakReported /\ b.consumed = accounting[e].consumed
        /\ b.streak = accounting[e].streak /\ b.violations = accounting[e].violations
    <2>1. accounting[e] \in Accounts
      BY DEF Inv, LoadedInv
    <2> QED
      BY <1>3, <2>1, RecordTrapFacts
  <1> HIDE DEF b
  <1>5. /\ accounting' \in [Extensions -> Accounts] /\ accounting'[e] = b
        /\ \A x \in Extensions : x # e => accounting'[x] = accounting[x]
    BY <1>1, <1>4 DEF Inv, LoadedInv
  <1>6. \A x \in Extensions : SameCharge(accounting[x], accounting'[x])
    BY <1>4, <1>5 DEF SameCharge
  <1>7. LoadedInv' /\ ChargeInv'
    BY <1>1, <1>2, <1>5, <1>6, UnsettledCall DEF Inv
  <1>8. ReportsInv'
    <2>1. UNCHANGED <<usages, overs, reports>>
      BY <1>1 DEF settled
    <2>2. \A x \in Extensions : Agrees(accounting'[x], usages[x], overs[x], reports[x])
      <3>1. \A x \in Extensions : Agrees(accounting[x], usages[x], overs[x], reports[x])
        BY DEF Inv, ReportsInv
      <3>2. Agrees(b, usages[e], overs[e], reports[e])
        BY <1>4, <3>1 DEF Agrees
      <3> QED
        BY <1>5, <3>1, <3>2
    <2> QED
      BY <2>1, <2>2 DEF Inv, ReportsInv
  <1>9. When(trap, "fuel.trap") \in Seq(Kinds)
    <2>1. "fuel.trap" \in Kinds
      BY DEF Kinds
    <2> QED
      BY <1>3, <2>1, WhenFacts
  <1>10. LogInv'
    BY <1>1, <1>9, RecordKeeps DEF Inv
  <1>11. HandleInv'
    BY <1>1, HandleFrame DEF Inv
  <1>12. Records
    BY <1>1, <1>9 DEF Records
  <1> QED
    BY <1>7, <1>8, <1>10, <1>11, <1>12 DEF Inv

LEMMA InvokePtrKeeps ==
  ASSUME Inv, NEW h \in DOMAIN handles, NEW request \in Requests, NEW g \in Guests,
         InvokePtr(h, request, g)
  PROVE  Inv' /\ Records
  <1>1. PICK e \in DOMAIN plugin : e = handles[h]
    BY DEF InvokePtr, Reaches
  <1> DEFINE p == plugin[e]
             q == Called(p, "ext_call", request, g)
             fuel == Burned(p, "ext_call", request, g)
             trap == Outcome(p, "ext_call", request, g) = "trap"
  <1>2. Settle(e, p, q, fuel, trap) /\ UNCHANGED <<loaded, handles, nextHandle, sink>>
    BY <1>1 DEF InvokePtr, InvokeBytes
  <1>3. Progress(p, q, fuel)
    BY LoadedFacts, CalledOK DEF Inv
  <1>4. trap \in BOOLEAN
    OBVIOUS
  <1> HIDE DEF q, fuel, trap
  <1> QED
    BY <1>2, <1>3, <1>4, SettledKeeps

LEMMA TickPtrKeeps ==
  ASSUME Inv, NEW h \in DOMAIN handles, NEW request \in Requests, NEW g \in Guests,
         TickPtr(h, request, g)
  PROVE  Inv'
  <1>1. PICK e \in DOMAIN plugin : e = handles[h]
    BY DEF TickPtr, Reaches
  <1> DEFINE p == plugin[e]
             q == Called(p, "ext_tick", request, g)
             fuel == Burned(p, "ext_tick", request, g)
  <1>2. /\ plugin' = [plugin EXCEPT ![e] = q] /\ Ran(e, p, q, fuel)
        /\ UNCHANGED <<settled, given>>
        /\ UNCHANGED <<loaded, handles, nextHandle, accounting, audit, sink, receiver, host>>
    BY <1>1 DEF TickPtr, TickBytes
  <1>3. Progress(p, q, fuel)
    BY LoadedFacts, CalledOK DEF Inv
  <1> HIDE DEF q, fuel
  <1>4. LoadedInv' /\ ChargeInv'
    BY <1>2, <1>3, SameAccounts, UnsettledCall DEF Inv
  <1>5. ReportsInv' /\ HandleInv' /\ LogInv'
    BY <1>2, ReportsFrame, HandleFrame, LogFrame DEF Inv
  <1> QED
    BY <1>4, <1>5 DEF Inv

LEMMA ResolveKeeps ==
  ASSUME Inv, NEW e \in Extensions, Resolve(e)
  PROVE  Inv'
  <1> DEFINE n == nextHandle
  <1>1. /\ \A h \in DOMAIN handles : handles[h] # e
        /\ handles' = With(handles, n, e) /\ nextHandle' = n + 1
        /\ given' = given \cup {<<n, e>>}
        /\ UNCHANGED <<ran, settled>>
        /\ UNCHANGED <<loaded, plugin, accounting, audit, sink, receiver, host>>
    BY DEF Resolve, NextHandle
  <1>2. /\ n \in Nat /\ n # 0 /\ DOMAIN handles \subseteq 1..n - 1
        /\ \A h \in DOMAIN handles : handles[h] \in Extensions
        /\ given \subseteq (1..n - 1) \X Extensions
        /\ \A h \in DOMAIN handles : <<h, handles[h]>> \in given
        /\ \A x, y \in given : x[1] = y[1] => x[2] = y[2]
        /\ \A h, k \in DOMAIN handles : handles[h] = handles[k] => h = k
    BY DEF Inv, HandleInv, HandleNamesOne
  <1> HIDE DEF n
  <1>3. /\ DOMAIN handles' = DOMAIN handles \cup {n} /\ handles'[n] = e
        /\ n \notin DOMAIN handles
        /\ \A h \in DOMAIN handles : handles'[h] = handles[h]
    BY <1>1, <1>2 DEF With
  <1>4. handles' \in [DOMAIN handles' -> Extensions]
    <2>1. handles' = [y \in DOMAIN handles' |-> handles'[y]]
      BY <1>1 DEF With
    <2> QED
      BY <1>2, <1>3, <2>1
  <1>5. nextHandle' \in Nat \ {0} /\ 1..n - 1 \subseteq 1..nextHandle' - 1 /\ n \in 1..nextHandle' - 1
    BY <1>1, <1>2
  <1>6. DOMAIN handles' \subseteq 1..nextHandle' - 1
    BY <1>2, <1>3, <1>5
  <1>7. given' \subseteq (1..nextHandle' - 1) \X Extensions
    BY <1>1, <1>2, <1>5
  <1>8. \A h \in DOMAIN handles' : <<h, handles'[h]>> \in given'
    BY <1>1, <1>2, <1>3
  <1>9. \A x, y \in given' : x[1] = y[1] => x[2] = y[2]
    <2>1. \A x \in given : x[1] # n
      BY <1>2
    <2>2. <<n, e>>[1] = n /\ <<n, e>>[2] = e
      OBVIOUS
    <2>3. \A x \in given' : x \in given \/ x = <<n, e>>
      BY <1>1
    <2> QED
      BY <1>2, <2>1, <2>2, <2>3
  <1>10. \A h, k \in DOMAIN handles' : handles'[h] = handles'[k] => h = k
    BY <1>1, <1>2, <1>3
  <1>11. HandleInv'
    BY <1>4, <1>5, <1>6, <1>7, <1>8, <1>9, <1>10 DEF HandleInv, HandleNamesOne
  <1>12. LoadedInv' /\ ChargeInv' /\ ReportsInv' /\ LogInv'
    BY <1>1, ChargeFrame, ReportsFrame, LogFrame DEF Inv
  <1> QED
    BY <1>11, <1>12 DEF Inv

LEMMA ReleaseKeeps ==
  ASSUME Inv, NEW h \in DOMAIN handles, Release(h)
  PROVE  Inv'
  <1>1. /\ handles' = Without(handles, h)
        /\ UNCHANGED <<loaded, plugin, nextHandle, accounting, audit, sink, receiver, host,
                       truth>>
    BY DEF Release
  <1>2. /\ DOMAIN handles' = DOMAIN handles \ {h}
        /\ \A k \in DOMAIN handles' : handles'[k] = handles[k]
        /\ handles' = [k \in DOMAIN handles' |-> handles'[k]]
    BY <1>1 DEF Without
  <1>3. handles' \in [DOMAIN handles' -> Extensions]
    BY <1>2 DEF Inv, HandleInv
  <1>4. nextHandle' = nextHandle /\ given' = given
    BY <1>1 DEF truth
  <1>5. HandleInv'
    BY <1>2, <1>3, <1>4 DEF Inv, HandleInv, HandleNamesOne
  <1>6. LoadedInv' /\ ChargeInv' /\ ReportsInv' /\ LogInv'
    BY <1>1, ChargeFrame, ReportsFrame, LogFrame DEF Inv, truth
  <1> QED
    BY <1>5, <1>6 DEF Inv

LEMMA PollStepKeeps ==
  ASSUME Inv, NEW limit \in Limits, Poll(limit)
  PROVE  Inv'
  <1>1. UNCHANGED <<kernel, receiver, truth>>
    BY DEF Poll
  <1>2. UNCHANGED <<loaded, plugin, accounting, ran, settled, handles, nextHandle, given,
                    audit, sink, receiver>>
    BY <1>1 DEF kernel, truth
  <1>3. LogInv'
    <2>1. PollInv'
      BY PollKeeps DEF Inv, LogInv
    <2>2. LogOK(audit') /\ StreamInv'
      BY <1>2 DEF Inv, LogInv, StreamInv, StreamedAsRecorded
    <2> QED
      BY <2>1, <2>2 DEF LogInv
  <1>4. LoadedInv' /\ ChargeInv' /\ ReportsInv' /\ HandleInv'
    BY <1>2, ChargeFrame, ReportsFrame, HandleFrame DEF Inv
  <1> QED
    BY <1>3, <1>4 DEF Inv

LEMMA InstallStepKeeps ==
  ASSUME Inv, Install
  PROVE  Inv'
  <1>1. UNCHANGED <<loaded, plugin, handles, nextHandle, accounting, audit, host, truth>>
    BY DEF Install
  <1>2. LogInv'
    <2>1. StreamInv'
      BY InstallKeeps DEF Inv, LogInv
    <2>2. LogOK(audit') /\ PollInv'
      BY <1>1 DEF Inv, LogInv, PollInv, Oldest
    <2> QED
      BY <2>1, <2>2 DEF LogInv
  <1>3. LoadedInv' /\ ChargeInv' /\ ReportsInv' /\ HandleInv'
    BY <1>1, ChargeFrame, ReportsFrame, HandleFrame DEF Inv, truth
  <1> QED
    BY <1>2, <1>3 DEF Inv

LEMMA DrainStepKeeps ==
  ASSUME Inv, Drain
  PROVE  Inv'
  <1>1. UNCHANGED <<kernel, host, truth>>
    BY DEF Drain
  <1>2. UNCHANGED <<loaded, plugin, accounting, ran, settled, handles, nextHandle, given,
                    audit, sink, host>>
    BY <1>1 DEF kernel, truth
  <1>3. LogInv'
    <2>1. StreamInv'
      BY DrainKeeps DEF Inv, LogInv
    <2>2. LogOK(audit') /\ PollInv'
      BY <1>2 DEF Inv, LogInv, PollInv, Oldest
    <2> QED
      BY <2>1, <2>2 DEF LogInv
  <1>4. LoadedInv' /\ ChargeInv' /\ ReportsInv' /\ HandleInv'
    BY <1>2, ChargeFrame, ReportsFrame, HandleFrame DEF Inv
  <1> QED
    BY <1>3, <1>4 DEF Inv

-----------------------------------------------------------------------------
(* A kernel that was just made.                                             *)

LEMMA NewAccount ==
  /\ NoAccounting \in Accounts
  /\ Charged(NoAccounting, NoEvents, NoEvents, {}, NoEvents, 0)
  /\ NoReports \in Reported
  /\ Agrees(NoAccounting, <<>>, <<>>, NoReports)
  <1>1. NoAccounting \in Accounts
    BY DEF NoAccounting, Accounts
  <1>2. Charged(NoAccounting, NoEvents, NoEvents, {}, NoEvents, 0)
    BY DEF NoAccounting, NoEvents, Charged
  <1>3. NoReports \in Reported
    BY DEF NoReports, Reported
  <1>4. ~(0 >= LeakThreshold)
    BY AuditAssumption
  <1>5. Agrees(NoAccounting, <<>>, <<>>, NoReports)
    <2>1. /\ NoAccounting.highWater = 0 /\ NoAccounting.newHighs = 0
          /\ NoAccounting.leakReported = FALSE /\ NoAccounting.streak = 0
          /\ NoAccounting.violations = 0 /\ NoReports.leaks = 0 /\ NoReports.violations = 0
      BY DEF NoAccounting, NoReports
    <2> QED
      BY <1>4, <2>1, NothingHappened DEF Agrees
  <1> QED
    BY <1>1, <1>2, <1>3, <1>5

\* The kernel, its host and the truth start again; the receiver may be an old one.
New ==
  /\ loaded = <<>> /\ plugin = <<>> /\ handles = <<>> /\ nextHandle = 1
  /\ accounting = ForEach(NoAccounting)
  /\ audit = EmptyLog /\ sink = FALSE /\ host = NewHost
  /\ burned = ForEach(0) /\ events = ForEach(NoEvents) /\ lost = ForEach(NoEvents)
  /\ usages = ForEach(<<>>) /\ overs = ForEach(<<>>) /\ reports = ForEach(NoReports)
  /\ given = {}
  /\ receiver \in Receivers
  /\ LET streamed == receiver.drained \o receiver.queue
     IN  streamed = [i \in DOMAIN streamed |-> receiver.from + i - 1]

LEMMA NewIsGood == New => Inv
  <1> SUFFICES ASSUME New PROVE Inv
    OBVIOUS
  <1>1. DOMAIN <<>> = {} /\ <<>> \in Seq(Nat) /\ <<>> \in Seq(BOOLEAN)
    OBVIOUS
  <1>2. DOMAIN loaded = {} /\ DOMAIN plugin = {} /\ DOMAIN handles = {} /\ handles = <<>>
    BY <1>1 DEF New
  <1>3. /\ accounting = [e \in Extensions |-> NoAccounting]
        /\ burned = [e \in Extensions |-> 0] /\ events = [e \in Extensions |-> NoEvents]
        /\ lost = [e \in Extensions |-> NoEvents]
        /\ usages = [e \in Extensions |-> <<>>] /\ overs = [e \in Extensions |-> <<>>]
        /\ reports = [e \in Extensions |-> NoReports]
    BY DEF New, ForEach
  <1>4. LoadedInv
    BY <1>2, <1>3, NewAccount DEF LoadedInv
  <1>5. ChargeInv
    <2>1. ASSUME NEW e \in Extensions
          PROVE  Charged(accounting[e], Waiting(e), lost[e], Pending(e), events[e], burned[e])
      <3>1. Waiting(e) = NoEvents /\ Pending(e) = {}
        BY <1>2 DEF Waiting, Pending
      <3> QED
        BY <1>3, <3>1, NewAccount
    <2> QED
      BY <1>3, <2>1, GrowthFacts DEF ChargeInv
  <1>6. ReportsInv
    BY <1>1, <1>3, NewAccount DEF ReportsInv
  <1>7. HandleInv
    <2>1. nextHandle = 1 /\ given = {}
      BY DEF New
    <2>2. handles = [h \in DOMAIN handles |-> handles[h]]
      BY <1>2
    <2>3. handles \in [DOMAIN handles -> Extensions]
      BY <1>2, <2>2
    <2> QED
      BY <1>2, <2>1, <2>3 DEF HandleInv, HandleNamesOne
  <1>8. LogOK(audit)
    BY EmptyLogOK DEF New
  <1>9. StreamInv
    BY DEF New, StreamInv, StreamedAsRecorded, Receivers
  <1>10. PollInv
    <2>1. /\ host \in Hosts /\ host.cursor = 0 /\ host.read = <<>> /\ host.missed = {}
      BY <1>1 DEF New, NewHost, Hosts
    <2>2. audit.next = 1 /\ Oldest(audit) = 1
      BY EmptyLogOK DEF New
    <2> QED
      BY <1>1, <2>1, <2>2 DEF PollInv, Hosts
  <1> QED
    BY <1>4, <1>5, <1>6, <1>7, <1>8, <1>9, <1>10 DEF Inv, LogInv

LEMMA InitKeeps == Init => Inv
  <1>1. Init => New
    <2>1. 1 \in Nat \ {0}
      OBVIOUS
    <2> QED
      BY <2>1, NewReceiver DEF Init, New
  <1> QED
    BY <1>1, NewIsGood

LEMMA ResetKeeps == Inv /\ Reset => Inv'
  <1>1. Inv /\ Reset => New'
    BY DEF Inv, LogInv, StreamInv, StreamedAsRecorded, Reset, New, Receivers
  <1>2. New' => Inv'
    BY NewIsGood, PTL
  <1> QED
    BY <1>1, <1>2

-----------------------------------------------------------------------------
(* Theorems.                                                                *)

\* No call of the host and no call of a guest breaks the invariant.
THEOREM EmbeddedInductive == Spec => []Inv
  <1>1. Init => Inv
    BY InitKeeps
  <1>2. Inv /\ [Next]_vars => Inv'
    <2> SUFFICES ASSUME Inv, [Next]_vars PROVE Inv'
      OBVIOUS
    <2>1. CASE UNCHANGED vars
      <3>1. /\ UNCHANGED <<loaded, plugin, handles, nextHandle, accounting, audit, sink>>
            /\ UNCHANGED <<receiver, host, ran, settled, given>>
        BY <2>1 DEF vars, kernel, truth
      <3> QED
        BY <3>1, ChargeFrame, ReportsFrame, HandleFrame, LogFrame DEF Inv
    <2>2. CASE Step
      <3>1. ASSUME NEW g \in Guests, GuestStep(g) PROVE Inv'
        <4>1. ASSUME NEW e \in Extensions, Activate(e, g) PROVE Inv'
          BY <4>1, ActivateKeeps
        <4>7. ASSUME NEW e \in Extensions, ActivateFails(e, g) PROVE Inv'
          BY <4>7, ActivateFailsKeeps
        <4>2. ASSUME NEW e \in Extensions, Deactivate(e, g) PROVE Inv'
          BY <4>2, DeactivateKeeps
        <4>3. ASSUME NEW e \in Extensions, NEW request \in Requests, InvokeSucceeds(e, request, g)
              PROVE  Inv'
          BY <4>3, InvokeSucceedsKeeps
        <4>4. ASSUME NEW e \in Extensions, NEW request \in Requests, InvokeFails(e, request, g)
              PROVE  Inv'
          BY <4>4, InvokeFailsKeeps
        <4>5. ASSUME NEW h \in DOMAIN handles, NEW request \in Requests, InvokePtr(h, request, g)
              PROVE  Inv'
          BY <4>5, InvokePtrKeeps
        <4>6. ASSUME NEW h \in DOMAIN handles, NEW request \in Requests, TickPtr(h, request, g)
              PROVE  Inv'
          BY <4>6, TickPtrKeeps
        <4> QED
          BY <3>1, <4>1, <4>2, <4>3, <4>4, <4>5, <4>6, <4>7 DEF GuestStep
      <3>2. ASSUME NEW e \in Extensions, NEW l \in Loads, NEW override \in BOOLEAN,
                   Load(e, l, override)
            PROVE  Inv'
        BY <3>2, LoadKeeps
      <3>10. ASSUME NEW e \in Extensions, NEW override \in BOOLEAN, LoadFails(e, override)
             PROVE  Inv'
        BY <3>10, LoadFailsKeeps
      <3>3. ASSUME NEW e \in Extensions, LoadRejected(e) PROVE Inv'
        BY <3>3, LoadRejectedKeeps
      <3>4. ASSUME NEW e \in Extensions, Resolve(e) PROVE Inv'
        BY <3>4, ResolveKeeps
      <3>5. ASSUME NEW h \in DOMAIN handles, Release(h) PROVE Inv'
        BY <3>5, ReleaseKeeps
      <3>6. ASSUME NEW limit \in Limits, Poll(limit) PROVE Inv'
        BY <3>6, PollStepKeeps
      <3>7. CASE Reset
        BY <3>7, ResetKeeps
      <3>8. CASE Install
        BY <3>8, InstallStepKeeps
      <3>9. CASE Drain
        BY <3>9, DrainStepKeeps
      <3> QED
        BY <2>2, <3>1, <3>2, <3>3, <3>4, <3>5, <3>6, <3>7, <3>8, <3>9, <3>10 DEF Step
    <2> QED
      BY <2>1, <2>2 DEF Next
  <1> QED
    BY <1>1, <1>2, PTL DEF Spec

\* KernelDaemon::resolve_handle never gives a number twice while the kernel lives: a
\* host that calls through a handle it holds reaches the extension the handle was given
\* out for, or none, however many extensions are loaded, resolved and released.
THEOREM HandlesAreStable == Spec => []HandleNamesOne
  <1>1. Inv => HandleNamesOne
    BY DEF Inv, HandleInv
  <1> QED
    BY <1>1, EmbeddedInductive, PTL

\* settle_invoke and drain_wasm_telemetry never charge a plugin twice and never for what
\* its guest did not do, over both ways to invoke, ticks, failed calls, reloads and any
\* number of calls.  What they do not charge is exactly what still waits in the instance
\* and what went with one that a load replaced or that could not be activated.
THEOREM CallsAreChargedOnce == Spec => []ChargedOnce
  <1>1. Inv => ChargedOnce
    <2> SUFFICES ASSUME Inv, NEW e \in Extensions
                 PROVE  /\ accounting[e].soft + Waiting(e).soft + lost[e].soft = events[e].soft
                        /\ accounting[e].denied + Waiting(e).denied + lost[e].denied
                             = events[e].denied
                        /\ accounting[e].consumed + Max({0} \cup Pending(e)) <= burned[e]
      BY DEF ChargedOnce
    <2>1. Charged(accounting[e], Waiting(e), lost[e], Pending(e), events[e], burned[e])
      BY DEF Inv, ChargeInv
    <2>2. Pending(e) \in SUBSET Nat /\ \A x, y \in Pending(e) : x = y
      <3>1. CASE e \in DOMAIN plugin
        BY <3>1, LoadedFacts, PluginFacts DEF Inv
      <3>2. CASE e \notin DOMAIN plugin
        BY <3>2 DEF Pending
      <3> QED
        BY <3>1, <3>2
    <2>3. accounting[e].consumed \in Nat
      BY DEF Inv, LoadedInv, Accounts
    <2>4. accounting[e].consumed + Max({0} \cup Pending(e)) <= burned[e]
      <3>1. CASE Pending(e) = {}
        <4>1. Max({0} \cup Pending(e)) = 0
          <5>1. 0 \in {0} \cup Pending(e) /\ \A y \in {0} \cup Pending(e) : y \in Nat /\ y <= 0
            BY <3>1
          <5> QED
            BY <5>1, MaxFact
        <4> QED
          BY <2>1, <2>3, <4>1 DEF Charged
      <3>2. CASE Pending(e) # {}
        <4>1. PICK c \in Pending(e) : TRUE
          BY <3>2
        <4>2. Max({0} \cup Pending(e)) = c
          <5>1. c \in {0} \cup Pending(e) /\ \A y \in {0} \cup Pending(e) : y \in Nat /\ y <= c
            BY <2>2, <4>1
          <5> QED
            BY <2>2, <4>1, <5>1, MaxFact
        <4> QED
          BY <2>1, <4>1, <4>2 DEF Charged
      <3> QED
        BY <3>1, <3>2
    <2> QED
      BY <2>1, <2>4 DEF Charged
  <1> QED
    BY <1>1, EmbeddedInductive, PTL

\* The two ratchets of the accounting (LeakSuspected and Violates) report what a reader
\* of the whole history would: one contract violation per episode of enough settled calls
\* in a row above the slice, and one suspected leak, when the memory reached its
\* threshold of new high waters.
THEOREM ReportsAreTrue == Spec => []ReportsMatchHistory
  <1>1. Inv => ReportsMatchHistory
    <2> SUFFICES ASSUME Inv, NEW e \in Extensions
                 PROVE  /\ reports[e].violations = Cardinality(Episodes(overs[e]))
                        /\ reports[e].violations = accounting[e].violations
                        /\ reports[e].leaks =
                             IF Cardinality(HighWaters(usages[e])) >= LeakThreshold THEN 1 ELSE 0
      BY DEF ReportsMatchHistory
    <2>1. Agrees(accounting[e], usages[e], overs[e], reports[e])
      BY DEF Inv, ReportsInv
    <2> QED
      BY <2>1 DEF Agrees
  <1> QED
    BY <1>1, EmbeddedInductive, PTL

\* AuditLog::query, asked again from the last entry it answered with, gives the host the
\* entries in order, none twice, and skips only what the ring had dropped before.
THEOREM PollsMissNothing == Spec => []PollMissesNothing
  <1>1. Inv => PollMissesNothing
    <2> SUFFICES ASSUME Inv PROVE PollMissesNothing
      OBVIOUS
    <2>1. LogOK(audit) /\ PollInv
      BY DEF Inv, LogInv
    <2>2. host.missed \cap SeqsIn(audit) = {}
      <3> SUFFICES ASSUME NEW s \in host.missed, s \in SeqsIn(audit) PROVE FALSE
        OBVIOUS
      <3>1. s \in Nat /\ s < Oldest(audit)
        BY <2>1 DEF PollInv
      <3>2. s >= Oldest(audit)
        BY <2>1, <3>1, SeqsInFacts
      <3> QED
        BY <2>1, <3>1, <3>2, LogFacts
    <2> QED
      BY <2>1, <2>2 DEF PollInv, PollMissesNothing
  <1> QED
    BY <1>1, EmbeddedInductive, PTL

\* The sink and drain_async_responses pass on every entry recorded since the sink was
\* installed, complete and in order, however the drains fall between the calls.
THEOREM StreamIsComplete == Spec => []StreamedAsRecorded
  <1>1. Inv => StreamedAsRecorded
    BY DEF Inv, LogInv, StreamInv
  <1> QED
    BY <1>1, EmbeddedInductive, PTL

\* The kernel's maps keep their types, an instance stays within its hard limit
\* (MemoryLimiter) and the ring holds the newest entries without a gap (AuditLog::push).
THEOREM EmbeddedTypeOK == Spec => []TypeOK
  <1>1. Inv => TypeOK
    <2> SUFFICES ASSUME Inv PROVE TypeOK
      OBVIOUS
    <2>1. /\ DOMAIN loaded \subseteq Extensions /\ DOMAIN plugin \subseteq DOMAIN loaded
          /\ DOMAIN handles \subseteq 1..nextHandle - 1 /\ sink \in BOOLEAN
      BY DEF Inv, LoadedInv, HandleInv, LogInv, StreamInv
    <2>2. ASSUME NEW e \in DOMAIN plugin
          PROVE  plugin[e].pages <= plugin[e].hard /\ Cardinality(plugin[e].pending) <= 1
      <3>1. plugin[e].pages <= plugin[e].hard /\ \A x, y \in plugin[e].pending : x = y
        BY LoadedFacts, PluginFacts DEF Inv
      <3>2. CASE plugin[e].pending = {}
        BY <3>1, <3>2, FS_EmptySet
      <3>3. CASE plugin[e].pending # {}
        <4>1. PICK c : plugin[e].pending = {c}
          BY <3>1, <3>3
        <4> QED
          BY <3>1, <4>1, FS_Singleton
      <3> QED
        BY <3>2, <3>3
    <2>3. LogOK(audit)
      BY DEF Inv, LogInv
    <2>4. Seqs(audit.ring) = [i \in DOMAIN audit.ring |-> audit.next - 1 - Len(audit.ring) + i]
      <3>1. DOMAIN audit.ring = 1..Len(audit.ring)
        BY <2>3, LogFacts
      <3>2. \A i \in 1..Len(audit.ring) :
              audit.ring[i].seq = audit.next - 1 - Len(audit.ring) + i
        BY <2>3, LogFacts DEF Oldest
      <3> QED
        BY <3>1, <3>2 DEF Seqs
    <2>5. Len(audit.ring) = Min({Capacity, audit.next - 1})
      BY <2>3 DEF LogOK
    <2> QED
      BY <2>1, <2>2, <2>4, <2>5 DEF TypeOK
  <1> QED
    BY <1>1, EmbeddedInductive, PTL

-----------------------------------------------------------------------------
(* The abstract stream, step by step.                                       *)

\* The numbers from first to last, as a sequence.
LEMMA NumbersFacts ==
  ASSUME NEW first \in Nat, NEW last \in Nat, NEW s \in Seq(Nat),
         Len(s) = last - first + 1, Consecutive(s, first)
  PROVE  s = Stream!Numbers(first, last)
  <1>1. s = [i \in 1..Len(s) |-> s[i]]
    OBVIOUS
  <1>2. s = [i \in 1..Len(s) |-> first + i - 1]
    BY <1>1 DEF Consecutive
  <1> QED
    BY <1>2 DEF Stream!Numbers

\* What is recorded is written to the abstract stream.
LEMMA RecordWrites ==
  ASSUME LogInv, NEW e \in Extensions, NEW kinds \in Seq(Kinds), Record(e, kinds), sink' = sink
  PROVE  Stream!Write \/ UNCHANGED Stream!vars
  <1> DEFINE new == Entries(audit, e, kinds)
             more == Seqs(new)
             gone == {s \in host.cursor + 1 .. audit'.next - 1 : s \notin SeqsIn(audit')}
  <1>1. new \in Seq(Rows) /\ \A i \in 1..Len(new) : new[i].seq = audit.next + i - 1
    BY EntriesFacts DEF LogInv
  <1>2. /\ audit' = Push(audit, new)
        /\ receiver' = IF sink THEN [receiver EXCEPT !.queue = receiver.queue \o more] ELSE receiver
        /\ host' = [host EXCEPT !.missed = host.missed \cup gone]
    BY DEF Record
  <1>3. audit'.next = audit.next + Len(new) /\ audit.next \in Nat /\ audit.next # 0
    BY <1>1, <1>2, PushFacts, LogFacts DEF LogInv
  <1> HIDE DEF new, gone
  <1>4. Len(new) \in Nat
    BY <1>1
  <1>5. more \in Seq(Nat) /\ Len(more) = Len(new) /\ Consecutive(more, audit.next)
    <2>1. more = [i \in 1..Len(new) |-> new[i].seq]
      BY <1>1 DEF Seqs
    <2>2. \A i \in 1..Len(new) : new[i].seq \in Nat
      BY <1>1, <1>3
    <2>3. more \in Seq(Nat) /\ Len(more) = Len(new)
      BY <1>4, <2>1, <2>2
    <2> QED
      BY <1>1, <2>1, <2>3 DEF Consecutive
  <1> HIDE DEF more
  <1>6. host'.cursor = host.cursor /\ host'.read = host.read
    BY <1>2 DEF LogInv, PollInv
  <1>7. /\ receiver'.queue = IF sink THEN receiver.queue \o more ELSE receiver.queue
        /\ receiver'.drained = receiver.drained
        /\ receiver.queue \in Seq(Nat)
    BY <1>2 DEF LogInv, StreamInv
  <1>8. CASE Len(new) = 0
    <2>1. more = <<>>
      BY <1>5, <1>8
    <2>2. receiver.queue \o <<>> = receiver.queue
      BY <1>7, ConcatEmptySeq
    <2>3. receiver'.queue = receiver.queue
      BY <1>7, <2>1, <2>2
    <2>4. audit'.next - 1 = audit.next - 1
      BY <1>3, <1>8
    <2> QED
      BY <1>6, <1>7, <2>3, <2>4 DEF Stream!vars
  <1>9. CASE Len(new) # 0
    <2>1. /\ audit.next - 1 + 1 \in Nat /\ audit'.next - 1 \in Nat
          /\ audit'.next - 1 > audit.next - 1
          /\ Len(more) = (audit'.next - 1) - (audit.next - 1 + 1) + 1
          /\ audit.next - 1 + 1 = audit.next
      <3>1. PICK a, b, n, m : a = audit.next /\ b = audit'.next /\ n = Len(new) /\ m = Len(more)
        OBVIOUS
      <3>2. a \in Nat /\ a # 0 /\ n \in Nat /\ n # 0 /\ b = a + n /\ m = n
        BY <1>3, <1>4, <1>5, <1>9, <3>1
      <3>3. /\ a - 1 + 1 \in Nat /\ b - 1 \in Nat /\ b - 1 > a - 1
            /\ m = (b - 1) - (a - 1 + 1) + 1
            /\ a - 1 + 1 = a
        BY ONLY <3>2
      <3> QED
        BY ONLY <3>1, <3>3
    <2>2. more = Stream!Numbers(audit.next - 1 + 1, audit'.next - 1)
      BY <1>5, <2>1, NumbersFacts
    <2> QED
      BY <1>6, <1>7, <2>1, <2>2 DEF Stream!Write
  <1> QED
    BY <1>8, <1>9

\* A poll reads on from the oldest entry that is kept and was not read.
LEMMA PollReads ==
  ASSUME LogInv, NEW limit \in Limits, Poll(limit)
  PROVE  Stream!Read
  <1> DEFINE seqs == Seqs(Query(audit, host.cursor, limit))
             first == IF host.cursor < Oldest(audit) THEN Oldest(audit) ELSE host.cursor + 1
             last == first + Len(seqs) - 1
  <1>1. host \in Hosts /\ host.cursor \in Nat /\ host.cursor < audit.next /\ LogOK(audit)
    BY DEF LogInv, PollInv, Hosts
  <1>2. limit \in Nat
    BY EmbeddedAssumption
  <1>3. /\ seqs \in Seq(Nat)
        /\ \A i \in 1..Len(seqs) : seqs[i] = first + i - 1
        /\ first + Len(seqs) <= audit.next
    BY <1>1, <1>2, QueryFacts
  <1>4. /\ seqs # <<>> /\ UNCHANGED <<audit, sink, receiver>>
        /\ host' = [host EXCEPT !.cursor = Last(seqs), !.read = host.read \o seqs]
    BY DEF Poll, kernel
  <1>5. /\ audit.next \in Nat /\ audit.next # 0 /\ Oldest(audit) \in Nat /\ Oldest(audit) >= 1
        /\ Capacity \in Nat
    BY <1>1, LogFacts, AuditAssumption
  <1>6. Oldest(audit) = IF Capacity < audit.next - 1 THEN audit.next - Capacity ELSE 1
    <2>1. /\ audit.next - 1 \in Nat /\ Len(audit.ring) = Min({Capacity, audit.next - 1})
          /\ Oldest(audit) = audit.next - Len(audit.ring)
      BY <1>1, <1>5 DEF LogOK, Oldest
    <2>2. /\ Capacity <= audit.next - 1 => Min({Capacity, audit.next - 1}) = Capacity
          /\ audit.next - 1 <= Capacity => Min({Capacity, audit.next - 1}) = audit.next - 1
      BY ONLY <1>5, <2>1, MinOfTwo
    <2> QED
      BY <1>5, <2>1, <2>2
  <1>7. first = Stream!NextKept /\ first \in Nat /\ first >= 1
    BY <1>1, <1>5, <1>6 DEF Stream!NextKept
  <1> HIDE DEF seqs, first
  <1>8. Len(seqs) \in Nat /\ Len(seqs) >= 1
    BY <1>3, <1>4
  <1>9. Last(seqs) = last /\ last \in first .. audit.next - 1
    BY <1>3, <1>5, <1>7, <1>8 DEF Last
  <1>10. last \in Nat /\ Len(seqs) = last - first + 1
    BY <1>7, <1>8
  <1> HIDE DEF last
  <1>11. seqs = Stream!Numbers(first, last)
    BY <1>3, <1>7, <1>10, NumbersFacts DEF Consecutive
  <1>12. host'.cursor = last /\ host'.read = host.read \o seqs
    BY <1>1, <1>4, <1>9 DEF Hosts
  <1> QED
    BY <1>4, <1>7, <1>9, <1>11, <1>12 DEF Stream!Read

LEMMA ReceiverImplements ==
  ASSUME LogInv, Install \/ Drain \/ Reset
  PROVE  Stream!Next
  <1>1. CASE Install
    BY <1>1 DEF Install, Stream!Subscribe, Stream!Next
  <1>2. CASE Drain
    <2>1. receiver'.drained = receiver.drained \o receiver.queue /\ receiver'.queue = <<>>
      BY <1>2 DEF Drain, LogInv, StreamInv
    <2>2. receiver.queue # <<>> /\ UNCHANGED <<audit, sink, host>>
      BY <1>2 DEF Drain, kernel
    <2> QED
      BY <2>1, <2>2 DEF Stream!Deliver, Stream!Next
  <1>3. CASE Reset
    BY <1>3, EmptyLogOK DEF Reset, NewHost, Stream!Restart, Stream!Next
  <1> QED
    BY <1>1, <1>2, <1>3

LEMMA StepStreams ==
  ASSUME Inv, Step
  PROVE  Stream!Next \/ UNCHANGED Stream!vars
  <1>1. ASSUME Records PROVE Stream!Next \/ UNCHANGED Stream!vars
    BY <1>1, RecordWrites DEF Records, Inv, Stream!Next
  <1>2. ASSUME UNCHANGED <<audit, sink, receiver, host>> PROVE UNCHANGED Stream!vars
    BY <1>2 DEF Stream!vars
  <1>3. ASSUME NEW g \in Guests, GuestStep(g) PROVE Records \/ UNCHANGED <<audit, sink, receiver, host>>
    <2>1. ASSUME NEW e \in Extensions, Activate(e, g) \/ ActivateFails(e, g) \/ Deactivate(e, g)
          PROVE  UNCHANGED <<audit, sink, receiver, host>>
      BY <2>1 DEF Activate, ActivateFails, Deactivate, kernel
    <2>2. ASSUME NEW e \in Extensions, NEW request \in Requests, InvokeSucceeds(e, request, g)
          PROVE  Records
      BY <2>2, InvokeSucceedsKeeps
    <2>3. ASSUME NEW e \in Extensions, NEW request \in Requests, InvokeFails(e, request, g)
          PROVE  Records
      BY <2>3, InvokeFailsKeeps
    <2>4. ASSUME NEW h \in DOMAIN handles, NEW request \in Requests, InvokePtr(h, request, g)
          PROVE  Records
      BY <2>4, InvokePtrKeeps
    <2>5. ASSUME NEW h \in DOMAIN handles, NEW request \in Requests, TickPtr(h, request, g)
          PROVE  UNCHANGED <<audit, sink, receiver, host>>
      BY <2>5 DEF TickPtr
    <2> QED
      BY <1>3, <2>1, <2>2, <2>3, <2>4, <2>5 DEF GuestStep
  <1>4. ASSUME NEW e \in Extensions, LoadRejected(e) PROVE Records
    <2>1. <<"admission.rejected">> \in Seq(Kinds)
      BY DEF Kinds
    <2> QED
      BY <1>4, <2>1 DEF LoadRejected, Records
  <1>8. ASSUME NEW e \in Extensions, NEW override \in BOOLEAN,
               LoadFails(e, override) \/ \E l \in Loads : Load(e, l, override)
        PROVE  Records
    BY <1>8, LoadKeeps, LoadFailsKeeps
  <1>5. ASSUME \/ \E e \in Extensions : Resolve(e)
               \/ \E h \in DOMAIN handles : Release(h)
        PROVE  UNCHANGED <<audit, sink, receiver, host>>
    BY <1>5 DEF Resolve, Release
  <1>6. ASSUME NEW limit \in Limits, Poll(limit) PROVE Stream!Next
    BY <1>6, PollReads DEF Inv, Stream!Next
  <1>7. CASE Install \/ Drain \/ Reset
    BY <1>7, ReceiverImplements DEF Inv
  <1> QED
    BY <1>1, <1>2, <1>3, <1>4, <1>5, <1>6, <1>7, <1>8 DEF Step

\* The audit log and its sink implement the abstract stream: a host that polls from the
\* last entry it read gets the oldest kept ones it has not read (AuditLog::query), and
\* one that drains gets every entry recorded since it installed its sink, in order, over
\* all calls of the host and of its guests.
THEOREM AuditStreamImplemented == Spec => ImplementsAuditStream
  <1>1. Init => Stream!Init
    BY DEF Init, NewHost, EmptyLog, Stream!Init
  <1>2. Inv /\ [Next]_vars => [Stream!Next]_(Stream!vars)
    <2> SUFFICES ASSUME Inv, [Next]_vars PROVE Stream!Next \/ UNCHANGED Stream!vars
      OBVIOUS
    <2>1. CASE UNCHANGED vars
      BY <2>1 DEF vars, kernel, Stream!vars
    <2>2. CASE Step
      BY <2>2, StepStreams
    <2> QED
      BY <2>1, <2>2 DEF Next
  <1> QED
    BY <1>1, <1>2, EmbeddedInductive, PTL DEF Spec, ImplementsAuditStream, Stream!Spec
=============================================================================
