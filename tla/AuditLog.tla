------------------------------ MODULE AuditLog ------------------------------
(***************************************************************************)
(* AuditLog and PluginAccounting of rust/extensions-kernel/src/lib.rs: a   *)
(* bounded ring of numbered entries, and the counters of a plugin with the *)
(* two ratchets that report a suspected leak and a broken fuel contract.   *)
(* An optional value is a set of at most one element.                      *)
(***************************************************************************)
EXTENDS Naturals, Sequences, SequencesExt, FiniteSetsExt

CONSTANTS
  Capacity,         \* AUDIT_LOG_CAPACITY
  LeakThreshold,    \* LEAK_NEW_HIGH_WATER_THRESHOLD
  StreakThreshold   \* OVER_SLICE_STREAK_THRESHOLD

ASSUME AuditAssumption == {Capacity, LeakThreshold, StreakThreshold} \subseteq Nat \ {0}

EmptyLog == [ring |-> <<>>, next |-> 1]

\* push for each kind in turn: the entries, and the log with them.
Entries(log, e, kinds) ==
  [i \in DOMAIN kinds |-> [seq |-> log.next + i - 1, kind |-> kinds[i], extension |-> e]]

LastN(s, n) == SubSeq(s, Max({1, Len(s) - n + 1}), Len(s))

Push(log, entries) ==
  [ring |-> LastN(log.ring \o entries, Capacity), next |-> log.next + Len(entries)]

\* The entries since a sequence number.
Since(log, since) ==
  LET new[n \in 0..Len(log.ring)] ==
        IF n = 0 THEN <<>>
        ELSE IF log.ring[n].seq > since THEN Append(new[n - 1], log.ring[n]) ELSE new[n - 1]
  IN  new[Len(log.ring)]

\* Broken variant: the newest entries rather than the oldest.
QueryNewest(log, since, limit) == LastN(Since(log, since), limit)

\* The oldest of them, at most limit.
Query(log, since, limit) ==
  LET new == Since(log, since)
  IN  SubSeq(new, 1, Min({limit, Len(new)}))

-----------------------------------------------------------------------------

NoAccounting ==
  [traps |-> 0, soft |-> 0, denied |-> 0, highWater |-> 0, newHighs |-> 0,
   leakReported |-> FALSE, consumed |-> 0, streak |-> 0, violations |-> 0]

RecordTrap(a, trap) == [a EXCEPT !.traps = IF trap THEN @ + 1 ELSE @]

RecordEvents(a, events) ==
  [a EXCEPT !.soft = @ + events.soft, !.denied = @ + events.denied]

\* observe_memory_usage returns true: a new high water, often enough, the first time.
LeakSuspected(a, usage) ==
  usage > a.highWater /\ a.newHighs + 1 >= LeakThreshold /\ ~a.leakReported

ObserveUsage(a, usage) ==
  IF usage > a.highWater
  THEN [a EXCEPT !.highWater = usage, !.newHighs = @ + 1,
                 !.leakReported = @ \/ LeakSuspected(a, usage)]
  ELSE a

\* account_fuel_consumed, for an extension with a declared slice.
OverSlice(consumed, slice) == \E c \in consumed, s \in slice : c > s

\* Broken variant: every call of an episode from the threshold on is a violation.
ViolatesFromThreshold(a, consumed, slice) ==
  OverSlice(consumed, slice) /\ a.streak + 1 >= StreakThreshold

Violates(a, consumed, slice) ==
  OverSlice(consumed, slice) /\ a.streak + 1 = StreakThreshold

CountFuel(a, consumed, slice) ==
  IF consumed = {} \/ slice = {} THEN a
  ELSE [a EXCEPT !.consumed = @ + Max(consumed),
                 !.streak = IF OverSlice(consumed, slice) THEN @ + 1 ELSE 0,
                 !.violations = IF Violates(a, consumed, slice) THEN @ + 1 ELSE @]

\* What one settled call is charged for, and what it puts into the audit log.
Charge(a, trap, events, usage, consumed, slice) ==
  CountFuel(ObserveUsage(RecordEvents(RecordTrap(a, trap), events), usage), consumed, slice)

When(condition, kind) == IF condition THEN <<kind>> ELSE <<>>

Reports(a, trap, events, usage, consumed, slice) ==
  When(trap, "fuel.trap")
    \o When(events.denied > 0, "memory.growth_denied")
    \o When(events.denied = 0 /\ events.soft > 0, "memory.pressure")
    \o When(LeakSuspected(a, usage), "leak.suspected")
    \o When(Violates(a, consumed, slice), "contract.violation")
=============================================================================
