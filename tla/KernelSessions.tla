---------------------------- MODULE KernelSessions ----------------------------
(***************************************************************************)
(* Sessions in the kernel daemon: kernel.openSession, kernel.session.send, *)
(* kernel.cancel and kernel.session.close, with the closed-session         *)
(* tombstones and the event quota, across reloads, deactivations and       *)
(* deaths of the plugins the sessions run on                               *)
(* (rust/extensions-kernel/src/lib.rs).                                    *)
(*                                                                         *)
(* Only the daemon thread touches sessions, so a handler is one action; the*)
(* call it makes to the plugin is abstracted to its outcome and the batch  *)
(* of events that came with it (ProcessChannel says how a batch is made).  *)
(* Every extension has one capability.  Admission is left to               *)
(* KernelAdmission: here a load succeeds.                                  *)
(***************************************************************************)
EXTENDS Naturals, Sequences, FiniteSets, SequencesExt

CONSTANTS
  Extensions,
  MaxSessions,   \* bound: sessions ever opened
  MaxInstances,  \* bound: plugin instances ever started
  Quota,         \* SESSION_EVENT_QUOTA
  Capacity,      \* CLOSED_SESSION_TOMBSTONE_CAPACITY
  MaxBatch       \* bound: events a plugin reports with one call

ASSUME SessionsAssumption ==
  /\ MaxSessions \in Nat /\ MaxInstances \in Nat /\ MaxBatch \in Nat
  /\ Quota \in Nat /\ Capacity \in Nat

SessionIds == 1..MaxSessions     \* "session-<n>", in the order issued
Instances == 1..MaxInstances
NoInstance == 0

\* The session contract of the capability: not declared by the manifest, served
\* by a plain invoke, a server stream, or a stream the host may send on.
Contracts == {"undeclared", "unary", "stream", "duplex"}
RequiresRealSession(c) == c \in {"stream", "duplex"}
AllowsSend(c) == c = "duplex"

Events == {"data", "error", "end"}
Batches == UNION {[1..n -> Events] : n \in 0..MaxBatch}

VARIABLES
  contract,   \* contract of each loaded extension, "unloaded" before its first load
  handle,     \* LoadedExtension.runtime_handle
  started,    \* number of instances started
  alive,      \* instances whose process runs
  serving,    \* runtime sessions the instances opened and were never asked to close:
              \* <<instance, number>>
  numbered,   \* number of runtime sessions each instance has opened
  issued,     \* next_session_id - 1
  sessions,   \* KernelDaemon.sessions
  ring, set,  \* ClosedSessionTombstones
  stream,     \* what the host has seen of each session's event stream
  early,      \* ids the host closed before the daemon issued them
  reply,      \* the last answer to the host: ok or an error
  fatal       \* the error the daemon exited with

pluginVars == <<handle, started, alive, serving, numbered>>
sessionVars == <<issued, sessions, ring, set, stream, early>>
vars == <<contract, pluginVars, sessionVars, reply, fatal>>

Init ==
  /\ contract = [e \in Extensions |-> "unloaded"]
  /\ handle = [e \in Extensions |-> NoInstance]
  /\ started = 0
  /\ alive = {}
  /\ serving = {}
  /\ numbered = [i \in Instances |-> 0]
  /\ issued = 0
  /\ sessions = <<>>
  /\ ring = <<>>
  /\ set = {}
  /\ stream = [s \in SessionIds |-> "none"]
  /\ early = {}
  /\ reply = "ok"
  /\ fatal = "none"

Up == fatal = "none"

Answer(result) ==
  /\ reply' = result
  /\ UNCHANGED fatal

\* A handler's Err that is_expected_runtime_error does not recognize: main exits.
Die(why) ==
  /\ fatal' = why
  /\ UNCHANGED reply

-----------------------------------------------------------------------------
(* Events.                                                                  *)

\* The queue of an open session, with the loop over the batch going on.
Queue(events) ==
  [events |-> events, closed |-> FALSE, breached |-> FALSE, over |-> FALSE]

\* Beyond the quota nothing is kept and the session is closed.
Breach == [events |-> <<>>, closed |-> TRUE, breached |-> TRUE, over |-> TRUE]

\* Broken variant: an overflow drops the events and leaves the session open.
PushKeepsOpen(q, event) ==
  IF Len(q.events) >= Quota
    THEN [Breach EXCEPT !.closed = FALSE]
    ELSE Queue(Append(q.events, event))

\* Broken variant: the quota check is off by one.
PushOneMore(q, event) ==
  IF Len(q.events) > Quota THEN Breach ELSE Queue(Append(q.events, event))

\* push_event_capped and push_session_event.
Push(q, event) ==
  IF Len(q.events) >= Quota THEN Breach ELSE Queue(Append(q.events, event))

Ends(q) == IF q.breached THEN q
           ELSE [events |-> q.events, closed |-> TRUE, breached |-> FALSE, over |-> TRUE]

\* Broken variant: an end does not end the loop over the batch.
AppendEventGoesOn(q, event) ==
  IF q.over THEN q
  ELSE CASE event = "data"  -> Push(q, event)
         [] event = "end"   -> [Push(q, event) EXCEPT !.closed = TRUE]
         [] event = "error" -> LET p == Push(q, event)
                               IN  IF p.breached THEN p ELSE Ends(Push(p, "end"))

\* One turn of append_session_events' loop; over marks a return or a break.
AppendEvent(q, event) ==
  IF q.over THEN q
  ELSE CASE event = "data"  -> Push(q, event)
         [] event = "end"   -> Ends(Push(q, event))
         [] event = "error" -> LET p == Push(q, event)
                               IN  IF p.breached THEN p ELSE Ends(Push(p, "end"))

\* append_session_events.  Every handler ends by emptying the queue, so it starts empty.
AppendSessionEvents(batch) ==
  LET queue[n \in 0..Len(batch)] ==
        IF n = 0 THEN Queue(<<>>) ELSE AppendEvent(queue[n - 1], batch[n])
  IN  queue[Len(batch)]

\* What the host has seen once events follow on a stream in state st.
Follow(st, events) ==
  IF events = <<>> THEN st
  ELSE IF st # "open" \/ \E i \in 1..Len(events) - 1 : events[i] = "end" THEN "broken"
  ELSE IF Last(events) = "end" THEN "ended" ELSE "open"

\* flush_session_events after a batch was accepted, or the quota error.
Report(op, s, q) ==
  /\ Answer(IF q.breached THEN "error" ELSE "ok")
  /\ stream' = [stream EXCEPT ![s] = IF q.breached THEN "ended" ELSE
                  Follow(IF op = "open" THEN "open" ELSE @, q.events)]

-----------------------------------------------------------------------------
(* The lifecycle of extensions, as far as sessions depend on it.            *)

\* kernel.load: the instance is forgotten, sessions stay.
Load(e, c) ==
  /\ Up
  /\ contract' = [contract EXCEPT ![e] = c]
  /\ handle' = [handle EXCEPT ![e] = NoInstance]
  /\ Answer("ok")
  /\ UNCHANGED <<started, alive, serving, numbered, sessionVars>>

\* kernel.activate.
Activate(e) ==
  /\ Up
  /\ UNCHANGED <<contract, serving, numbered, sessionVars>>
  /\ \/ /\ contract[e] = "unloaded"
        /\ Die("extension not loaded")
        /\ UNCHANGED <<handle, started, alive>>
     \/ /\ handle[e] # NoInstance
        /\ Answer("ok")
        /\ UNCHANGED <<handle, started, alive>>
     \/ /\ contract[e] # "unloaded" /\ handle[e] = NoInstance
        /\ started < MaxInstances
        /\ started' = started + 1
        /\ alive' = alive \cup {started + 1}
        /\ handle' = [handle EXCEPT ![e] = started + 1]
        /\ Answer("ok")

\* kernel.deactivate: the process is killed, the handle stays.
Deactivate(e) ==
  /\ Up
  /\ UNCHANGED <<contract, handle, started, serving, numbered, sessionVars>>
  /\ IF contract[e] = "unloaded"
       THEN Die("extension not loaded") /\ UNCHANGED alive
       ELSE alive' = alive \ {handle[e]} /\ Answer("ok")

PluginDies(i) ==
  /\ Up
  /\ i \in alive
  /\ alive' = alive \ {i}
  /\ UNCHANGED <<contract, handle, started, serving, numbered, sessionVars, reply,
                 fatal>>

-----------------------------------------------------------------------------
(* Session operations.                                                      *)

\* A call to the plugin fails: a dead process or an error of the plugin's own
\* ends the daemon, unless the plugin's text is one of the expected ones.
CallFails(i) ==
  \/ Die("plugin")
  \/ i \in alive /\ Answer("error")

\* kernel.openSession refused before the plugin is called.
OpenRefused(e) ==
  /\ Up
  /\ \/ contract[e] = "unloaded" /\ Die("extension not loaded")
     \/ /\ contract[e] # "unloaded"
        /\ ~RequiresRealSession(contract[e]) \/ handle[e] = NoInstance
        /\ Answer("error")
  /\ UNCHANGED <<contract, pluginVars, sessionVars>>

OpenFails(e) ==
  /\ Up
  /\ RequiresRealSession(contract[e]) /\ handle[e] # NoInstance
  /\ CallFails(handle[e])
  /\ UNCHANGED <<contract, pluginVars, sessionVars>>

\* Broken variant: the id is taken before the counter moves.
NextIdStale == issued

NextId == issued + 1

\* kernel.openSession: the session is kept even when its first events exceed the
\* quota and the host gets an error instead of the session's id.
Open(e, batch) ==
  LET s == NextId
      i == handle[e]
      q == AppendSessionEvents(batch)
  IN  /\ Up
      /\ RequiresRealSession(contract[e])
      /\ i \in alive
      /\ issued < MaxSessions
      /\ issued' = issued + 1
      /\ numbered' = [numbered EXCEPT ![i] = @ + 1]
      /\ serving' = serving \cup {<<i, numbered[i] + 1>>}
      /\ sessions' = [x \in DOMAIN sessions \cup {s} |->
                        IF x = s THEN [extension |-> e, runtime |-> numbered[i] + 1,
                                       opened_at |-> i, is_closed |-> q.closed]
                        ELSE sessions[x]]
      /\ Report("open", s, q)
      /\ UNCHANGED <<contract, handle, started, alive, ring, set, early>>

\* require_session_mut and the is_closed check, shared by send and cancel.
Usable(s) == s \notin set /\ s \in DOMAIN sessions /\ ~sessions[s].is_closed

ExtensionOf(s) == sessions[s].extension

UseRefused(op, s) ==
  /\ Up
  /\ \/ (s \in set \/ (s \in DOMAIN sessions /\ sessions[s].is_closed))
          /\ Answer("error")
     \/ s \notin set /\ s \notin DOMAIN sessions /\ Die("session not found")
     \/ /\ Usable(s)
        /\ LET c == contract[ExtensionOf(s)] IN
           \/ op = "send" /\ c = "undeclared" /\ Answer("error")
           \/ /\ op = "send" /\ c # "undeclared" /\ ~AllowsSend(c)
              /\ Die("send not allowed")
           \/ /\ op = "send" => AllowsSend(c)
              /\ handle[ExtensionOf(s)] = NoInstance
              /\ Answer("error")
  /\ UNCHANGED <<contract, pluginVars, sessionVars>>

\* The plugin is called: by the number its session had when it was opened, on
\* whatever instance the extension has now.
Callable(op, s) ==
  /\ Up
  /\ Usable(s)
  /\ op = "send" => AllowsSend(contract[ExtensionOf(s)])
  /\ handle[ExtensionOf(s)] # NoInstance

UseFails(op, s) ==
  /\ Callable(op, s)
  /\ CallFails(handle[ExtensionOf(s)])
  /\ UNCHANGED <<contract, pluginVars, sessionVars>>

\* kernel.session.send and kernel.cancel.
Use(op, s, batch) ==
  LET q == AppendSessionEvents(batch)
  IN  /\ Callable(op, s)
      /\ handle[ExtensionOf(s)] \in alive
      /\ sessions' = [sessions EXCEPT ![s].is_closed = q.closed]
      /\ Report(op, s, q)
      /\ UNCHANGED <<contract, pluginVars, issued, ring, set, early>>

\* Broken variant: the store evicts from the ring and forgets the lookup set.
TombstoneKeepsSet(s) ==
  LET r == Append(ring, s)
  IN  /\ set' = set \cup {s}
      /\ ring' = IF s \in set THEN ring
                 ELSE IF Len(r) > Capacity THEN Tail(r) ELSE r

\* ClosedSessionTombstones.insert.
Tombstone(s) ==
  LET r == Append(ring, s)
      full == Len(r) > Capacity
  IN  IF s \in set THEN UNCHANGED <<ring, set>>
      ELSE /\ ring' = IF full THEN Tail(r) ELSE r
           /\ set' = (set \cup {s}) \ (IF full THEN {Head(r)} ELSE {})

\* Broken variant: a session that has ended is dropped without telling the plugin.
TargetUnlessEnded(s) ==
  {<<handle[ExtensionOf(x)], sessions[x].runtime>> :
     x \in {y \in DOMAIN sessions : y = s /\ handle[ExtensionOf(y)] # NoInstance
                                          /\ ~sessions[y].is_closed}}

\* The runtime session the plugin is asked to close: the number the session had when it
\* was opened, on the instance its extension has now.
Target(s) ==
  {<<handle[ExtensionOf(x)], sessions[x].runtime>> :
     x \in {y \in DOMAIN sessions : y = s /\ handle[ExtensionOf(y)] # NoInstance}}

\* kernel.session.close: also of an id the daemon never issued or no longer knows.
\* The host is answered ok in any case, and the session is forgotten whether the plugin
\* lets go of what it keeps or refuses: its answer is ignored.
Close(s) ==
  /\ Up
  /\ IF s \in set THEN UNCHANGED <<sessions, ring, set, serving>>
     ELSE /\ serving' = serving \ Target(s)
          /\ sessions' = [x \in DOMAIN sessions \ {s} |-> sessions[x]]
          /\ Tombstone(s)
  /\ stream' = [stream EXCEPT ![s] = IF @ = "broken" THEN @ ELSE "ended"]
  /\ early' = early \cup ({s} \ 1..issued)
  /\ Answer("ok")
  /\ UNCHANGED <<contract, handle, started, alive, numbered, issued>>

-----------------------------------------------------------------------------

SessionOp == {"send", "cancel"}

ExtensionStep(e) == \/ \E c \in Contracts : Load(e, c)
                    \/ Activate(e)
                    \/ Deactivate(e)
                    \/ OpenRefused(e)
                    \/ OpenFails(e)
                    \/ \E b \in Batches : Open(e, b)

SessionStep(s) == \/ \E op \in SessionOp : UseRefused(op, s)
                  \/ \E op \in SessionOp : UseFails(op, s)
                  \/ \E op \in SessionOp, b \in Batches : Use(op, s, b)
                  \/ Close(s)

Terminated == ~Up /\ UNCHANGED vars

Next == \/ \E e \in Extensions : ExtensionStep(e)
        \/ \E s \in SessionIds : SessionStep(s)
        \/ \E i \in Instances : PluginDies(i)
        \/ Terminated

Spec == Init /\ [][Next]_vars

-----------------------------------------------------------------------------
(* Properties.                                                              *)

\* Type correctness.
TypeOK ==
  /\ contract \in [Extensions -> Contracts \cup {"unloaded"}]
  /\ handle \in [Extensions -> Instances \cup {NoInstance}]
  /\ started \in 0..MaxInstances
  /\ alive \subseteq Instances
  /\ serving \subseteq Instances \X SessionIds
  /\ numbered \in [Instances -> 0..MaxSessions]
  /\ issued \in 0..MaxSessions
  /\ DOMAIN sessions \subseteq 1..issued
  /\ \A s \in DOMAIN sessions :
       sessions[s] \in [extension : Extensions, runtime : SessionIds,
                        opened_at : Instances, is_closed : BOOLEAN]
  /\ ring \in Seq(SessionIds) /\ set \subseteq SessionIds
  /\ stream \in [SessionIds -> {"none", "open", "ended", "broken"}]
  /\ early \subseteq SessionIds
  /\ reply \in {"ok", "error"}
  /\ fatal \in {"none", "extension not loaded", "session not found",
                "send not allowed", "plugin"}

\* Whatever batch a running plugin reports next is appended as described: an error is
\* followed by an end, the batch is cut after its first end, and either all of what is
\* left is buffered or, beyond the quota, nothing is; the session stays open only if
\* neither the cut nor the quota was met.
AppendedAsDescribed ==
  (\E e \in Extensions : handle[e] \in alive) =>
    \A b \in Batches :
      LET ends == {i \in DOMAIN b : b[i] # "data"}
          whole == IF ends = {} THEN b
                   ELSE LET i == CHOOSE i \in ends : \A j \in ends : i <= j
                        IN  IF b[i] = "end" THEN SubSeq(b, 1, i)
                            ELSE Append(SubSeq(b, 1, i), "end")
          q == AppendSessionEvents(b)
      IN  /\ q.breached = (Len(whole) > Quota)
          /\ q.events = (IF Len(whole) > Quota THEN <<>> ELSE whole)
          /\ q.closed = (ends # {} \/ Len(whole) > Quota)

\* No event reaches the host on a stream that has ended, by an end event, by a quota
\* error or by a close it was answered, whatever the plugin goes on reporting; except
\* on a session whose id the host had closed before the daemon issued it.
NothingAfterEnd == \A s \in SessionIds \ early : stream[s] # "broken"

\* Host and kernel agree which sessions can be used: one the host saw end is refused
\* for good, also after its tombstone was evicted, and one it did not see end is not.
\* The ids the host closed before they were issued are left out for good: they are
\* refused while their tombstone lasts, and usable once it is evicted, even when the
\* host has closed them once more in between and was answered ok.
HostAgrees == \A s \in 1..issued \ early : Usable(s) <=> stream[s] = "open"

\* The tombstone ring and its lookup set hold the same ids, each once, and never
\* more than the capacity.
TombstonesBounded ==
  /\ set = {ring[i] : i \in DOMAIN ring}
  /\ Cardinality(set) = Len(ring)
  /\ Len(ring) <= Capacity

\* A runtime session a running plugin was never asked to close is not orphaned: the
\* kernel still has the session under which the host can close it.  (What a plugin
\* keeps although it was asked to close it, by its own session's close or by one that
\* came with the old number of a session of an instance before it, is lost to the host.)
PluginSessionsHeld ==
  \A e \in Extensions : \A t \in serving :
    t[1] = handle[e] /\ t[1] \in alive =>
      \E s \in DOMAIN sessions :
        /\ ExtensionOf(s) = e
        /\ <<sessions[s].opened_at, sessions[s].runtime>> = t

\* "Unknown extension, not active, closed session ... are error envelopes so the
\* daemon survives host mistakes" (comment in handle_request_line).
HostMistakesAreAnswered == fatal \notin {"extension not loaded", "session not found"}
=============================================================================
