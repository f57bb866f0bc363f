---------------------------- MODULE ProcessChannel ----------------------------
(***************************************************************************)
(* One plugin process and the kernel's channel to it: ManagedProcess,      *)
(* ProcessIo and the RuntimeHandle operations that use them                *)
(* (rust/extensions-kernel/src/lib.rs).                                    *)
(*                                                                         *)
(* Threads: the callers (pool workers and the daemon thread), serialized   *)
(* by the Mutex<RuntimeHandle>, and one reader thread that takes the       *)
(* plugin's output line by line.  The plugin is the environment: it        *)
(* answers what it was asked in any order, late, twice or never, files     *)
(* session events, prints garbage and dies.                                *)
(***************************************************************************)
EXTENDS Naturals, Sequences

CONSTANTS
  Callers,    \* threads that share the instance
  NoCaller,   \* stands for no thread
  Sessions,   \* runtime session ids of the plugin
  MaxCalls,   \* bound: requests written to the plugin
  MaxFrames   \* bound: frames the plugin prints

ASSUME ChannelAssumption ==
  /\ NoCaller \notin Callers /\ Sessions # {}
  /\ MaxCalls \in Nat /\ MaxFrames \in Nat

Ids == 1..MaxCalls

\* Operations on the runtime handle.  A "session" operation (openSession, send,
\* cancel) takes the staged events of its session after the answer, "close" throws
\* them away, "deactivate" kills the child whatever the answer was.
Ops == [kind : {"invoke", "deactivate"}, session : {CHOOSE s \in Sessions : TRUE}]
       \cup [kind : {"session", "close"}, session : Sessions]

\* PendingCall: no entry, an entry not done, an entry with an error, or an entry
\* with the answer to the request of that id: a result or the plugin's error, and
\* the number of events of each session printed before it.
Absent == [state |-> "absent"]
Waiting == [state |-> "waiting"]
Failed == [state |-> "failed"]
Counts == [Sessions -> 0..MaxFrames]
Answers == [state : {"answered"}, of : Ids, ok : BOOLEAN, seen : Counts]

Frames == [kind : {"event"}, session : Sessions, n : 1..MaxFrames]
          \cup [kind : {"response"}, id : Ids, ok : BOOLEAN, seen : Counts]
          \cup [kind : {"garbage"}]

VARIABLES
  mutex,    \* the caller that holds the Mutex<RuntimeHandle>
  pc, id, op, outcome,  \* each caller: where it stands, in which call, its result
  next_id,  \* ProcessIo.next_id
  pending,  \* ProcessIo.pending
  staged,   \* ProcessIo.session_events
  alive,    \* ProcessIo.alive
  reader,   \* where the reader thread stands
  child,    \* is the plugin process running?
  stdout,   \* frames in the plugin's output pipe
  asked,    \* ids written to the plugin's input
  answered, \* ids the plugin has printed a response for
  emitted,  \* number of events the plugin has printed for each session
  printed,  \* number of frames printed
  handed    \* events that left the staging queue of each session, in order

callerVars == <<mutex, pc, id, op, outcome, next_id>>
ioVars == <<pending, staged, alive, handed>>
pluginVars == <<child, stdout, asked, answered, emitted, printed>>
vars == <<callerVars, ioVars, reader, pluginVars>>

Init ==
  /\ mutex = NoCaller
  /\ pc = [c \in Callers |-> "idle"]
  /\ id = [c \in Callers |-> 0]
  /\ op = [c \in Callers |-> CHOOSE o \in Ops : TRUE]
  /\ outcome = [c \in Callers |-> Absent]
  /\ next_id = 1
  /\ pending = [i \in Ids |-> Absent]
  /\ staged = [s \in Sessions |-> <<>>]
  /\ alive = TRUE
  /\ reader = "read"
  /\ child = TRUE
  /\ stdout = <<>>
  /\ asked = {}
  /\ answered = {}
  /\ emitted = [s \in Sessions |-> 0]
  /\ printed = 0
  /\ handed = [s \in Sessions |-> <<>>]

-----------------------------------------------------------------------------
(* A call: ManagedProcess.request and what its caller does with the answer. *)

\* The mutex is taken, then the id.
Begin(c, o) ==
  /\ pc[c] = "idle"
  /\ mutex = NoCaller
  /\ next_id <= MaxCalls
  /\ mutex' = c
  /\ id' = [id EXCEPT ![c] = next_id]
  /\ next_id' = next_id + 1
  /\ op' = [op EXCEPT ![c] = o]
  /\ outcome' = [outcome EXCEPT ![c] = Absent]
  /\ pc' = [pc EXCEPT ![c] = "write"]
  /\ UNCHANGED <<ioVars, reader, pluginVars>>

Succeeded(x) == x.state = "answered" /\ x.ok

\* The request of c is over with result x: what remains to do under the mutex.
Finish(c, x) ==
  /\ outcome' = [outcome EXCEPT ![c] = x]
  /\ LET next == CASE op[c].kind = "deactivate" -> "kill"
                   [] op[c].kind \in {"session", "close"} /\ Succeeded(x) -> "take"
                   [] OTHER -> "idle"
     IN  /\ pc' = [pc EXCEPT ![c] = next]
         /\ mutex' = IF next = "idle" THEN NoCaller ELSE mutex

\* write_request: a broken pipe once the process is gone.
WriteRequest(c) ==
  /\ pc[c] = "write"
  /\ IF child
       THEN /\ asked' = asked \cup {id[c]}
            /\ pc' = [pc EXCEPT ![c] = "insert"]
            /\ UNCHANGED <<mutex, outcome>>
       ELSE Finish(c, Failed) /\ UNCHANGED asked
  /\ UNCHANGED <<id, op, next_id, ioVars, reader, child, stdout, answered, emitted,
                 printed>>

\* The entry is made after the request has left.
Insert(c) ==
  /\ pc[c] = "insert"
  /\ pending' = [pending EXCEPT ![id[c]] = Waiting]
  /\ pc' = [pc EXCEPT ![c] = "wait"]
  /\ UNCHANGED <<mutex, id, op, outcome, next_id, staged, alive, handed, reader,
                 pluginVars>>

\* The waiting loop finds its entry done.
ReturnDone(c) ==
  /\ pc[c] = "wait"
  /\ pending[id[c]] \notin {Absent, Waiting}
  /\ pending' = [pending EXCEPT ![id[c]] = Absent]
  /\ Finish(c, pending[id[c]])
  /\ UNCHANGED <<id, op, next_id, staged, alive, handed, reader, pluginVars>>

\* Broken variant: the entry of a call given up stays behind.
ReturnDeadLeavesEntry(c) ==
  /\ pc[c] = "wait"
  /\ pending[id[c]] = Waiting
  /\ ~alive
  /\ Finish(c, Failed)
  /\ UNCHANGED <<id, op, next_id, ioVars, reader, pluginVars>>

\* The waiting loop finds its entry not done and the process gone.  The loop looks
\* every 100 ms, whether or not it was notified.
ReturnDead(c) ==
  /\ pc[c] = "wait"
  /\ pending[id[c]] = Waiting
  /\ ~alive
  /\ pending' = [pending EXCEPT ![id[c]] = Absent]
  /\ Finish(c, Failed)
  /\ UNCHANGED <<id, op, next_id, staged, alive, handed, reader, pluginVars>>

\* Broken variant: the events are copied and stay staged.
TakeEventsTwice(c) ==
  /\ pc[c] = "take"
  /\ handed' = [handed EXCEPT ![op[c].session] = @ \o staged[op[c].session]]
  /\ pc' = [pc EXCEPT ![c] = "idle"]
  /\ mutex' = NoCaller
  /\ UNCHANGED <<id, op, outcome, next_id, pending, staged, alive, reader, pluginVars>>

\* take_session_events, or the removal in session_close.
TakeEvents(c) ==
  /\ pc[c] = "take"
  /\ handed' = [handed EXCEPT ![op[c].session] = @ \o staged[op[c].session]]
  /\ staged' = [staged EXCEPT ![op[c].session] = <<>>]
  /\ pc' = [pc EXCEPT ![c] = "idle"]
  /\ mutex' = NoCaller
  /\ UNCHANGED <<id, op, outcome, next_id, pending, alive, reader, pluginVars>>

\* shutdown, after extension/deactivate.
Kill(c) ==
  /\ pc[c] = "kill"
  /\ child' = FALSE
  /\ pc' = [pc EXCEPT ![c] = "idle"]
  /\ mutex' = NoCaller
  /\ UNCHANGED <<id, op, outcome, next_id, ioVars, reader, stdout, asked, answered,
                 emitted, printed>>

-----------------------------------------------------------------------------
(* The reader thread.                                                       *)

\* Broken variant: a response goes to the calls that wait, whatever its id.
DeliverToWaiting(i, x) ==
  [j \in Ids |-> IF pending[j] = Waiting THEN x ELSE pending[j]]

\* What a response does to the table of pending calls: get_mut, or nothing.
Deliver(i, x) == IF pending[i] = Absent THEN pending ELSE [pending EXCEPT ![i] = x]

\* The reader files an event whatever the length of the queue.
Stage(f) == [staged EXCEPT ![f.session] = Append(@, f.n)]

\* Broken variant: the frame itself is kept as the outcome.
AnswerOfFrame(f) == f

AnswerOf(f) == [state |-> "answered", of |-> f.id, ok |-> f.ok,
                seen |-> f.seen]

\* Broken variant: events wait until the responses behind them are delivered.
ReadFrameAnswersFirst ==
  /\ reader = "read"
  /\ \E k \in DOMAIN stdout :
       LET f == stdout[k] IN
       /\ f.kind # "response" => k = 1 /\ \A j \in DOMAIN stdout : stdout[j].kind # "response"
       /\ stdout' = [j \in 1..Len(stdout) - 1 |-> stdout[IF j < k THEN j ELSE j + 1]]
       /\ \/ /\ f.kind = "event"
             /\ staged' = Stage(f)
             /\ UNCHANGED <<pending, reader>>
          \/ /\ f.kind = "response"
             /\ pending' = Deliver(f.id, AnswerOf(f))
             /\ UNCHANGED <<staged, reader>>
          \/ /\ f.kind = "garbage"
             /\ reader' = "closing"
             /\ UNCHANGED <<pending, staged>>
  /\ UNCHANGED <<callerVars, alive, handed, child, asked, answered, emitted, printed>>

\* One line of output.  Garbage is a line that is not JSON, an event that does not
\* decode or a frame without id: each ends the loop.
ReadFrame ==
  /\ reader = "read"
  /\ stdout # <<>>
  /\ stdout' = Tail(stdout)
  /\ LET f == Head(stdout) IN
       \/ /\ f.kind = "event"
          /\ staged' = Stage(f)
          /\ UNCHANGED <<pending, reader>>
       \/ /\ f.kind = "response"
          /\ pending' = Deliver(f.id, AnswerOf(f))
          /\ UNCHANGED <<staged, reader>>
       \/ /\ f.kind = "garbage"
          /\ reader' = "closing"
          /\ UNCHANGED <<pending, staged>>
  /\ UNCHANGED <<callerVars, alive, handed, child, asked, answered, emitted, printed>>

\* End of file, after everything the dead process had printed.
ReadEof ==
  /\ reader = "read"
  /\ stdout = <<>>
  /\ ~child
  /\ reader' = "closing"
  /\ UNCHANGED <<callerVars, ioVars, pluginVars>>

\* Broken variant: the flag is not cleared.
MarkDeadForgotten ==
  /\ reader = "closing"
  /\ reader' = "failing"
  /\ UNCHANGED <<callerVars, ioVars, pluginVars>>

MarkDead ==
  /\ reader = "closing"
  /\ alive' = FALSE
  /\ reader' = "failing"
  /\ UNCHANGED <<callerVars, pending, staged, handed, pluginVars>>

\* fail_all_pending.
FailAll ==
  /\ reader = "failing"
  /\ pending' = [i \in Ids |-> IF pending[i] = Waiting THEN Failed ELSE pending[i]]
  /\ reader' = "exited"
  /\ UNCHANGED <<callerVars, staged, alive, handed, pluginVars>>

-----------------------------------------------------------------------------
(* The plugin process.                                                      *)

PrintLine(f) == /\ child
                /\ printed < MaxFrames
                /\ printed' = printed + 1
                /\ stdout' = Append(stdout, f)
                /\ UNCHANGED <<callerVars, ioVars, reader, child, asked>>

PluginAnswers(i, ok) ==
  /\ i \in asked
  /\ PrintLine([kind |-> "response", id |-> i, ok |-> ok, seen |-> emitted])
  /\ answered' = answered \cup {i}
  /\ UNCHANGED emitted

PluginEvent(s) ==
  /\ PrintLine([kind |-> "event", session |-> s, n |-> emitted[s] + 1])
  /\ emitted' = [emitted EXCEPT ![s] = @ + 1]
  /\ UNCHANGED answered

PluginGarbage ==
  /\ PrintLine([kind |-> "garbage"])
  /\ UNCHANGED <<answered, emitted>>

PluginDies ==
  /\ child
  /\ child' = FALSE
  /\ UNCHANGED <<callerVars, ioVars, reader, stdout, asked, answered, emitted, printed>>

-----------------------------------------------------------------------------

CallStep(c) == WriteRequest(c) \/ Insert(c) \/ ReturnDone(c) \/ ReturnDead(c)
               \/ TakeEvents(c) \/ Kill(c)

ReaderStep == ReadFrame \/ ReadEof \/ MarkDead \/ FailAll

PluginStep == \/ \E i \in Ids, ok \in BOOLEAN : PluginAnswers(i, ok)
              \/ \E s \in Sessions : PluginEvent(s)
              \/ PluginGarbage
              \/ PluginDies

Next == \/ \E c \in Callers, o \in Ops : Begin(c, o)
        \/ \E c \in Callers : CallStep(c)
        \/ ReaderStep
        \/ PluginStep

\* The kernel's threads run; the plugin owes nothing.
Fairness == (\A c \in Callers : WF_vars(CallStep(c))) /\ WF_vars(ReaderStep)

Spec == Init /\ [][Next]_vars /\ Fairness

-----------------------------------------------------------------------------
(* Properties.                                                              *)

\* Type correctness.
TypeOK ==
  /\ mutex \in Callers \cup {NoCaller}
  /\ pc \in [Callers -> {"idle", "write", "insert", "wait", "take", "kill"}]
  /\ id \in [Callers -> Ids \cup {0}]
  /\ op \in [Callers -> Ops]
  /\ outcome \in [Callers -> {Absent, Failed} \cup Answers]
  /\ next_id \in 1..MaxCalls + 1
  /\ pending \in [Ids -> {Absent, Waiting, Failed} \cup Answers]
  /\ staged \in [Sessions -> Seq(1..MaxFrames)]
  /\ alive \in BOOLEAN
  /\ reader \in {"read", "closing", "failing", "exited"}
  /\ child \in BOOLEAN
  /\ stdout \in Seq(Frames)
  /\ asked \subseteq Ids /\ answered \subseteq Ids
  /\ emitted \in Counts
  /\ printed \in 0..MaxFrames
  /\ handed \in [Sessions -> Seq(1..MaxFrames)]

\* A call returns an error or the answer to its own request, even when the plugin
\* answers an earlier request late or twice while this one waits.
AnswerIsOwn ==
  \A c \in Callers : outcome[c] \in Answers => outcome[c].of = id[c]

\* The table of pending calls holds entries of waiting callers only, however calls
\* end and whenever the reader gives up: it cannot grow.
NoAbandonedEntry ==
  \A i \in Ids : pending[i] # Absent => \E c \in Callers : pc[c] = "wait" /\ id[c] = i

\* Where the events of a session stand in the pipe.
InPipe(s) == {k \in DOMAIN stdout : stdout[k].kind = "event" /\ stdout[k].session = s}

\* Every event a plugin printed is handed on once and in order: nothing is lost,
\* repeated or reordered between the pipe, the staging queue and the sessions.  What
\* was taken is the first events in their order, and the pipe has exactly the others,
\* in theirs.
EventsConserved ==
  \A s \in Sessions :
    LET taken == handed[s] \o staged[s]
    IN  /\ Len(taken) <= emitted[s]
        /\ taken = [n \in 1..Len(taken) |-> n]
        /\ {stdout[k].n : k \in InPipe(s)} = Len(taken) + 1 .. emitted[s]
        /\ \A j, k \in InPipe(s) : j < k => stdout[j].n < stdout[k].n

\* What a plugin printed for a session before it answered a session operation is
\* part of the events that operation takes.
EventsBeforeAnswer ==
  \A c \in Callers :
    pc[c] = "take" =>
      Len(handed[op[c].session]) + Len(staged[op[c].session])
        >= outcome[c].seen[op[c].session]

\* The death of the plugin, or output the kernel cannot read, releases the call in
\* progress wherever it stands, and every caller queued behind it.
DeathReleasesCallers ==
  \A c \in Callers : (reader # "read" /\ pc[c] # "idle") ~> pc[c] = "idle"

\* "Correlates responses by id, files session events, and wakes waiting callers"
\* (comment on the reader thread): a call the plugin has answered returns.
AnsweredCallReturns ==
  \A c \in Callers :
    (pc[c] = "wait" /\ id[c] \in answered) ~> pc[c] # "wait"

-----------------------------------------------------------------------------
(* The abstract channel.                                                    *)

Channel == INSTANCE CallChannel
             WITH turn <- mutex, made <- next_id - 1, call <- id, result <- outcome,
                  MaxEvents <- MaxFrames

\* The pipe, the reader thread, the table of pending calls, the staging queue and the
\* mutex implement the abstract channel.
ImplementsCallChannel == Channel!Spec
=============================================================================
