------------------------- MODULE ProcessChannelProofs -------------------------
(***************************************************************************)
(* Proofs about ProcessChannel, for any number of callers, calls, frames   *)
(* and sessions: answers are not mixed up, no entry is left behind, and no *)
(* event is lost, repeated or reordered.                                   *)
(***************************************************************************)
EXTENDS ProcessChannel, TLAPS

-----------------------------------------------------------------------------
(* The inductive invariant.                                                 *)

\* One call at a time, the newest, in the hands of the caller that holds the mutex.
OneCall ==
  /\ \A c \in Callers : pc[c] # "idle" <=> mutex = c
  /\ \A c \in Callers : pc[c] # "idle" => id[c] \in Ids

\* Every answer stands in the entry of its own id.
EntryIsOwn == \A i \in Ids : pending[i] \in Answers => pending[i].of = i

\* A caller that takes events was answered, in an operation on a session.
TakesAnswered == \A c \in Callers : pc[c] = "take" => outcome[c] \in Answers

Taken(s) == Len(handed[s]) + Len(staged[s])

\* Events are numbered within the bound on what the plugin prints.
Numbered == \A s \in Sessions : emitted[s] <= printed

\* Behind a response in the pipe come only events the plugin printed after it; what an
\* answer that was delivered had before it is taken.
SeenInOrder ==
  /\ \A k \in DOMAIN stdout : stdout[k].kind = "response" =>
       \A s \in Sessions :
         /\ stdout[k].seen[s] <= emitted[s]
         /\ \A j \in InPipe(s) : j > k => stdout[j].n > stdout[k].seen[s]
  /\ \A i \in Ids : pending[i] \in Answers =>
       \A s \in Sessions : pending[i].seen[s] <= Taken(s)
  /\ \A c \in Callers : outcome[c] \in Answers =>
       \A s \in Sessions : outcome[c].seen[s] <= Taken(s)

-----------------------------------------------------------------------------
(* Types, and one call at a time.                                           *)

LEMMA OpFacts ==
  /\ \A o \in Ops : /\ o.session \in Sessions
                    /\ o.kind \in {"invoke", "deactivate", "session", "close"}
  /\ (CHOOSE o \in Ops : TRUE) \in Ops
  <1>1. (CHOOSE s \in Sessions : TRUE) \in Sessions
    BY ChannelAssumption
  <1>2. [kind |-> "invoke", session |-> CHOOSE s \in Sessions : TRUE] \in Ops
    BY DEF Ops
  <1> QED
    BY <1>1, <1>2 DEF Ops

LEMMA AnswerFacts ==
  /\ \A x \in Answers : /\ x.state = "answered" /\ x.of \in Ids /\ x.ok \in BOOLEAN
                        /\ x.seen \in Counts
                        /\ x # Absent /\ x # Waiting /\ x # Failed
  /\ Absent # Waiting /\ Absent # Failed /\ Waiting # Failed
  /\ Absent \notin Answers /\ Waiting \notin Answers /\ Failed \notin Answers
  /\ ~Succeeded(Absent) /\ ~Succeeded(Waiting) /\ ~Succeeded(Failed)
  BY DEF Answers, Absent, Waiting, Failed, Succeeded

LEMMA FrameFacts ==
  ASSUME NEW f \in Frames
  PROVE  /\ f.kind \in {"event", "response", "garbage"}
         /\ f.kind = "event" => f.session \in Sessions /\ f.n \in 1..MaxFrames
         /\ f.kind = "response" => /\ f.id \in Ids /\ f.ok \in BOOLEAN
                                   /\ f.seen \in Counts /\ AnswerOf(f) \in Answers
  BY DEF Frames, AnswerOf, Answers

TypeInv == TypeOK /\ OneCall /\ Numbered

LEMMA InitTypes == Init => TypeInv
  <1> SUFFICES ASSUME Init PROVE TypeInv
    OBVIOUS
  <1>1. TypeOK
    BY ChannelAssumption, OpFacts DEF Init, TypeOK, Ids, Counts
  <1>2. OneCall
    BY ChannelAssumption DEF Init, OneCall
  <1>3. Numbered
    BY DEF Init, Numbered
  <1> QED
    BY <1>1, <1>2, <1>3 DEF TypeInv

LEMMA BeginTypes ==
  ASSUME TypeInv, NEW c \in Callers, NEW o \in Ops, Begin(c, o)
  PROVE  TypeInv'
  <1>1. TypeOK'
    BY ChannelAssumption DEF TypeInv, TypeOK, Begin, ioVars, pluginVars, Ids
  <1>2. OneCall'
    BY ChannelAssumption DEF TypeInv, TypeOK, OneCall, Begin, Ids
  <1>3. Numbered'
    BY DEF TypeInv, Numbered, Begin, pluginVars
  <1> QED
    BY <1>1, <1>2, <1>3 DEF TypeInv

\* The end of a request leaves its caller with the mutex or without both.
LEMMA FinishTypes ==
  ASSUME TypeInv, NEW c \in Callers, pc[c] # "idle",
         NEW x \in {Absent, Failed} \cup Answers, Finish(c, x), UNCHANGED id
  PROVE  /\ mutex' \in Callers \cup {NoCaller}
         /\ pc' \in [Callers -> {"idle", "write", "insert", "wait", "take", "kill"}]
         /\ outcome' \in [Callers -> {Absent, Failed} \cup Answers]
         /\ OneCall'
  <1> DEFINE next == CASE op[c].kind = "deactivate" -> "kill"
                       [] op[c].kind \in {"session", "close"} /\ Succeeded(x) -> "take"
                       [] OTHER -> "idle"
  <1>1. next \in {"idle", "take", "kill"}
    OBVIOUS
  <1>2. pc' = [pc EXCEPT ![c] = next] /\ mutex' = IF next = "idle" THEN NoCaller ELSE mutex
    BY DEF Finish
  <1> HIDE DEF next
  <1>3. outcome' = [outcome EXCEPT ![c] = x]
    BY DEF Finish
  <1>4. mutex = c
    BY DEF TypeInv, OneCall
  <1>5. OneCall'
    BY <1>1, <1>2, <1>4, ChannelAssumption DEF TypeInv, TypeOK, OneCall
  <1> QED
    BY <1>1, <1>2, <1>3, <1>5 DEF TypeInv, TypeOK

LEMMA CallTypes ==
  ASSUME TypeInv, NEW c \in Callers, CallStep(c)
  PROVE  TypeInv'
  <1>1. CASE WriteRequest(c)
    <2>1. /\ mutex' \in Callers \cup {NoCaller}
          /\ pc' \in [Callers -> {"idle", "write", "insert", "wait", "take", "kill"}]
          /\ outcome' \in [Callers -> {Absent, Failed} \cup Answers]
          /\ OneCall'
      <3>1. CASE child
        BY <1>1, <3>1 DEF WriteRequest, TypeInv, TypeOK, OneCall
      <3>2. CASE ~child
        BY <1>1, <3>2, FinishTypes DEF WriteRequest
      <3> QED
        BY <3>1, <3>2
    <2>2. asked' \subseteq Ids
      BY <1>1 DEF WriteRequest, TypeInv, TypeOK, OneCall
    <2>3. TypeOK'
      BY <1>1, <2>1, <2>2 DEF WriteRequest, TypeInv, TypeOK, ioVars
    <2> QED
      BY <1>1, <2>1, <2>3 DEF WriteRequest, TypeInv, Numbered
  <1>2. CASE Insert(c)
    <2>1. TypeOK'
      BY <1>2 DEF Insert, TypeInv, TypeOK, OneCall, pluginVars
    <2>2. OneCall'
      BY <1>2 DEF Insert, TypeInv, TypeOK, OneCall
    <2> QED
      BY <1>2, <2>1, <2>2 DEF Insert, TypeInv, Numbered, pluginVars
  <1>3. CASE ReturnDone(c) \/ ReturnDead(c)
    <2>1. PICK x \in {Absent, Failed} \cup Answers : Finish(c, x)
      <3>1. id[c] \in Ids
        BY <1>3 DEF ReturnDone, ReturnDead, TypeInv, OneCall
      <3>2. pending[id[c]] \in {Absent, Waiting, Failed} \cup Answers
        BY <3>1 DEF TypeInv, TypeOK
      <3> QED
        BY <1>3, <3>2 DEF ReturnDone, ReturnDead
    <2>2. /\ mutex' \in Callers \cup {NoCaller}
          /\ pc' \in [Callers -> {"idle", "write", "insert", "wait", "take", "kill"}]
          /\ outcome' \in [Callers -> {Absent, Failed} \cup Answers]
          /\ OneCall'
      BY <1>3, <2>1, FinishTypes DEF ReturnDone, ReturnDead
    <2>3. pending' \in [Ids -> {Absent, Waiting, Failed} \cup Answers]
      BY <1>3 DEF ReturnDone, ReturnDead, TypeInv, TypeOK
    <2>4. TypeOK'
      BY <1>3, <2>2, <2>3 DEF ReturnDone, ReturnDead, TypeInv, TypeOK, pluginVars
    <2> QED
      BY <1>3, <2>2, <2>4 DEF ReturnDone, ReturnDead, TypeInv, Numbered, pluginVars
  <1>4. CASE TakeEvents(c)
    <2>1. op[c].session \in Sessions
      BY OpFacts DEF TypeInv, TypeOK
    <2>2. /\ handed' \in [Sessions -> Seq(1..MaxFrames)]
          /\ staged' \in [Sessions -> Seq(1..MaxFrames)]
      BY <1>4, <2>1 DEF TakeEvents, TypeInv, TypeOK
    <2>3. OneCall'
      BY <1>4, ChannelAssumption DEF TakeEvents, TypeInv, TypeOK, OneCall
    <2>4. TypeOK'
      BY <1>4, <2>2 DEF TakeEvents, TypeInv, TypeOK, pluginVars
    <2> QED
      BY <1>4, <2>3, <2>4 DEF TakeEvents, TypeInv, Numbered, pluginVars
  <1>5. CASE Kill(c)
    <2>1. OneCall'
      BY <1>5, ChannelAssumption DEF Kill, TypeInv, TypeOK, OneCall
    <2>2. TypeOK'
      BY <1>5 DEF Kill, TypeInv, TypeOK, ioVars
    <2> QED
      BY <1>5, <2>1, <2>2 DEF Kill, TypeInv, Numbered
  <1> QED
    BY <1>1, <1>2, <1>3, <1>4, <1>5 DEF CallStep

LEMMA ReaderTypes ==
  ASSUME TypeInv, ReaderStep
  PROVE  TypeInv'
  <1>1. CASE ReadFrame
    <2> DEFINE f == Head(stdout)
    <2>1. f \in Frames /\ Tail(stdout) \in Seq(Frames)
      BY <1>1 DEF ReadFrame, TypeInv, TypeOK
    <2>2. f.kind = "event" => Stage(f) \in [Sessions -> Seq(1..MaxFrames)]
      BY <2>1, FrameFacts DEF Stage, TypeInv, TypeOK
    <2>3. f.kind = "response" =>
            Deliver(f.id, AnswerOf(f)) \in [Ids -> {Absent, Waiting, Failed} \cup Answers]
      BY <2>1, FrameFacts DEF Deliver, TypeInv, TypeOK
    <2>4. /\ pending' \in [Ids -> {Absent, Waiting, Failed} \cup Answers]
          /\ staged' \in [Sessions -> Seq(1..MaxFrames)]
          /\ reader' \in {"read", "closing", "failing", "exited"}
      BY <1>1, <2>2, <2>3 DEF ReadFrame, TypeInv, TypeOK
    <2>5. TypeOK'
      BY <1>1, <2>1, <2>4 DEF ReadFrame, TypeInv, TypeOK, callerVars
    <2> QED
      BY <1>1, <2>5 DEF ReadFrame, TypeInv, OneCall, Numbered, callerVars
  <1>2. CASE ReadEof
    BY <1>2 DEF ReadEof, TypeInv, TypeOK, OneCall, Numbered, callerVars, ioVars, pluginVars
  <1>3. CASE MarkDead
    BY <1>3 DEF MarkDead, TypeInv, TypeOK, OneCall, Numbered, callerVars, pluginVars
  <1>4. CASE FailAll
    BY <1>4 DEF FailAll, TypeInv, TypeOK, OneCall, Numbered, callerVars, pluginVars
  <1> QED
    BY <1>1, <1>2, <1>3, <1>4 DEF ReaderStep

LEMMA PluginTypes ==
  ASSUME TypeInv, PluginStep
  PROVE  TypeInv'
  <1>1. ASSUME NEW f \in Frames, PrintLine(f)
        PROVE  /\ stdout' \in Seq(Frames) /\ printed' = printed + 1 /\ printed' \in 0..MaxFrames
               /\ UNCHANGED <<mutex, pc, id, op, outcome, next_id, pending, staged, alive,
                              handed, reader, child, asked>>
    BY <1>1, ChannelAssumption DEF PrintLine, TypeInv, TypeOK, callerVars, ioVars
  <1>2. \A s \in Sessions : emitted[s] \in Nat /\ emitted[s] <= printed
    BY DEF TypeInv, TypeOK, Counts, Numbered
  <1>3. ASSUME NEW i \in Ids, NEW ok \in BOOLEAN, PluginAnswers(i, ok) PROVE TypeInv'
    <2>1. [kind |-> "response", id |-> i, ok |-> ok, seen |-> emitted] \in Frames
      BY DEF TypeInv, TypeOK, Frames
    <2>2. answered' \subseteq Ids /\ emitted' = emitted
      BY <1>3 DEF PluginAnswers, TypeInv, TypeOK
    <2> QED
      BY <1>1, <1>2, <1>3, <2>1, <2>2 DEF PluginAnswers, TypeInv, TypeOK, OneCall, Numbered
  <1>4. ASSUME NEW s \in Sessions, PluginEvent(s) PROVE TypeInv'
    <2>1. printed < MaxFrames
      BY <1>4 DEF PluginEvent, PrintLine
    <2>2. emitted[s] + 1 \in 1..MaxFrames
      BY <1>2, <2>1, ChannelAssumption DEF TypeInv, TypeOK
    <2>3. [kind |-> "event", session |-> s, n |-> emitted[s] + 1] \in Frames
      BY <2>2 DEF Frames
    <2>4. emitted' \in Counts /\ answered' = answered
      BY <1>4, <2>2 DEF PluginEvent, TypeInv, TypeOK, Counts
    <2>5. /\ stdout' \in Seq(Frames) /\ printed' = printed + 1 /\ printed' \in 0..MaxFrames
          /\ UNCHANGED <<mutex, pc, id, op, outcome, next_id, pending, staged, alive,
                         handed, reader, child, asked>>
      BY <1>1, <1>4, <2>3 DEF PluginEvent
    <2>6. Numbered'
      BY <1>2, <1>4, <2>5 DEF PluginEvent, TypeInv, TypeOK, Counts, Numbered
    <2> QED
      BY <2>4, <2>5, <2>6 DEF TypeInv, TypeOK, OneCall
  <1>5. CASE PluginGarbage
    <2>1. [kind |-> "garbage"] \in Frames
      BY DEF Frames
    <2> QED
      BY <1>1, <1>2, <1>5, <2>1 DEF PluginGarbage, TypeInv, TypeOK, OneCall, Numbered
  <1>6. CASE PluginDies
    BY <1>6 DEF PluginDies, TypeInv, TypeOK, OneCall, Numbered, callerVars, ioVars
  <1> QED
    BY <1>3, <1>4, <1>5, <1>6 DEF PluginStep

\* Types hold, and the mutex admits one call at a time.
THEOREM ChannelTypes == Spec => []TypeInv
  <1>1. TypeInv /\ [Next]_vars => TypeInv'
    <2>1. ASSUME TypeInv, UNCHANGED vars PROVE TypeInv'
      BY <2>1 DEF TypeInv, TypeOK, OneCall, Numbered, vars, callerVars, ioVars, pluginVars
    <2> QED
      BY <2>1, BeginTypes, CallTypes, ReaderTypes, PluginTypes DEF Next
  <1> QED
    BY InitTypes, <1>1, PTL DEF Spec
-----------------------------------------------------------------------------
(* Answers and entries.                                                     *)

OwnInv == EntryIsOwn /\ AnswerIsOwn /\ NoAbandonedEntry /\ TakesAnswered

LEMMA InitOwn == Init => OwnInv
  BY AnswerFacts DEF Init, OwnInv, EntryIsOwn, AnswerIsOwn, NoAbandonedEntry, TakesAnswered

LEMMA BeginOwn ==
  ASSUME TypeInv, OwnInv, NEW c \in Callers, NEW o \in Ops, Begin(c, o)
  PROVE  OwnInv'
  <1>1. \A d \in Callers : pc[d] = "idle"
    BY ChannelAssumption DEF Begin, TypeInv, OneCall
  <1>2. \A i \in Ids : pending[i] = Absent
    BY <1>1 DEF OwnInv, NoAbandonedEntry
  <1>3. EntryIsOwn' /\ NoAbandonedEntry'
    BY <1>2, AnswerFacts DEF Begin, ioVars, EntryIsOwn, NoAbandonedEntry
  <1>4. AnswerIsOwn' /\ TakesAnswered'
    BY AnswerFacts DEF Begin, TypeInv, TypeOK, OwnInv, AnswerIsOwn, TakesAnswered
  <1> QED
    BY <1>3, <1>4 DEF OwnInv

\* What a caller keeps when its request ends with the entry of its own id.
LEMMA FinishOwn ==
  ASSUME TypeInv, OwnInv, NEW c \in Callers, pc[c] # "idle",
         NEW x \in {Absent, Failed} \cup Answers, x \in Answers => x.of = id[c],
         Finish(c, x), UNCHANGED id
  PROVE  AnswerIsOwn' /\ TakesAnswered'
  <1>1. outcome' = [outcome EXCEPT ![c] = x]
    BY DEF Finish
  <1>2. pc' \in [Callers -> {"idle", "write", "insert", "wait", "take", "kill"}]
    BY FinishTypes
  <1>3. x \notin Answers => ~Succeeded(x)
    BY AnswerFacts
  <1>4. pc'[c] = "take" => x \in Answers
    <2>1. CASE op[c].kind = "deactivate"
      BY <2>1 DEF Finish, TypeInv, TypeOK
    <2>2. CASE op[c].kind # "deactivate" /\ op[c].kind \in {"session", "close"} /\ Succeeded(x)
      BY <1>3, <2>2
    <2>3. CASE op[c].kind # "deactivate" /\ ~(op[c].kind \in {"session", "close"} /\ Succeeded(x))
      BY <2>3 DEF Finish, TypeInv, TypeOK, Succeeded
    <2> QED
      BY <2>1, <2>2, <2>3
  <1>5. \A d \in Callers : d # c => pc'[d] = pc[d]
    BY DEF Finish, TypeInv, TypeOK
  <1>6. AnswerIsOwn'
    BY <1>1 DEF TypeInv, TypeOK, OwnInv, AnswerIsOwn
  <1>7. TakesAnswered'
    BY <1>1, <1>4, <1>5 DEF TypeInv, TypeOK, OwnInv, TakesAnswered
  <1> QED
    BY <1>6, <1>7

LEMMA CallOwn ==
  ASSUME TypeInv, OwnInv, NEW c \in Callers, CallStep(c)
  PROVE  OwnInv'
  <1> USE DEF OwnInv
  <1>1. \A d \in Callers : pc[d] # "idle" => d = c
    BY ChannelAssumption DEF CallStep, WriteRequest, Insert, ReturnDone, ReturnDead, TakeEvents,
       Kill, TypeInv, OneCall
  <1>2. \A i \in Ids : pending[i] # Absent => pc[c] = "wait" /\ id[c] = i
    BY <1>1 DEF NoAbandonedEntry
  <1>3. CASE WriteRequest(c)
    <2>1. EntryIsOwn' /\ NoAbandonedEntry'
      BY <1>2, <1>3 DEF WriteRequest, ioVars, EntryIsOwn, NoAbandonedEntry
    <2>2. CASE child
      BY <1>3, <2>1, <2>2 DEF WriteRequest, TypeInv, TypeOK, AnswerIsOwn, TakesAnswered
    <2>3. CASE ~child
      BY <1>3, <2>1, <2>3, FinishOwn, AnswerFacts DEF WriteRequest
    <2> QED
      BY <2>2, <2>3
  <1>4. CASE Insert(c)
    <2>1. EntryIsOwn' /\ NoAbandonedEntry'
      BY <1>2, <1>4, AnswerFacts DEF Insert, TypeInv, TypeOK, EntryIsOwn, NoAbandonedEntry
    <2> QED
      BY <1>4, <2>1 DEF Insert, TypeInv, TypeOK, AnswerIsOwn, TakesAnswered
  <1>5. CASE ReturnDone(c) \/ ReturnDead(c)
    <2>1. id[c] \in Ids
      BY <1>5 DEF ReturnDone, ReturnDead, TypeInv, OneCall
    <2>2. PICK x \in {Absent, Failed} \cup Answers :
            Finish(c, x) /\ (x \in Answers => x.of = id[c])
      <3>1. pending[id[c]] \in {Absent, Waiting, Failed} \cup Answers
        BY <2>1 DEF TypeInv, TypeOK
      <3> QED
        BY <1>5, <2>1, <3>1, AnswerFacts DEF ReturnDone, ReturnDead, EntryIsOwn
    <2>3. AnswerIsOwn' /\ TakesAnswered'
      BY <1>5, <2>2, FinishOwn DEF ReturnDone, ReturnDead
    <2>4. \A i \in Ids : pending'[i] = Absent
      BY <1>2, <1>5 DEF ReturnDone, ReturnDead, TypeInv, TypeOK
    <2> QED
      BY <2>3, <2>4, AnswerFacts DEF EntryIsOwn, NoAbandonedEntry
  <1>6. CASE TakeEvents(c) \/ Kill(c)
    <2>1. \A i \in Ids : pending'[i] = Absent
      BY <1>2, <1>6 DEF TakeEvents, Kill, ioVars
    <2> QED
      BY <1>6, <2>1, AnswerFacts DEF TakeEvents, Kill, TypeInv, TypeOK, EntryIsOwn,
         NoAbandonedEntry, AnswerIsOwn, TakesAnswered
  <1> QED
    BY <1>3, <1>4, <1>5, <1>6 DEF CallStep

LEMMA ReaderOwn ==
  ASSUME TypeInv, OwnInv, ReaderStep
  PROVE  OwnInv'
  <1> USE DEF OwnInv
  <1>1. CASE ReadFrame
    <2>1. AnswerIsOwn' /\ TakesAnswered'
      BY <1>1 DEF ReadFrame, callerVars, AnswerIsOwn, TakesAnswered
    <2>2. CASE UNCHANGED pending
      BY <1>1, <2>1, <2>2 DEF ReadFrame, callerVars, EntryIsOwn, NoAbandonedEntry
    <2>3. CASE /\ Head(stdout).kind = "response"
               /\ pending' = Deliver(Head(stdout).id, AnswerOf(Head(stdout)))
      <3>1. Head(stdout) \in Frames
        BY <1>1 DEF ReadFrame, TypeInv, TypeOK
      <3>2. \A i \in Ids : \/ pending'[i] = pending[i]
                           \/ pending[i] # Absent /\ pending'[i].of = i
        BY <2>3, <3>1, FrameFacts DEF Deliver, AnswerOf, TypeInv, TypeOK
      <3> QED
        BY <1>1, <2>1, <3>2 DEF ReadFrame, callerVars, EntryIsOwn, NoAbandonedEntry
    <2> QED
      BY <1>1, <2>2, <2>3 DEF ReadFrame
  <1>2. CASE ReadEof \/ MarkDead
    BY <1>2 DEF ReadEof, MarkDead, callerVars, ioVars, EntryIsOwn, NoAbandonedEntry, AnswerIsOwn,
       TakesAnswered
  <1>3. CASE FailAll
    BY <1>3, AnswerFacts DEF FailAll, callerVars, EntryIsOwn, NoAbandonedEntry, AnswerIsOwn,
       TakesAnswered
  <1> QED
    BY <1>1, <1>2, <1>3 DEF ReaderStep

LEMMA PluginOwn ==
  ASSUME OwnInv, PluginStep
  PROVE  OwnInv'
  <1>1. UNCHANGED <<callerVars, ioVars>>
    BY DEF PluginStep, PluginAnswers, PluginEvent, PluginGarbage, PluginDies, PrintLine
  <1> QED
    BY <1>1 DEF OwnInv, EntryIsOwn, NoAbandonedEntry, AnswerIsOwn, TakesAnswered, callerVars,
       ioVars

\* Every outcome and every entry belongs to its request.
THEOREM ChannelOwn == Spec => []OwnInv
  <1>1. TypeInv /\ OwnInv /\ [Next]_vars => OwnInv'
    <2>1. ASSUME OwnInv, UNCHANGED vars PROVE OwnInv'
      BY <2>1 DEF OwnInv, EntryIsOwn, NoAbandonedEntry, AnswerIsOwn, TakesAnswered, vars,
         callerVars, ioVars
    <2> QED
      BY <2>1, BeginOwn, CallOwn, ReaderOwn, PluginOwn DEF Next
  <1> QED
    BY InitOwn, ChannelTypes, <1>1, PTL DEF Spec

-----------------------------------------------------------------------------
(* Events.                                                                  *)

\* What one session's events say, in the terms the steps change: the sequence taken,
\* the number printed, and the events in the pipe.
Flows(taken, last, pipe, at) ==
  /\ Len(taken) <= last
  /\ taken = [n \in 1..Len(taken) |-> n]
  /\ {pipe[k].n : k \in at} = Len(taken) + 1 .. last
  /\ \A j, k \in at : j < k => pipe[j].n < pipe[k].n

LEMMA FlowsAll ==
  EventsConserved <=>
    \A s \in Sessions : Flows(handed[s] \o staged[s], emitted[s], stdout, InPipe(s))
  BY DEF EventsConserved, Flows

LEMMA TakenFacts ==
  ASSUME TypeInv, NEW s \in Sessions
  PROVE  /\ handed[s] \in Seq(1..MaxFrames) /\ staged[s] \in Seq(1..MaxFrames)
         /\ handed[s] \o staged[s] \in Seq(1..MaxFrames)
         /\ Len(handed[s] \o staged[s]) = Taken(s)
         /\ Taken(s) \in Nat /\ emitted[s] \in Nat
  BY DEF TypeInv, TypeOK, Taken, Counts

LEMMA PipeFacts ==
  ASSUME TypeInv
  PROVE  \A s \in Sessions : \A k \in InPipe(s) :
           k \in 1..Len(stdout) /\ stdout[k] \in Frames /\ stdout[k].n \in Nat
  BY FrameFacts, ChannelAssumption DEF TypeInv, TypeOK, InPipe

\* Behind the frame the reader takes, the pipe is the pipe shifted by one.
LEMMA TailFacts ==
  ASSUME TypeInv, stdout # <<>>, stdout' = Tail(stdout)
  PROVE  /\ Len(stdout') = Len(stdout) - 1 /\ Len(stdout) \in Nat \ {0}
         /\ \A k \in 1..Len(stdout) - 1 : stdout'[k] = stdout[k + 1]
         /\ \A s \in Sessions : InPipe(s)' = {k - 1 : k \in InPipe(s) \ {1}}
  <1>1. /\ Len(stdout') = Len(stdout) - 1 /\ Len(stdout) \in Nat \ {0}
        /\ \A k \in 1..Len(stdout) - 1 : stdout'[k] = stdout[k + 1]
        /\ stdout' \in Seq(Frames)
    BY DEF TypeInv, TypeOK
  <1>2. DOMAIN stdout' = 1..Len(stdout) - 1 /\ DOMAIN stdout = 1..Len(stdout)
    BY <1>1 DEF TypeInv, TypeOK
  <1>3. ASSUME NEW s \in Sessions PROVE InPipe(s)' = {k - 1 : k \in InPipe(s) \ {1}}
    <2>1. ASSUME NEW k \in InPipe(s)' PROVE k \in {j - 1 : j \in InPipe(s) \ {1}}
      <3>1. k \in 1..Len(stdout) - 1 /\ stdout'[k] = stdout[k + 1]
        BY <1>1, <1>2, <2>1 DEF InPipe
      <3>2. k + 1 \in InPipe(s) \ {1} /\ k = (k + 1) - 1
        BY <1>1, <1>2, <2>1, <3>1 DEF InPipe
      <3> QED
        BY <3>2
    <2>2. ASSUME NEW j \in InPipe(s) \ {1} PROVE j - 1 \in InPipe(s)'
      <3>1. j - 1 \in 1..Len(stdout) - 1 /\ (j - 1) + 1 = j
        BY <1>1, <1>2, <2>2 DEF InPipe
      <3>2. stdout'[j - 1] = stdout[j]
        BY <1>1, <3>1
      <3> QED
        BY <1>2, <2>2, <3>1, <3>2 DEF InPipe
    <2> QED
      BY <2>1, <2>2
  <1> QED
    BY <1>1, <1>3

\* The sequence of the first events, and the next one.
LEMMA NextInLine ==
  ASSUME NEW q \in Seq(Nat), q = [n \in 1..Len(q) |-> n]
  PROVE  /\ Append(q, Len(q) + 1) \in Seq(Nat)
         /\ Len(Append(q, Len(q) + 1)) = Len(q) + 1
         /\ Append(q, Len(q) + 1) = [n \in 1..Len(q) + 1 |-> n]
  <1>1. Len(q) \in Nat /\ \A n \in 1..Len(q) : q[n] = n
    OBVIOUS
  <1>2. Append(q, Len(q) + 1) = [n \in 1..Len(q) + 1 |-> IF n = Len(q) + 1 THEN Len(q) + 1 ELSE q[n]]
    OBVIOUS
  <1>3. \A n \in 1..Len(q) + 1 : (IF n = Len(q) + 1 THEN Len(q) + 1 ELSE q[n]) = n
    BY <1>1
  <1>4. Append(q, Len(q) + 1) = [n \in 1..Len(q) + 1 |-> n]
    BY <1>2, <1>3
  <1> QED
    BY <1>1, <1>4

LEMMA AppendLast ==
  ASSUME NEW S, NEW p \in Seq(S), NEW q \in Seq(S), NEW e \in S
  PROVE  p \o Append(q, e) = Append(p \o q, e)
  OBVIOUS

\* Taking a frame that is no event of s leaves the events of s in the pipe; taking one
\* takes the next in line.
LEMMA FlowShift ==
  ASSUME TypeInv, EventsConserved, stdout # <<>>, stdout' = Tail(stdout), NEW s \in Sessions
  PROVE  /\ 1 \notin InPipe(s) =>
              Flows(handed[s] \o staged[s], emitted[s], stdout', InPipe(s)')
         /\ 1 \in InPipe(s) =>
              /\ stdout[1].n = Taken(s) + 1
              /\ Flows(Append(handed[s] \o staged[s], Taken(s) + 1), emitted[s], stdout',
                       InPipe(s)')
  <1> DEFINE q == handed[s] \o staged[s]
  <1>1. Flows(q, emitted[s], stdout, InPipe(s))
    BY FlowsAll
  <1>2. q \in Seq(1..MaxFrames) /\ Len(q) = Taken(s) /\ Taken(s) \in Nat /\ emitted[s] \in Nat
    BY TakenFacts
  <1>3. \A k \in InPipe(s) : k \in 1..Len(stdout) /\ stdout[k].n \in Nat
    BY PipeFacts
  <1>4. /\ \A k \in InPipe(s) \ {1} : k - 1 \in InPipe(s)' /\ stdout'[k - 1] = stdout[k]
        /\ \A j \in InPipe(s)' : j + 1 \in InPipe(s) \ {1} /\ stdout'[j] = stdout[j + 1] /\ j \in Nat
    <2>1. ASSUME NEW k \in InPipe(s) \ {1}
          PROVE  k - 1 \in InPipe(s)' /\ stdout'[k - 1] = stdout[k] /\ (k - 1) + 1 = k /\ k - 1 \in Nat
      <3>1. k - 1 \in 1..Len(stdout) - 1 /\ (k - 1) + 1 = k
        BY <1>3, TailFacts
      <3> QED
        BY <3>1, TailFacts
    <2>2. ASSUME NEW j \in InPipe(s)'
          PROVE j + 1 \in InPipe(s) \ {1} /\ stdout'[j] = stdout[j + 1] /\ j \in Nat
      <3>1. PICK k \in InPipe(s) \ {1} : j = k - 1
        BY TailFacts
      <3> QED
        BY <2>1, <3>1
    <2> QED
      BY <2>1, <2>2
  <1>5. {stdout'[j].n : j \in InPipe(s)'} = {stdout[k].n : k \in InPipe(s) \ {1}}
    <2>1. \A j \in InPipe(s)' : stdout'[j].n \in {stdout[k].n : k \in InPipe(s) \ {1}}
      BY <1>4
    <2>2. \A k \in InPipe(s) \ {1} : stdout[k].n \in {stdout'[j].n : j \in InPipe(s)'}
      BY <1>4
    <2> QED
      BY <2>1, <2>2
  <1>6. \A j, k \in InPipe(s)' : j < k => stdout'[j].n < stdout'[k].n
    <2> TAKE j, k \in InPipe(s)'
    <2>1. j < k => j + 1 < k + 1
      BY <1>4
    <2> QED
      BY <1>1, <1>4, <2>1 DEF Flows
  <1>7. CASE 1 \notin InPipe(s)
    BY <1>1, <1>5, <1>6, <1>7 DEF Flows
  <1>8. CASE 1 \in InPipe(s)
    <2> DEFINE e == stdout[1].n
    <2>1. \A k \in InPipe(s) \ {1} : e < stdout[k].n
      BY <1>1, <1>3, <1>8 DEF Flows
    <2>2. e \in Taken(s) + 1 .. emitted[s]
      BY <1>1, <1>2, <1>8 DEF Flows
    <2>3. e = Taken(s) + 1
      <3>1. Taken(s) + 1 \in Taken(s) + 1 .. emitted[s]
        BY <1>2, <2>2
      <3>2. PICK k \in InPipe(s) : stdout[k].n = Taken(s) + 1
        BY <1>1, <1>2, <3>1 DEF Flows
      <3> QED
        BY <1>2, <2>1, <2>2, <3>2
    <2>4. {stdout[k].n : k \in InPipe(s) \ {1}} = Taken(s) + 2 .. emitted[s]
      <3>1. \A m \in {stdout[k].n : k \in InPipe(s) \ {1}} : m \in Taken(s) + 2 .. emitted[s]
        BY <1>1, <1>2, <1>3, <2>1, <2>3 DEF Flows
      <3>2. \A m \in Taken(s) + 2 .. emitted[s] : m \in {stdout[k].n : k \in InPipe(s) \ {1}}
        <4> TAKE m \in Taken(s) + 2 .. emitted[s]
        <4>1. m \in Taken(s) + 1 .. emitted[s] /\ m # e
          BY <1>2, <2>3
        <4>2. PICK k \in InPipe(s) : stdout[k].n = m
          BY <1>1, <1>2, <4>1 DEF Flows
        <4> QED
          BY <4>1, <4>2
      <3> QED
        BY <3>1, <3>2
    <2>5. /\ Append(q, e) \in Seq(Nat) /\ Len(Append(q, e)) = Taken(s) + 1
          /\ Append(q, e) = [n \in 1..Taken(s) + 1 |-> n]
      <3> HIDE DEF q, e
      <3>1. q = [n \in 1..Len(q) |-> n]
        BY <1>1 DEF Flows
      <3>2. q \in Seq(Nat)
        BY <1>2, <3>1
      <3> QED
        BY <1>2, <2>3, <3>1, <3>2, NextInLine
    <2>6. Taken(s) + 1 <= emitted[s] /\ (Taken(s) + 1) + 1 = Taken(s) + 2
      BY <1>2, <2>2, <2>3
    <2> QED
      BY <1>5, <1>6, <1>8, <2>3, <2>4, <2>5, <2>6 DEF Flows
  <1> QED
    BY <1>7, <1>8

EventInv == EventsConserved /\ SeenInOrder

LEMMA InitEvents == Init => EventInv
  <1> SUFFICES ASSUME Init PROVE EventInv
    OBVIOUS
  <1>1. EventsConserved
    BY DEF Init, EventsConserved, InPipe
  <1>2. SeenInOrder
    BY AnswerFacts DEF Init, SeenInOrder
  <1> QED
    BY <1>1, <1>2 DEF EventInv

\* A step that leaves the pipe and what was taken alone, and delivers no new answer.
LEMMA EventsFrame ==
  ASSUME EventsConserved, UNCHANGED <<stdout, emitted, handed, staged>>
  PROVE  EventsConserved'
  <1>1. ASSUME NEW s \in Sessions PROVE Flows(handed[s] \o staged[s], emitted[s], stdout, InPipe(s))'
    <2>1. Flows(handed[s] \o staged[s], emitted[s], stdout, InPipe(s))
      BY FlowsAll
    <2>2. InPipe(s)' = InPipe(s)
      BY DEF InPipe
    <2> QED
      BY <2>1, <2>2
  <1> QED
    BY <1>1 DEF EventsConserved, Flows

LEMMA SeenFrame ==
  ASSUME SeenInOrder, UNCHANGED <<stdout, emitted>>,
         \A s \in Sessions : Taken(s)' = Taken(s) /\ InPipe(s)' = InPipe(s),
         \A i \in Ids : pending'[i] \in Answers => pending'[i] = pending[i],
         \A d \in Callers : outcome'[d] \in Answers =>
           \/ outcome'[d] = outcome[d]
           \/ \E i \in Ids : outcome'[d] = pending[i]
  PROVE  SeenInOrder'
  <1>1. \A k \in DOMAIN stdout' : stdout'[k].kind = "response" =>
          \A s \in Sessions :
            /\ stdout'[k].seen[s] <= emitted'[s]
            /\ \A j \in InPipe(s)' : j > k => stdout'[j].n > stdout'[k].seen[s]
    BY DEF SeenInOrder
  <1>2. \A i \in Ids : pending'[i] \in Answers =>
          \A s \in Sessions : pending'[i].seen[s] <= Taken(s)'
    BY DEF SeenInOrder
  <1>3. \A d \in Callers : outcome'[d] \in Answers =>
          \A s \in Sessions : outcome'[d].seen[s] <= Taken(s)'
    BY DEF SeenInOrder
  <1> QED
    BY ONLY <1>1, <1>2, <1>3 DEF SeenInOrder

\* What was taken of each session only grows, and calls leave the pipe alone.
LEMMA CallEvents ==
  ASSUME TypeInv, OwnInv, EventInv, NEW c \in Callers, CallStep(c)
  PROVE  EventInv'
  <1>1. UNCHANGED <<stdout, emitted>> /\ \A s \in Sessions : InPipe(s)' = InPipe(s)
    BY DEF CallStep, WriteRequest, Insert, ReturnDone, ReturnDead, TakeEvents, Kill, pluginVars,
       InPipe
  <1>2. \A s \in Sessions : /\ handed'[s] \o staged'[s] = handed[s] \o staged[s]
                            /\ Taken(s)' = Taken(s)
    <2>1. CASE UNCHANGED <<handed, staged>>
      BY <2>1 DEF Taken
    <2>2. CASE TakeEvents(c)
      <3>1. op[c].session \in Sessions
        BY OpFacts DEF TypeInv, TypeOK
      <3> TAKE s \in Sessions
      <3>2. handed[s] \in Seq(1..MaxFrames) /\ staged[s] \in Seq(1..MaxFrames)
        BY DEF TypeInv, TypeOK
      <3>3. CASE s = op[c].session
        <4>1. handed'[s] = handed[s] \o staged[s] /\ staged'[s] = <<>>
          BY <2>2, <3>3 DEF TakeEvents, TypeInv, TypeOK
        <4> QED
          BY ONLY <3>2, <4>1 DEF Taken
      <3>4. CASE s # op[c].session
        BY <2>2, <3>4 DEF TakeEvents, TypeInv, TypeOK, Taken
      <3> QED
        BY <3>3, <3>4
    <2> QED
      BY <2>1, <2>2 DEF CallStep, WriteRequest, Insert, ReturnDone, ReturnDead, Kill, ioVars
  <1>3. EventsConserved'
    <2>1. \A s \in Sessions :
            Flows(handed'[s] \o staged'[s], emitted'[s], stdout', InPipe(s)')
      BY <1>1, <1>2, FlowsAll DEF EventInv
    <2> QED
      BY <2>1 DEF EventsConserved, Flows
  <1>4. \A i \in Ids : pending'[i] \in Answers => pending'[i] = pending[i]
    BY AnswerFacts DEF CallStep, WriteRequest, Insert, ReturnDone, ReturnDead, TakeEvents, Kill,
       ioVars, TypeInv, TypeOK
  <1>5. \A d \in Callers : outcome'[d] \in Answers =>
          \/ outcome'[d] = outcome[d]
          \/ \E i \in Ids : outcome'[d] = pending[i]
    BY AnswerFacts DEF CallStep, WriteRequest, Insert, ReturnDone, ReturnDead, TakeEvents, Kill,
       Finish, TypeInv, TypeOK, OneCall
  <1>6. SeenInOrder'
    <2>1. \A s \in Sessions : Taken(s)' = Taken(s) /\ InPipe(s)' = InPipe(s)
      BY <1>1, <1>2
    <2> QED
      BY <1>1, <1>4, <1>5, <2>1, SeenFrame DEF EventInv
  <1> QED
    BY <1>3, <1>6 DEF EventInv

LEMMA StillEvents ==
  ASSUME EventInv, UNCHANGED <<stdout, emitted, handed, staged, pending, outcome>>
  PROVE  EventInv'
  <1>1. \A s \in Sessions : Taken(s)' = Taken(s) /\ InPipe(s)' = InPipe(s)
    BY DEF Taken, InPipe
  <1> QED
    BY <1>1, EventsFrame, SeenFrame DEF EventInv

LEMMA ReadEvents ==
  ASSUME TypeInv, OwnInv, EventInv, ReadFrame
  PROVE  EventInv'
  <1> DEFINE f == Head(stdout)
  <1>1. /\ stdout # <<>> /\ stdout' = Tail(stdout) /\ emitted' = emitted /\ handed' = handed
        /\ outcome' = outcome
    BY DEF ReadFrame, callerVars
  <1>2. f = stdout[1] /\ f \in Frames /\ 1 \in DOMAIN stdout
    BY <1>1 DEF TypeInv, TypeOK
  <1>3. \A s \in Sessions : 1 \in InPipe(s) <=> f.kind = "event" /\ f.session = s
    BY <1>2 DEF InPipe
  <1>4. \A s \in Sessions :
          /\ Flows(handed'[s] \o staged'[s], emitted'[s], stdout', InPipe(s)')
          /\ Taken(s) <= Taken(s)'
    <2> TAKE s \in Sessions
    <2>0. /\ Taken(s) \in Nat /\ handed[s] \in Seq(1..MaxFrames)
          /\ staged[s] \in Seq(1..MaxFrames)
      BY TakenFacts
    <2>1. CASE staged'[s] = staged[s] /\ 1 \notin InPipe(s)
      <3>1. Taken(s)' = Taken(s)
        BY <1>1, <2>1 DEF Taken
      <3>2. Flows(handed[s] \o staged[s], emitted[s], stdout', InPipe(s)')
        BY <1>1, <2>1, FlowShift DEF EventInv
      <3> QED
        BY <1>1, <2>0, <2>1, <3>1, <3>2
    <2>2. CASE 1 \in InPipe(s)
      <3>1. staged'[s] = Append(staged[s], f.n) /\ f.n = Taken(s) + 1
        <4>1. f.n = Taken(s) + 1
          BY <1>1, <1>2, <2>2, FlowShift DEF EventInv
        <4> QED
          BY <1>3, <2>2, <4>1 DEF ReadFrame, Stage, TypeInv, TypeOK
      <3>2. handed[s] \o Append(staged[s], f.n) = Append(handed[s] \o staged[s], f.n)
        <4>1. f.n \in 1..MaxFrames
          BY <1>2, <1>3, <2>2, FrameFacts
        <4> DEFINE e == f.n
            p == handed[s]
            q == staged[s]
        <4> SUFFICES p \o Append(q, e) = Append(p \o q, e)
          OBVIOUS
        <4>3. p \in Seq(1..MaxFrames) /\ q \in Seq(1..MaxFrames) /\ e \in 1..MaxFrames
          BY <2>0, <4>1
        <4> HIDE DEF e, p, q
        <4> QED
          BY <4>3, AppendLast
      <3>3. Taken(s) <= Taken(s)'
        BY <1>1, <3>1, TakenFacts DEF Taken
      <3> QED
        BY <1>1, <2>2, <3>1, <3>2, <3>3, FlowShift DEF EventInv
    <2>3. 1 \notin InPipe(s) => staged'[s] = staged[s]
      BY <1>3, FrameFacts DEF ReadFrame, Stage, TypeInv, TypeOK
    <2> QED
      BY <2>1, <2>2, <2>3
  <1>5. EventsConserved'
    BY <1>4 DEF EventsConserved, Flows
  <1>6. \A k \in DOMAIN stdout' : k \in Nat /\ k + 1 \in DOMAIN stdout /\ stdout'[k] = stdout[k + 1]
    BY <1>1, TailFacts DEF TypeInv, TypeOK
  <1>7. \A k \in DOMAIN stdout' : stdout'[k].kind = "response" =>
          \A s \in Sessions :
            /\ stdout'[k].seen[s] <= emitted'[s]
            /\ \A j \in InPipe(s)' : j > k => stdout'[j].n > stdout'[k].seen[s]
    <2> SUFFICES ASSUME NEW k \in DOMAIN stdout', stdout'[k].kind = "response", NEW s \in Sessions
                 PROVE  /\ stdout'[k].seen[s] <= emitted'[s]
                        /\ \A j \in InPipe(s)' : j > k => stdout'[j].n > stdout'[k].seen[s]
      OBVIOUS
    <2>1. ASSUME NEW j \in InPipe(s)', j > k PROVE j + 1 \in InPipe(s) /\ j + 1 > k + 1
      <3>1. j \in DOMAIN stdout'
        BY <2>1 DEF InPipe
      <3> QED
        BY <1>6, <2>1, <3>1 DEF InPipe
    <2>2. \A j \in InPipe(s)' : stdout'[j] = stdout[j + 1]
      BY <1>6 DEF InPipe
    <2> QED
      BY <1>1, <1>6, <2>1, <2>2 DEF EventInv, SeenInOrder
  <1>8. f.kind = "response" => \A s \in Sessions : f.seen[s] <= Taken(s)
    <2> SUFFICES ASSUME f.kind = "response", NEW s \in Sessions, ~(f.seen[s] <= Taken(s))
                 PROVE  FALSE
      OBVIOUS
    <2>1. f.seen[s] \in Nat /\ f.seen[s] <= emitted[s]
      BY <1>2, FrameFacts DEF EventInv, SeenInOrder, Counts
    <2> HIDE DEF f
    <2>0. Taken(s) \in Nat /\ emitted[s] \in Nat
      BY TakenFacts
    <2>2. f.seen[s] \in Taken(s) + 1 .. emitted[s]
      BY <2>0, <2>1
    <2>3. PICK j \in InPipe(s) : stdout[j].n = f.seen[s]
      <3>1. {stdout[k].n : k \in InPipe(s)} = Taken(s) + 1 .. emitted[s]
        BY FlowsAll, TakenFacts DEF EventInv, Flows
      <3> QED
        BY <2>2, <3>1
    <2>4. j > 1
      BY <1>3, <2>3, PipeFacts
    <2> QED
      BY <1>2, <2>1, <2>3, <2>4 DEF EventInv, SeenInOrder
  <1>9. \A i \in Ids : pending'[i] \in Answers =>
          \/ pending'[i] = pending[i]
          \/ f.kind = "response" /\ pending'[i].seen = f.seen
    BY <1>2, FrameFacts DEF ReadFrame, Deliver, AnswerOf, TypeInv, TypeOK
  <1>10. ASSUME NEW x \in Counts, NEW s \in Sessions, x[s] <= Taken(s) PROVE x[s] <= Taken(s)'
    <2>1. TypeInv'
      BY ReaderTypes DEF ReaderStep
    <2>2. Taken(s)' \in Nat
      BY <2>1 DEF TypeInv, TypeOK, Taken
    <2>3. x[s] \in Nat
      BY ChannelAssumption DEF Counts
    <2>4. Taken(s) \in Nat /\ Taken(s) <= Taken(s)'
      BY <1>4, TakenFacts
    <2> QED
      BY <1>10, <2>2, <2>3, <2>4
  <1>11. SeenInOrder'
    <2>1. \A i \in Ids : pending'[i] \in Answers => \A s \in Sessions : pending'[i].seen[s] <= Taken(s)'
      BY <1>2, <1>8, <1>9, <1>10, AnswerFacts, FrameFacts DEF EventInv, SeenInOrder
    <2>2. \A c \in Callers : outcome'[c] \in Answers => \A s \in Sessions : outcome'[c].seen[s] <= Taken(s)'
      BY <1>1, <1>10, AnswerFacts DEF EventInv, SeenInOrder
    <2> QED
      BY <1>7, <2>1, <2>2 DEF SeenInOrder
  <1> QED
    BY <1>5, <1>11 DEF EventInv

LEMMA ReaderEvents ==
  ASSUME TypeInv, OwnInv, EventInv, ReaderStep
  PROVE  EventInv'
  <1>1. CASE ReadFrame
    BY <1>1, ReadEvents
  <1>2. CASE ReadEof \/ MarkDead \/ FailAll
    <2>1. UNCHANGED <<stdout, emitted, handed, staged, outcome>>
      BY <1>2 DEF ReadEof, MarkDead, FailAll, callerVars, ioVars, pluginVars
    <2>2. \A i \in Ids : pending'[i] \in Answers => pending'[i] = pending[i]
      BY <1>2, AnswerFacts DEF ReadEof, MarkDead, FailAll, ioVars
    <2>3. EventsConserved'
      BY <2>1, EventsFrame DEF EventInv
    <2>4. SeenInOrder'
      <3>1. \A s \in Sessions : Taken(s)' = Taken(s) /\ InPipe(s)' = InPipe(s)
        BY <2>1 DEF Taken, InPipe
      <3> QED
        BY <2>1, <2>2, <3>1, SeenFrame DEF EventInv
    <2> QED
      BY <2>3, <2>4 DEF EventInv
  <1> QED
    BY <1>1, <1>2 DEF ReaderStep

\* The plugin prints behind what stands in the pipe.
LEMMA PrintFacts ==
  ASSUME TypeInv, NEW f \in Frames, PrintLine(f)
  PROVE  /\ Len(stdout') = Len(stdout) + 1 /\ Len(stdout) \in Nat
         /\ DOMAIN stdout = 1..Len(stdout) /\ DOMAIN stdout' = 1..Len(stdout) + 1
         /\ \A k \in 1..Len(stdout) : stdout'[k] = stdout[k]
         /\ stdout'[Len(stdout) + 1] = f
         /\ \A s \in Sessions : InPipe(s)' =
              IF f.kind = "event" /\ f.session = s THEN InPipe(s) \cup {Len(stdout) + 1}
              ELSE InPipe(s)
         /\ UNCHANGED <<handed, staged, pending, outcome>>
  <1>1. /\ Len(stdout') = Len(stdout) + 1 /\ Len(stdout) \in Nat
        /\ DOMAIN stdout = 1..Len(stdout) /\ DOMAIN stdout' = 1..Len(stdout) + 1
        /\ \A k \in 1..Len(stdout) : stdout'[k] = stdout[k]
        /\ stdout'[Len(stdout) + 1] = f
    BY DEF PrintLine, TypeInv, TypeOK
  <1>2. ASSUME NEW s \in Sessions
        PROVE  InPipe(s)' =
                 IF f.kind = "event" /\ f.session = s THEN InPipe(s) \cup {Len(stdout) + 1}
                 ELSE InPipe(s)
    BY <1>1 DEF InPipe
  <1> QED
    BY <1>1, <1>2 DEF PrintLine, callerVars, ioVars

LEMMA PluginEvents ==
  ASSUME TypeInv, EventInv, PluginStep
  PROVE  EventInv'
  <1>1. \A s \in Sessions : /\ Taken(s) \in Nat /\ emitted[s] \in Nat
                            /\ Len(handed[s] \o staged[s]) = Taken(s)
    BY TakenFacts
  <1>2. \A s \in Sessions : \A k \in InPipe(s) :
          k \in 1..Len(stdout) /\ k \in Nat /\ stdout[k].n \in Nat
    BY PipeFacts
  <1>3. ASSUME NEW f \in Frames, PrintLine(f), f.kind # "event", emitted' = emitted,
               f.kind = "response" => f.seen = emitted
        PROVE  EventInv'
    <2>1. /\ \A s \in Sessions : InPipe(s)' = InPipe(s)
          /\ \A s \in Sessions : \A k \in InPipe(s) : stdout'[k] = stdout[k]
          /\ UNCHANGED <<handed, staged, pending, outcome>>
      BY <1>2, <1>3, PrintFacts
    <2>2. EventsConserved'
      <3>1. \A s \in Sessions : Flows(handed'[s] \o staged'[s], emitted'[s], stdout', InPipe(s)')
        <4> TAKE s \in Sessions
        <4>1. /\ handed'[s] \o staged'[s] = handed[s] \o staged[s] /\ emitted'[s] = emitted[s]
              /\ InPipe(s)' = InPipe(s) /\ \A k \in InPipe(s) : stdout'[k] = stdout[k]
          BY <1>3, <2>1
        <4>2. Flows(handed[s] \o staged[s], emitted[s], stdout, InPipe(s))
          BY FlowsAll DEF EventInv
        <4>3. {stdout'[k].n : k \in InPipe(s)} = {stdout[k].n : k \in InPipe(s)}
          BY <4>1
        <4>4. \A j, k \in InPipe(s) : j < k => stdout'[j].n < stdout'[k].n
          BY <4>1, <4>2 DEF Flows
        <4> QED
          BY <4>1, <4>2, <4>3, <4>4 DEF Flows
      <3> QED
        BY <3>1 DEF EventsConserved, Flows
    <2>3. \A k \in DOMAIN stdout' : stdout'[k].kind = "response" =>
            \A s \in Sessions :
              /\ stdout'[k].seen[s] <= emitted'[s]
              /\ \A j \in InPipe(s)' : j > k => stdout'[j].n > stdout'[k].seen[s]
      <3> SUFFICES ASSUME NEW k \in DOMAIN stdout', stdout'[k].kind = "response", NEW s \in Sessions
                   PROVE  /\ stdout'[k].seen[s] <= emitted'[s]
                          /\ \A j \in InPipe(s)' : j > k => stdout'[j].n > stdout'[k].seen[s]
        OBVIOUS
      <3>1. CASE k \in DOMAIN stdout
        BY <1>3, <2>1, <3>1, PrintFacts DEF EventInv, SeenInOrder
      <3>2. CASE k = Len(stdout) + 1
        <4>1. stdout'[k] = f /\ f.kind = "response" /\ f.seen = emitted
          BY <1>3, <3>2, PrintFacts
        <4>2. emitted[s] \in Nat /\ emitted'[s] = emitted[s]
          BY <1>1, <1>3
        <4>3. \A j \in InPipe(s)' : ~(j > k)
          <5>1. InPipe(s)' = InPipe(s) /\ Len(stdout) \in Nat
            BY <1>3, <2>1, PrintFacts
          <5> QED
            BY <1>2, <3>2, <5>1
        <4> QED
          BY <4>1, <4>2, <4>3
      <3> QED
        BY <1>3, <3>1, <3>2, PrintFacts
    <2> QED
      BY <2>1, <2>2, <2>3 DEF EventInv, SeenInOrder, Taken
  <1>4. ASSUME NEW i \in Ids, NEW ok \in BOOLEAN, PluginAnswers(i, ok) PROVE EventInv'
    <2>1. [kind |-> "response", id |-> i, ok |-> ok, seen |-> emitted] \in Frames
      BY DEF TypeInv, TypeOK, Frames
    <2> QED
      BY <1>3, <1>4, <2>1 DEF PluginAnswers
  <1>5. ASSUME NEW s \in Sessions, PluginEvent(s) PROVE EventInv'
    <2> DEFINE f == [kind |-> "event", session |-> s, n |-> emitted[s] + 1]
    <2>1. f \in Frames /\ PrintLine(f)
      <3>1. printed < MaxFrames /\ emitted[s] <= printed
        BY <1>5 DEF PluginEvent, PrintLine, TypeInv, Numbered
      <3>2. emitted[s] + 1 \in 1..MaxFrames
        BY <1>1, <3>1, ChannelAssumption DEF TypeInv, TypeOK
      <3> QED
        BY <1>5, <3>2 DEF PluginEvent, Frames
    <2>2. /\ emitted'[s] = emitted[s] + 1
          /\ \A r \in Sessions \ {s} : emitted'[r] = emitted[r]
          /\ \A r \in Sessions : emitted[r] <= emitted'[r] /\ emitted'[r] \in Nat
      BY <1>1, <1>5 DEF PluginEvent, TypeInv, TypeOK, Counts
    <2>3. f.kind = "event" /\ f.session = s /\ f.n = emitted[s] + 1
      OBVIOUS
    <2> HIDE DEF f
    <2>4. /\ Len(stdout) \in Nat /\ DOMAIN stdout' = 1..Len(stdout) + 1
          /\ DOMAIN stdout = 1..Len(stdout)
          /\ \A k \in 1..Len(stdout) : stdout'[k] = stdout[k]
          /\ stdout'[Len(stdout) + 1] = f
          /\ InPipe(s)' = InPipe(s) \cup {Len(stdout) + 1}
          /\ \A r \in Sessions \ {s} : InPipe(r)' = InPipe(r)
          /\ UNCHANGED <<handed, staged, pending, outcome>>
      BY <2>1, <2>3, PrintFacts
    <2>5. ASSUME NEW r \in Sessions
          PROVE  Flows(handed'[r] \o staged'[r], emitted'[r], stdout', InPipe(r)')
      <3>1. Flows(handed[r] \o staged[r], emitted[r], stdout, InPipe(r))
        BY FlowsAll DEF EventInv
      <3>2. CASE r # s
        <4>1. /\ handed'[r] \o staged'[r] = handed[r] \o staged[r] /\ emitted'[r] = emitted[r]
              /\ InPipe(r)' = InPipe(r) /\ \A k \in InPipe(r) : stdout'[k] = stdout[k]
          BY <1>2, <2>2, <2>4, <3>2
        <4>2. {stdout'[k].n : k \in InPipe(r)} = {stdout[k].n : k \in InPipe(r)}
          BY <4>1
        <4>3. \A j, k \in InPipe(r) : j < k => stdout'[j].n < stdout'[k].n
          BY <3>1, <4>1 DEF Flows
        <4> QED
          BY <3>1, <4>1, <4>2, <4>3 DEF Flows
      <3>3. CASE r = s
        <4> DEFINE q == handed[s] \o staged[s]
                   T == Taken(s)
        <4>1. T \in Nat /\ Len(q) = T /\ emitted[s] \in Nat
          BY <1>1
        <4> HIDE DEF q, T
        <4>2. Len(q) <= emitted'[s] /\ q = [n \in 1..Len(q) |-> n] /\ T <= emitted[s]
          <5>1. Len(q) <= emitted[s] /\ q = [n \in 1..Len(q) |-> n]
            BY <3>1, <3>3 DEF Flows, q
          <5> QED
            BY <2>2, <4>1, <5>1
        <4>3. {stdout[k].n : k \in InPipe(s)} = T + 1 .. emitted[s]
          BY <3>1, <3>3, <4>1 DEF Flows, q
        <4>4. {stdout'[k].n : k \in InPipe(s)'} = {stdout[k].n : k \in InPipe(s)} \cup {emitted[s] + 1}
          BY <1>2, <2>3, <2>4
        <4>5. {stdout'[k].n : k \in InPipe(s)'} = Len(q) + 1 .. emitted'[s]
          BY <2>2, <4>1, <4>2, <4>3, <4>4
        <4>6. \A j, k \in InPipe(s)' : j < k => stdout'[j].n < stdout'[k].n
          <5>1. \A j \in InPipe(s) : stdout[j].n < emitted[s] + 1
            BY <4>1, <4>3
          <5> QED
            BY <1>2, <2>3, <2>4, <3>1, <3>3, <5>1 DEF Flows
        <4> QED
          BY <2>4, <3>3, <4>2, <4>5, <4>6 DEF Flows, q
      <3> QED
        BY <3>2, <3>3
    <2>6. EventsConserved'
      BY <2>5 DEF EventsConserved, Flows
    <2>7. \A k \in DOMAIN stdout' : stdout'[k].kind = "response" =>
            \A r \in Sessions :
              /\ stdout'[k].seen[r] <= emitted'[r]
              /\ \A j \in InPipe(r)' : j > k => stdout'[j].n > stdout'[k].seen[r]
      <3> SUFFICES ASSUME NEW k \in DOMAIN stdout', stdout'[k].kind = "response", NEW r \in Sessions
                   PROVE  /\ stdout'[k].seen[r] <= emitted'[r]
                          /\ \A j \in InPipe(r)' : j > k => stdout'[j].n > stdout'[k].seen[r]
        OBVIOUS
      <3>1. k \in 1..Len(stdout) /\ stdout'[k] = stdout[k]
        BY <2>3, <2>4
      <3>2. stdout[k] \in Frames /\ stdout[k].seen \in Counts
        BY <3>1, FrameFacts DEF TypeInv, TypeOK
      <3>3. stdout[k].seen[r] \in Nat
        BY <3>2, ChannelAssumption DEF Counts
      <3>4. stdout[k].seen[r] <= emitted[r] /\
            \A j \in InPipe(r) : j > k => stdout[j].n > stdout[k].seen[r]
        BY <2>4, <3>1 DEF EventInv, SeenInOrder
      <3>5. stdout[k].seen[r] <= emitted'[r]
        <4>1. emitted[r] \in Nat /\ emitted'[r] \in Nat /\ emitted[r] <= emitted'[r]
          BY <1>1, <2>2
        <4> QED
          BY <3>3, <3>4, <4>1
      <3>6. r = s => stdout'[Len(stdout) + 1].n > stdout[k].seen[r]
        <4>1. emitted[s] \in Nat /\ stdout'[Len(stdout) + 1].n = emitted[s] + 1
          BY <1>1, <2>3, <2>4
        <4> QED
          BY <3>3, <3>4, <4>1
      <3> QED
        BY <1>2, <2>4, <3>1, <3>4, <3>5, <3>6
    <2> QED
      BY <2>4, <2>6, <2>7 DEF EventInv, SeenInOrder, Taken
  <1>6. CASE PluginGarbage
    <2>1. [kind |-> "garbage"] \in Frames
      BY DEF Frames
    <2> QED
      BY <1>3, <1>6, <2>1 DEF PluginGarbage
  <1>7. CASE PluginDies
    <2>1. UNCHANGED <<stdout, emitted, handed, staged, pending, outcome>>
      BY <1>7 DEF PluginDies, callerVars, ioVars
    <2> QED
      BY <2>1, StillEvents
  <1> QED
    BY <1>4, <1>5, <1>6, <1>7 DEF PluginStep

LEMMA BeginEvents ==
  ASSUME TypeInv, EventInv, NEW c \in Callers, NEW o \in Ops, Begin(c, o)
  PROVE  EventInv'
  <1>1. EventsConserved'
    BY EventsFrame DEF Begin, ioVars, pluginVars, EventInv
  <1>2. SeenInOrder'
    <2>1. UNCHANGED <<stdout, emitted, handed, staged, pending>>
      BY DEF Begin, ioVars, pluginVars
    <2>2. \A s \in Sessions : Taken(s)' = Taken(s) /\ InPipe(s)' = InPipe(s)
      BY <2>1 DEF Taken, InPipe
    <2>3. \A d \in Callers : outcome'[d] \in Answers => outcome'[d] = outcome[d]
      BY AnswerFacts DEF Begin, TypeInv, TypeOK
    <2> QED
      BY <2>1, <2>2, <2>3, SeenFrame DEF EventInv
  <1> QED
    BY <1>1, <1>2 DEF EventInv

\* The pipe, the staging queue and the sessions hold each printed event once, in order.
THEOREM ChannelEvents == Spec => []EventInv
  <1>1. TypeInv /\ OwnInv /\ EventInv /\ [Next]_vars => EventInv'
    <2>1. ASSUME EventInv, UNCHANGED vars PROVE EventInv'
      BY <2>1, StillEvents DEF vars, callerVars, ioVars, pluginVars
    <2> QED
      BY <2>1, BeginEvents, CallEvents, ReaderEvents, PluginEvents DEF Next
  <1> QED
    BY InitEvents, ChannelTypes, ChannelOwn, <1>1, PTL DEF Spec

-----------------------------------------------------------------------------
(* The properties of the channel.                                           *)

\* Type correctness of the channel.
THEOREM ChannelTypeOK == Spec => []TypeOK
  <1>1. TypeInv => TypeOK
    BY DEF TypeInv
  <1> QED
    BY <1>1, ChannelTypes, PTL

\* ManagedProcess.request returns the answer to its own request or an error, however
\* late, often and in what order the plugin answers.
THEOREM AnswersAreOwn == Spec => []AnswerIsOwn
  <1>1. OwnInv => AnswerIsOwn
    BY DEF OwnInv
  <1> QED
    BY <1>1, ChannelOwn, PTL

\* ProcessIo.pending holds the entries of waiting callers and no others: no way out of
\* ManagedProcess.request and no death of the reader leaves one behind.
THEOREM EntriesHaveCallers == Spec => []NoAbandonedEntry
  <1>1. OwnInv => NoAbandonedEntry
    BY DEF OwnInv
  <1> QED
    BY <1>1, ChannelOwn, PTL

\* The reader thread, the staging queue and take_session_events hand each event of a
\* session on once, in the order printed.
THEOREM EventsAreConserved == Spec => []EventsConserved
  <1>1. EventInv => EventsConserved
    BY DEF EventInv
  <1> QED
    BY <1>1, ChannelEvents, PTL

\* When a session operation takes the staged events, the reader has staged everything
\* the plugin printed for the session before its answer.
THEOREM EventsPrecedeAnswers == Spec => []EventsBeforeAnswer
  <1>1. TypeInv /\ OwnInv /\ EventInv => EventsBeforeAnswer
    <2> SUFFICES ASSUME TypeInv, OwnInv, EventInv, NEW c \in Callers, pc[c] = "take"
                 PROVE  Len(handed[op[c].session]) + Len(staged[op[c].session])
                          >= outcome[c].seen[op[c].session]
      BY DEF EventsBeforeAnswer
    <2> DEFINE s == op[c].session
    <2>1. s \in Sessions /\ outcome[c] \in Answers
      BY OpFacts DEF TypeInv, TypeOK, OwnInv, TakesAnswered
    <2>2. outcome[c].seen[s] <= Taken(s)
      BY <2>1 DEF EventInv, SeenInOrder
    <2>3. outcome[c].seen[s] \in Nat /\ Taken(s) \in Nat
      <3>1. outcome[c].seen \in [Sessions -> 0..MaxFrames]
        BY <2>1, AnswerFacts DEF Counts
      <3> HIDE DEF s
      <3>2. outcome[c].seen[s] \in Nat
        BY <2>1, <3>1, ChannelAssumption
      <3> QED
        BY <2>1, <3>2, TakenFacts
    <2> HIDE DEF s
    <2>4. Taken(s) >= outcome[c].seen[s]
      BY <2>2, <2>3
    <2> QED
      BY <2>4 DEF Taken, s
  <1> QED
    BY <1>1, ChannelTypes, ChannelOwn, ChannelEvents, PTL

-----------------------------------------------------------------------------
(* The abstract channel, step by step.                                      *)

\* Requests are numbered by the calls made so far.
Issued == asked \subseteq 1..next_id - 1 /\ \A c \in Callers : id[c] < next_id

\* A response in the pipe and an answer in the table are the plugin's.
Given ==
  /\ \A k \in DOMAIN stdout : stdout[k].kind = "response" => stdout[k].id \in answered
  /\ \A i \in Ids : pending[i] \in Answers => i \in answered

\* What a caller has in hand where it stands.
StandsAt(at, o, x) ==
  /\ at \in {"write", "insert", "wait"} => x = Absent
  /\ at = "take" => Channel!Hands(o, x)
  /\ at = "kill" => o.kind = "deactivate" /\ x # Absent

Stands == \A c \in Callers : StandsAt(pc[c], op[c], outcome[c])

CallInv == Issued /\ Given /\ Stands

LEMMA InitCalls == Init => CallInv
  <1> SUFFICES ASSUME Init PROVE CallInv
    OBVIOUS
  <1>1. Issued
    BY DEF Init, Issued
  <1>2. Given
    BY AnswerFacts DEF Init, Given
  <1>3. Stands
    BY DEF Init, Stands, StandsAt
  <1> QED
    BY <1>1, <1>2, <1>3 DEF CallInv

LEMMA BeginCalls ==
  ASSUME TypeInv, OwnInv, CallInv, NEW c \in Callers, NEW o \in Ops, Begin(c, o)
  PROVE  CallInv'
  <1>1. Issued'
    <2>1. /\ next_id \in Nat /\ next_id' = next_id + 1 /\ asked' = asked
          /\ asked \subseteq 1..next_id - 1
      BY ChannelAssumption DEF Begin, pluginVars, TypeInv, TypeOK, CallInv, Issued
    <2>2. \A d \in Callers : id'[d] < next_id'
      <3> TAKE d \in Callers
      <3>1. id' = [id EXCEPT ![c] = next_id] /\ id \in [Callers -> Ids \cup {0}]
            /\ id[d] < next_id
        BY DEF Begin, TypeInv, TypeOK, CallInv, Issued
      <3>2. id[d] \in Nat
        BY <3>1, ChannelAssumption DEF Ids
      <3>3. id'[d] \in {id[d], next_id}
        BY <3>1
      <3> QED
        BY <2>1, <3>1, <3>2, <3>3
    <2>3. asked \subseteq 1..next_id' - 1
      BY <2>1
    <2> QED
      BY <2>1, <2>2, <2>3 DEF Issued
  <1>2. Given'
    BY DEF Begin, pluginVars, ioVars, CallInv, Given
  <1>3. Stands'
    BY DEF Begin, TypeInv, TypeOK, CallInv, Stands, StandsAt
  <1> QED
    BY <1>1, <1>2, <1>3 DEF CallInv

\* The end of a request leaves its caller where its operation and its result say.
LEMMA FinishStands ==
  ASSUME TypeInv, CallInv, NEW c \in Callers, pc[c] # "idle", UNCHANGED op,
         NEW x \in {Failed} \cup Answers, Finish(c, x)
  PROVE  /\ Stands'
         /\ mutex' \in IF Channel!Hands(op[c], x) THEN {c} ELSE {c, NoCaller}
         /\ outcome' = [outcome EXCEPT ![c] = x]
  <1> DEFINE next == CASE op[c].kind = "deactivate" -> "kill"
                       [] op[c].kind \in {"session", "close"} /\ Succeeded(x) -> "take"
                       [] OTHER -> "idle"
  <1>1. /\ outcome' = [outcome EXCEPT ![c] = x] /\ pc' = [pc EXCEPT ![c] = next]
        /\ mutex' = IF next = "idle" THEN NoCaller ELSE mutex
    BY DEF Finish
  <1>2. Channel!Hands(op[c], x) <=> op[c].kind \in {"session", "close"} /\ Succeeded(x)
    BY DEF Channel!Hands, Succeeded
  <1>3. mutex = c /\ x # Absent /\ op' = op
    BY AnswerFacts DEF TypeInv, OneCall
  <1>4. /\ next = "take" => Channel!Hands(op[c], x)
        /\ next = "kill" => op[c].kind = "deactivate"
        /\ next \in {"take", "kill", "idle"}
        /\ next = "idle" => ~Channel!Hands(op[c], x)
    <2>1. CASE op[c].kind = "deactivate"
      BY <1>2, <2>1
    <2>2. CASE op[c].kind # "deactivate" /\ op[c].kind \in {"session", "close"} /\ Succeeded(x)
      BY <1>2, <2>2
    <2>3. CASE op[c].kind # "deactivate" /\ ~(op[c].kind \in {"session", "close"} /\ Succeeded(x))
      BY <1>2, <2>3
    <2> QED
      BY <2>1, <2>2, <2>3
  <1> HIDE DEF next
  <1>5. ASSUME NEW d \in Callers PROVE StandsAt(pc'[d], op'[d], outcome'[d])
    <2>1. CASE d = c
      <3>1. pc'[d] = next /\ outcome'[d] = x /\ op'[d] = op[c]
        BY <1>1, <1>3, <2>1 DEF TypeInv, TypeOK
      <3> QED
        BY <1>3, <1>4, <3>1 DEF StandsAt
    <2>2. CASE d # c
      <3>1. pc'[d] = pc[d] /\ outcome'[d] = outcome[d] /\ op'[d] = op[d]
        BY <1>1, <1>3, <2>2 DEF TypeInv, TypeOK
      <3> QED
        BY <3>1 DEF CallInv, Stands
    <2> QED
      BY <2>1, <2>2
  <1>6. mutex' \in IF Channel!Hands(op[c], x) THEN {c} ELSE {c, NoCaller}
    BY <1>1, <1>3, <1>4
  <1> QED
    BY <1>1, <1>5, <1>6 DEF Stands

\* A call that returns: with a failure, or with the plugin's answer to it.
LEMMA Returns ==
  ASSUME TypeInv, OwnInv, EventInv, CallInv, NEW c \in Callers,
         \/ WriteRequest(c) /\ ~child
         \/ ReturnDone(c)
         \/ ReturnDead(c)
  PROVE  \E x \in Channel!Results(id[c]) :
           x \in {Failed} \cup Answers /\ Finish(c, x)
  <1>1. CASE (WriteRequest(c) /\ ~child) \/ ReturnDead(c)
    BY <1>1 DEF WriteRequest, ReturnDead, Channel!Results, Channel!Failed, Failed
  <1>2. CASE ReturnDone(c)
    <2> DEFINE x == pending[id[c]]
    <2>1. /\ pc[c] = "wait" /\ x \notin {Absent, Waiting} /\ Finish(c, x)
      BY <1>2 DEF ReturnDone
    <2>2. id[c] \in Ids
      BY <2>1 DEF TypeInv, OneCall
    <2>3. x \in {Failed} \cup Answers
      BY <2>1, <2>2 DEF TypeInv, TypeOK
    <2>4. x = Failed => x \in Channel!Results(id[c])
      BY DEF Channel!Results, Channel!Failed, Failed
    <2>5. ASSUME x \in Answers PROVE x \in Channel!Results(id[c])
      <3>1. x.of = id[c] /\ id[c] \in answered
        BY <2>2, <2>5 DEF OwnInv, EntryIsOwn, CallInv, Given
      <3>2. x.seen \in Channel!Printed
        <4>1. \A s \in Sessions : x.seen[s] \in Nat /\ x.seen[s] <= Taken(s)
          BY <2>2, <2>5, AnswerFacts, ChannelAssumption DEF EventInv, SeenInOrder, Counts
        <4>2. \A s \in Sessions : Taken(s) \in Nat /\ emitted[s] \in Nat /\ Taken(s) <= emitted[s]
          BY TakenFacts DEF EventInv, EventsConserved
        <4>3. \A s \in Sessions : x.seen[s] <= emitted[s]
          BY <4>1, <4>2
        <4>4. x.seen \in [Sessions -> 0..MaxFrames]
          BY <2>5, AnswerFacts DEF Counts
        <4> QED
          BY <4>3, <4>4 DEF Channel!Printed
      <3>3. x = [state |-> "answered", of |-> x.of, ok |-> x.ok, seen |-> x.seen]
            /\ x.ok \in BOOLEAN
        BY <2>5 DEF Answers
      <3> HIDE DEF x
      <3> QED
        <4>1. x \in [state : {"answered"}, of : {id[c]} \cap answered, ok : BOOLEAN,
                     seen : Channel!Printed]
          BY ONLY <3>1, <3>2, <3>3
        <4> QED
          BY <4>1 DEF Channel!Results
    <2> QED
      BY <2>1, <2>3, <2>4, <2>5
  <1> QED
    BY <1>1, <1>2

LEMMA CallCalls ==
  ASSUME TypeInv, OwnInv, EventInv, CallInv, NEW c \in Callers, CallStep(c)
  PROVE  CallInv' /\ (Channel!Next \/ UNCHANGED Channel!vars)
  <1>1. /\ UNCHANGED <<next_id, id, op, answered, emitted, stdout>>
        /\ Issued /\ Given /\ Stands
    BY DEF CallStep, WriteRequest, Insert, ReturnDone, ReturnDead, TakeEvents, Kill, ioVars,
       pluginVars, CallInv
  <1>2. pc[c] # "idle" /\ mutex = c
    BY DEF CallStep, WriteRequest, Insert, ReturnDone, ReturnDead, TakeEvents, Kill, TypeInv,
       OneCall
  <1>3. Issued'
    <2>1. asked' \subseteq asked \cup {id[c]}
      BY DEF CallStep, WriteRequest, Insert, ReturnDone, ReturnDead, TakeEvents, Kill, pluginVars
    <2>2. id[c] \in 1..next_id - 1
      <3>1. id[c] \in Nat /\ id[c] >= 1 /\ id[c] < next_id /\ next_id \in Nat
        BY <1>1, <1>2, ChannelAssumption DEF TypeInv, TypeOK, OneCall, Ids, Issued
      <3> QED
        BY ONLY <3>1
    <2> QED
      BY <1>1, <2>1, <2>2 DEF Issued
  <1>4. Given'
    <2>1. \A i \in Ids : pending'[i] \in Answers => pending'[i] = pending[i]
      BY AnswerFacts DEF CallStep, WriteRequest, Insert, ReturnDone, ReturnDead, TakeEvents, Kill,
         ioVars, TypeInv, TypeOK
    <2> QED
      BY <1>1, <2>1 DEF Given
  <1>5. CASE (WriteRequest(c) /\ child) \/ Insert(c)
    <2>1. /\ UNCHANGED <<mutex, outcome, handed>> /\ pc[c] \in {"write", "insert"}
          /\ \E next \in {"insert", "wait"} : pc' = [pc EXCEPT ![c] = next]
      BY <1>5 DEF WriteRequest, Insert, ioVars
    <2>2. Stands'
      BY <1>1, <2>1 DEF TypeInv, TypeOK, Stands, StandsAt
    <2> QED
      BY <1>1, <1>3, <1>4, <2>1, <2>2 DEF CallInv, Channel!vars
  <1>6. CASE (WriteRequest(c) /\ ~child) \/ ReturnDone(c) \/ ReturnDead(c)
    <2>1. PICK x \in Channel!Results(id[c]) : x \in {Failed} \cup Answers /\ Finish(c, x)
      BY <1>6, Returns
    <2>2. /\ Stands'
          /\ mutex' \in IF Channel!Hands(op[c], x) THEN {c} ELSE {c, NoCaller}
          /\ outcome' = [outcome EXCEPT ![c] = x]
      BY <1>1, <1>2, <2>1, FinishStands
    <2>3. handed' = handed
      BY <1>6 DEF WriteRequest, ReturnDone, ReturnDead, ioVars
    <2>4. outcome[c] = Absent
      BY <1>1, <1>6 DEF WriteRequest, ReturnDone, ReturnDead, Stands, StandsAt
    <2>5. Channel!Settle(c, x)
      BY <1>1, <1>2, <2>2, <2>3, <2>4 DEF Channel!Settle, Channel!None, Absent
    <2> QED
      BY <1>3, <1>4, <2>1, <2>2, <2>5 DEF CallInv, Channel!Next
  <1>7. CASE TakeEvents(c)
    <2> DEFINE s == op[c].session
               taken == handed[s] \o staged[s]
               n == Len(taken)
    <2>1. /\ pc[c] = "take" /\ mutex' = NoCaller /\ outcome' = outcome
          /\ handed' = [handed EXCEPT ![s] = taken] /\ pc' = [pc EXCEPT ![c] = "idle"]
      BY <1>7 DEF TakeEvents, TypeInv, TypeOK
    <2>2. s \in Sessions /\ outcome[c] \in Answers /\ Channel!Hands(op[c], outcome[c])
      BY <1>1, <2>1, OpFacts DEF TypeInv, TypeOK, OwnInv, TakesAnswered, Stands, StandsAt
    <2>3. /\ n \in Nat /\ n = Taken(s) /\ Len(handed[s]) \in Nat /\ Len(handed[s]) <= n
          /\ emitted[s] \in 0..MaxFrames
      <3>1. handed[s] \in Seq(1..MaxFrames) /\ staged[s] \in Seq(1..MaxFrames)
        BY <2>2, TakenFacts
      <3>2. emitted[s] \in 0..MaxFrames
        BY <2>2 DEF TypeInv, TypeOK, Counts
      <3>3. n = Taken(s) /\ Taken(s) = Len(handed[s]) + Len(staged[s])
        BY <2>2, TakenFacts DEF Taken
      <3>4. Len(handed[s]) \in Nat /\ Len(staged[s]) \in Nat
        BY ONLY <3>1
      <3>5. Len(handed[s]) <= n
        <4>1. \A h, g, t, m : h \in Nat /\ g \in Nat /\ m = t /\ t = h + g => h <= m
          OBVIOUS
        <4> QED
          BY ONLY <3>3, <3>4, <4>1
      <3>6. n \in Nat
        <4>1. taken \in Seq(1..MaxFrames)
          BY ONLY <3>1
        <4> HIDE DEF taken
        <4> QED
          BY ONLY <4>1
      <3> HIDE DEF s, taken, n
      <3> QED
        BY <3>2, <3>3, <3>4, <3>5, <3>6
    <2>4. taken = [k \in 1..n |-> k] /\ n <= emitted[s]
      BY <2>2 DEF EventInv, EventsConserved
    <2>5. outcome[c].seen[s] \in Nat /\ outcome[c].seen[s] <= n
      <3>1. outcome[c].seen \in [Sessions -> 0..MaxFrames]
        BY <2>2, AnswerFacts DEF Counts
      <3>2. outcome[c].seen[s] <= Taken(s)
        BY <2>2 DEF EventInv, SeenInOrder
      <3> HIDE DEF s, n
      <3> QED
        BY <2>2, <2>3, <3>1, <3>2, ChannelAssumption
    <2>6. n \in 0..MaxFrames /\ n \in outcome[c].seen[s] .. emitted[s]
      <3> HIDE DEF s, n
      <3> QED
        BY <2>3, <2>4, <2>5, ChannelAssumption
    <2>7. handed' = [handed EXCEPT ![s] = [k \in 1..n |-> k]]
      BY <2>1, <2>4
    <2> HIDE DEF n
    <2>8. Channel!HandOn(c, n)
      BY <1>1, <1>2, <2>1, <2>2, <2>3, <2>6, <2>7 DEF Channel!HandOn
    <2>9. Stands'
      BY <1>1, <2>1 DEF TypeInv, TypeOK, Stands, StandsAt
    <2> QED
      BY <1>3, <1>4, <2>6, <2>8, <2>9 DEF CallInv, Channel!Next
  <1>8. CASE Kill(c)
    <2>1. /\ pc[c] = "kill" /\ mutex' = NoCaller /\ UNCHANGED <<outcome, handed>>
          /\ pc' = [pc EXCEPT ![c] = "idle"]
      BY <1>8 DEF Kill, ioVars
    <2>2. op[c].kind = "deactivate" /\ outcome[c] # Absent
      BY <1>1, <2>1 DEF Stands, StandsAt
    <2>3. Channel!Release(c)
      BY <1>1, <1>2, <2>1, <2>2 DEF Channel!Release, Channel!Hands, Channel!None, Absent
    <2>4. Stands'
      BY <1>1, <2>1 DEF TypeInv, TypeOK, Stands, StandsAt
    <2> QED
      BY <1>3, <1>4, <2>3, <2>4 DEF CallInv, Channel!Next
  <1> QED
    BY <1>5, <1>6, <1>7, <1>8 DEF CallStep

LEMMA ReaderCalls ==
  ASSUME TypeInv, CallInv, ReaderStep
  PROVE  CallInv' /\ UNCHANGED Channel!vars
  <1>1. UNCHANGED <<mutex, next_id, id, op, outcome, pc, asked, answered, emitted, handed>>
    BY DEF ReaderStep, ReadFrame, ReadEof, MarkDead, FailAll, callerVars, ioVars, pluginVars
  <1>2. Issued' /\ Stands'
    BY <1>1 DEF CallInv, Issued, Stands, StandsAt
  <1>3. CASE ReadFrame
    <2> DEFINE f == Head(stdout)
    <2>1. /\ f \in Frames /\ stdout' = Tail(stdout) /\ stdout # <<>> /\ stdout \in Seq(Frames)
          /\ f = stdout[1] /\ 1 \in DOMAIN stdout
      BY <1>3 DEF ReadFrame, TypeInv, TypeOK
    <2>2. \A k \in DOMAIN stdout' : k + 1 \in DOMAIN stdout /\ stdout'[k] = stdout[k + 1]
      BY <2>1
    <2>3. \A i \in Ids : pending'[i] \in Answers =>
            pending[i] \in Answers \/ (f.kind = "response" /\ f.id = i)
      <3>1. CASE pending' = pending
        BY <3>1
      <3>2. CASE f.kind = "response" /\ pending' = Deliver(f.id, AnswerOf(f))
        <4>1. f.id \in Ids
          BY <2>1, <3>2, FrameFacts
        <4>2. \A i \in Ids : i # f.id => pending'[i] = pending[i]
          BY <3>2, <4>1 DEF Deliver, TypeInv, TypeOK
        <4> QED
          BY <3>2, <4>2
      <3> QED
        BY <1>3, <3>1, <3>2 DEF ReadFrame
    <2>4. f.kind = "response" => f.id \in answered
      BY <2>1 DEF CallInv, Given
    <2> HIDE DEF f
    <2>5. Given'
      BY <1>1, <2>2, <2>3, <2>4 DEF CallInv, Given
    <2> QED
      BY <1>1, <1>2, <2>5 DEF CallInv, Channel!vars
  <1>4. CASE ReadEof \/ MarkDead \/ FailAll
    <2>1. stdout' = stdout
      BY <1>4 DEF ReadEof, MarkDead, FailAll, pluginVars
    <2>2. \A i \in Ids : pending'[i] \in Answers => pending'[i] = pending[i]
      BY <1>4, AnswerFacts DEF ReadEof, MarkDead, FailAll, ioVars
    <2>3. Given'
      BY <1>1, <2>1, <2>2 DEF CallInv, Given
    <2> QED
      BY <1>1, <1>2, <2>3 DEF CallInv, Channel!vars
  <1> QED
    BY <1>3, <1>4 DEF ReaderStep

LEMMA PluginCalls ==
  ASSUME TypeInv, CallInv, PluginStep
  PROVE  CallInv' /\ (Channel!Next \/ UNCHANGED Channel!vars)
  <1>1. UNCHANGED <<mutex, next_id, id, op, outcome, pc, pending, asked, handed>>
    BY DEF PluginStep, PluginAnswers, PluginEvent, PluginGarbage, PluginDies, PrintLine,
       callerVars, ioVars
  <1>2. Issued' /\ Stands'
    BY <1>1 DEF CallInv, Issued, Stands, StandsAt
  <1>3. ASSUME NEW f \in Frames, PrintLine(f), answered \subseteq answered',
               f.kind = "response" => f.id \in answered'
        PROVE  CallInv'
    <2>1. \A k \in DOMAIN stdout' : (k \in DOMAIN stdout /\ stdout'[k] = stdout[k]) \/ stdout'[k] = f
      BY <1>3 DEF PrintLine, TypeInv, TypeOK
    <2>2. Given'
      BY <1>1, <1>3, <2>1 DEF CallInv, Given
    <2> QED
      BY <1>2, <2>2 DEF CallInv
  <1>4. ASSUME NEW i \in Ids, NEW ok \in BOOLEAN, PluginAnswers(i, ok)
        PROVE  CallInv' /\ Channel!Next
    <2> DEFINE f == [kind |-> "response", id |-> i, ok |-> ok, seen |-> emitted]
    <2>1. f \in Frames /\ f.id = i
      BY DEF TypeInv, TypeOK, Frames
    <2>2. PrintLine(f) /\ i \in asked /\ answered' = answered \cup {i} /\ emitted' = emitted
      BY <1>4 DEF PluginAnswers
    <2> HIDE DEF f
    <2>3. CallInv'
      BY <1>3, <2>1, <2>2
    <2>4. i \in 1..next_id - 1
      BY <2>2 DEF CallInv, Issued
    <2>5. Channel!Answer(i)
      BY <1>1, <2>2, <2>4 DEF Channel!Answer
    <2> QED
      BY <2>3, <2>4, <2>5 DEF Channel!Next
  <1>5. ASSUME NEW s \in Sessions, PluginEvent(s)
        PROVE  CallInv' /\ Channel!Next
    <2> DEFINE f == [kind |-> "event", session |-> s, n |-> emitted[s] + 1]
    <2>1. f \in Frames /\ f.kind = "event"
      <3>1. printed < MaxFrames /\ emitted[s] <= printed
        BY <1>5 DEF PluginEvent, PrintLine, TypeInv, Numbered
      <3>2. emitted[s] + 1 \in 1..MaxFrames
        BY <3>1, ChannelAssumption DEF TypeInv, TypeOK, Counts
      <3> QED
        BY <3>2 DEF Frames
    <2>2. PrintLine(f) /\ answered' = answered /\ emitted' = [emitted EXCEPT ![s] = @ + 1]
      BY <1>5 DEF PluginEvent
    <2> HIDE DEF f
    <2>3. CallInv'
      BY <1>3, <2>1, <2>2
    <2>4. Channel!Emit(s)
      BY <1>1, <2>2 DEF Channel!Emit
    <2> QED
      BY <2>3, <2>4 DEF Channel!Next
  <1>6. CASE PluginGarbage
    <2> DEFINE f == [kind |-> "garbage"]
    <2>1. f \in Frames /\ f.kind = "garbage"
      BY DEF Frames
    <2>2. PrintLine(f) /\ answered' = answered /\ emitted' = emitted
      BY <1>6 DEF PluginGarbage
    <2> HIDE DEF f
    <2>3. CallInv'
      BY <1>3, <2>1, <2>2
    <2> QED
      BY <1>1, <2>2, <2>3 DEF Channel!vars
  <1>7. CASE PluginDies
    <2>1. UNCHANGED <<stdout, answered, emitted>>
      BY <1>7 DEF PluginDies
    <2>2. Given'
      BY <1>1, <2>1 DEF CallInv, Given
    <2> QED
      BY <1>1, <1>2, <2>1, <2>2 DEF CallInv, Channel!vars
  <1> QED
    BY <1>4, <1>5, <1>6, <1>7 DEF PluginStep

LEMMA BeginOpens ==
  ASSUME TypeInv, NEW c \in Callers, NEW o \in Ops, Begin(c, o)
  PROVE  Channel!Next
  <1>1. next_id \in Nat
    BY ChannelAssumption DEF TypeInv, TypeOK
  <1>2. next_id' - 1 = (next_id - 1) + 1 /\ next_id = (next_id - 1) + 1
    BY <1>1 DEF Begin
  <1>3. Channel!Open(c, o)
    BY <1>2 DEF Begin, ioVars, pluginVars, Channel!Open, Channel!None, Absent
  <1> QED
    BY <1>3 DEF Channel!Next

LEMMA StepImplements ==
  TypeInv /\ OwnInv /\ EventInv /\ CallInv /\ [Next]_vars
    => CallInv' /\ [Channel!Next]_(Channel!vars)
  <1> SUFFICES ASSUME TypeInv, OwnInv, EventInv, CallInv, [Next]_vars
               PROVE  CallInv' /\ (Channel!Next \/ UNCHANGED Channel!vars)
    OBVIOUS
  <1>1. ASSUME NEW c \in Callers, NEW o \in Ops, Begin(c, o)
        PROVE  CallInv' /\ Channel!Next
    BY <1>1, BeginCalls, BeginOpens
  <1>2. CASE UNCHANGED vars
    <2>1. CallInv'
      BY <1>2 DEF CallInv, Issued, Given, Stands, StandsAt, vars, callerVars, ioVars, pluginVars
    <2> QED
      BY <1>2, <2>1 DEF vars, callerVars, ioVars, pluginVars, Channel!vars
  <1> QED
    BY <1>1, <1>2, CallCalls, ReaderCalls, PluginCalls DEF Next

\* ManagedProcess, ProcessIo and their reader thread implement the abstract channel:
\* calls are served one at a time and end once, with a failure or with the plugin's
\* answer to them, and a session operation hands on what was printed before its answer.
THEOREM ChannelImplements == Spec => ImplementsCallChannel
  <1>1. Init => Channel!Init
    <2> SUFFICES ASSUME Init PROVE Channel!Init
      OBVIOUS
    <2>1. op \in [Callers -> Ops] /\ next_id - 1 = 0
      BY OpFacts DEF Init
    <2> QED
      BY <2>1 DEF Init, Channel!Init, Channel!None, Absent
  <1>2. TypeInv /\ OwnInv /\ EventInv /\ CallInv /\ [Next]_vars => CallInv'
    BY StepImplements
  <1>3. TypeInv /\ OwnInv /\ EventInv /\ CallInv /\ [Next]_vars => [Channel!Next]_(Channel!vars)
    BY StepImplements
  <1> QED
    BY <1>1, <1>2, <1>3, InitCalls, ChannelTypes, ChannelOwn, ChannelEvents, PTL
       DEF Spec, ImplementsCallChannel, Channel!Spec
=============================================================================
