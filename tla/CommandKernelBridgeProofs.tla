---------------------- MODULE CommandKernelBridgeProofs ----------------------
(***************************************************************************)
(* Proofs about CommandKernelBridge, for any number of requests, sessions, *)
(* events and readers: no promise of a caller depends on the daemon        *)
(* (TimedInv), and what it is given is what the daemon printed for it      *)
(* (BridgeInv, SeenInv).                                                   *)
(***************************************************************************)
EXTENDS CommandKernelBridge, TLAPS

-----------------------------------------------------------------------------
(* The inductive invariant.                                                 *)

\* The functions the invariant speaks of.
Shapes == /\ status \in [Requests -> {"unsent", "waiting", "async", "resolved", "rejected"}]
          /\ timer \in [Requests -> {"none", "request", "async"}]
          /\ sent \in 0..MaxRequests
          /\ child \in {"none", "running", "exited", "closed"}

\* Once the child is closed the transport is, so nothing can be sent.
ClosedWithChild == child = "closed" => closed

TimedInv == Shapes /\ PendingIsTimed /\ ExitSettlesAll /\ ClosedWithChild

\* The variables the invariant reads.
inv == <<status, timer, sent, child, closed>>

-----------------------------------------------------------------------------
(* What the operations do to it.                                            *)

LEMMA StutterKeeps ==
  ASSUME TimedInv, UNCHANGED inv
  PROVE  TimedInv'
  BY DEF TimedInv, inv, Shapes, PendingIsTimed, ExitSettlesAll, ClosedWithChild, Pending

\* A request is sent with its timer, and never after the child's close.
LEMMA RequestKeeps ==
  ASSUME TimedInv, NEW m, NEW s, Request(m, s)
  PROVE  TimedInv'
  <1>1. sent + 1 \in Requests /\ sent' \in 0..MaxRequests
    BY BridgeAssumption DEF Request, TimedInv, Shapes, Requests
  <1>2. /\ status' = [status EXCEPT ![sent + 1] = "waiting"]
        /\ timer' = [timer EXCEPT ![sent + 1] = "request"]
        /\ child # "closed" /\ child' \in {"running", child}
        /\ closed' = closed
    BY DEF Request, TimedInv, ClosedWithChild
  <1>3. Shapes'
    BY <1>1, <1>2 DEF TimedInv, Shapes
  <1>4. PendingIsTimed'
    BY <1>1, <1>2 DEF TimedInv, Shapes, PendingIsTimed
  <1> QED
    BY <1>2, <1>3, <1>4 DEF TimedInv, ExitSettlesAll, ClosedWithChild

\* Settling a request stops its timer.
LEMMA SettleKeeps ==
  ASSUME TimedInv, NEW r \in Requests, NEW how \in {"resolved", "rejected"}, NEW line,
         Settle(r, how, line), UNCHANGED <<sent, child, closed>>
  PROVE  TimedInv'
  <1>1. Shapes'
    BY DEF Settle, TimedInv, Shapes
  <1>2. PendingIsTimed'
    BY DEF Settle, TimedInv, Shapes, PendingIsTimed
  <1>3. ExitSettlesAll'
    BY DEF Settle, TimedInv, Shapes, ExitSettlesAll, Pending
  <1> QED
    BY <1>1, <1>2, <1>3 DEF TimedInv, ClosedWithChild

\* failAll settles everything and stops every timer.
LEMMA FailAllKeeps ==
  ASSUME TimedInv, FailAll, UNCHANGED sent, closed' = TRUE,
         child' \in {"none", "running", "exited", "closed"}
  PROVE  TimedInv'
  <1>1. Shapes'
    BY DEF FailAll, TimedInv, Shapes
  <1>2. \A r \in Requests : status'[r] \notin {"waiting", "async"} /\ timer'[r] = "none"
    BY DEF FailAll, TimedInv, Shapes, Pending
  <1>3. PendingIsTimed'
    BY <1>2 DEF PendingIsTimed
  <1>4. ExitSettlesAll'
    BY <1>2 DEF ExitSettlesAll, Pending
  <1> QED
    BY <1>1, <1>3, <1>4 DEF TimedInv, ClosedWithChild

\* The daemon's death leaves its host's promises alone.
LEMMA DeathKeeps ==
  ASSUME TimedInv, DaemonDies, UNCHANGED <<status, timer, sent>>,
         closed' \in {closed, TRUE}
  PROVE  TimedInv'
  BY DEF DaemonDies, TimedInv, Shapes, PendingIsTimed, ExitSettlesAll, ClosedWithChild, Pending

\* A response settles its request, exchanges its timer or changes nothing.
LEMMA ResponseKeeps ==
  ASSUME TimedInv, NEW line, HandleResponse(line), UNCHANGED <<sent, child, closed>>
  PROVE  TimedInv'
  <1>1. CASE ~Pending(line.id)
    BY <1>1, StutterKeeps DEF HandleResponse, inv
  <1>2. CASE /\ Pending(line.id)
             /\ call[line.id].method = "invoke" /\ status[line.id] = "waiting"
             /\ line.kind = "marker"
    <2>1. /\ line.id \in Requests
          /\ status' = [status EXCEPT ![line.id] = "async"]
          /\ timer' = [timer EXCEPT ![line.id] = "async"]
      BY <1>2 DEF HandleResponse, Pending
    <2>2. Shapes'
      BY <2>1 DEF TimedInv, Shapes
    <2>3. PendingIsTimed'
      BY <2>1 DEF TimedInv, Shapes, PendingIsTimed
    <2>4. ExitSettlesAll'
      BY <1>2, <2>1 DEF TimedInv, ExitSettlesAll
    <2> QED
      BY <2>2, <2>3, <2>4 DEF TimedInv, ClosedWithChild
  <1>3. CASE /\ Pending(line.id)
             /\ ~(/\ call[line.id].method = "invoke" /\ status[line.id] = "waiting"
                  /\ line.kind = "marker")
    <2>1. PICK how \in {"resolved", "rejected"} : Settle(line.id, how, line)
      BY <1>3 DEF HandleResponse
    <2>2. line.id \in Requests
      BY <1>3 DEF Pending
    <2> QED
      BY <2>1, <2>2, SettleKeeps
  <1> QED
    BY <1>1, <1>2, <1>3

-----------------------------------------------------------------------------
(* The steps.                                                               *)

LEMMA InitTimed == Init => TimedInv
  BY BridgeAssumption DEF Init, TimedInv, Shapes, PendingIsTimed, ExitSettlesAll,
     ClosedWithChild, Requests

LEMMA CallerKeeps ==
  ASSUME TimedInv, NEW r \in Requests, CallerStep(r)
  PROVE  TimedInv'
  <1>1. CASE \E m, s : Request(m, s)
    BY <1>1, RequestKeeps
  <1>2. CASE UNCHANGED inv
    BY <1>2, StutterKeeps
  <1>3. ASSUME NEW approved \in BOOLEAN, LoadResumes(r, approved)
        PROVE  UNCHANGED inv \/ \E m, s : Request(m, s)
    BY <1>3 DEF LoadResumes, inv
  <1>4. ASSUME OpenFallsBack(r) PROVE \E m, s : Request(m, s)
    BY <1>4 DEF OpenFallsBack
  <1>5. ASSUME OpenResumes(r) \/ CloseResumes(r) PROVE UNCHANGED inv
    BY <1>5 DEF OpenResumes, CloseResumes, inv
  <1> QED
    BY <1>1, <1>2, <1>3, <1>4, <1>5 DEF CallerStep

LEMMA HandleLineKeeps ==
  ASSUME TimedInv, HandleLine
  PROVE  TimedInv'
  <1> DEFINE line == Head(stdout)
  <1>1. UNCHANGED sent
    BY DEF HandleLine
  <1>2. CASE HandleResponse(line) /\ UNCHANGED <<closed, child>>
    BY <1>1, <1>2, ResponseKeeps
  <1>3. CASE UNCHANGED <<status, timer, closed, child>>
    BY <1>1, <1>3, StutterKeeps DEF inv
  <1>4. CASE closed' = TRUE /\ DaemonDies /\ UNCHANGED <<status, timer>>
    BY <1>1, <1>4, DeathKeeps
  <1>5. CASE closed' = TRUE /\ FailAll /\ UNCHANGED child
    BY <1>1, <1>5, FailAllKeeps DEF TimedInv, Shapes
  <1> QED
    BY <1>2, <1>3, <1>4, <1>5 DEF HandleLine

LEMMA HostKeeps ==
  ASSUME TimedInv, HostStep
  PROVE  TimedInv'
  <1>1. ASSUME NEW m \in Methods, Call(m) PROVE TimedInv'
    BY <1>1, RequestKeeps DEF Call
  <1>2. ASSUME NEW m \in Methods, NEW s \in Sessions, SessionCall(m, s) PROVE TimedInv'
    BY <1>2, RequestKeeps DEF SessionCall
  <1>3. ASSUME NEW r \in Requests, Timeout(r) \/ WriteFails(r) PROVE TimedInv'
    <2>1. Settle(r, "rejected", BridgeError(r)) /\ UNCHANGED <<sent, child, closed>>
      BY <1>3 DEF Timeout, WriteFails
    <2> QED
      BY <2>1, SettleKeeps
  <1>4. ASSUME NEW s \in Sessions, NextEvent(s) PROVE TimedInv'
    BY <1>4, StutterKeeps DEF NextEvent, callVars, inv
  <1>5. CASE ChildClose
    BY <1>5, FailAllKeeps DEF ChildClose, FailUnchanged
  <1>6. CASE Dispose
    <2>1. child' \in {"none", "running", "exited", "closed"}
      BY <1>6 DEF Dispose, DaemonDies, TimedInv, Shapes
    <2> QED
      BY <1>6, <2>1, FailAllKeeps DEF Dispose, FailUnchanged
  <1> QED
    BY <1>1, <1>2, <1>3, <1>4, <1>5, <1>6, CallerKeeps, HandleLineKeeps DEF HostStep

LEMMA DaemonKeeps ==
  ASSUME TimedInv, DaemonStep
  PROVE  TimedInv'
  <1>1. ASSUME NEW lines, Printing(lines) PROVE UNCHANGED inv
    BY <1>1 DEF Printing, callVars, inv
  <1>2. CASE DaemonExits
    BY <1>2, DeathKeeps DEF DaemonExits, callVars
  <1>3. CASE ~DaemonExits
    <2>1. \E lines : Printing(lines)
      BY <1>3 DEF DaemonStep, DaemonAnswers, DaemonAccepts, DaemonMarks, WorkerAnswers,
         DaemonServes, DaemonPrintsGarbage
    <2> QED
      BY <1>1, <2>1, StutterKeeps
  <1> QED
    BY <1>2, <1>3

-----------------------------------------------------------------------------
(* The theorems.                                                            *)

\* TimedInv holds in every state of the bridge.
THEOREM TimedInductive == Spec => []TimedInv
  <1>1. TimedInv /\ [Next]_vars => TimedInv'
    <2>1. ASSUME TimedInv, UNCHANGED vars PROVE TimedInv'
      BY <2>1, StutterKeeps DEF vars, callVars, inv
    <2> QED
      BY <2>1, HostKeeps, DaemonKeeps DEF Next
  <1> QED
    BY InitTimed, <1>1, PTL DEF Spec

\* Every promise a caller waits on has the timer that will settle it, for any number of
\* requests and whatever the daemon prints, omits or repeats
\* (CommandKernelTransport.request and handleResponse).
THEOREM EveryCallIsTimed == Spec => []PendingIsTimed
  <1>1. TimedInv => PendingIsTimed
    BY DEF TimedInv
  <1> QED
    BY TimedInductive, <1>1, PTL

\* After the close of the daemon no promise is pending and none can be added
\* (the close handler and failAll of CommandKernelTransport).
THEOREM ExitLeavesNobodyWaiting == Spec => []ExitSettlesAll
  <1>1. TimedInv => ExitSettlesAll
    BY DEF TimedInv
  <1> QED
    BY TimedInductive, <1>1, PTL
-----------------------------------------------------------------------------
(* What the lines in the pipes are about.                                   *)

CallTypes ==
  /\ call \in [Requests -> [method : Methods, session : Sessions \cup {None}]]
  /\ answer \in [Requests -> Lines]
  /\ resumed \subseteq Requests /\ loaded \in BOOLEAN

HostTypes ==
  /\ closed \in BOOLEAN /\ listening \in BOOLEAN
  /\ queue \in [Sessions -> Seq(Nat)] /\ received \in [Sessions -> Seq(Nat)]
  /\ waiting \in [Sessions -> 0..MaxReaders]
  /\ known \subseteq 1..opened /\ shut \subseteq known

DaemonTypes ==
  /\ stdin \in Seq(Requests \cup {PolicyRequest}) /\ stdout \in Seq(Lines)
  /\ executing \subseteq Requests /\ due \in Requests \cup {None}
  /\ opened \in 0..MaxSessions /\ serving \subseteq 1..opened
  /\ emitted \in [Sessions -> Nat]

IsEvent(line, s) == line.kind = "event" /\ line.session = s
IsMarker(line, r) == line.kind = "marker" /\ line.id = r
Ends(line) == line.kind = "result" /\ line.id \in Requests /\ call[line.id].method = "close"

\* Nothing of session s is to come, nor of a marker for request r.
Over(s) == s \notin serving /\ \A i \in 1..Len(stdout) : ~IsEvent(stdout[i], s)
Unmarked(r) == status[r] # "async" /\ \A i \in 1..Len(stdout) : ~IsMarker(stdout[i], r)

\* A line answers a request that was sent; a marker one whose marker was not read.
LineOK(line) ==
  /\ line.id <= sent
  /\ line.kind = "marker" =>
       line.id \in Requests /\ call[line.id].method = "invoke" /\ status[line.id] # "async"
  /\ line.kind = "result" /\ line.id \in Requests /\ call[line.id].method = "open" =>
       line.session \in 1..opened
  /\ line.kind = "event" => line.session \in 1..opened
  /\ Ends(line) => call[line.id].session \notin serving

LinesInv == \A i \in 1..Len(stdout) : LineOK(stdout[i])

MarkersInv ==
  \A i, j \in 1..Len(stdout) :
    stdout[i].kind = "marker" /\ IsMarker(stdout[j], stdout[i].id) => i = j

\* Behind the answer to a close there is no event of the session.
CloseInv ==
  \A i, j \in 1..Len(stdout) :
    i < j /\ Ends(stdout[i]) => ~IsEvent(stdout[j], call[stdout[i].id].session)

SentInv ==
  \A r \in Requests :
    /\ r > sent => status[r] = "unsent"
    /\ r <= sent /\ call[r].method \in {"send", "close"} => call[r].session \in known

\* A request is read by the daemon once, and marked only after that.
StdinInv ==
  /\ \A i \in 1..Len(stdin) : stdin[i] <= sent
  /\ \A i, j \in 1..Len(stdin) : stdin[i] = stdin[j] => i = j
  /\ \A i \in 1..Len(stdin) : stdin[i] \in Requests => stdin[i] # due /\ Unmarked(stdin[i])

InvokeInv ==
  /\ due # None => due <= sent /\ call[due].method = "invoke" /\ Unmarked(due)
  /\ \A r \in executing : r <= sent /\ call[r].method = "invoke"

AnswerInv ==
  \A r \in Requests :
    status[r] = "resolved" =>
      /\ answer[r].kind = "result" /\ answer[r].id = r
      /\ call[r].method = "open" => answer[r].session \in 1..opened
      /\ call[r].method = "close" => Over(call[r].session)

ShutInv == \A s \in shut : Over(s) /\ waiting[s] = 0 /\ queue[s] = <<>>

PipeInv == LinesInv /\ MarkersInv /\ CloseInv /\ StdinInv /\ InvokeInv
BridgeInv == /\ CallTypes /\ HostTypes /\ DaemonTypes
             /\ PipeInv /\ SentInv /\ AnswerInv /\ ShutInv

-----------------------------------------------------------------------------
(* The daemon's output.                                                     *)

LEMMA BoundFacts ==
  ASSUME TimedInv, BridgeInv
  PROVE  /\ sent \in Nat /\ MaxRequests \in Nat /\ sent <= MaxRequests
         /\ opened \in Nat /\ MaxSessions \in Nat /\ opened <= MaxSessions
         /\ \A r \in Requests : r \in Nat /\ r # 0 /\ r <= MaxRequests
         /\ 1..opened \subseteq Sessions
  <1>1. /\ sent \in Nat /\ MaxRequests \in Nat /\ sent <= MaxRequests
        /\ opened \in Nat /\ MaxSessions \in Nat /\ opened <= MaxSessions
    BY BridgeAssumption DEF TimedInv, Shapes, BridgeInv, DaemonTypes
  <1> QED
    BY <1>1 DEF Requests, Sessions

\* The transport has read no line, or the first.
Shrinks ==
  /\ stdout' \in Seq(Lines)
  /\ \E d \in {0, 1} : \A i \in 1..Len(stdout') :
       i + d \in 1..Len(stdout) /\ stdout'[i] = stdout[i + d]

\* The daemon has printed these lines.
Prints(lines) ==
  /\ stdout' \in Seq(Lines)
  /\ \A i \in 1..Len(stdout') :
       \/ i \in 1..Len(stdout) /\ stdout'[i] = stdout[i]
       \/ /\ i \notin 1..Len(stdout) /\ i - Len(stdout) \in 1..Len(lines)
          /\ stdout'[i] = lines[i - Len(stdout)]

LEMMA UnreadShrinks ==
  ASSUME DaemonTypes, UNCHANGED stdout
  PROVE  Shrinks
  <1>1. stdout' \in Seq(Lines) /\ Len(stdout) \in Nat
    BY DEF DaemonTypes
  <1>2. \A i \in 1..Len(stdout') : i + 0 \in 1..Len(stdout) /\ stdout'[i] = stdout[i + 0]
    BY <1>1
  <1> QED
    BY <1>1, <1>2 DEF Shrinks

LEMMA ReadShrinks ==
  ASSUME DaemonTypes, stdout # <<>>, stdout' = Tail(stdout)
  PROVE  /\ Shrinks /\ Len(stdout') = Len(stdout) - 1
         /\ \A i \in 1..Len(stdout') : i + 1 \in 1..Len(stdout) /\ stdout'[i] = stdout[i + 1]
         /\ Head(stdout) = stdout[1] /\ 1 \in 1..Len(stdout) /\ Head(stdout) \in Lines
  <1>1. stdout' \in Seq(Lines) /\ Len(stdout) \in Nat
    BY DEF DaemonTypes
  <1>2. \A i \in 1..Len(stdout') : i + 1 \in 1..Len(stdout) /\ stdout'[i] = stdout[i + 1]
    BY <1>1
  <1>3. Len(stdout') = Len(stdout) - 1 /\ Head(stdout) = stdout[1] /\ 1 \in 1..Len(stdout)
    BY <1>1
  <1>4. Head(stdout) \in Lines
    BY <1>3 DEF DaemonTypes
  <1> QED
    BY <1>1, <1>2, <1>3, <1>4 DEF Shrinks

LEMMA PrintingPrints ==
  ASSUME DaemonTypes, NEW lines \in Seq(Lines), stdout' = stdout \o lines
  PROVE  Prints(lines)
  <1>1. stdout' \in Seq(Lines) /\ Len(stdout) \in Nat /\ Len(lines) \in Nat
    BY DEF DaemonTypes
  <1>2. Len(stdout') = Len(stdout) + Len(lines)
    BY DEF DaemonTypes
  <1>3. ASSUME NEW i \in 1..Len(stdout')
        PROVE  \/ i \in 1..Len(stdout) /\ stdout'[i] = stdout[i]
               \/ /\ i \notin 1..Len(stdout) /\ i - Len(stdout) \in 1..Len(lines)
                  /\ stdout'[i] = lines[i - Len(stdout)]
    BY <1>1, <1>2 DEF DaemonTypes
  <1> QED
    BY <1>1, <1>3 DEF Prints

\* Requests and sessions are only added, and what was said of the old ones stays.
Grows ==
  /\ sent <= sent' /\ \A r \in Requests : r <= sent => call'[r] = call[r]
  /\ opened <= opened' /\ \A s \in 1..opened : s \in serving' => s \in serving

\* A session that is over stays so; an invoke not yet marked too, unless it is now.
KeepsOver == \A s \in 1..opened : Over(s) => Over(s)'
KeepsUnmarked == \A r \in Requests : Unmarked(r) /\ status'[r] # "async" => Unmarked(r)'

LEMMA LineKept ==
  ASSUME TimedInv, BridgeInv, Grows, NEW line \in Lines, LineOK(line),
         sent' \in Nat, opened' \in Nat, line.kind = "marker" => status'[line.id] # "async"
  PROVE  /\ LineOK(line)' /\ (Ends(line)' <=> Ends(line))
         /\ line.id \in Requests => call'[line.id] = call[line.id]
         /\ Ends(line) => call[line.id].session \in 1..opened
  <1>1. line.id \in Requests \cup {None} /\ line.id <= sent
    BY DEF Lines, LineOK
  <1>2. line.id \in Requests => call'[line.id] = call[line.id]
    BY <1>1 DEF Grows
  <1>3. Ends(line)' <=> Ends(line)
    BY <1>2 DEF Ends
  <1>4. Ends(line) => call[line.id].session \in 1..opened
    BY <1>1 DEF Ends, BridgeInv, SentInv, HostTypes
  <1>5. line.id \in Nat
    BY <1>1, BoundFacts DEF None
  <1>6. line.id <= sent'
    BY <1>1, <1>5, BoundFacts DEF Grows
  <1>7. 1..opened \subseteq 1..opened'
    BY BoundFacts DEF Grows
  <1>8. Ends(line)' => call'[line.id].session \notin serving'
    BY <1>2, <1>3, <1>4 DEF LineOK, Grows, Ends
  <1>9. line.kind = "marker" =>
          line.id \in Requests /\ call'[line.id].method = "invoke" /\ status'[line.id] # "async"
    BY <1>2 DEF LineOK
  <1>10. line.kind = "result" /\ line.id \in Requests /\ call'[line.id].method = "open" =>
           line.session \in 1..opened'
    BY <1>2, <1>7 DEF LineOK
  <1>11. line.kind = "event" => line.session \in 1..opened'
    BY <1>7 DEF LineOK
  <1> QED
    BY <1>2, <1>3, <1>4, <1>6, <1>8, <1>9, <1>10, <1>11 DEF LineOK

\* The host's side: lines are only taken away, and who is newly marked has no marker
\* to come.
LEMMA HostPipes ==
  ASSUME TimedInv, BridgeInv, Grows, Shrinks, sent' \in Nat, opened' \in Nat,
         \A i \in 1..Len(stdout') :
           stdout'[i].kind = "marker" => status'[stdout'[i].id] # "async"
  PROVE  LinesInv' /\ MarkersInv' /\ CloseInv' /\ KeepsOver /\ KeepsUnmarked
  <1>1. PICK d \in {0, 1} : \A i \in 1..Len(stdout') :
               i + d \in 1..Len(stdout) /\ stdout'[i] = stdout[i + d]
    BY DEF Shrinks
  <1>2. stdout' \in Seq(Lines) /\ Len(stdout') \in Nat
    BY DEF Shrinks
  <1>3. ASSUME NEW i \in 1..Len(stdout')
        PROVE  /\ stdout'[i] \in Lines /\ LineOK(stdout'[i]) /\ LineOK(stdout[i])'
               /\ (Ends(stdout[i])' <=> Ends(stdout'[i]))
               /\ stdout'[i].id \in Requests => call'[stdout'[i].id] = call[stdout'[i].id]
    <2>1. stdout'[i] \in Lines
      BY <1>2
    <2>2. LineOK(stdout'[i])
      BY <1>1 DEF BridgeInv, PipeInv, LinesInv
    <2> QED
      BY <2>1, <2>2, LineKept
  <1>4. LinesInv'
    BY <1>3 DEF LinesInv
  <1>5. MarkersInv'
    <2> SUFFICES ASSUME NEW i \in 1..Len(stdout'), NEW j \in 1..Len(stdout'),
                        stdout'[i].kind = "marker", IsMarker(stdout'[j], stdout'[i].id)
                 PROVE  i = j
      BY DEF MarkersInv, IsMarker
    <2>1. i + d = j + d
      BY <1>1 DEF BridgeInv, PipeInv, MarkersInv, IsMarker
    <2> QED
      BY <1>2, <2>1
  <1>6. CloseInv'
    <2> SUFFICES ASSUME NEW i \in 1..Len(stdout'), NEW j \in 1..Len(stdout'),
                        i < j, Ends(stdout[i])'
                 PROVE  ~IsEvent(stdout'[j], call'[stdout'[i].id].session)
      BY DEF CloseInv, IsEvent
    <2>1. Ends(stdout'[i]) /\ call'[stdout'[i].id] = call[stdout'[i].id]
      BY <1>3 DEF Ends
    <2>2. i + d < j + d
      BY <1>2
    <2> QED
      BY <1>1, <2>1, <2>2 DEF BridgeInv, PipeInv, CloseInv
  <1>7. KeepsOver
    BY <1>1 DEF KeepsOver, Over, Grows, IsEvent
  <1>8. KeepsUnmarked
    BY <1>1 DEF KeepsUnmarked, Unmarked, IsMarker
  <1> QED
    BY <1>4, <1>5, <1>6, <1>7, <1>8


\* The daemon's side: it prints the marker that is due, and events of sessions it
\* serves; the answer to a close is printed alone.
Proper(lines) ==
  \A k \in 1..Len(lines) :
    /\ LineOK(lines[k])'
    /\ lines[k].kind = "marker" => Len(lines) = 1 /\ due # None /\ lines[k].id = due
    /\ lines[k].kind = "event" => lines[k].session \in serving'
    /\ Ends(lines[k]) => Len(lines) = 1

LEMMA DaemonPipes ==
  ASSUME TimedInv, BridgeInv, Grows, UNCHANGED <<sent, call, status>>, opened' \in Nat,
         NEW lines \in Seq(Lines), Prints(lines), Proper(lines)
  PROVE  /\ LinesInv' /\ MarkersInv' /\ CloseInv' /\ KeepsOver
         /\ \A r \in Requests : Unmarked(r) => Unmarked(r)' \/ r = due
         /\ (\A k \in 1..Len(lines) : lines[k].kind # "marker") => KeepsUnmarked
  <1> DEFINE n == Len(stdout)
             Old(i) == i \in 1..n /\ stdout'[i] = stdout[i]
             New(i) == /\ i \notin 1..n /\ i - n \in 1..Len(lines)
                       /\ stdout'[i] = lines[i - n]
  <1>1. /\ stdout' \in Seq(Lines) /\ Len(stdout') \in Nat /\ n \in Nat /\ Len(lines) \in Nat
        /\ \A i \in 1..Len(stdout') : Old(i) \/ New(i)
    BY DEF Prints, BridgeInv, DaemonTypes
  <1>2. sent' \in Nat
    BY BoundFacts
  <1>3. ASSUME NEW i \in 1..Len(stdout'), Old(i)
        PROVE  /\ LineOK(stdout'[i]) /\ LineOK(stdout[i])' /\ (Ends(stdout[i])' <=> Ends(stdout'[i]))
               /\ call' = call
               /\ Ends(stdout'[i]) => call[stdout'[i].id].session \in 1..opened
    <2>1. stdout'[i] \in Lines
      BY <1>1
    <2>2. LineOK(stdout'[i])
      BY <1>3 DEF BridgeInv, PipeInv, LinesInv
    <2>3. stdout'[i].kind = "marker" => status'[stdout'[i].id] # "async"
      BY <2>2 DEF LineOK
    <2> QED
      BY <1>2, <2>1, <2>2, <2>3, LineKept
  <1>4. LinesInv'
    <2>1. ASSUME NEW i \in 1..Len(stdout'), New(i) PROVE LineOK(stdout[i])'
      BY <2>1 DEF Proper
    <2> QED
      BY <1>1, <1>3, <2>1 DEF LinesInv
  <1>5. MarkersInv'
    <2> SUFFICES ASSUME NEW i \in 1..Len(stdout'), NEW j \in 1..Len(stdout'),
                        stdout'[i].kind = "marker", IsMarker(stdout'[j], stdout'[i].id)
                 PROVE  i = j
      BY DEF MarkersInv, IsMarker
    <2>1. stdout'[j].kind = "marker" /\ stdout'[i].id = stdout'[j].id
      BY DEF IsMarker
    <2>2. ASSUME NEW x \in 1..Len(stdout'), New(x), stdout'[x].kind = "marker"
          PROVE  /\ Len(lines) = 1 /\ x = n + 1
                 /\ \A y \in 1..n : ~IsMarker(stdout[y], stdout'[x].id)
      <3>1. Len(lines) = 1 /\ due # None /\ stdout'[x].id = due
        BY <2>2 DEF Proper
      <3>2. x = n + 1
        BY <1>1, <2>2, <3>1
      <3> QED
        BY <3>1, <3>2 DEF BridgeInv, PipeInv, InvokeInv, Unmarked
    <2>3. CASE Old(i) /\ Old(j)
      BY <2>3 DEF BridgeInv, PipeInv, MarkersInv, IsMarker
    <2>4. CASE New(i) /\ New(j)
      BY <2>1, <2>2, <2>4
    <2>5. CASE Old(i) /\ New(j)
      BY <2>1, <2>2, <2>5 DEF IsMarker
    <2>6. CASE New(i) /\ Old(j)
      BY <2>1, <2>2, <2>6 DEF IsMarker
    <2> QED
      BY <1>1, <2>3, <2>4, <2>5, <2>6
  <1>6. CloseInv'
    <2> SUFFICES ASSUME NEW i \in 1..Len(stdout'), NEW j \in 1..Len(stdout'),
                        i < j, Ends(stdout[i])'
                 PROVE  ~IsEvent(stdout'[j], call'[stdout'[i].id].session)
      BY DEF CloseInv, IsEvent
    <2>1. CASE New(i)
      <3>1. Ends(stdout'[i])
        BY DEF Ends
      <3>2. Len(lines) = 1
        BY <2>1, <3>1 DEF Proper
      <3>3. i = n + 1 /\ j \notin 1..n /\ ~(j - n \in 1..Len(lines))
        BY <1>1, <2>1, <3>2
      <3> QED
        BY <1>1, <3>3
    <2>2. CASE Old(i) /\ Old(j)
      <3>1. Ends(stdout[i]) /\ call' = call
        BY <1>3, <2>2 DEF Ends
      <3> QED
        BY <2>2, <3>1 DEF BridgeInv, PipeInv, CloseInv
    <2>3. CASE Old(i) /\ New(j)
      <3>1. Ends(stdout[i]) /\ call' = call /\ call[stdout'[i].id].session \in 1..opened
        BY <1>3, <2>3 DEF Ends
      <3>2. call[stdout'[i].id].session \notin serving'
        BY <2>3, <3>1 DEF BridgeInv, PipeInv, LinesInv, LineOK, Grows
      <3>3. stdout'[j].kind = "event" => stdout'[j].session \in serving'
        BY <2>3 DEF Proper
      <3> QED
        BY <3>1, <3>2, <3>3 DEF IsEvent
    <2> QED
      BY <1>1, <2>1, <2>2, <2>3
  <1>7. KeepsOver
    <2> SUFFICES ASSUME NEW s \in 1..opened, Over(s) PROVE Over(s)'
      BY DEF KeepsOver
    <2>1. s \notin serving'
      BY DEF Over, Grows
    <2>2. ASSUME NEW i \in 1..Len(stdout') PROVE ~IsEvent(stdout'[i], s)
      <3>1. CASE Old(i)
        BY <3>1 DEF Over, IsEvent
      <3>2. CASE New(i)
        BY <2>1, <3>2 DEF Proper, IsEvent
      <3> QED
        BY <1>1, <3>1, <3>2
    <2> QED
      BY <2>1, <2>2 DEF Over, IsEvent
  <1>8. ASSUME NEW r \in Requests, Unmarked(r),
               \A k \in 1..Len(lines) : ~IsMarker(lines[k], r)
        PROVE  Unmarked(r)'
    BY <1>1, <1>8 DEF Unmarked, IsMarker
  <1>9. \A r \in Requests : Unmarked(r) => Unmarked(r)' \/ r = due
    BY <1>8 DEF Proper, IsMarker
  <1>10. (\A k \in 1..Len(lines) : lines[k].kind # "marker") => KeepsUnmarked
    BY <1>8 DEF KeepsUnmarked, IsMarker
  <1> QED
    BY <1>4, <1>5, <1>6, <1>7, <1>9, <1>10


-----------------------------------------------------------------------------
(* What stays true of requests and sessions.                                *)

\* Nobody's answer changes, and nobody gets one.
NoAnswer ==
  \A r \in Requests : status'[r] = "resolved" => status[r] = "resolved" /\ answer'[r] = answer[r]

LEMMA SentFacts ==
  ASSUME TimedInv, BridgeInv, NEW r \in Requests
  PROVE  /\ status[r] # "unsent" => r <= sent
         /\ r <= sent /\ call[r].method \in {"send", "close"} => call[r].session \in 1..opened
  <1>1. r \in Nat /\ sent \in Nat
    BY BoundFacts
  <1>2. r > sent => status[r] = "unsent"
    BY DEF BridgeInv, SentInv
  <1>3. status[r] # "unsent" => r <= sent
    BY <1>1, <1>2
  <1>4. r <= sent /\ call[r].method \in {"send", "close"} => call[r].session \in known
    BY DEF BridgeInv, SentInv
  <1> QED
    BY <1>3, <1>4 DEF BridgeInv, HostTypes

LEMMA AnswersKept ==
  ASSUME TimedInv, BridgeInv, Grows, KeepsOver, NoAnswer, opened' \in Nat
  PROVE  AnswerInv'
  <1> SUFFICES ASSUME NEW r \in Requests, status'[r] = "resolved"
               PROVE  /\ answer'[r].kind = "result" /\ answer'[r].id = r
                      /\ call'[r].method = "open" => answer'[r].session \in 1..opened'
                      /\ call'[r].method = "close" => Over(call[r].session)'
    BY DEF AnswerInv
  <1>1. status[r] = "resolved" /\ answer'[r] = answer[r]
    BY DEF NoAnswer
  <1>2. r <= sent /\ call'[r] = call[r]
    BY <1>1, SentFacts DEF Grows
  <1>3. 1..opened \subseteq 1..opened'
    BY BoundFacts DEF Grows
  <1>4. call[r].method = "close" => Over(call[r].session) /\ call[r].session \in 1..opened
    BY <1>1, <1>2, SentFacts DEF BridgeInv, AnswerInv
  <1>5. \A s \in 1..opened : s = call'[r].session /\ Over(s)' => Over(call[r].session)'
    BY DEF Over, IsEvent
  <1> QED
    BY <1>1, <1>2, <1>3, <1>4, <1>5 DEF BridgeInv, AnswerInv, KeepsOver

LEMMA ShutKept ==
  ASSUME TimedInv, BridgeInv, KeepsOver, UNCHANGED shut,
         \A s \in shut : waiting'[s] \in {waiting[s], 0} /\ queue'[s] \in {queue[s], <<>>}
  PROVE  ShutInv'
  BY DEF ShutInv, BridgeInv, HostTypes, KeepsOver

LEMMA StdinKept ==
  ASSUME TimedInv, BridgeInv, KeepsUnmarked, UNCHANGED stdin, due' \in {due, None},
         sent <= sent', sent' \in Nat,
         \A i \in 1..Len(stdin) : stdin[i] \in Requests => status'[stdin[i]] # "async"
  PROVE  StdinInv'
  <1>1. \A i \in 1..Len(stdin) : stdin[i] \in Nat /\ stdin[i] <= sent'
    <2>1. \A i \in 1..Len(stdin) : stdin[i] \in Nat
      BY BoundFacts DEF BridgeInv, DaemonTypes, PolicyRequest
    <2> QED
      BY <2>1, BoundFacts DEF BridgeInv, PipeInv, StdinInv
  <1>2. \A r \in Requests : r # None
    BY BoundFacts DEF None
  <1>3. \A i \in 1..Len(stdin) : stdin[i] \in Requests => stdin[i] # due' /\ Unmarked(stdin[i])'
    <2> SUFFICES ASSUME NEW i \in 1..Len(stdin), stdin[i] \in Requests
                 PROVE  stdin[i] # due' /\ Unmarked(stdin[i])'
      OBVIOUS
    <2>1. Unmarked(stdin[i]) /\ stdin[i] # due
      BY DEF BridgeInv, PipeInv, StdinInv
    <2>2. \A r \in Requests : r = stdin[i] => Unmarked(r)'
      BY <2>1 DEF KeepsUnmarked
    <2> QED
      BY <1>2, <2>1, <2>2 DEF Unmarked, IsMarker
  <1> QED
    BY <1>1, <1>3 DEF StdinInv, BridgeInv, PipeInv

LEMMA InvokesKept ==
  ASSUME TimedInv, BridgeInv, Grows, KeepsUnmarked, due' \in {due, None},
         executing' \subseteq executing, sent' \in Nat, due # None => status'[due] # "async"
  PROVE  InvokeInv'
  <1>1. \A r \in executing' : r <= sent' /\ call'[r].method = "invoke"
    BY BoundFacts DEF BridgeInv, PipeInv, InvokeInv, Grows, DaemonTypes
  <1>2. ASSUME due' # None
        PROVE  due' <= sent' /\ call'[due'].method = "invoke" /\ Unmarked(due)'
    <2>1. due' = due /\ due \in Requests
      BY <1>2 DEF BridgeInv, DaemonTypes
    <2>2. due <= sent /\ call[due].method = "invoke" /\ Unmarked(due)
      BY <1>2, <2>1 DEF BridgeInv, PipeInv, InvokeInv
    <2>3. \A r \in Requests : r = due => Unmarked(r)'
      BY <1>2, <2>1, <2>2 DEF KeepsUnmarked
    <2>4. Unmarked(due)'
      BY <2>1, <2>3 DEF Unmarked, IsMarker
    <2> QED
      BY <2>1, <2>2, <2>4, BoundFacts DEF Grows
  <1> QED
    BY <1>1, <1>2 DEF InvokeInv

\* Requests fail, readers are dismissed, the daemon goes down, a line is not read.
LEMMA LossKeeps ==
  ASSUME TimedInv, BridgeInv, Shrinks,
         UNCHANGED <<sent, call, resumed, loaded, known, shut, received, stdin,
                     opened, emitted>>,
         \A r \in Requests : status'[r] = status[r] \/ (status'[r] = "rejected" /\ Pending(r)),
         answer' \in [Requests -> Lines],
         \A r \in Requests : status[r] = "resolved" => answer'[r] = answer[r],
         serving' \subseteq serving, executing' \subseteq executing, due' \in {due, None},
         closed' \in BOOLEAN, listening' \in BOOLEAN,
         \/ UNCHANGED <<waiting, queue>>
         \/ waiting' = [s \in Sessions |-> 0] /\ queue' = [s \in Sessions |-> <<>>]
  PROVE  BridgeInv'
  <1>1. Grows /\ sent' \in Nat /\ opened' \in Nat
    BY BoundFacts DEF Grows
  <1>2. \A r \in Requests : status'[r] = "async" => status[r] = "async"
    OBVIOUS
  <1>3. \A i \in 1..Len(stdout') : stdout'[i].kind = "marker" => status'[stdout'[i].id] # "async"
    <2> TAKE i \in 1..Len(stdout')
    <2>1. LineOK(stdout'[i])
      BY DEF Shrinks, BridgeInv, PipeInv, LinesInv
    <2> QED
      BY <1>2, <2>1 DEF LineOK
  <1>4. LinesInv' /\ MarkersInv' /\ CloseInv' /\ KeepsOver /\ KeepsUnmarked
    BY <1>1, <1>3, HostPipes
  <1>5. StdinInv'
    <2>1. \A i \in 1..Len(stdin) : stdin[i] \in Requests => status'[stdin[i]] # "async"
      BY <1>2 DEF BridgeInv, PipeInv, StdinInv, Unmarked
    <2> QED
      BY <1>1, <1>4, <2>1, StdinKept DEF Grows
  <1>6. InvokeInv'
    <2>1. due # None => due \in Requests /\ status[due] # "async"
      BY DEF BridgeInv, PipeInv, InvokeInv, DaemonTypes, Unmarked
    <2> QED
      BY <1>1, <1>2, <1>4, <2>1, InvokesKept
  <1>7. AnswerInv'
    <2>1. NoAnswer
      BY DEF NoAnswer
    <2> QED
      BY <1>1, <1>4, <2>1, AnswersKept
  <1>8. ShutInv'
    <2>1. \A s \in shut : s \in Sessions
      BY BoundFacts DEF BridgeInv, HostTypes
    <2>2. \A s \in shut : waiting'[s] \in {waiting[s], 0} /\ queue'[s] \in {queue[s], <<>>}
      BY <2>1
    <2> QED
      BY <1>4, <2>2, ShutKept
  <1>9. SentInv'
    BY DEF SentInv, BridgeInv, Pending
  <1>10. CallTypes'
    BY DEF CallTypes, BridgeInv
  <1>11. HostTypes'
    <2>1. 0 \in 0..MaxReaders
      BY BridgeAssumption
    <2>2. queue' \in [Sessions -> Seq(Nat)] /\ waiting' \in [Sessions -> 0..MaxReaders]
      <3>1. CASE UNCHANGED <<waiting, queue>>
        BY <3>1 DEF HostTypes, BridgeInv
      <3>2. CASE waiting' = [s \in Sessions |-> 0] /\ queue' = [s \in Sessions |-> <<>>]
        <4>1. <<>> \in Seq(Nat)
          OBVIOUS
        <4> QED
          BY <2>1, <3>2, <4>1
      <3> QED
        BY <3>1, <3>2
    <2> QED
      BY <2>2 DEF HostTypes, BridgeInv
  <1>12. DaemonTypes'
    BY DEF DaemonTypes, BridgeInv, Shrinks
  <1> QED
    BY <1>4, <1>5, <1>6, <1>7, <1>8, <1>9, <1>10, <1>11, <1>12 DEF BridgeInv, PipeInv


-----------------------------------------------------------------------------
(* The host's steps.                                                        *)

LEMMA LineFacts ==
  /\ \A r \in Requests : BridgeError(r) \in Lines /\ Refusal(r, "runtime_error") \in Lines
                         /\ Marker(r) \in Lines
  /\ \A r \in Requests \cup {None}, s \in Sessions \cup {None} : Result(r, s) \in Lines
  /\ \A s \in Sessions, n \in Nat : Event(s, n) \in Lines
  /\ Garbage \in Lines
  BY DEF Lines, BridgeError, Refusal, Marker, Result, Response, Event, Garbage, Messages, None

LEMMA RequestKeepsBridge ==
  ASSUME TimedInv, BridgeInv, NEW m \in Methods, NEW s \in Sessions \cup {None},
         Request(m, s), m \in {"send", "close"} => s \in known,
         resumed' \subseteq Requests, loaded' \in BOOLEAN,
         UNCHANGED eventVars
  PROVE  BridgeInv'
  <1> DEFINE r == sent + 1
  <1>1. /\ r \in Requests /\ sent' = r /\ r \in Nat /\ sent < MaxRequests
        /\ call' = [call EXCEPT ![r] = [method |-> m, session |-> s]]
        /\ status' = [status EXCEPT ![r] = "waiting"]
        /\ UNCHANGED <<answer, closed, stdout, executing, due, serving, opened, emitted>>
    BY BoundFacts DEF Request, Requests
  <1>2. Grows /\ sent' \in Nat /\ opened' \in Nat
    BY <1>1, BoundFacts DEF Grows, BridgeInv, CallTypes
  <1>3. \A x \in Requests : status'[x] = status[x] \/ (x = r /\ status'[x] = "waiting")
    BY <1>1 DEF TimedInv, Shapes
  <1>4. Shrinks
    BY <1>1, UnreadShrinks DEF BridgeInv
  <1>5. \A i \in 1..Len(stdout') : stdout'[i].kind = "marker" => status'[stdout'[i].id] # "async"
    <2> TAKE i \in 1..Len(stdout')
    <2>1. LineOK(stdout'[i])
      BY <1>1 DEF BridgeInv, PipeInv, LinesInv
    <2> QED
      BY <1>3, <2>1 DEF LineOK
  <1>6. LinesInv' /\ MarkersInv' /\ CloseInv' /\ KeepsOver /\ KeepsUnmarked
    BY <1>2, <1>4, <1>5, HostPipes
  <1>7. \A x \in Requests : x = r => Unmarked(x)'
    <2>1. \A i \in 1..Len(stdout) : stdout[i].id # r
      <3>1. \A i \in 1..Len(stdout) : stdout[i].id <= sent /\ stdout[i].id \in Nat
        <4> TAKE i \in 1..Len(stdout)
        <4>1. stdout[i] \in Lines /\ LineOK(stdout[i])
          BY DEF BridgeInv, PipeInv, LinesInv, DaemonTypes
        <4> QED
          BY <4>1, BoundFacts DEF LineOK, Lines, None
      <3> QED
        BY <3>1, BoundFacts
    <2>2. status'[r] = "waiting"
      BY <1>1 DEF TimedInv, Shapes
    <2> HIDE DEF r
    <2> QED
      BY <1>1, <2>1, <2>2 DEF Unmarked, IsMarker
  <1>8. InvokeInv'
    <2>1. due # None => due \in Requests /\ status'[due] # "async"
      BY <1>3 DEF BridgeInv, PipeInv, InvokeInv, DaemonTypes, Unmarked
    <2> QED
      BY <1>1, <1>2, <1>6, <2>1, InvokesKept
  <1>9. due # r
    BY <1>1, BoundFacts DEF BridgeInv, PipeInv, InvokeInv, None
  <1>10. StdinInv' /\ stdin' \in Seq(Requests \cup {PolicyRequest})
    <2> DEFINE old == IF child = "none" THEN <<PolicyRequest>> ELSE stdin
    <2>1. stdin' = old \o <<r>>
      BY DEF Request
    <2>2. /\ old \in Seq(Requests \cup {PolicyRequest}) /\ Len(old) \in Nat
          /\ \A i \in 1..Len(old) : old[i] \in Nat /\ old[i] <= sent
          /\ \A i, j \in 1..Len(old) : old[i] = old[j] => i = j
          /\ \A i \in 1..Len(old) : old[i] \in Requests => old[i] # due /\ Unmarked(old[i])
      <3>1. CASE child = "none"
        <4>1. Len(old) = 1 /\ old[1] = 0 /\ old \in Seq(Requests \cup {PolicyRequest})
          BY <3>1 DEF PolicyRequest
        <4>2. 0 \notin Requests /\ 0 <= sent
          BY BoundFacts
        <4> HIDE DEF old
        <4> QED
          BY <4>1, <4>2
      <3>2. CASE child # "none"
        <4>1. old = stdin
          BY <3>2
        <4>2. stdin \in Seq(Requests \cup {PolicyRequest})
          BY DEF BridgeInv, DaemonTypes
        <4>3. \A i \in 1..Len(stdin) : stdin[i] \in Nat
          BY <4>2, BoundFacts DEF PolicyRequest
        <4> HIDE DEF old
        <4> QED
          BY <4>1, <4>2, <4>3 DEF BridgeInv, PipeInv, StdinInv
      <3> QED
        BY <3>1, <3>2
    <2> HIDE DEF old, r
    <2>3. /\ stdin' \in Seq(Requests \cup {PolicyRequest}) /\ Len(stdin') = Len(old) + 1
          /\ \A i \in 1..Len(old) : stdin'[i] = old[i]
          /\ stdin'[Len(old) + 1] = r
      BY <1>1, <2>1, <2>2
    <2>4. \A i \in 1..Len(stdin') : i \in 1..Len(old) \/ i = Len(old) + 1
      BY <2>2, <2>3
    <2>5. \A i \in 1..Len(old) : old[i] # r /\ old[i] <= r
      BY <1>1, <2>2, BoundFacts DEF r
    <2>6. \A i \in 1..Len(stdin') : stdin'[i] <= sent'
      BY <1>1, <2>3, <2>4, <2>5
    <2>7. \A i, j \in 1..Len(stdin') : stdin'[i] = stdin'[j] => i = j
      BY <2>2, <2>3, <2>4, <2>5
    <2>8. ASSUME NEW i \in 1..Len(stdin'), stdin'[i] \in Requests
          PROVE  stdin'[i] # due' /\ Unmarked(stdin[i])'
      <3>1. CASE i = Len(old) + 1
        <4>1. stdin'[i] = r /\ due' = due
          BY <1>1, <2>3, <3>1
        <4> QED
          BY <1>1, <1>7, <1>9, <4>1 DEF Unmarked, IsMarker
      <3>2. CASE i \in 1..Len(old)
        <4>1. stdin'[i] = old[i] /\ Unmarked(old[i]) /\ old[i] # due /\ old[i] # r
          BY <2>2, <2>3, <2>5, <2>8, <3>2
        <4>2. \A x \in Requests : x = old[i] => Unmarked(x)'
          <5>1. status'[old[i]] # "async"
            BY <1>3, <2>8, <4>1 DEF Unmarked
          <5> QED
            BY <1>6, <4>1, <5>1 DEF KeepsUnmarked
        <4> QED
          BY <1>1, <2>8, <4>1, <4>2 DEF Unmarked, IsMarker
      <3> QED
        BY <2>4, <3>1, <3>2
    <2> QED
      BY <2>3, <2>6, <2>7, <2>8 DEF StdinInv
  <1>11. AnswerInv'
    <2>1. NoAnswer
      BY <1>1, <1>3 DEF NoAnswer
    <2> QED
      BY <1>2, <1>6, <2>1, AnswersKept
  <1>12. ShutInv'
    <2>1. UNCHANGED <<shut, waiting, queue>>
      BY DEF eventVars
    <2> QED
      BY <1>6, <2>1, ShutKept
  <1>13. SentInv'
    <2> SUFFICES ASSUME NEW x \in Requests
                 PROVE  /\ x > sent' => status'[x] = "unsent"
                        /\ x <= sent' /\ call'[x].method \in {"send", "close"} =>
                             call'[x].session \in known'
      BY DEF SentInv
    <2>1. x \in Nat /\ (x <= sent' => x <= sent \/ x = r) /\ (x > sent' => x > sent /\ x # r)
      BY <1>1, BoundFacts
    <2>2. x <= sent => x # r
      BY BoundFacts
    <2>3. known' = known
      BY DEF eventVars
    <2>4. call'[r] = [method |-> m, session |-> s]
      BY <1>1 DEF BridgeInv, CallTypes
    <2>5. x # r => call'[x] = call[x]
      BY <1>1 DEF BridgeInv, CallTypes
    <2> HIDE DEF r
    <2>6. x > sent' => status'[x] = "unsent"
      BY <1>3, <2>1 DEF BridgeInv, SentInv
    <2>7. x <= sent' /\ call'[x].method \in {"send", "close"} => call'[x].session \in known'
      BY <2>1, <2>2, <2>3, <2>4, <2>5 DEF BridgeInv, SentInv
    <2> QED
      BY <2>6, <2>7
  <1>14. CallTypes'
    BY <1>1 DEF CallTypes, BridgeInv
  <1>15. HostTypes'
    <2>1. listening' \in BOOLEAN
      BY DEF Request, BridgeInv, HostTypes
    <2> QED
      BY <1>1, <2>1 DEF HostTypes, BridgeInv, eventVars
  <1>16. DaemonTypes'
    BY <1>1, <1>10 DEF DaemonTypes, BridgeInv
  <1> QED
    BY <1>6, <1>8, <1>10, <1>11, <1>12, <1>13, <1>14, <1>15, <1>16 DEF BridgeInv, PipeInv


\* The host's callers go on: what they change are the sessions they know.
LEMMA CallerKeepsBridge ==
  ASSUME TimedInv, BridgeInv, resumed' \subseteq Requests,
         loaded' \in BOOLEAN,
         UNCHANGED <<sent, call, status, timer, answer, closed, child, listening,
                     daemonVars>>,
         received' \in [Sessions -> Seq(Nat)],
         known \subseteq known', known' \subseteq 1..opened, shut' \subseteq known',
         queue' \in [Sessions -> Seq(Nat)], waiting' \in [Sessions -> 0..MaxReaders],
         ShutInv'
  PROVE  BridgeInv'
  <1>1. UNCHANGED <<stdin, stdout, executing, due, serving, opened, emitted>>
    BY DEF daemonVars
  <1>2. LinesInv' /\ MarkersInv' /\ CloseInv' /\ StdinInv' /\ InvokeInv' /\ AnswerInv'
    BY <1>1 DEF BridgeInv, PipeInv, LinesInv, LineOK, Ends, MarkersInv, IsMarker, CloseInv,
       IsEvent, StdinInv, Unmarked, InvokeInv, AnswerInv, Over
  <1>3. SentInv'
    BY DEF BridgeInv, SentInv
  <1>4. CallTypes' /\ HostTypes' /\ DaemonTypes'
    BY <1>1 DEF BridgeInv, CallTypes, HostTypes, DaemonTypes
  <1> QED
    BY <1>2, <1>3, <1>4 DEF BridgeInv, PipeInv

LEMMA ResumesKeepBridge ==
  ASSUME TimedInv, BridgeInv, NEW r \in Requests, CallerStep(r)
  PROVE  BridgeInv'
  <1>1. resumed' \subseteq Requests
    BY DEF CallerStep, LoadResumes, OpenFallsBack, OpenResumes, CloseResumes, Resume, BridgeInv,
       CallTypes
  <1>2. ASSUME NEW approved \in BOOLEAN, LoadResumes(r, approved) PROVE BridgeInv'
    <2>1. loaded' \in BOOLEAN /\ UNCHANGED eventVars
      BY <1>2 DEF LoadResumes, BridgeInv, CallTypes
    <2>2. CASE Request("load", None)
      BY <1>1, <2>1, <2>2, RequestKeepsBridge DEF Methods
    <2>3. CASE UNCHANGED <<sent, call, status, timer, answer, closed, child, listening,
                           daemonVars>>
      <3>1. UNCHANGED <<queue, waiting, received, known, shut>>
        BY <2>1 DEF eventVars
      <3>2. ShutInv'
        BY <2>3, <3>1 DEF BridgeInv, ShutInv, Over, IsEvent, daemonVars
      <3>3. /\ known \subseteq known' /\ known' \subseteq 1..opened /\ shut' \subseteq known'
            /\ queue' \in [Sessions -> Seq(Nat)] /\ waiting' \in [Sessions -> 0..MaxReaders]
            /\ received' \in [Sessions -> Seq(Nat)]
        BY <3>1 DEF BridgeInv, HostTypes
      <3> QED
        BY <1>1, <2>1, <2>3, <3>1, <3>2, <3>3, CallerKeepsBridge
    <2> QED
      BY <1>2, <2>2, <2>3 DEF LoadResumes
  <1>3. ASSUME OpenFallsBack(r) PROVE BridgeInv'
    <2>1. Request("invoke", None) /\ UNCHANGED <<loaded, eventVars>>
      BY <1>3 DEF OpenFallsBack
    <2>2. loaded' \in BOOLEAN
      BY <2>1 DEF BridgeInv, CallTypes
    <2> QED
      BY <1>1, <2>1, <2>2, RequestKeepsBridge DEF Methods
  <1>4. ASSUME OpenResumes(r) PROVE BridgeInv'
    <2>1. status[r] = "resolved" /\ call[r].method = "open"
      BY <1>4 DEF OpenResumes, Resume, Settled, Failure
    <2>2. answer[r].session \in 1..opened
      BY <2>1 DEF BridgeInv, AnswerInv
    <2>3. /\ known' = known \cup {answer[r].session}
          /\ UNCHANGED <<sent, call, status, timer, answer, loaded, closed, child,
                         listening, queue, waiting, received, shut, daemonVars>>
      BY <1>4 DEF OpenResumes
    <2>4. /\ known \subseteq known' /\ known' \subseteq 1..opened /\ shut' \subseteq known'
          /\ queue' \in [Sessions -> Seq(Nat)] /\ waiting' \in [Sessions -> 0..MaxReaders]
          /\ loaded' \in BOOLEAN
          /\ received' \in [Sessions -> Seq(Nat)]
      BY <2>2, <2>3 DEF BridgeInv, HostTypes, CallTypes
    <2>5. ShutInv'
      BY <2>3 DEF BridgeInv, ShutInv, Over, IsEvent, daemonVars
    <2> QED
      BY <1>1, <2>3, <2>4, <2>5, CallerKeepsBridge
  <1>5. ASSUME CloseResumes(r) PROVE BridgeInv'
    <2> DEFINE s == call[r].session
    <2>1. status[r] = "resolved" /\ call[r].method = "close"
      BY <1>5 DEF CloseResumes, Resume, Settled, Failure
    <2>2. Over(s) /\ s \in known /\ s \in Sessions
      <3>1. r <= sent
        BY <2>1, SentFacts
      <3>2. s \in known
        BY <2>1, <3>1 DEF BridgeInv, SentInv
      <3> QED
        BY <2>1, <3>2, BoundFacts DEF BridgeInv, AnswerInv, HostTypes
    <2>3. /\ queue' = [queue EXCEPT ![s] = <<>>] /\ waiting' = [waiting EXCEPT ![s] = 0]
          /\ shut' = shut \cup {s}
          /\ UNCHANGED <<sent, call, status, timer, answer, loaded, closed, child,
                         listening, received, known, daemonVars>>
      BY <1>5 DEF CloseResumes
    <2> HIDE DEF s
    <2>4. /\ known \subseteq known' /\ known' \subseteq 1..opened /\ shut' \subseteq known'
          /\ loaded' \in BOOLEAN
          /\ received' \in [Sessions -> Seq(Nat)]
      BY <2>2, <2>3 DEF BridgeInv, HostTypes, CallTypes
    <2>5. queue' \in [Sessions -> Seq(Nat)] /\ waiting' \in [Sessions -> 0..MaxReaders]
      <3>1. <<>> \in Seq(Nat) /\ 0 \in 0..MaxReaders
        BY BridgeAssumption
      <3> QED
        BY <2>3, <3>1 DEF BridgeInv, HostTypes
    <2>6. ShutInv'
      <3> SUFFICES ASSUME NEW x \in shut'
                   PROVE  Over(x)' /\ waiting'[x] = 0 /\ queue'[x] = <<>>
        BY DEF ShutInv
      <3>1. Over(x)
        BY <2>2, <2>3 DEF BridgeInv, ShutInv
      <3>2. Over(x)'
        BY <2>3, <3>1 DEF Over, IsEvent, daemonVars
      <3>3. x \in Sessions
        BY <2>4, BoundFacts DEF BridgeInv, HostTypes
      <3>4. waiting'[x] = 0 /\ queue'[x] = <<>>
        BY <2>2, <2>3, <3>3 DEF BridgeInv, ShutInv, HostTypes
      <3> QED
        BY <3>2, <3>4
    <2> QED
      BY <1>1, <2>3, <2>4, <2>5, <2>6, CallerKeepsBridge
  <1> QED
    BY <1>2, <1>3, <1>4, <1>5 DEF CallerStep


LEMMA NextEventKeepsBridge ==
  ASSUME TimedInv, BridgeInv, NEW s \in Sessions, NextEvent(s)
  PROVE  BridgeInv'
  <1>1. /\ UNCHANGED <<sent, call, status, timer, answer, resumed, loaded, closed, child,
                       listening, known, shut, daemonVars>>
        /\ s \notin shut
    BY DEF NextEvent, callVars
  <1>2. /\ queue' \in [Sessions -> Seq(Nat)] /\ received' \in [Sessions -> Seq(Nat)]
        /\ waiting' \in [Sessions -> 0..MaxReaders]
        /\ \A x \in Sessions \ {s} : queue'[x] = queue[x] /\ waiting'[x] = waiting[x]
    <2>1. CASE queue[s] # <<>>
      <3>1. Head(queue[s]) \in Nat /\ Tail(queue[s]) \in Seq(Nat) /\ received[s] \in Seq(Nat)
        BY <2>1 DEF BridgeInv, HostTypes
      <3>2. Append(received[s], Head(queue[s])) \in Seq(Nat)
        BY <3>1
      <3> QED
        BY <2>1, <3>1, <3>2 DEF NextEvent, BridgeInv, HostTypes
    <2>2. CASE queue[s] = <<>>
      <3>1. waiting[s] + 1 \in 0..MaxReaders
        BY <2>2, BridgeAssumption DEF NextEvent, BridgeInv, HostTypes
      <3> QED
        BY <2>2, <3>1 DEF NextEvent, BridgeInv, HostTypes
    <2> QED
      BY <2>1, <2>2
  <1>3. ShutInv'
    <2> SUFFICES ASSUME NEW x \in shut
                 PROVE  Over(x)' /\ waiting'[x] = 0 /\ queue'[x] = <<>>
      BY <1>1 DEF ShutInv
    <2>1. Over(x)'
      BY <1>1 DEF BridgeInv, ShutInv, Over, IsEvent, daemonVars
    <2>2. x \in Sessions \ {s}
      BY <1>1, BoundFacts DEF BridgeInv, HostTypes
    <2> QED
      BY <1>2, <2>1, <2>2 DEF BridgeInv, ShutInv
  <1>4. /\ resumed' \subseteq Requests /\ loaded' \in BOOLEAN
        /\ known \subseteq known' /\ known' \subseteq 1..opened /\ shut' \subseteq known'
    BY <1>1 DEF BridgeInv, CallTypes, HostTypes
  <1> QED
    BY <1>1, <1>2, <1>3, <1>4, CallerKeepsBridge

\* The accepted marker of a request that waits.
LEMMA MarkerKeepsBridge ==
  ASSUME TimedInv, BridgeInv, stdout # <<>>, stdout' = Tail(stdout),
         NEW r \in Requests, IsMarker(Head(stdout), r),
         status' = [status EXCEPT ![r] = "async"], status[r] = "waiting",
         UNCHANGED <<sent, call, answer, resumed, loaded, closed, listening, eventVars,
                     stdin, executing, due, serving, opened, emitted>>
  PROVE  BridgeInv'
  <1>1. /\ Shrinks /\ Head(stdout) = stdout[1] /\ 1 \in 1..Len(stdout)
        /\ \A i \in 1..Len(stdout') : i + 1 \in 1..Len(stdout) /\ stdout'[i] = stdout[i + 1]
    BY ReadShrinks DEF BridgeInv
  <1>2. Grows /\ sent' \in Nat /\ opened' \in Nat
    BY BoundFacts DEF Grows
  <1>3. status'[r] = "async" /\ \A x \in Requests \ {r} : status'[x] = status[x]
    BY DEF TimedInv, Shapes
  <1>4. \A i \in 1..Len(stdout') : stdout'[i].kind = "marker" => status'[stdout'[i].id] # "async"
    <2> SUFFICES ASSUME NEW i \in 1..Len(stdout'), stdout'[i].kind = "marker"
                 PROVE  status'[stdout'[i].id] # "async"
      OBVIOUS
    <2>1. stdout'[i] = stdout[i + 1] /\ i + 1 \in 1..Len(stdout) /\ i + 1 # 1
      BY <1>1 DEF Shrinks
    <2>2. stdout'[i].id # r
      BY <1>1, <2>1 DEF BridgeInv, PipeInv, MarkersInv, IsMarker
    <2>3. stdout'[i].id \in Requests /\ status[stdout'[i].id] # "async"
      BY <2>1 DEF BridgeInv, PipeInv, LinesInv, LineOK
    <2> QED
      BY <1>3, <2>2, <2>3
  <1>5. LinesInv' /\ MarkersInv' /\ CloseInv' /\ KeepsOver /\ KeepsUnmarked
    BY <1>1, <1>2, <1>4, HostPipes
  <1>6. ~Unmarked(r)
    BY <1>1 DEF Unmarked
  <1>7. StdinInv'
    <2>1. \A i \in 1..Len(stdin) : stdin[i] \in Requests => status'[stdin[i]] # "async"
      BY <1>3, <1>6 DEF BridgeInv, PipeInv, StdinInv, Unmarked
    <2> QED
      BY <1>2, <1>5, <2>1, StdinKept DEF Grows
  <1>8. InvokeInv'
    <2>1. due # None => due \in Requests /\ status'[due] # "async"
      BY <1>3, <1>6 DEF BridgeInv, PipeInv, InvokeInv, DaemonTypes, Unmarked
    <2> QED
      BY <1>2, <1>5, <2>1, InvokesKept
  <1>9. AnswerInv'
    <2>1. NoAnswer
      BY <1>3 DEF NoAnswer
    <2> QED
      BY <1>2, <1>5, <2>1, AnswersKept
  <1>10. ShutInv'
    <2>1. UNCHANGED <<shut, waiting, queue>>
      BY DEF eventVars
    <2> QED
      BY <1>5, <2>1, ShutKept
  <1>11. SentInv'
    BY <1>3, SentFacts DEF SentInv, BridgeInv, eventVars
  <1>12. CallTypes' /\ HostTypes' /\ DaemonTypes'
    BY <1>1 DEF BridgeInv, CallTypes, HostTypes, DaemonTypes, Shrinks, eventVars
  <1> QED
    BY <1>5, <1>7, <1>8, <1>9, <1>10, <1>11, <1>12 DEF BridgeInv, PipeInv

\* A result settles a request that is pending.
LEMMA ResultKeepsBridge ==
  ASSUME TimedInv, BridgeInv, stdout # <<>>, stdout' = Tail(stdout),
         NEW r \in Requests, Head(stdout).id = r, Head(stdout).kind = "result",
         Settle(r, "resolved", Head(stdout)), Pending(r),
         UNCHANGED <<sent, call, resumed, loaded, closed, listening, eventVars,
                     stdin, executing, due, serving, opened, emitted>>
  PROVE  BridgeInv'
  <1> DEFINE line == Head(stdout)
  <1>1. /\ Shrinks /\ line = stdout[1] /\ 1 \in 1..Len(stdout) /\ line \in Lines
        /\ \A i \in 1..Len(stdout') : i + 1 \in 1..Len(stdout) /\ stdout'[i] = stdout[i + 1]
    BY ReadShrinks DEF BridgeInv
  <1>2. Grows /\ sent' \in Nat /\ opened' \in Nat
    BY BoundFacts DEF Grows
  <1>3. /\ status'[r] = "resolved" /\ answer'[r] = line
        /\ \A x \in Requests \ {r} : status'[x] = status[x] /\ answer'[x] = answer[x]
        /\ answer' \in [Requests -> Lines]
    BY <1>1 DEF Settle, TimedInv, Shapes, BridgeInv, CallTypes
  <1>4. \A i \in 1..Len(stdout') : stdout'[i].kind = "marker" => status'[stdout'[i].id] # "async"
    <2> SUFFICES ASSUME NEW i \in 1..Len(stdout'), stdout'[i].kind = "marker"
                 PROVE  status'[stdout'[i].id] # "async"
      OBVIOUS
    <2>1. stdout'[i].id \in Requests /\ status[stdout'[i].id] # "async"
      BY <1>1 DEF BridgeInv, PipeInv, LinesInv, LineOK
    <2> QED
      BY <1>3, <2>1
  <1>5. LinesInv' /\ MarkersInv' /\ CloseInv' /\ KeepsOver /\ KeepsUnmarked
    BY <1>1, <1>2, <1>4, HostPipes
  <1>6. StdinInv'
    <2>1. \A i \in 1..Len(stdin) : stdin[i] \in Requests => status'[stdin[i]] # "async"
      BY <1>3 DEF BridgeInv, PipeInv, StdinInv, Unmarked
    <2> QED
      BY <1>2, <1>5, <2>1, StdinKept DEF Grows
  <1>7. InvokeInv'
    <2>1. due # None => due \in Requests /\ status'[due] # "async"
      BY <1>3 DEF BridgeInv, PipeInv, InvokeInv, DaemonTypes, Unmarked
    <2> QED
      BY <1>2, <1>5, <2>1, InvokesKept
  <1>8. AnswerInv'
    <2>1. LineOK(line)
      BY <1>1 DEF BridgeInv, PipeInv, LinesInv
    <2> SUFFICES ASSUME NEW x \in Requests, status'[x] = "resolved"
                 PROVE  /\ answer'[x].kind = "result" /\ answer'[x].id = x
                        /\ call[x].method = "open" => answer'[x].session \in 1..opened
                        /\ call[x].method = "close" => Over(call[x].session)'
      BY DEF AnswerInv, Over, IsEvent
    <2>2. CASE x = r
      <3>1. call[r].method = "open" => line.session \in 1..opened
        BY <2>1 DEF LineOK
      <3>2. ASSUME call[r].method = "close" PROVE Over(call[r].session)'
        <4>1. Ends(line) /\ Ends(stdout[1])
          BY <1>1, <3>2 DEF Ends
        <4>2. call[r].session \notin serving
          BY <2>1, <4>1 DEF LineOK
        <4>3. \A i \in 1..Len(stdout') : ~IsEvent(stdout'[i], call[r].session)
          <5> TAKE i \in 1..Len(stdout')
          <5>1. i + 1 \in 1..Len(stdout) /\ stdout'[i] = stdout[i + 1] /\ 1 < i + 1
            BY <1>1 DEF Shrinks
          <5> QED
            BY <1>1, <4>1, <5>1 DEF BridgeInv, PipeInv, CloseInv
        <4> QED
          BY <4>2, <4>3 DEF Over, IsEvent
      <3> QED
        BY <1>3, <2>2, <3>1, <3>2 DEF Over, IsEvent
    <2>3. CASE x # r
      <3>1. status[x] = "resolved" /\ answer'[x] = answer[x]
        BY <1>3, <2>3
      <3>2. x <= sent
        BY <3>1, SentFacts
      <3>3. ASSUME call[x].method = "close" PROVE Over(call[x].session)'
        <4>1. Over(call[x].session) /\ call[x].session \in 1..opened
          BY <3>1, <3>2, <3>3, SentFacts DEF BridgeInv, AnswerInv
        <4>2. \A s \in 1..opened : s = call[x].session => Over(s)'
          BY <1>5, <4>1 DEF KeepsOver
        <4> QED
          BY <4>1, <4>2 DEF Over, IsEvent
      <3> QED
        BY <3>1, <3>3 DEF BridgeInv, AnswerInv
    <2> QED
      BY <2>2, <2>3
  <1>9. ShutInv'
    <2>1. UNCHANGED <<shut, waiting, queue>>
      BY DEF eventVars
    <2> QED
      BY <1>5, <2>1, ShutKept
  <1>10. SentInv'
    BY <1>3, SentFacts DEF SentInv, BridgeInv, eventVars, Pending
  <1>11. CallTypes' /\ HostTypes' /\ DaemonTypes'
    BY <1>1, <1>3 DEF BridgeInv, CallTypes, HostTypes, DaemonTypes, Shrinks, eventVars
  <1> QED
    BY <1>5, <1>6, <1>7, <1>8, <1>9, <1>10, <1>11 DEF BridgeInv, PipeInv

\* An event is given to a reader that waits, or queued for one.
LEMMA EventKeepsBridge ==
  ASSUME TimedInv, BridgeInv, stdout # <<>>, stdout' = Tail(stdout),
         Head(stdout).kind = "event", HandleEvent(Head(stdout).session, Head(stdout).n),
         UNCHANGED <<sent, call, status, answer, resumed, loaded, closed, listening,
                     known, shut, stdin, executing, due, serving, opened, emitted>>
  PROVE  BridgeInv'
  <1> DEFINE s == Head(stdout).session
             n == Head(stdout).n
  <1>1. /\ Shrinks /\ Head(stdout) = stdout[1] /\ 1 \in 1..Len(stdout)
        /\ Head(stdout) \in Lines
        /\ \A i \in 1..Len(stdout') : i + 1 \in 1..Len(stdout) /\ stdout'[i] = stdout[i + 1]
    BY ReadShrinks DEF BridgeInv
  <1>2. Grows /\ sent' \in Nat /\ opened' \in Nat
    BY BoundFacts DEF Grows
  <1>3. \A i \in 1..Len(stdout') : stdout'[i].kind = "marker" => status'[stdout'[i].id] # "async"
    <2> TAKE i \in 1..Len(stdout')
    <2>1. LineOK(stdout'[i])
      BY <1>1 DEF BridgeInv, PipeInv, LinesInv
    <2> QED
      BY <2>1 DEF LineOK
  <1>4. LinesInv' /\ MarkersInv' /\ CloseInv' /\ KeepsOver /\ KeepsUnmarked
    BY <1>1, <1>2, <1>3, HostPipes
  <1>5. StdinInv'
    <2>1. \A i \in 1..Len(stdin) : stdin[i] \in Requests => status'[stdin[i]] # "async"
      BY DEF BridgeInv, PipeInv, StdinInv, Unmarked
    <2> QED
      BY <1>2, <1>4, <2>1, StdinKept DEF Grows
  <1>6. InvokeInv'
    <2>1. due # None => due \in Requests /\ status'[due] # "async"
      BY DEF BridgeInv, PipeInv, InvokeInv, DaemonTypes, Unmarked
    <2> QED
      BY <1>2, <1>4, <2>1, InvokesKept
  <1>7. AnswerInv'
    <2>1. NoAnswer
      BY DEF NoAnswer
    <2> QED
      BY <1>2, <1>4, <2>1, AnswersKept
  <1>8. s \in 1..opened /\ s \in Sessions /\ n \in Nat /\ s \notin shut
    <2>1. LineOK(Head(stdout))
      BY <1>1 DEF BridgeInv, PipeInv, LinesInv
    <2>2. s \in 1..opened
      BY <2>1 DEF LineOK
    <2>3. s \notin shut
      BY <1>1 DEF BridgeInv, ShutInv, Over, IsEvent
    <2> QED
      BY <1>1, <2>2, <2>3, BoundFacts DEF Lines
  <1>9. /\ queue' \in [Sessions -> Seq(Nat)] /\ received' \in [Sessions -> Seq(Nat)]
        /\ waiting' \in [Sessions -> 0..MaxReaders]
        /\ \A x \in Sessions \ {s} : queue'[x] = queue[x] /\ waiting'[x] = waiting[x]
    <2>1. /\ queue \in [Sessions -> Seq(Nat)] /\ received \in [Sessions -> Seq(Nat)]
          /\ waiting \in [Sessions -> 0..MaxReaders] /\ HandleEvent(s, n)
      BY DEF BridgeInv, HostTypes
    <2> HIDE DEF s, n
    <2>2. Append(queue[s], n) \in Seq(Nat) /\ Append(received[s], n) \in Seq(Nat)
      BY <1>8, <2>1
    <2>3. CASE waiting[s] > 0
      <3>1. waiting[s] - 1 \in 0..MaxReaders
        BY <1>8, <2>1, <2>3, BridgeAssumption
      <3> QED
        BY <1>8, <2>1, <2>2, <2>3, <3>1 DEF HandleEvent
    <2>4. CASE ~(waiting[s] > 0)
      BY <1>8, <2>1, <2>2, <2>4 DEF HandleEvent
    <2> QED
      BY <2>3, <2>4
  <1>10. ShutInv'
    <2>1. \A x \in shut : x \in Sessions \ {s}
      BY <1>8, BoundFacts DEF BridgeInv, HostTypes
    <2>2. \A x \in shut : waiting'[x] \in {waiting[x], 0} /\ queue'[x] \in {queue[x], <<>>}
      BY <1>9, <2>1
    <2> QED
      BY <1>4, <2>2, ShutKept
  <1>11. SentInv'
    BY DEF SentInv, BridgeInv
  <1>12. CallTypes' /\ HostTypes' /\ DaemonTypes'
    BY <1>1, <1>9 DEF BridgeInv, CallTypes, HostTypes, DaemonTypes, Shrinks
  <1> QED
    BY <1>4, <1>5, <1>6, <1>7, <1>10, <1>11, <1>12 DEF BridgeInv, PipeInv

LEMMA FailedFacts ==
  ASSUME TimedInv, BridgeInv, FailAll
  PROVE  /\ \A r \in Requests : status'[r] = status[r] \/ (status'[r] = "rejected" /\ Pending(r))
         /\ answer' \in [Requests -> Lines]
         /\ \A r \in Requests : status[r] = "resolved" => answer'[r] = answer[r]
         /\ waiting' = [s \in Sessions |-> 0] /\ queue' = [s \in Sessions |-> <<>>]
  BY LineFacts DEF FailAll, Pending, BridgeInv, CallTypes

LEMMA LineKeepsBridge ==
  ASSUME TimedInv, BridgeInv, HandleLine
  PROVE  BridgeInv'
  <1> DEFINE line == Head(stdout)
             r == line.id
  <1>1. /\ stdout # <<>> /\ stdout' = Tail(stdout)
        /\ UNCHANGED <<sent, call, resumed, loaded, stdin, opened, emitted>>
    BY DEF HandleLine
  <1>2. Shrinks /\ line = stdout[1] /\ 1 \in 1..Len(stdout) /\ line \in Lines
    BY <1>1, ReadShrinks DEF BridgeInv
  <1>3. LineOK(line) /\ answer \in [Requests -> Lines] /\ closed \in BOOLEAN /\ listening \in BOOLEAN
    BY <1>2 DEF BridgeInv, PipeInv, LinesInv, CallTypes, HostTypes
  <1>4. ASSUME line.kind \in {"result", "error", "marker"}, HandleResponse(line),
               UNCHANGED <<closed, child, listening, eventVars, executing, due, serving>>
        PROVE  BridgeInv'
    <2>1. UNCHANGED <<queue, waiting, received, known, shut>>
      BY <1>4 DEF eventVars
    <2>2. CASE ~Pending(r)
      <3>1. UNCHANGED <<status, timer, answer>>
        BY <1>4, <2>2 DEF HandleResponse
      <3> QED
        BY <1>1, <1>2, <1>3, <1>4, <2>1, <3>1, LossKeeps
    <2>3. CASE Pending(r) /\ line.kind = "error"
      <3>1. Settle(r, "rejected", line) /\ r \in Requests
        BY <1>4, <2>3 DEF HandleResponse, Pending
      <3>2. /\ answer' \in [Requests -> Lines]
            /\ \A x \in Requests : status'[x] = status[x] \/ (status'[x] = "rejected" /\ Pending(x))
            /\ \A x \in Requests : status[x] = "resolved" => answer'[x] = answer[x]
        BY <1>2, <1>3, <2>3, <3>1 DEF Settle, Pending, TimedInv, Shapes
      <3> QED
        BY <1>1, <1>2, <1>3, <1>4, <2>1, <3>2, LossKeeps
    <2>4. CASE Pending(r) /\ line.kind = "marker"
      <3>1. r \in Requests /\ call[r].method = "invoke" /\ status[r] = "waiting"
        BY <1>3, <2>4 DEF LineOK, Pending
      <3>2. status' = [status EXCEPT ![r] = "async"] /\ UNCHANGED answer
        BY <1>4, <2>4, <3>1 DEF HandleResponse
      <3>3. IsMarker(line, r)
        BY <2>4 DEF IsMarker
      <3> QED
        BY <1>1, <1>4, <3>1, <3>2, <3>3, MarkerKeepsBridge
    <2>5. CASE Pending(r) /\ line.kind = "result"
      <3>1. Settle(r, "resolved", line) /\ r \in Requests
        BY <1>4, <2>5 DEF HandleResponse, Pending
      <3> QED
        BY <1>1, <1>4, <2>5, <3>1, ResultKeepsBridge
    <2> QED
      BY <1>4, <2>2, <2>3, <2>4, <2>5
  <1>5. ASSUME line.kind = "event", HandleEvent(line.session, line.n),
               UNCHANGED <<status, timer, answer, closed, child, listening, known, shut,
                           executing, due, serving>>
        PROVE  BridgeInv'
    BY <1>1, <1>5, EventKeepsBridge
  <1>6. ASSUME line.kind = "garbage", closed' = TRUE, listening' = FALSE,
               \/ /\ DaemonDies
                  /\ UNCHANGED <<status, timer, answer, eventVars>>
               \/ /\ FailAll
                  /\ UNCHANGED <<child, executing, due, serving, received, known, shut>>
        PROVE  BridgeInv'
    <2>1. CASE DaemonDies /\ UNCHANGED <<status, timer, answer, eventVars>>
      <3>1. /\ UNCHANGED <<queue, waiting, received, known, shut>>
            /\ executing' = {} /\ due' = None /\ serving' = {}
        BY <2>1 DEF eventVars, DaemonDies
      <3> QED
        BY <1>1, <1>2, <1>3, <1>6, <2>1, <3>1, LossKeeps
    <2>2. CASE FailAll /\ UNCHANGED <<child, executing, due, serving, received, known, shut>>
      BY <1>1, <1>2, <1>6, <2>2, FailedFacts, LossKeeps
    <2> QED
      BY <1>6, <2>1, <2>2
  <1> QED
    BY <1>4, <1>5, <1>6 DEF HandleLine

LEMMA HostKeepsBridge ==
  ASSUME TimedInv, BridgeInv, HostStep
  PROVE  BridgeInv'
  <1>1. /\ UNCHANGED stdout => Shrinks
        /\ answer \in [Requests -> Lines] /\ closed \in BOOLEAN /\ listening \in BOOLEAN
    BY UnreadShrinks DEF BridgeInv, CallTypes, HostTypes
  <1>2. ASSUME NEW m \in Methods, Call(m) PROVE BridgeInv'
    <2>1. resumed' \subseteq Requests /\ loaded' \in BOOLEAN
      BY <1>2 DEF Call, BridgeInv, CallTypes
    <2> QED
      BY <1>2, <2>1, RequestKeepsBridge DEF Call
  <1>3. ASSUME NEW m \in Methods, NEW s \in Sessions, SessionCall(m, s) PROVE BridgeInv'
    <2>1. resumed' \subseteq Requests /\ loaded' \in BOOLEAN
      BY <1>3 DEF SessionCall, BridgeInv, CallTypes
    <2> QED
      BY <1>3, <2>1, RequestKeepsBridge DEF SessionCall
  <1>4. ASSUME NEW r \in Requests, Timeout(r) \/ WriteFails(r) PROVE BridgeInv'
    <2>1. /\ Settle(r, "rejected", BridgeError(r))
          /\ UNCHANGED <<sent, call, resumed, loaded, closed, child, listening,
                         eventVars, daemonVars>>
      BY <1>4 DEF Timeout, WriteFails
    <2>2. Pending(r)
      BY <1>4 DEF Timeout, WriteFails, Pending, TimedInv, Shapes, PendingIsTimed
    <2>3. UNCHANGED <<queue, waiting, received, known, shut, stdin, stdout, executing, due,
                      serving, opened, emitted>>
      BY <2>1 DEF eventVars, daemonVars
    <2>4. /\ answer' \in [Requests -> Lines]
          /\ \A x \in Requests : status'[x] = status[x] \/ (status'[x] = "rejected" /\ Pending(x))
          /\ \A x \in Requests : status[x] = "resolved" => answer'[x] = answer[x]
      BY <1>1, <2>1, <2>2, LineFacts DEF Settle, Pending, TimedInv, Shapes
    <2> QED
      BY <1>1, <2>1, <2>3, <2>4, LossKeeps
  <1>5. ASSUME ChildClose PROVE BridgeInv'
    <2>1. /\ closed' = TRUE
          /\ UNCHANGED <<sent, call, resumed, loaded, received, known, shut, listening,
                         stdin, stdout, executing, due, serving, opened, emitted>>
      BY <1>5 DEF ChildClose, FailUnchanged, daemonVars
    <2> QED
      BY <1>1, <1>5, <2>1, FailedFacts, LossKeeps DEF ChildClose
  <1>6. ASSUME Dispose PROVE BridgeInv'
    <2>1. /\ closed' = TRUE /\ listening' = FALSE
          /\ UNCHANGED <<sent, call, resumed, loaded, received, known, shut,
                         stdin, stdout, opened, emitted>>
          /\ serving' \subseteq serving /\ executing' \subseteq executing /\ due' \in {due, None}
      BY <1>6 DEF Dispose, FailUnchanged, DaemonDies
    <2> QED
      BY <1>1, <1>6, <2>1, FailedFacts, LossKeeps DEF Dispose
  <1> QED
    BY <1>2, <1>3, <1>4, <1>5, <1>6, ResumesKeepBridge, NextEventKeepsBridge, LineKeepsBridge
       DEF HostStep

-----------------------------------------------------------------------------
(* The daemon's steps.                                                      *)

\* What a printing daemon leaves alone.
LEMMA PrintingFacts ==
  ASSUME BridgeInv, NEW lines \in Seq(Lines), Printing(lines)
  PROVE  /\ Prints(lines) /\ stdout' \in Seq(Lines)
         /\ UNCHANGED <<sent, call, status, timer, answer, resumed, loaded, closed, child,
                        listening, queue, waiting, received, known, shut>>
  <1>1. stdout' = stdout \o lines
    BY DEF Printing
  <1>2. Prints(lines)
    BY <1>1, PrintingPrints DEF BridgeInv
  <1> QED
    BY <1>2 DEF Printing, callVars, eventVars, Prints

\* What is left to show of a step that prints.
LEMMA PrintKeepsBridge ==
  ASSUME TimedInv, BridgeInv, NEW lines \in Seq(Lines), Printing(lines), Proper(lines), Grows,
         StdinInv', InvokeInv', stdin' \in Seq(Requests \cup {PolicyRequest}),
         executing' \subseteq Requests, due' \in Requests \cup {None},
         opened' \in 0..MaxSessions, serving' \subseteq 1..opened',
         emitted' \in [Sessions -> Nat]
  PROVE  BridgeInv'
  <1>1. /\ Prints(lines) /\ stdout' \in Seq(Lines)
        /\ UNCHANGED <<sent, call, status, timer, answer, resumed, loaded, closed, child,
                       listening, queue, waiting, received, known, shut>>
    BY PrintingFacts
  <1>2. opened' \in Nat
    BY BridgeAssumption
  <1>3. LinesInv' /\ MarkersInv' /\ CloseInv' /\ KeepsOver
    BY <1>1, <1>2, DaemonPipes
  <1>4. AnswerInv'
    <2>1. NoAnswer
      BY <1>1 DEF NoAnswer
    <2> QED
      BY <1>2, <1>3, <2>1, AnswersKept
  <1>5. ShutInv'
    BY <1>1, <1>3, ShutKept
  <1>6. SentInv'
    BY <1>1 DEF SentInv, BridgeInv
  <1>7. CallTypes' /\ DaemonTypes'
    BY <1>1 DEF BridgeInv, CallTypes, DaemonTypes
  <1>8. HostTypes'
    <2>1. 1..opened \subseteq 1..opened'
      BY <1>2, BoundFacts DEF Grows
    <2> QED
      BY <1>1, <2>1 DEF BridgeInv, HostTypes
  <1> QED
    BY <1>3, <1>4, <1>5, <1>6, <1>7, <1>8 DEF BridgeInv, PipeInv

\* The daemon reads a request: it was not read before, and nothing else says it was.
LEMMA TakenFacts ==
  ASSUME TimedInv, BridgeInv, DaemonTakes
  PROVE  LET r == Head(stdin) IN
         /\ stdin' = Tail(stdin) /\ stdin' \in Seq(Requests \cup {PolicyRequest})
         /\ r \in Requests \cup {PolicyRequest} /\ r <= sent /\ due = None
         /\ r \in Requests => Unmarked(r)
         /\ \A i \in 1..Len(stdin') : i + 1 \in 1..Len(stdin) /\ stdin'[i] = stdin[i + 1]
         /\ \A i \in 1..Len(stdin') : stdin'[i] # r
  <1>1. stdin \in Seq(Requests \cup {PolicyRequest}) /\ stdin # <<>> /\ stdin' = Tail(stdin)
        /\ due = None
    BY DEF DaemonTakes, BridgeInv, DaemonTypes
  <1>2. /\ stdin' \in Seq(Requests \cup {PolicyRequest}) /\ 1 \in 1..Len(stdin)
        /\ Head(stdin) = stdin[1] /\ Head(stdin) \in Requests \cup {PolicyRequest}
        /\ \A i \in 1..Len(stdin') : i + 1 \in 1..Len(stdin) /\ stdin'[i] = stdin[i + 1]
    BY <1>1
  <1>3. \A i \in 1..Len(stdin') : i + 1 # 1
    BY <1>2
  <1>4. \A i \in 1..Len(stdin') : stdin'[i] # stdin[1]
    BY <1>2, <1>3 DEF BridgeInv, PipeInv, StdinInv
  <1>6. \A r \in Requests : r = stdin[1] => Unmarked(r)
    BY <1>2 DEF BridgeInv, PipeInv, StdinInv
  <1>7. stdin[1] <= sent
    BY <1>2 DEF BridgeInv, PipeInv, StdinInv
  <1> QED
    BY <1>1, <1>2, <1>4, <1>6, <1>7

\* The daemon reads a request, and prints what it has to say of it.
LEMMA AnsweringKeepsBridge ==
  ASSUME TimedInv, BridgeInv, DaemonTakes,
         NEW lines \in Seq(Lines), Printing(lines), Proper(lines), Grows,
         \A k \in 1..Len(lines) : lines[k].kind # "marker",
         opened' \in 0..MaxSessions, serving' \subseteq 1..opened',
         emitted' \in [Sessions -> Nat],
         \/ UNCHANGED <<executing, due>>
         \/ /\ Head(stdin) \in Requests /\ call[Head(stdin)].method = "invoke"
            /\ due' = Head(stdin) /\ executing' = executing \cup {Head(stdin)}
  PROVE  BridgeInv'
  <1>1. /\ Prints(lines) /\ UNCHANGED <<sent, call, status>>
        /\ opened' \in Nat
    BY PrintingFacts, BridgeAssumption
  <1>2. KeepsUnmarked
    BY <1>1, DaemonPipes
  <1> SUFFICES ASSUME NEW r \in Requests \cup {PolicyRequest}, r = Head(stdin)
               PROVE  BridgeInv'
    BY TakenFacts
  <1>4. due = None /\ r <= sent
    BY TakenFacts
  <1>5. r \in Requests => Unmarked(r)'
    BY <1>1, <1>2, TakenFacts DEF KeepsUnmarked, Unmarked
  <1>6. /\ \A i \in 1..Len(stdin') : i + 1 \in 1..Len(stdin) /\ stdin'[i] = stdin[i + 1]
        /\ \A i \in 1..Len(stdin') : stdin'[i] # r
        /\ stdin' \in Seq(Requests \cup {PolicyRequest})
    BY TakenFacts
  <1>7. StdinInv'
    <2>1. ASSUME NEW i \in 1..Len(stdin')
          PROVE  /\ stdin'[i] <= sent'
                 /\ stdin'[i] \in Requests => stdin'[i] # due' /\ Unmarked(stdin[i])'
      <3>1. stdin'[i] <= sent' /\ (stdin'[i] \in Requests => Unmarked(stdin'[i]))
        BY <1>1, <1>6 DEF BridgeInv, PipeInv, StdinInv
      <3>2. \A x \in Requests : x = stdin'[i] => Unmarked(x)'
        BY <1>1, <1>2, <3>1 DEF KeepsUnmarked, Unmarked
      <3>3. stdin'[i] \in Requests => stdin'[i] # due'
        BY <1>4, <1>6, BoundFacts DEF None
      <3> QED
        BY <3>1, <3>2, <3>3 DEF Unmarked, IsMarker
    <2>2. ASSUME NEW i \in 1..Len(stdin'), NEW j \in 1..Len(stdin'), stdin'[i] = stdin'[j]
          PROVE  i = j
      <3>1. i + 1 = j + 1
        BY <1>6, <2>2 DEF BridgeInv, PipeInv, StdinInv
      <3> QED
        BY <1>6, <3>1
    <2> QED
      BY <2>1, <2>2 DEF StdinInv
  <1>8. InvokeInv'
    <2>1. \A x \in executing' : x <= sent' /\ call'[x].method = "invoke"
      BY <1>1, <1>4 DEF BridgeInv, PipeInv, InvokeInv
    <2>2. ASSUME due' # None
          PROVE  due' <= sent' /\ call'[due'].method = "invoke" /\ Unmarked(due)'
      <3>1. due' = r /\ r \in Requests /\ call[r].method = "invoke"
        BY <1>4, <2>2
      <3> QED
        BY <1>1, <1>4, <1>5, <3>1 DEF Unmarked, IsMarker
    <2> QED
      BY <2>1, <2>2 DEF InvokeInv
  <1>9. executing' \subseteq Requests /\ due' \in Requests \cup {None}
    BY DEF BridgeInv, DaemonTypes
  <1> QED
    BY <1>6, <1>7, <1>8, <1>9, PrintKeepsBridge

\* One line that is neither a marker nor an event nor the answer to a session's request.
LEMMA PlainLine ==
  ASSUME TimedInv, BridgeInv, NEW lines \in Seq(Lines), Len(lines) = 1,
         UNCHANGED <<sent, call>>, lines[1].id <= sent,
         lines[1].kind \in {"result", "error", "garbage"},
         lines[1].kind = "result" /\ lines[1].id \in Requests =>
           call[lines[1].id].method \in {"load", "invoke"}
  PROVE  Proper(lines) /\ \A k \in 1..Len(lines) : lines[k].kind # "marker"
  BY DEF Proper, LineOK, Ends

LEMMA OneLine ==
  ASSUME NEW line \in Lines, NEW lines, lines = <<line>>
  PROVE  lines \in Seq(Lines) /\ Len(lines) = 1 /\ lines[1] = line
  OBVIOUS

LEMMA TwoLines ==
  ASSUME NEW a \in Lines, NEW b \in Lines, NEW lines, lines = <<a>> \o <<b>>
  PROVE  lines \in Seq(Lines) /\ Len(lines) = 2 /\ lines[1] = a /\ lines[2] = b
  OBVIOUS

LEMMA RefusalFields ==
  ASSUME NEW r, NEW m, NEW line, line = Refusal(r, m)
  PROVE  line.kind = "error" /\ line.id = r
  BY DEF Refusal, Response

LEMMA ResultFields ==
  ASSUME NEW r, NEW s, NEW line, line = Result(r, s)
  PROVE  line.kind = "result" /\ line.id = r /\ line.session = s
  BY DEF Result, Response

LEMMA EventFields ==
  ASSUME NEW s, NEW n, NEW line, line = Event(s, n)
  PROVE  line.kind = "event" /\ line.id = None /\ line.session = s /\ line.n = n
  BY DEF Event

LEMMA PlainLines ==
  ASSUME NEW r \in Requests \cup {PolicyRequest}, NEW lines \in Plain(r)
  PROVE  /\ lines \in Seq(Lines) /\ Len(lines) = 1 /\ lines[1].id = r
         /\ lines[1].kind \in {"result", "error"}
         /\ lines[1].kind = "result" /\ r \in Requests => call[r].method \in {"load", "invoke"}
  <1>1. \A x \in Requests : x # 0
    BY DEF Requests
  <1>2. CASE r = PolicyRequest
    <2>1. Result(r, None) \in Lines /\ r \notin Requests
      BY <1>1, <1>2, LineFacts DEF PolicyRequest, None
    <2>2. lines = <<Result(r, None)>>
      BY <1>2 DEF Plain
    <2> QED
      BY <1>1, <2>1, <2>2, OneLine, ResultFields
  <1>3. CASE r # PolicyRequest
    <2>1. r \in Requests /\ Result(r, None) \in Lines
      BY <1>3, LineFacts
    <2>2. ASSUME NEW m \in {"runtime_error", "exceeds_the_cap", "no_real_session"}
          PROVE  Refusal(r, m) \in Lines
      BY <2>1, <2>2 DEF Lines, Refusal, Response, Messages, None
    <2>3. \/ \E m \in {"runtime_error", "exceeds_the_cap", "no_real_session"} :
               lines = <<Refusal(r, m)>>
          \/ lines = <<Result(r, None)>> /\ call[r].method \in {"load", "invoke"}
      BY <1>3 DEF Plain, Errors
    <2>4. CASE lines = <<Result(r, None)>> /\ call[r].method \in {"load", "invoke"}
      BY <2>1, <2>4, OneLine, ResultFields
    <2>5. ASSUME NEW m \in {"runtime_error", "exceeds_the_cap", "no_real_session"},
                 lines = <<Refusal(r, m)>>
          PROVE  lines \in Seq(Lines) /\ Len(lines) = 1 /\ lines[1].id = r
                 /\ lines[1].kind = "error"
      BY <2>2, <2>5, OneLine, RefusalFields
    <2> QED
      BY <2>3, <2>4, <2>5
  <1> QED
    BY <1>2, <1>3

LEMMA DaemonAnswersKeepsBridge ==
  ASSUME TimedInv, BridgeInv, DaemonAnswers
  PROVE  BridgeInv'
  <1>1. DaemonTakes /\ UNCHANGED <<executing, due, serving, opened, emitted>>
    BY DEF DaemonAnswers
  <1> SUFFICES ASSUME NEW r \in Requests \cup {PolicyRequest}, r = Head(stdin)
               PROVE  BridgeInv'
    BY <1>1, TakenFacts
  <1>2. r <= sent /\ 0 \in Nat /\ \A x \in Requests : x # 0
    BY <1>1, TakenFacts, BoundFacts
  <1> SUFFICES ASSUME NEW lines \in Plain(r), Printing(lines)
               PROVE  BridgeInv'
    BY DEF DaemonAnswers
  <1>3. /\ lines \in Seq(Lines) /\ Len(lines) = 1 /\ lines[1].id = r
        /\ lines[1].kind \in {"result", "error"}
        /\ lines[1].kind = "result" /\ r \in Requests => call[r].method \in {"load", "invoke"}
    BY PlainLines
  <1>4. UNCHANGED <<sent, call>>
    BY <1>3, PrintingFacts
  <1>5. Proper(lines) /\ \A k \in 1..Len(lines) : lines[k].kind # "marker"
    BY <1>2, <1>3, <1>4, PlainLine
  <1>6. Grows
    BY <1>1, <1>4, BoundFacts DEF Grows
  <1>7. opened' \in 0..MaxSessions /\ serving' \subseteq 1..opened' /\ emitted' \in [Sessions -> Nat]
    BY <1>1 DEF BridgeInv, DaemonTypes
  <1> QED
    BY <1>1, <1>3, <1>5, <1>6, <1>7, AnsweringKeepsBridge

LEMMA DaemonAcceptsKeepsBridge ==
  ASSUME TimedInv, BridgeInv, DaemonAccepts
  PROVE  BridgeInv'
  <1>1. /\ DaemonTakes /\ UNCHANGED <<serving, opened, emitted>>
        /\ Head(stdin) # PolicyRequest /\ call[Head(stdin)].method = "invoke"
        /\ executing' = executing \cup {Head(stdin)} /\ due' = Head(stdin)
    BY DEF DaemonAccepts
  <1>2. Head(stdin) \in Requests
    BY <1>1, TakenFacts
  <1> SUFFICES ASSUME NEW lines, lines = <<>>, Printing(lines)
               PROVE  BridgeInv'
    BY DEF DaemonAccepts
  <1>3. lines \in Seq(Lines) /\ Proper(lines) /\ \A k \in 1..Len(lines) : lines[k].kind # "marker"
    BY DEF Proper
  <1>4. UNCHANGED <<sent, call>>
    BY <1>3, PrintingFacts
  <1>5. Grows
    BY <1>1, <1>4, BoundFacts DEF Grows
  <1>6. opened' \in 0..MaxSessions /\ serving' \subseteq 1..opened' /\ emitted' \in [Sessions -> Nat]
    BY <1>1 DEF BridgeInv, DaemonTypes
  <1> QED
    BY <1>1, <1>2, <1>3, <1>5, <1>6, AnsweringKeepsBridge

LEMMA DaemonMarksKeepsBridge ==
  ASSUME TimedInv, BridgeInv, DaemonMarks
  PROVE  BridgeInv'
  <1>1. /\ due # None /\ due' = None /\ due \in Requests
        /\ UNCHANGED <<stdin, executing, serving, opened, emitted>>
    BY DEF DaemonMarks, BridgeInv, DaemonTypes
  <1> SUFFICES ASSUME NEW r \in Requests, r = due, NEW lines, lines = <<Marker(r)>>,
                      Printing(lines)
               PROVE  BridgeInv'
    BY <1>1 DEF DaemonMarks
  <1>2. lines \in Seq(Lines) /\ Len(lines) = 1 /\ lines[1].id = r /\ lines[1].kind = "marker"
    <2>1. Marker(r) \in Lines
      BY LineFacts
    <2> QED
      BY <2>1 DEF Marker, Response
  <1>3. Prints(lines) /\ UNCHANGED <<sent, call, status>>
    BY <1>2, PrintingFacts
  <1>4. r <= sent /\ call[r].method = "invoke" /\ status[r] # "async"
    BY <1>1 DEF BridgeInv, PipeInv, InvokeInv, Unmarked
  <1>5. Proper(lines)
    BY <1>1, <1>2, <1>3, <1>4 DEF Proper, LineOK, Ends
  <1>6. Grows /\ opened' \in Nat
    BY <1>1, <1>3, BoundFacts DEF Grows
  <1>7. \A x \in Requests : Unmarked(x) => Unmarked(x)' \/ x = due
    BY <1>2, <1>3, <1>5, <1>6, DaemonPipes
  <1>8. StdinInv'
    <2>1. ASSUME NEW i \in 1..Len(stdin), stdin[i] \in Requests
          PROVE  stdin[i] # due' /\ Unmarked(stdin[i])'
      <3>1. Unmarked(stdin[i]) /\ stdin[i] # due
        BY <2>1 DEF BridgeInv, PipeInv, StdinInv
      <3>2. \A x \in Requests : x = stdin[i] => Unmarked(x)'
        BY <1>7, <3>1
      <3> QED
        BY <1>1, <2>1, <3>2, BoundFacts DEF Unmarked, IsMarker, None
    <2> QED
      BY <1>1, <1>3, <2>1 DEF StdinInv, BridgeInv, PipeInv
  <1>9. InvokeInv'
    BY <1>1, <1>3 DEF BridgeInv, PipeInv, InvokeInv
  <1>10. /\ opened' \in 0..MaxSessions /\ serving' \subseteq 1..opened'
         /\ emitted' \in [Sessions -> Nat] /\ executing' \subseteq Requests
         /\ stdin' \in Seq(Requests \cup {PolicyRequest})
    BY <1>1 DEF BridgeInv, DaemonTypes
  <1> QED
    BY <1>1, <1>2, <1>5, <1>6, <1>8, <1>9, <1>10, PrintKeepsBridge

\* Lines that do not come of a request that is read now.
LEMMA AsidesKeepBridge ==
  ASSUME TimedInv, BridgeInv, NEW lines \in Seq(Lines), Printing(lines), Len(lines) = 1,
         lines[1].id <= sent, lines[1].kind \in {"result", "error", "garbage"},
         lines[1].kind = "result" /\ lines[1].id \in Requests =>
           call[lines[1].id].method \in {"load", "invoke"},
         UNCHANGED <<stdin, due, serving, opened, emitted>>, executing' \subseteq executing
  PROVE  BridgeInv'
  <1>1. Prints(lines) /\ UNCHANGED <<sent, call, status>>
    BY PrintingFacts
  <1>2. Proper(lines) /\ \A k \in 1..Len(lines) : lines[k].kind # "marker"
    BY <1>1, PlainLine
  <1>3. Grows /\ opened' \in Nat /\ sent <= sent' /\ sent' \in Nat
    BY <1>1, BoundFacts DEF Grows
  <1>4. KeepsUnmarked
    BY <1>1, <1>2, <1>3, DaemonPipes
  <1>5. StdinInv'
    <2>1. \A i \in 1..Len(stdin) : stdin[i] \in Requests => status'[stdin[i]] # "async"
      BY <1>1 DEF BridgeInv, PipeInv, StdinInv, Unmarked
    <2> QED
      BY <1>3, <1>4, <2>1, StdinKept
  <1>6. InvokeInv'
    <2>1. due # None => status'[due] # "async"
      BY <1>1 DEF BridgeInv, PipeInv, InvokeInv, Unmarked
    <2> QED
      BY <1>3, <1>4, <2>1, InvokesKept
  <1>7. /\ opened' \in 0..MaxSessions /\ serving' \subseteq 1..opened'
        /\ emitted' \in [Sessions -> Nat] /\ executing' \subseteq Requests
        /\ stdin' \in Seq(Requests \cup {PolicyRequest}) /\ due' \in Requests \cup {None}
    BY DEF BridgeInv, DaemonTypes
  <1> QED
    BY <1>2, <1>3, <1>5, <1>6, <1>7, PrintKeepsBridge

LEMMA WorkerKeepsBridge ==
  ASSUME TimedInv, BridgeInv, NEW r \in Requests, WorkerAnswers(r)
  PROVE  BridgeInv'
  <1>1. r <= sent /\ call[r].method = "invoke" /\ executing' \subseteq executing
    BY DEF WorkerAnswers, BridgeInv, PipeInv, InvokeInv
  <1> SUFFICES ASSUME NEW line \in {Result(r, None), Refusal(r, "runtime_error")},
                      NEW lines, lines = <<line>>, Printing(lines)
               PROVE  BridgeInv'
    BY DEF WorkerAnswers
  <1>2. line \in Lines
    BY LineFacts
  <1>3. line.id = r /\ line.kind \in {"result", "error"}
    BY ResultFields, RefusalFields
  <1>4. /\ lines \in Seq(Lines) /\ Len(lines) = 1 /\ lines[1].id = r
        /\ lines[1].kind \in {"result", "error"}
    BY <1>2, <1>3, OneLine
  <1> QED
    BY <1>1, <1>4, AsidesKeepBridge DEF WorkerAnswers

LEMMA GarbageKeepsBridge ==
  ASSUME TimedInv, BridgeInv, DaemonPrintsGarbage
  PROVE  BridgeInv'
  <1> SUFFICES ASSUME NEW lines, lines = <<Garbage>>, Printing(lines)
               PROVE  BridgeInv'
    BY DEF DaemonPrintsGarbage
  <1>1. lines \in Seq(Lines) /\ Len(lines) = 1 /\ lines[1] = Garbage
    BY LineFacts, OneLine
  <1>2. lines[1].kind = "garbage" /\ lines[1].id = 0
    BY <1>1 DEF Garbage, None
  <1>3. lines[1].id <= sent
    BY <1>2, BoundFacts
  <1> QED
    BY <1>1, <1>2, <1>3, AsidesKeepBridge DEF DaemonPrintsGarbage

\* What a session operation prints: its answer, and perhaps an event.
LEMMA ServedLines ==
  ASSUME NEW r \in Requests, NEW s \in Sessions, NEW n \in Nat, NEW more \in BOOLEAN,
         NEW lines, lines = <<Result(r, s)>> \o (IF more THEN <<Event(s, n)>> ELSE <<>>)
  PROVE  /\ lines \in Seq(Lines) /\ Len(lines) = IF more THEN 2 ELSE 1
         /\ lines[1] = Result(r, s) /\ (more => lines[2] = Event(s, n))
  <1>1. Result(r, s) \in Lines /\ Event(s, n) \in Lines
    BY LineFacts
  <1>2. CASE more
    <2>1. lines = <<Result(r, s)>> \o <<Event(s, n)>>
      BY <1>2
    <2> QED
      BY <1>1, <1>2, <2>1, TwoLines
  <1>3. CASE ~more
    <2>1. lines = <<Result(r, s)>>
      BY <1>3
    <2> QED
      BY <1>1, <1>3, <2>1, OneLine
  <1> QED
    BY <1>2, <1>3

LEMMA DaemonServesKeepsBridge ==
  ASSUME TimedInv, BridgeInv, NEW s \in Sessions, NEW more \in BOOLEAN, DaemonServes(s, more)
  PROVE  BridgeInv'
  <1>1. /\ DaemonTakes /\ Head(stdin) # PolicyRequest /\ UNCHANGED <<executing, due>>
        /\ emitted' = [emitted EXCEPT ![s] = IF more THEN @ + 1 ELSE @]
    BY DEF DaemonServes
  <1> SUFFICES ASSUME NEW r \in Requests, r = Head(stdin)
               PROVE  BridgeInv'
    BY <1>1, TakenFacts
  <1>2. /\ r <= sent /\ s \in Nat /\ s # 0
        /\ opened \in Nat /\ opened \in 0..MaxSessions /\ serving \subseteq 1..opened
        /\ MaxSessions \in Nat /\ s <= MaxSessions
    BY <1>1, TakenFacts, BoundFacts DEF Sessions, BridgeInv, DaemonTypes
  <1>3. /\ emitted[s] \in Nat /\ emitted' \in [Sessions -> Nat]
    BY <1>1 DEF BridgeInv, DaemonTypes
  <1>4. \/ /\ call[r].method = "open" /\ s = opened + 1 /\ opened' = s
           /\ serving' = serving \cup {s}
        \/ /\ call[r].method = "send" /\ s \in serving /\ UNCHANGED <<serving, opened>>
        \/ /\ call[r].method = "close" /\ call[r].session = s /\ ~more
           /\ serving' = serving \ {s} /\ UNCHANGED opened
    BY DEF DaemonServes
  <1>5. /\ opened' \in 0..MaxSessions /\ serving' \subseteq 1..opened' /\ opened <= opened'
        /\ \A x \in 1..opened : x \in serving' => x \in serving
    <2>1. CASE s = opened + 1 /\ opened' = s /\ serving' = serving \cup {s}
      <3>1. opened' \in 0..MaxSessions /\ opened <= opened'
        BY <1>2, <2>1
      <3>2. \A x \in 1..opened : x # s
        BY <1>2, <2>1
      <3>3. 1..opened \subseteq 1..opened' /\ s \in 1..opened'
        BY <1>2, <2>1
      <3> QED
        BY <1>2, <2>1, <3>1, <3>2, <3>3
    <2>2. CASE opened' = opened /\ serving' \subseteq serving
      <3>1. opened <= opened'
        BY <1>2, <2>2
      <3> QED
        BY <1>2, <2>2, <3>1
    <2> QED
      BY <1>4, <2>1, <2>2
  <1>6. more => s \in serving' /\ s \in 1..opened'
    BY <1>2, <1>4
  <1>7. call[r].method = "open" => s \in 1..opened'
    BY <1>2, <1>4
  <1>8. call[r].method = "close" => call[r].session \notin serving' /\ ~more
    BY <1>4
  <1> SUFFICES ASSUME NEW n \in Nat, n = emitted[s] + 1
               PROVE  BridgeInv'
    BY <1>3
  <1>9. Printing(<<Result(r, s)>> \o (IF more THEN <<Event(s, n)>> ELSE <<>>))
    BY DEF DaemonServes
  <1> SUFFICES ASSUME NEW lines,
                      lines = <<Result(r, s)>> \o (IF more THEN <<Event(s, n)>> ELSE <<>>),
                      Printing(lines)
               PROVE  BridgeInv'
    BY <1>9
  <1>10. /\ lines \in Seq(Lines) /\ Len(lines) = IF more THEN 2 ELSE 1
        /\ lines[1] = Result(r, s) /\ (more => lines[2] = Event(s, n))
    BY ServedLines
  <1>11. UNCHANGED <<sent, call>>
    BY <1>10, PrintingFacts
  <1>12. Grows
    BY <1>2, <1>5, <1>11, BoundFacts DEF Grows
  <1>13. /\ lines[1].kind = "result" /\ lines[1].id = r /\ lines[1].session = s
         /\ Len(lines) \in {1, 2} /\ (~more => Len(lines) = 1)
    BY <1>10, ResultFields
  <1>14. Len(lines) = 2 => /\ more /\ lines[2].kind = "event" /\ lines[2].id = 0
                           /\ lines[2].session = s
    BY <1>10, EventFields DEF None
  <1>15. LineOK(lines[1])' /\ (Ends(lines[1]) => Len(lines) = 1)
    BY <1>2, <1>7, <1>8, <1>11, <1>13 DEF LineOK, Ends
  <1>16. Len(lines) = 2 => LineOK(lines[2])' /\ ~Ends(lines[2]) /\ lines[2].session \in serving'
    BY <1>2, <1>6, <1>11, <1>14, BoundFacts DEF LineOK, Ends
  <1>17. Proper(lines) /\ \A k \in 1..Len(lines) : lines[k].kind # "marker"
    <2>1. ASSUME NEW k \in 1..Len(lines)
          PROVE  k = 1 \/ (k = 2 /\ Len(lines) = 2)
      BY <1>13
    <2>2. ASSUME NEW k \in 1..Len(lines)
          PROVE  /\ LineOK(lines[k])' /\ lines[k].kind # "marker"
                 /\ lines[k].kind = "event" => lines[k].session \in serving'
                 /\ Ends(lines[k]) => Len(lines) = 1
      <3>1. CASE k = 1
        BY <1>13, <1>15, <3>1
      <3>2. CASE k = 2 /\ Len(lines) = 2
        BY <1>14, <1>16, <3>2
      <3> QED
        BY <2>1, <3>1, <3>2
    <2> QED
      BY <2>2 DEF Proper
  <1> QED
    BY <1>1, <1>3, <1>5, <1>10, <1>12, <1>17, AnsweringKeepsBridge

LEMMA DaemonKeepsBridge ==
  ASSUME TimedInv, BridgeInv, DaemonStep
  PROVE  BridgeInv'
  <1>1. ASSUME DaemonExits PROVE BridgeInv'
    <2>1. /\ UNCHANGED <<sent, call, status, timer, answer, resumed, loaded, closed,
                         listening, queue, waiting, received, known, shut, stdin, stdout,
                         opened, emitted>>
          /\ serving' \subseteq serving /\ executing' \subseteq executing /\ due' \in {due, None}
      BY <1>1 DEF DaemonExits, DaemonDies, callVars, eventVars
    <2>2. /\ Shrinks /\ answer' \in [Requests -> Lines]
          /\ closed' \in BOOLEAN /\ listening' \in BOOLEAN
      BY <2>1, UnreadShrinks DEF BridgeInv, CallTypes, HostTypes
    <2> QED
      BY <2>1, <2>2, LossKeeps
  <1> QED
    BY <1>1, DaemonAnswersKeepsBridge, DaemonAcceptsKeepsBridge, DaemonMarksKeepsBridge,
       WorkerKeepsBridge, DaemonServesKeepsBridge, GarbageKeepsBridge DEF DaemonStep

-----------------------------------------------------------------------------

LEMMA InitBridge == Init => BridgeInv
  <1> SUFFICES ASSUME Init PROVE BridgeInv
    OBVIOUS
  <1>1. CallTypes
    <2>1. Result(None, None) \in Lines
      BY LineFacts
    <2> QED
      BY <2>1 DEF Init, CallTypes, Methods
  <1>2. HostTypes /\ DaemonTypes
    <2>1. /\ 0 \in 0..MaxReaders /\ 0 \in 0..MaxSessions /\ 0 \in Nat
          /\ <<>> \in Seq(Nat) /\ <<>> \in Seq(Lines) /\ <<>> \in Seq(Requests \cup {PolicyRequest})
      BY BridgeAssumption
    <2> QED
      BY <2>1 DEF Init, HostTypes, DaemonTypes, None
  <1>3. LinesInv /\ MarkersInv /\ CloseInv /\ StdinInv /\ InvokeInv
    <2>1. 1..Len(stdout) = {} /\ 1..Len(stdin) = {} /\ due = None /\ executing = {}
      BY DEF Init
    <2> QED
      BY <2>1 DEF LinesInv, MarkersInv, CloseInv, StdinInv, InvokeInv
  <1>4. SentInv /\ AnswerInv /\ ShutInv
    <2>1. \A r \in Requests : r \in Nat /\ r > 0
      BY DEF Requests
    <2>2. sent = 0 /\ shut = {} /\ \A r \in Requests : status[r] = "unsent"
      BY DEF Init
    <2> QED
      BY <2>1, <2>2 DEF SentInv, AnswerInv, ShutInv
  <1> QED
    BY <1>1, <1>2, <1>3, <1>4 DEF BridgeInv, PipeInv

\* BridgeInv holds in every state of the bridge.
THEOREM BridgeInductive == Spec => []BridgeInv
  <1>1. TimedInv /\ BridgeInv /\ [Next]_vars => BridgeInv'
    <2>1. ASSUME TimedInv, BridgeInv, UNCHANGED vars PROVE BridgeInv'
      <3>1. /\ UNCHANGED <<sent, call, status, timer, answer, resumed, loaded, closed,
                           child, listening, daemonVars>>
            /\ UNCHANGED <<queue, waiting, received, known, shut>>
        BY <2>1 DEF vars, callVars, eventVars
      <3>2. ShutInv'
        BY <2>1, <3>1 DEF BridgeInv, ShutInv, Over, IsEvent, daemonVars
      <3> QED
        BY <2>1, <3>1, <3>2, CallerKeepsBridge DEF BridgeInv, CallTypes, HostTypes
    <2> QED
      BY <2>1, HostKeepsBridge, DaemonKeepsBridge DEF Next
  <1> QED
    BY InitBridge, TimedInductive, <1>1, PTL DEF Spec

\* The variables of the bridge keep their types, and what the host knows, has shut or the
\* daemon serves are sessions the daemon has opened.
THEOREM BridgeTypeOK == Spec => []TypeOK
  <1>1. TimedInv /\ BridgeInv => TypeOK
    BY DEF TimedInv, Shapes, BridgeInv, CallTypes, HostTypes, DaemonTypes, TypeOK
  <1> QED
    BY TimedInductive, BridgeInductive, <1>1, PTL

\* A promise is resolved by the result of its own request, in whatever order the
\* accepted marker and the worker's answer come, and never by a marker or by an answer
\* to another request (CommandKernelTransport.handleResponse).
THEOREM AnswersAreFinal == Spec => []AnswerIsFinal
  <1>1. BridgeInv => AnswerIsFinal
    BY DEF BridgeInv, AnswerInv, AnswerIsFinal
  <1> QED
    BY BridgeInductive, <1>1, PTL

\* After the close of a session was answered no reader of it waits and no event of it is
\* kept, whatever comes later (RemoteKernelSession.close and clearSessionState).
THEOREM ClosedSessionsAreEmpty == Spec => []ClosedLeavesNothing
  <1>1. BridgeInv => ClosedLeavesNothing
    BY DEF BridgeInv, ShutInv, ClosedLeavesNothing
  <1> QED
    BY BridgeInductive, <1>1, PTL

-----------------------------------------------------------------------------
(* The events of a session.                                                 *)

\* The pipe holds the events a + 1 to b of session s, in this order.
Run(s, a, b) ==
  /\ \A i \in 1..Len(stdout) : IsEvent(stdout[i], s) => stdout[i].n \in a + 1..b
  /\ \A k \in a + 1..b : \E i \in 1..Len(stdout) : IsEvent(stdout[i], s) /\ stdout[i].n = k
  /\ \A i, j \in 1..Len(stdout) :
       i < j /\ IsEvent(stdout[i], s) /\ IsEvent(stdout[j], s) => stdout[i].n < stdout[j].n

\* The readers have the first events, the queue the next.
Numbered(s) ==
  /\ \A n \in 1..Len(received[s]) : received[s][n] = n
  /\ \A n \in 1..Len(queue[s]) : queue[s][n] = Len(received[s]) + n
Seen(s) == Len(received[s]) + Len(queue[s])

SeenInv ==
  \A s \in Sessions :
    /\ waiting[s] > 0 => queue[s] = <<>>
    /\ ~closed /\ s \notin shut =>
         Numbered(s) /\ Seen(s) <= emitted[s] /\ Run(s, Seen(s), emitted[s])

LEMMA SeenFacts ==
  ASSUME BridgeInv, NEW s \in Sessions
  PROVE  /\ queue[s] \in Seq(Nat) /\ received[s] \in Seq(Nat) /\ waiting[s] \in Nat
         /\ Len(queue[s]) \in Nat /\ Len(received[s]) \in Nat /\ Seen(s) \in Nat
         /\ emitted[s] \in Nat
  <1>1. /\ queue[s] \in Seq(Nat) /\ received[s] \in Seq(Nat) /\ waiting[s] \in 0..MaxReaders
        /\ emitted[s] \in Nat
    BY DEF BridgeInv, HostTypes, DaemonTypes
  <1>2. Len(queue[s]) \in Nat /\ Len(received[s]) \in Nat /\ waiting[s] \in Nat
    BY <1>1, BridgeAssumption
  <1>3. Len(received[s]) + Len(queue[s]) \in Nat
    <2>1. \A x, y \in Nat : x + y \in Nat
      OBVIOUS
    <2> QED
      BY <1>2, <2>1, Zenon
  <1> QED
    BY <1>1, <1>2, <1>3 DEF Seen

\* Nothing happens to a session that is still to be read.
LEMMA SeenKept ==
  ASSUME BridgeInv, SeenInv, closed => closed', shut \subseteq shut',
         \A s \in Sessions : \/ waiting'[s] = 0
                             \/ waiting'[s] = waiting[s] /\ queue'[s] = queue[s],
         \A s \in Sessions : ~closed' /\ s \notin shut' =>
           /\ received'[s] = received[s] /\ queue'[s] = queue[s] /\ emitted'[s] = emitted[s]
           /\ \A a, b \in Nat : Run(s, a, b) => Run(s, a, b)'
  PROVE  SeenInv'
  <1> SUFFICES ASSUME NEW s \in Sessions
               PROVE  /\ waiting'[s] > 0 => queue'[s] = <<>>
                      /\ ~closed' /\ s \notin shut' =>
                           Numbered(s)' /\ Seen(s)' <= emitted'[s]
                           /\ Run(s, Seen(s), emitted[s])'
    BY DEF SeenInv
  <1>1. waiting'[s] > 0 => queue'[s] = <<>>
    BY SeenFacts DEF SeenInv
  <1>2. ASSUME ~closed', s \notin shut'
        PROVE  Numbered(s)' /\ Seen(s)' <= emitted'[s] /\ Run(s, Seen(s), emitted[s])'
    <2>1. Numbered(s) /\ Seen(s) <= emitted[s] /\ Run(s, Seen(s), emitted[s])
      BY <1>2 DEF SeenInv
    <2>2. received'[s] = received[s] /\ queue'[s] = queue[s] /\ emitted'[s] = emitted[s]
      BY <1>2
    <2>3. Numbered(s)' /\ Seen(s)' = Seen(s)
      BY <2>1, <2>2 DEF Numbered, Seen
    <2>4. \A a, b \in Nat : Run(s, a, b) => Run(s, a, b)'
      BY <1>2
    <2>5. \A a, b \in Nat : a = Seen(s) /\ b = emitted[s] => Run(s, a, b)'
      BY <2>1, <2>4
    <2>6. Run(s, Seen(s), emitted[s])'
      BY <2>2, <2>3, <2>5, SeenFacts DEF Run
    <2> QED
      BY <2>1, <2>2, <2>3, <2>6
  <1> QED
    BY <1>1, <1>2

\* The transport reads a line: the first event of a session there is its next.
LEMMA ReadRuns ==
  ASSUME BridgeInv, stdout # <<>>, stdout' = Tail(stdout), NEW s \in Sessions,
         NEW a \in Nat, NEW b \in Nat, Run(s, a, b)
  PROVE  /\ ~IsEvent(Head(stdout), s) => Run(s, a, b)'
         /\ IsEvent(Head(stdout), s) =>
              Head(stdout).n = a + 1 /\ a + 1 <= b /\ Run(s, a + 1, b)'
  <1>1. /\ stdout' \in Seq(Lines) /\ Len(stdout') \in Nat /\ Len(stdout) = Len(stdout') + 1
        /\ Head(stdout) = stdout[1] /\ 1 \in 1..Len(stdout)
        /\ \A i \in 1..Len(stdout') : i + 1 \in 1..Len(stdout) /\ stdout'[i] = stdout[i + 1]
    BY ReadShrinks DEF BridgeInv, DaemonTypes, Shrinks
  <1>2. ASSUME NEW i \in 1..Len(stdout), i # 1
        PROVE  i - 1 \in 1..Len(stdout') /\ stdout'[i - 1] = stdout[i]
    BY <1>1, <1>2
  <1>3. ASSUME NEW i \in 1..Len(stdout'), NEW j \in 1..Len(stdout'), i < j,
               IsEvent(stdout'[i], s), IsEvent(stdout'[j], s)
        PROVE  stdout'[i].n < stdout'[j].n
    <2>1. i + 1 < j + 1
      BY <1>1, <1>3
    <2> QED
      BY <1>1, <1>3, <2>1 DEF Run
  <1>4. ASSUME ~IsEvent(Head(stdout), s) PROVE Run(s, a, b)'
    <2>1. \A i \in 1..Len(stdout') : IsEvent(stdout'[i], s) => stdout'[i].n \in a + 1..b
      BY <1>1 DEF Run
    <2>2. ASSUME NEW k \in a + 1..b
          PROVE  \E i \in 1..Len(stdout') : IsEvent(stdout'[i], s) /\ stdout'[i].n = k
      <3>1. PICK i \in 1..Len(stdout) : IsEvent(stdout[i], s) /\ stdout[i].n = k
        BY DEF Run
      <3>2. i # 1
        BY <1>1, <1>4, <3>1
      <3> QED
        BY <1>2, <3>1, <3>2
    <2> QED
      BY <1>3, <2>1, <2>2 DEF Run, IsEvent
  <1>5. ASSUME IsEvent(Head(stdout), s)
        PROVE  Head(stdout).n = a + 1 /\ a + 1 <= b /\ Run(s, a + 1, b)'
    <2>1. stdout[1].n \in a + 1..b
      BY <1>1, <1>5 DEF Run
    <2>2. a + 1 \in a + 1..b
      BY <2>1
    <2>3. PICK i \in 1..Len(stdout) : IsEvent(stdout[i], s) /\ stdout[i].n = a + 1
      BY <2>2 DEF Run
    <2>4. i = 1
      <3>1. ASSUME i # 1 PROVE FALSE
        <4>1. 1 < i
          BY <1>1, <3>1
        <4>2. stdout[1].n < stdout[i].n
          BY <1>1, <1>5, <2>3, <4>1 DEF Run
        <4> QED
          BY <2>1, <2>3, <4>2
      <3> QED
        BY <3>1
    <2>5. Head(stdout).n = a + 1 /\ a + 1 <= b
      BY <1>1, <2>1, <2>3, <2>4
    <2>6. ASSUME NEW j \in 1..Len(stdout'), IsEvent(stdout'[j], s)
          PROVE  stdout'[j].n \in (a + 1) + 1..b
      <3>1. j + 1 \in 1..Len(stdout) /\ stdout'[j] = stdout[j + 1] /\ 1 < j + 1
        BY <1>1
      <3>2. stdout[j + 1].n \in a + 1..b /\ stdout[1].n < stdout[j + 1].n
        BY <1>1, <1>5, <2>6, <3>1 DEF Run
      <3> QED
        BY <1>1, <2>5, <3>1, <3>2
    <2>7. ASSUME NEW k \in (a + 1) + 1..b
          PROVE  \E j \in 1..Len(stdout') : IsEvent(stdout'[j], s) /\ stdout'[j].n = k
      <3>1. k \in a + 1..b /\ k # a + 1
        OBVIOUS
      <3>2. PICK j \in 1..Len(stdout) : IsEvent(stdout[j], s) /\ stdout[j].n = k
        BY <3>1 DEF Run
      <3>3. j # 1
        BY <1>1, <2>5, <3>1, <3>2
      <3> QED
        BY <1>2, <3>2, <3>3
    <2> QED
      BY <1>3, <2>5, <2>6, <2>7 DEF Run, IsEvent
  <1> QED
    BY <1>4, <1>5

\* The daemon prints: lines of other kinds, or the next event at the end.
LEMMA PrintedRuns ==
  ASSUME BridgeInv, NEW lines \in Seq(Lines), stdout' = stdout \o lines, NEW s \in Sessions,
         NEW a \in Nat, NEW b \in Nat, Run(s, a, b)
  PROVE  /\ (\A k \in 1..Len(lines) : ~IsEvent(lines[k], s)) => Run(s, a, b)'
         /\ (\E m \in 1..Len(lines) :
               /\ a <= b /\ IsEvent(lines[m], s) /\ lines[m].n = b + 1
               /\ \A k \in 1..Len(lines) : k # m => ~IsEvent(lines[k], s)) => Run(s, a, b + 1)'
  <1> DEFINE n == Len(stdout)
             Old(i) == i \in 1..n /\ stdout'[i] = stdout[i]
             New(i) == /\ i \notin 1..n /\ i - n \in 1..Len(lines)
                       /\ stdout'[i] = lines[i - n]
  <1>1. /\ stdout' \in Seq(Lines) /\ Len(stdout') \in Nat /\ n \in Nat /\ Len(lines) \in Nat
        /\ \A i \in 1..Len(stdout') : Old(i) \/ New(i)
    BY PrintingPrints DEF Prints, BridgeInv, DaemonTypes
  <1>2. /\ \A i \in 1..n : i \in 1..Len(stdout') /\ stdout'[i] = stdout[i]
        /\ \A k \in 1..Len(lines) : n + k \in 1..Len(stdout') /\ stdout'[n + k] = lines[k]
    <2>1. stdout \in Seq(Lines) /\ Len(stdout') = n + Len(lines)
      BY DEF BridgeInv, DaemonTypes
    <2> QED
      BY <1>1, <2>1
  <1> HIDE DEF n
  <1>3. ASSUME \A k \in 1..Len(lines) : ~IsEvent(lines[k], s) PROVE Run(s, a, b)'
    <2>1. \A i \in 1..Len(stdout') : IsEvent(stdout'[i], s) => Old(i)
      BY <1>1, <1>3
    <2>2. \A i \in 1..Len(stdout') : IsEvent(stdout'[i], s) => stdout'[i].n \in a + 1..b
      BY <2>1 DEF Run, n
    <2>3. \A k \in a + 1..b : \E i \in 1..Len(stdout') : IsEvent(stdout'[i], s) /\ stdout'[i].n = k
      BY <1>2 DEF Run, n
    <2>4. \A i, j \in 1..Len(stdout') :
            i < j /\ IsEvent(stdout'[i], s) /\ IsEvent(stdout'[j], s)
              => stdout'[i].n < stdout'[j].n
      BY <2>1 DEF Run, n
    <2> QED
      BY <2>2, <2>3, <2>4 DEF Run, IsEvent
  <1>4. ASSUME NEW m \in 1..Len(lines), IsEvent(lines[m], s), lines[m].n = b + 1, a <= b,
               \A k \in 1..Len(lines) : k # m => ~IsEvent(lines[k], s)
        PROVE  Run(s, a, b + 1)'
    <2>1. ASSUME NEW i \in 1..Len(stdout'), IsEvent(stdout'[i], s)
          PROVE  \/ Old(i) /\ stdout'[i].n \in a + 1..b /\ stdout'[i].n <= b
                 \/ i = n + m /\ stdout'[i].n = b + 1
      <3>1. CASE Old(i)
        BY <2>1, <3>1 DEF Run, n
      <3>2. CASE New(i)
        <4>1. i - n = m
          BY <1>4, <2>1, <3>2
        <4> QED
          BY <1>1, <1>4, <3>2, <4>1
      <3> QED
        BY <1>1, <3>1, <3>2
    <2>2. \A i \in 1..Len(stdout') : IsEvent(stdout'[i], s) => stdout'[i].n \in a + 1..b + 1
      <3>1. \A k \in a + 1..b : k \in a + 1..b + 1
        OBVIOUS
      <3>2. b + 1 \in a + 1..b + 1
        BY <1>4
      <3> QED
        BY <2>1, <3>1, <3>2
    <2>3. ASSUME NEW k \in a + 1..b + 1
          PROVE  \E i \in 1..Len(stdout') : IsEvent(stdout'[i], s) /\ stdout'[i].n = k
      <3>1. CASE k = b + 1
        BY <1>2, <1>4, <3>1
      <3>2. CASE k # b + 1
        <4>1. k \in a + 1..b
          BY <3>2
        <4> QED
          BY <1>2, <4>1 DEF Run, n
      <3> QED
        BY <3>1, <3>2
    <2>4. ASSUME NEW i \in 1..Len(stdout'), NEW j \in 1..Len(stdout'), i < j,
                 IsEvent(stdout'[i], s), IsEvent(stdout'[j], s)
          PROVE  stdout'[i].n < stdout'[j].n
      <3>1. CASE Old(i) /\ Old(j)
        BY <2>4, <3>1 DEF Run, n
      <3>2. CASE Old(i) /\ ~Old(j)
        <4>1. stdout'[i].n \in a + 1..b
          BY <2>4, <3>2 DEF Run, n
        <4>2. stdout'[j].n = b + 1
          BY <2>1, <2>4, <3>2
        <4> QED
          BY ONLY <4>1, <4>2, a \in Nat, b \in Nat
      <3>3. CASE ~Old(i)
        <4>1. i = n + m /\ i \notin 1..n
          BY <1>1, <2>1, <2>4, <3>3
        <4>2. i \in Nat /\ j \in Nat /\ n \in Nat /\ i > n /\ j > i
          BY <1>1, <2>4, <4>1 DEF n
        <4>3. j \notin 1..n /\ j # n + m
          BY ONLY <4>1, <4>2
        <4> QED
          BY <2>1, <2>4, <4>3
      <3> QED
        BY <3>1, <3>2, <3>3
    <2> QED
      BY <2>2, <2>3, <2>4 DEF Run, IsEvent
  <1> QED
    BY <1>3, <1>4

LEMMA UnreadRuns ==
  ASSUME UNCHANGED stdout, NEW s, NEW a, NEW b, Run(s, a, b)
  PROVE  Run(s, a, b)'
  BY DEF Run, IsEvent

\* What is left to show of a session whose events are given to a reader or queued.
LEMMA SessionSeen ==
  ASSUME BridgeInv, NEW s \in Sessions, NEW a \in Nat, NEW b \in Nat,
         Seen(s)' = a, emitted'[s] = b, a <= b, Numbered(s)', Run(s, a, b)'
  PROVE  Numbered(s)' /\ Seen(s)' <= emitted'[s] /\ Run(s, Seen(s), emitted[s])'
  BY DEF Run

\* A reader takes the first event of the queue.
LEMMA TakenNumbers ==
  ASSUME NEW r \in Seq(Nat), NEW q \in Seq(Nat), q # <<>>,
         \A n \in 1..Len(r) : r[n] = n, \A n \in 1..Len(q) : q[n] = Len(r) + n,
         NEW r2, r2 = Append(r, Head(q)), NEW q2, q2 = Tail(q)
  PROVE  /\ \A n \in 1..Len(r2) : r2[n] = n
         /\ \A n \in 1..Len(q2) : q2[n] = Len(r2) + n
         /\ Len(r2) + Len(q2) = Len(r) + Len(q)
  <1>1. /\ Len(r) \in Nat /\ Len(q) \in Nat /\ Len(q) > 0 /\ 1 \in 1..Len(q) /\ Head(q) = q[1]
        /\ Len(r2) = Len(r) + 1 /\ Len(q2) = Len(q) - 1
    OBVIOUS
  <1>2. \A n \in 1..Len(r2) : r2[n] = IF n <= Len(r) THEN r[n] ELSE Head(q)
    BY <1>1
  <1>3. \A n \in 1..Len(q2) : n + 1 \in 1..Len(q) /\ q2[n] = q[n + 1]
    BY <1>1
  <1>4. Head(q) = Len(r) + 1
    BY <1>1
  <1>5. \A n \in 1..Len(r2) : r2[n] = n
    BY <1>1, <1>2, <1>4
  <1>6. \A n \in 1..Len(q2) : q2[n] = Len(r2) + n
    <2> TAKE n \in 1..Len(q2)
    <2>1. q2[n] = Len(r) + (n + 1)
      BY <1>3
    <2> QED
      BY <1>1, <2>1
  <1>7. Len(r2) + Len(q2) = Len(r) + Len(q)
    BY <1>1
  <1> QED
    BY <1>5, <1>6, <1>7

LEMMA NextEventKeepsSeen ==
  ASSUME BridgeInv, SeenInv, NEW s \in Sessions, NextEvent(s)
  PROVE  SeenInv'
  <1>1. UNCHANGED <<stdout, closed, shut, emitted>>
    BY DEF NextEvent, daemonVars
  <1>2. /\ queue \in [Sessions -> Seq(Nat)] /\ received \in [Sessions -> Seq(Nat)]
        /\ waiting \in [Sessions -> 0..MaxReaders]
    BY DEF BridgeInv, HostTypes
  <1> SUFFICES ASSUME NEW x \in Sessions
               PROVE  /\ waiting'[x] > 0 => queue'[x] = <<>>
                      /\ ~closed' /\ x \notin shut' =>
                           Numbered(x)' /\ Seen(x)' <= emitted'[x]
                           /\ Run(x, Seen(x), emitted[x])'
    BY DEF SeenInv
  <1>3. CASE x = s /\ queue[s] # <<>>
    <2>1. /\ received'[x] = Append(received[x], Head(queue[x])) /\ queue'[x] = Tail(queue[x])
          /\ waiting'[x] = waiting[x]
      BY <1>2, <1>3 DEF NextEvent
    <2>2. ~(waiting[x] > 0)
      BY <1>3 DEF SeenInv
    <2>3. ASSUME ~closed, x \notin shut PROVE Numbered(x)' /\ Seen(x)' = Seen(x)
      <3>1. Numbered(x) /\ queue[x] # <<>>
        BY <1>3, <2>3 DEF SeenInv
      <3>2. /\ received[x] \in Seq(Nat) /\ queue[x] \in Seq(Nat)
            /\ \A n \in 1..Len(received[x]) : received[x][n] = n
            /\ \A n \in 1..Len(queue[x]) : queue[x][n] = Len(received[x]) + n
        BY <3>1, SeenFacts DEF Numbered
      <3>3. /\ \A n \in 1..Len(received'[x]) : received'[x][n] = n
            /\ \A n \in 1..Len(queue'[x]) : queue'[x][n] = Len(received'[x]) + n
            /\ Len(received'[x]) + Len(queue'[x]) = Len(received[x]) + Len(queue[x])
        <4> DEFINE r == received[x]
                   q == queue[x]
                   r2 == received'[x]
                   q2 == queue'[x]
        <4>1. r2 = Append(r, Head(q)) /\ q2 = Tail(q)
          BY <2>1
        <4>2. /\ r \in Seq(Nat) /\ q \in Seq(Nat) /\ q # <<>>
              /\ \A n \in 1..Len(r) : r[n] = n
              /\ \A n \in 1..Len(q) : q[n] = Len(r) + n
          BY <3>1, <3>2
        <4> HIDE DEF r, q, r2, q2
        <4>3. /\ \A n \in 1..Len(r2) : r2[n] = n
              /\ \A n \in 1..Len(q2) : q2[n] = Len(r2) + n
              /\ Len(r2) + Len(q2) = Len(r) + Len(q)
          BY ONLY <4>1, <4>2, TakenNumbers
        <4> QED
          BY <4>3 DEF r, q, r2, q2
      <3> QED
        BY <3>3 DEF Numbered, Seen
    <2>4. ASSUME ~closed, x \notin shut, NEW a \in Nat, NEW b \in Nat,
                 a = Seen(x), b = emitted[x]
          PROVE  a <= b /\ Run(x, a, b)'
      BY <1>1, <2>4, UnreadRuns DEF SeenInv
    <2> QED
      BY <1>1, <2>1, <2>2, <2>3, <2>4, SeenFacts, SessionSeen
  <1>4. CASE ~(x = s /\ queue[s] # <<>>)
    <2>1. /\ received'[x] = received[x] /\ queue'[x] = queue[x]
          /\ waiting'[x] = waiting[x] \/ queue'[x] = <<>>
      BY <1>2, <1>4 DEF NextEvent
    <2>2. ASSUME ~closed, x \notin shut PROVE Numbered(x)' /\ Seen(x)' = Seen(x)
      BY <2>1, <2>2 DEF SeenInv, Numbered, Seen
    <2>3. ASSUME ~closed, x \notin shut, NEW a \in Nat, NEW b \in Nat,
                 a = Seen(x), b = emitted[x]
          PROVE  a <= b /\ Run(x, a, b)'
      BY <1>1, <2>3, UnreadRuns DEF SeenInv
    <2>4. waiting'[x] > 0 => queue'[x] = <<>>
      BY <2>1 DEF SeenInv
    <2> QED
      BY <1>1, <2>2, <2>3, <2>4, SeenFacts, SessionSeen
  <1> QED
    BY <1>3, <1>4

\* The numbers that follow d.
CountsFrom(q, d) == \A n \in 1..Len(q) : q[n] = d + n

\* An event is added to what a reader has, or to the queue.
LEMMA AddedNumbers ==
  ASSUME NEW q \in Seq(Nat), NEW d \in Nat, NEW k \in Nat, k = d + Len(q) + 1,
         CountsFrom(q, d)
  PROVE  CountsFrom(Append(q, k), d) /\ d + Len(Append(q, k)) = k
  <1> DEFINE q2 == Append(q, k)
  <1>1. Len(q) \in Nat /\ Len(q2) = Len(q) + 1
    OBVIOUS
  <1>2. \A n \in 1..Len(q2) : q2[n] = IF n <= Len(q) THEN q[n] ELSE k
    BY <1>1
  <1> HIDE DEF q2
  <1>3. ASSUME NEW n \in 1..Len(q2) PROVE q2[n] = d + n
    <2>1. CASE n <= Len(q)
      BY <1>1, <1>2, <2>1 DEF CountsFrom
    <2>2. CASE ~(n <= Len(q))
      <3>1. n = Len(q) + 1
        BY <1>1, <2>2
      <3> QED
        BY <1>1, <1>2, <2>2, <3>1
    <2> QED
      BY <2>1, <2>2
  <1>4. d + Len(q2) = k
    BY <1>1
  <1> QED
    BY <1>3, <1>4 DEF q2, CountsFrom

LEMMA EventKeepsSeen ==
  ASSUME TimedInv, BridgeInv, SeenInv, stdout # <<>>, stdout' = Tail(stdout),
         Head(stdout).kind = "event", HandleEvent(Head(stdout).session, Head(stdout).n),
         UNCHANGED <<closed, shut, emitted>>
  PROVE  SeenInv'
  <1>1. Head(stdout) \in Lines /\ Head(stdout) = stdout[1] /\ 1 \in 1..Len(stdout)
    BY ReadShrinks DEF BridgeInv
  <1>2. Head(stdout).session \in Sessions /\ Head(stdout).n \in Nat
    <2>1. LineOK(Head(stdout))
      BY <1>1 DEF BridgeInv, PipeInv, LinesInv
    <2> QED
      BY <1>1, <2>1, BoundFacts DEF LineOK, Lines
  <1> SUFFICES ASSUME NEW s \in Sessions, s = Head(stdout).session,
                      NEW k \in Nat, k = Head(stdout).n
               PROVE  SeenInv'
    BY <1>2
  <1>3. HandleEvent(s, k)
    OBVIOUS
  <1>4. /\ queue \in [Sessions -> Seq(Nat)] /\ received \in [Sessions -> Seq(Nat)]
        /\ waiting \in [Sessions -> 0..MaxReaders]
    BY DEF BridgeInv, HostTypes
  <1> SUFFICES ASSUME NEW x \in Sessions
               PROVE  /\ waiting'[x] > 0 => queue'[x] = <<>>
                      /\ ~closed' /\ x \notin shut' =>
                           Numbered(x)' /\ Seen(x)' <= emitted'[x]
                           /\ Run(x, Seen(x), emitted[x])'
    BY DEF SeenInv
  <1>5. CASE x # s
    <2>1. received'[x] = received[x] /\ queue'[x] = queue[x] /\ waiting'[x] = waiting[x]
      BY <1>3, <1>4, <1>5 DEF HandleEvent
    <2>2. ~IsEvent(Head(stdout), x)
      BY <1>5 DEF IsEvent
    <2>3. ASSUME ~closed, x \notin shut PROVE Numbered(x)' /\ Seen(x)' = Seen(x)
      BY <2>1, <2>3 DEF SeenInv, Numbered, Seen
    <2>4. ASSUME ~closed, x \notin shut, NEW a \in Nat, NEW b \in Nat,
                 a = Seen(x), b = emitted[x]
          PROVE  a <= b /\ Run(x, a, b)'
      BY <2>2, <2>4, ReadRuns DEF SeenInv
    <2>5. waiting'[x] > 0 => queue'[x] = <<>>
      BY <2>1 DEF SeenInv
    <2> QED
      BY <2>3, <2>4, <2>5, SeenFacts, SessionSeen
  <1>6. CASE x = s
    <2>1. \/ /\ waiting[x] > 0 /\ received'[x] = Append(received[x], k) /\ queue'[x] = queue[x]
          \/ /\ ~(waiting[x] > 0) /\ queue'[x] = Append(queue[x], k)
             /\ received'[x] = received[x] /\ waiting'[x] = waiting[x]
      BY <1>3, <1>4, <1>6 DEF HandleEvent
    <2>2. IsEvent(Head(stdout), x)
      BY <1>6 DEF IsEvent
    <2>3. waiting'[x] > 0 => queue'[x] = <<>>
      BY <2>1 DEF SeenInv
    <2>4. ASSUME ~closed, x \notin shut, NEW a \in Nat, NEW b \in Nat,
                 a = Seen(x), b = emitted[x]
          PROVE  k = a + 1 /\ a + 1 <= b /\ Run(x, a + 1, b)'
      <3>1. Run(x, a, b)
        BY <2>4 DEF SeenInv
      <3> QED
        BY <2>2, <3>1, ReadRuns
    <2>5. ASSUME ~closed, x \notin shut PROVE Numbered(x)' /\ Seen(x)' = k
      <3> DEFINE r == received[x]
                 q == queue[x]
      <3>1. /\ r \in Seq(Nat) /\ q \in Seq(Nat)
            /\ \A n \in 1..Len(r) : r[n] = n
            /\ \A n \in 1..Len(q) : q[n] = Len(r) + n
        BY <2>5, SeenFacts DEF SeenInv, Numbered
      <3>2. k = Len(r) + Len(q) + 1
        BY <2>4, <2>5, SeenFacts DEF Seen
      <3>3. waiting[x] > 0 => q = <<>>
        BY DEF SeenInv
      <3> DEFINE r2 == Append(r, k)
                 q2 == Append(q, k)
      <3>4. /\ k \in Nat /\ r2 = Append(r, k) /\ q2 = Append(q, k)
            /\ Len(r) \in Nat /\ 0 \in Nat
        BY <3>1
      <3> HIDE DEF r, q, r2, q2
      <3>5. CASE waiting[x] > 0
        <4>1. received'[x] = r2 /\ queue'[x] = q /\ q = <<>>
          BY <2>1, <3>3, <3>5 DEF r, q, r2
        <4>2. Len(q) = 0
          BY <4>1
        <4>3. k = 0 + Len(r) + 1 /\ CountsFrom(r, 0)
          BY <3>1, <3>2, <3>4, <4>2 DEF CountsFrom
        <4>4. CountsFrom(r2, 0) /\ 0 + Len(r2) = k
          BY ONLY <3>1, <3>4, <4>3, AddedNumbers
        <4>5. r2 \in Seq(Nat) /\ Len(r2) \in Nat
          BY <3>1, <3>4
        <4>6. (\A n \in 1..Len(r2) : r2[n] = n) /\ Len(r2) + Len(q) = k
          BY <4>2, <4>4, <4>5 DEF CountsFrom
        <4> QED
          BY <4>1, <4>2, <4>6 DEF Numbered, Seen
      <3>6. CASE ~(waiting[x] > 0)
        <4>1. received'[x] = r /\ queue'[x] = q2
          BY <2>1, <3>6 DEF r, q, q2
        <4>2. k = Len(r) + Len(q) + 1 /\ CountsFrom(q, Len(r))
          BY <3>1, <3>2 DEF CountsFrom
        <4>3. CountsFrom(q2, Len(r)) /\ Len(r) + Len(q2) = k
          BY ONLY <3>1, <3>4, <4>2, AddedNumbers
        <4> QED
          BY <3>1, <4>1, <4>3 DEF Numbered, Seen, CountsFrom
      <3> QED
        BY <3>5, <3>6
    <2>6. ASSUME ~closed, x \notin shut
          PROVE  Numbered(x)' /\ Seen(x)' <= emitted'[x] /\ Run(x, Seen(x), emitted[x])'
      <3>1. PICK b \in Nat : b = emitted[x]
        BY SeenFacts
      <3>2. PICK a \in Nat : a = Seen(x)
        BY SeenFacts
      <3>3. k = a + 1 /\ k <= b /\ Run(x, k, b)'
        BY <2>4, <2>6, <3>1, <3>2
      <3> QED
        BY <2>5, <2>6, <3>1, <3>3, SessionSeen
    <2> QED
      BY <2>3, <2>6
  <1> QED
    BY <1>5, <1>6

\* FailAll dismisses the readers, and goes with the end of the transport.
LEMMA FailKeepsSeen ==
  ASSUME BridgeInv, SeenInv, FailAll, closed' = TRUE
  PROVE  SeenInv'
  BY DEF FailAll, SeenInv

LEMMA LineKeepsSeen ==
  ASSUME TimedInv, BridgeInv, SeenInv, HandleLine
  PROVE  SeenInv'
  <1> DEFINE line == Head(stdout)
  <1>1. stdout # <<>> /\ stdout' = Tail(stdout) /\ UNCHANGED emitted
    BY DEF HandleLine
  <1>2. CASE line.kind = "event"
    BY <1>1, <1>2, EventKeepsSeen DEF HandleLine
  <1>3. CASE closed' = TRUE /\ FailAll
    BY <1>3, FailKeepsSeen
  <1>4. ASSUME line.kind # "event", UNCHANGED eventVars, closed => closed' PROVE SeenInv'
    <2>1. UNCHANGED <<queue, waiting, received, shut>>
      BY <1>4 DEF eventVars
    <2>2. ASSUME NEW s \in Sessions, NEW a \in Nat, NEW b \in Nat, Run(s, a, b)
          PROVE  Run(s, a, b)'
      <3>1. ~IsEvent(Head(stdout), s)
        BY <1>4 DEF IsEvent
      <3> QED
        BY <1>1, <2>2, <3>1, ReadRuns
    <2> QED
      BY <1>1, <1>4, <2>1, <2>2, SeenKept
  <1>5. \/ line.kind = "event"
        \/ closed' = TRUE /\ FailAll
        \/ line.kind # "event" /\ UNCHANGED eventVars /\ (closed => closed')
    BY DEF HandleLine
  <1> QED
    BY <1>2, <1>3, <1>4, <1>5

LEMMA QuietKeepsSeen ==
  ASSUME BridgeInv, SeenInv, closed => closed', UNCHANGED <<eventVars, stdout, emitted>>
  PROVE  SeenInv'
  <1>1. UNCHANGED <<queue, waiting, received, shut>>
    BY DEF eventVars
  <1>2. \A s \in Sessions, a, b \in Nat : Run(s, a, b) => Run(s, a, b)'
    BY UnreadRuns
  <1> QED
    BY <1>1, <1>2, SeenKept

LEMMA HostKeepsSeen ==
  ASSUME TimedInv, BridgeInv, SeenInv, HostStep
  PROVE  SeenInv'
  <1>1. ASSUME NEW m, NEW s, Request(m, s)
        PROVE  UNCHANGED <<closed, stdout, emitted>>
    BY <1>1 DEF Request
  <1>2. ASSUME NEW m \in Methods, Call(m) PROVE SeenInv'
    BY <1>1, <1>2, QuietKeepsSeen DEF Call
  <1>3. ASSUME NEW m \in Methods, NEW s \in Sessions, SessionCall(m, s) PROVE SeenInv'
    BY <1>1, <1>3, QuietKeepsSeen DEF SessionCall
  <1>4. ASSUME NEW r \in Requests, Timeout(r) \/ WriteFails(r) PROVE SeenInv'
    BY <1>4, QuietKeepsSeen DEF Timeout, WriteFails, daemonVars
  <1>5. ASSUME NEW r \in Requests, NEW approved \in BOOLEAN, LoadResumes(r, approved)
        PROVE  SeenInv'
    <2>1. UNCHANGED <<closed, stdout, emitted, eventVars>>
      BY <1>1, <1>5 DEF LoadResumes, daemonVars
    <2> QED
      BY <2>1, QuietKeepsSeen
  <1>6. ASSUME NEW r \in Requests, OpenFallsBack(r) PROVE SeenInv'
    BY <1>1, <1>6, QuietKeepsSeen DEF OpenFallsBack
  <1>7. ASSUME NEW r \in Requests, OpenResumes(r) \/ CloseResumes(r) PROVE SeenInv'
    <2>1. /\ UNCHANGED <<closed, received, daemonVars>> /\ shut \subseteq shut'
          /\ UNCHANGED <<stdout, emitted>>
      BY <1>7 DEF OpenResumes, CloseResumes, daemonVars
    <2>2. /\ \A s \in Sessions : \/ waiting'[s] = 0
                                 \/ waiting'[s] = waiting[s] /\ queue'[s] = queue[s]
          /\ \A s \in Sessions : s \notin shut' => queue'[s] = queue[s]
      BY <1>7 DEF OpenResumes, CloseResumes, BridgeInv, HostTypes
    <2>3. \A s \in Sessions, a, b \in Nat : Run(s, a, b) => Run(s, a, b)'
      BY <2>1, UnreadRuns
    <2> QED
      BY <2>1, <2>2, <2>3, SeenKept
  <1>8. ASSUME ChildClose \/ Dispose PROVE SeenInv'
    BY <1>8, FailKeepsSeen DEF ChildClose, Dispose
  <1> QED
    BY <1>2, <1>3, <1>4, <1>5, <1>6, <1>7, <1>8, LineKeepsSeen, NextEventKeepsSeen
       DEF HostStep, CallerStep

\* Lines without an event.
LEMMA OtherLinesKeepSeen ==
  ASSUME BridgeInv, SeenInv, NEW lines \in Seq(Lines), Printing(lines), UNCHANGED emitted,
         \A k \in 1..Len(lines) : lines[k].kind # "event"
  PROVE  SeenInv'
  <1>1. UNCHANGED <<closed, queue, waiting, received, shut>> /\ stdout' = stdout \o lines
    BY DEF Printing, eventVars
  <1>2. \A s \in Sessions, a, b \in Nat : Run(s, a, b) => Run(s, a, b)'
    BY <1>1, PrintedRuns DEF IsEvent
  <1> QED
    BY <1>1, <1>2, SeenKept

LEMMA ServesKeepsSeen ==
  ASSUME TimedInv, BridgeInv, SeenInv, NEW s \in Sessions, NEW more \in BOOLEAN,
         DaemonServes(s, more)
  PROVE  SeenInv'
  <1>1. /\ DaemonTakes /\ Head(stdin) # PolicyRequest
        /\ emitted' = [emitted EXCEPT ![s] = IF more THEN @ + 1 ELSE @]
    BY DEF DaemonServes
  <1> SUFFICES ASSUME NEW r \in Requests, r = Head(stdin)
               PROVE  SeenInv'
    BY <1>1, TakenFacts
  <1>2. emitted \in [Sessions -> Nat] /\ emitted[s] \in Nat
    BY DEF BridgeInv, DaemonTypes
  <1> SUFFICES ASSUME NEW n \in Nat, n = emitted[s] + 1
               PROVE  SeenInv'
    BY <1>2
  <1>3. Printing(<<Result(r, s)>> \o (IF more THEN <<Event(s, n)>> ELSE <<>>))
    BY DEF DaemonServes
  <1> SUFFICES ASSUME NEW lines,
                      lines = <<Result(r, s)>> \o (IF more THEN <<Event(s, n)>> ELSE <<>>),
                      Printing(lines)
               PROVE  SeenInv'
    BY <1>3
  <1>4. /\ lines \in Seq(Lines) /\ Len(lines) = IF more THEN 2 ELSE 1
        /\ lines[1] = Result(r, s) /\ (more => lines[2] = Event(s, n))
    BY ServedLines
  <1>5. lines[1].kind = "result" /\ Len(lines) \in {1, 2} /\ (~more => Len(lines) = 1)
    BY <1>4, ResultFields
  <1>6. more => /\ Len(lines) = 2 /\ lines[2].kind = "event" /\ lines[2].session = s
                /\ lines[2].n = n
    BY <1>4, EventFields
  <1>7. CASE ~more
    <2>1. \A k \in 1..Len(lines) : lines[k].kind # "event"
      BY <1>5, <1>7
    <2>2. UNCHANGED emitted
      BY <1>1, <1>2, <1>7
    <2> QED
      BY <1>4, <2>1, <2>2, OtherLinesKeepSeen
  <1>8. CASE more
    <2>1. UNCHANGED <<closed, queue, waiting, received, shut>> /\ stdout' = stdout \o lines
      BY DEF Printing, eventVars
    <2>2. emitted'[s] = n /\ \A x \in Sessions \ {s} : emitted'[x] = emitted[x]
      BY <1>1, <1>2, <1>8
    <2> SUFFICES ASSUME NEW x \in Sessions
                 PROVE  /\ waiting'[x] > 0 => queue'[x] = <<>>
                        /\ ~closed' /\ x \notin shut' =>
                             Numbered(x)' /\ Seen(x)' <= emitted'[x]
                             /\ Run(x, Seen(x), emitted[x])'
      BY DEF SeenInv
    <2>3. waiting'[x] > 0 => queue'[x] = <<>>
      BY <2>1 DEF SeenInv
    <2>4. ASSUME ~closed, x \notin shut PROVE Numbered(x)' /\ Seen(x)' = Seen(x)
      BY <2>1, <2>4 DEF SeenInv, Numbered, Seen
    <2>5. ASSUME ~closed, x \notin shut, NEW a \in Nat, NEW b \in Nat,
                 a = Seen(x), b = emitted[x]
          PROVE  a <= b /\ Run(x, a, b)
      BY <2>5 DEF SeenInv
    <2>6. ASSUME ~closed, x \notin shut
          PROVE  Numbered(x)' /\ Seen(x)' <= emitted'[x] /\ Run(x, Seen(x), emitted[x])'
      <3>1. PICK b \in Nat : b = emitted[x]
        BY SeenFacts
      <3>2. PICK a \in Nat : a = Seen(x)
        BY SeenFacts
      <3>3. a <= b /\ Run(x, a, b) /\ Numbered(x)' /\ Seen(x)' = a
        BY <2>4, <2>5, <2>6, <3>1, <3>2
      <3>4. CASE x = s
        <4>1. n = b + 1 /\ a <= n /\ emitted'[x] = n
          BY <2>2, <3>1, <3>3, <3>4
        <4>2. /\ 2 \in 1..Len(lines) /\ IsEvent(lines[2], x) /\ lines[2].n = b + 1
              /\ \A k \in 1..Len(lines) : k # 2 => ~IsEvent(lines[k], x)
          BY <1>5, <1>6, <1>8, <3>4, <4>1 DEF IsEvent
        <4>3. Run(x, a, b + 1)'
          <5>1. \E m \in 1..Len(lines) :
                  /\ a <= b /\ IsEvent(lines[m], x) /\ lines[m].n = b + 1
                  /\ \A k \in 1..Len(lines) : k # m => ~IsEvent(lines[k], x)
            BY <3>3, <4>2
          <5>2. lines \in Seq(Lines) /\ stdout' = stdout \o lines /\ Run(x, a, b)
            BY <1>4, <2>1, <3>3
          <5> QED
            BY <5>1, <5>2, PrintedRuns
        <4>4. Run(x, a, n)'
          BY <4>1, <4>3 DEF Run
        <4> QED
          BY <3>3, <4>1, <4>4, SessionSeen
      <3>5. CASE x # s
        <4>1. \A k \in 1..Len(lines) : ~IsEvent(lines[k], x)
          BY <1>5, <1>6, <1>8, <3>5 DEF IsEvent
        <4>2. Run(x, a, b)'
          BY <1>4, <2>1, <3>3, <4>1, PrintedRuns
        <4>3. emitted'[x] = b
          BY <2>2, <3>1, <3>5
        <4> QED
          BY <3>3, <4>2, <4>3, SessionSeen
      <3> QED
        BY <3>4, <3>5
    <2> QED
      BY <2>1, <2>3, <2>6
  <1> QED
    BY <1>7, <1>8

LEMMA DaemonKeepsSeen ==
  ASSUME TimedInv, BridgeInv, SeenInv, DaemonStep
  PROVE  SeenInv'
  <1>1. ASSUME NEW line \in Lines, line.kind # "event", Printing(<<line>>), UNCHANGED emitted
        PROVE  SeenInv'
    <2> SUFFICES ASSUME NEW lines, lines = <<line>>, Printing(lines) PROVE SeenInv'
      BY <1>1
    <2>1. lines \in Seq(Lines) /\ Len(lines) = 1 /\ lines[1] = line
      BY OneLine
    <2>2. \A k \in 1..Len(lines) : lines[k].kind # "event"
      BY <1>1, <2>1
    <2> QED
      BY <1>1, <2>1, <2>2, OtherLinesKeepSeen
  <1>2. ASSUME DaemonAnswers PROVE SeenInv'
    <2>1. UNCHANGED emitted /\ Head(stdin) \in Requests \cup {PolicyRequest}
      BY <1>2, TakenFacts DEF DaemonAnswers
    <2> SUFFICES ASSUME NEW r \in Requests \cup {PolicyRequest}, NEW lines \in Plain(r),
                        Printing(lines)
                 PROVE  SeenInv'
      BY <1>2, <2>1 DEF DaemonAnswers
    <2>2. lines \in Seq(Lines) /\ \A k \in 1..Len(lines) : lines[k].kind # "event"
      BY PlainLines
    <2> QED
      BY <2>1, <2>2, OtherLinesKeepSeen
  <1>3. ASSUME DaemonAccepts PROVE SeenInv'
    <2>1. /\ UNCHANGED emitted /\ <<>> \in Seq(Lines) /\ Len(<<>>) = 0
          /\ Printing(<<>>) /\ \A k \in 1..Len(<<>>) : FALSE
      BY <1>3 DEF DaemonAccepts
    <2> QED
      BY <2>1, OtherLinesKeepSeen
  <1>4. ASSUME DaemonMarks PROVE SeenInv'
    <2>1. due \in Requests /\ UNCHANGED emitted /\ Printing(<<Marker(due)>>)
      BY <1>4 DEF DaemonMarks, BridgeInv, DaemonTypes
    <2>2. Marker(due) \in Lines /\ Marker(due).kind = "marker"
      BY <2>1, LineFacts DEF Marker, Response
    <2> QED
      BY <1>1, <2>1, <2>2
  <1>5. ASSUME NEW r \in Requests, WorkerAnswers(r) PROVE SeenInv'
    <2> SUFFICES ASSUME NEW line \in {Result(r, None), Refusal(r, "runtime_error")},
                        Printing(<<line>>)
                 PROVE  SeenInv'
      BY <1>5 DEF WorkerAnswers
    <2>1. line \in Lines
      BY LineFacts
    <2>2. line.kind # "event"
      BY ResultFields, RefusalFields
    <2> QED
      BY <1>1, <1>5, <2>1, <2>2 DEF WorkerAnswers
  <1>6. ASSUME DaemonPrintsGarbage PROVE SeenInv'
    <2>1. Garbage \in Lines /\ Garbage.kind = "garbage"
      BY LineFacts DEF Garbage
    <2> QED
      BY <1>1, <1>6, <2>1 DEF DaemonPrintsGarbage
  <1>7. ASSUME DaemonExits PROVE SeenInv'
    BY <1>7, QuietKeepsSeen DEF DaemonExits
  <1> QED
    BY <1>2, <1>3, <1>4, <1>5, <1>6, <1>7, ServesKeepsSeen DEF DaemonStep

LEMMA InitSeen == Init => SeenInv
  <1> SUFFICES ASSUME Init, NEW s \in Sessions
               PROVE  /\ waiting[s] > 0 => queue[s] = <<>>
                      /\ Numbered(s) /\ Seen(s) <= emitted[s] /\ Run(s, Seen(s), emitted[s])
    BY DEF SeenInv
  <1>1. /\ waiting[s] = 0 /\ queue[s] = <<>> /\ received[s] = <<>> /\ emitted[s] = 0
        /\ stdout = <<>>
    BY DEF Init
  <1>2. Len(queue[s]) = 0 /\ Len(received[s]) = 0 /\ Len(stdout) = 0
    BY <1>1
  <1>3. Seen(s) = 0 /\ Numbered(s)
    BY <1>2 DEF Seen, Numbered
  <1>4. Run(s, 0, 0)
    BY <1>2 DEF Run
  <1> QED
    BY <1>1, <1>3, <1>4 DEF Run

\* SeenInv holds in every state of the bridge.
THEOREM SeenInductive == Spec => []SeenInv
  <1>1. TimedInv /\ BridgeInv /\ SeenInv /\ [Next]_vars => SeenInv'
    <2>1. ASSUME BridgeInv, SeenInv, UNCHANGED vars PROVE SeenInv'
      BY <2>1, QuietKeepsSeen DEF vars, daemonVars
    <2> QED
      BY <2>1, HostKeepsSeen, DaemonKeepsSeen DEF Next
  <1> QED
    BY InitSeen, TimedInductive, BridgeInductive, <1>1, PTL DEF Spec

\* While the transport is open, the readers of a session and its queue hold the first
\* events the daemon printed for it, each once and in order, and its output pipe the rest;
\* nobody waits while an event is queued (handleLine, nextSessionEvent).
THEOREM EventsComeInOrder == Spec => []EventsInOrder
  <1>1. BridgeInv /\ SeenInv => EventsInOrder
    <2> SUFFICES ASSUME BridgeInv, SeenInv, NEW s \in Sessions, ~closed, s \notin shut
                 PROVE  LET seen == received[s] \o queue[s]
                        IN  /\ \A n \in DOMAIN seen : seen[n] = n
                            /\ {stdout[i].n : i \in InPipe(s)} = Len(seen) + 1..emitted[s]
                            /\ \A i, j \in InPipe(s) : i < j => stdout[i].n < stdout[j].n
      BY DEF EventsInOrder, SeenInv
    <2> DEFINE r == received[s]
               q == queue[s]
               seen == r \o q
    <2>1. Numbered(s) /\ Run(s, Seen(s), emitted[s])
      BY DEF SeenInv
    <2>2. /\ r \in Seq(Nat) /\ q \in Seq(Nat)
          /\ \A n \in 1..Len(r) : r[n] = n
          /\ \A n \in 1..Len(q) : q[n] = Len(r) + n
      BY <2>1, SeenFacts DEF Numbered
    <2>3. Len(seen) = Seen(s)
      BY <2>2 DEF Seen
    <2>4. \A n \in DOMAIN seen : seen[n] = n
      <3> HIDE DEF r, q
      <3>1. /\ Len(r) \in Nat /\ Len(q) \in Nat /\ Len(seen) = Len(r) + Len(q)
            /\ DOMAIN seen = 1..Len(seen)
        BY <2>2
      <3>2. \A n \in DOMAIN seen : seen[n] = IF n <= Len(r) THEN r[n] ELSE q[n - Len(r)]
        BY <2>2, <3>1
      <3> HIDE DEF seen
      <3> TAKE n \in DOMAIN seen
      <3>3. CASE n <= Len(r)
        BY <2>2, <3>1, <3>2, <3>3
      <3>4. CASE ~(n <= Len(r))
        <4>1. n - Len(r) \in 1..Len(q)
          BY <3>1, <3>4
        <4>2. q[n - Len(r)] = Len(r) + (n - Len(r))
          BY <2>2, <4>1
        <4> QED
          BY <3>1, <3>2, <3>4, <4>2
      <3> QED
        BY <3>3, <3>4
    <2>5. InPipe(s) = {i \in 1..Len(stdout) : IsEvent(stdout[i], s)}
      BY DEF InPipe, IsEvent, BridgeInv, DaemonTypes
    <2>6. {stdout[i].n : i \in InPipe(s)} = Seen(s) + 1..emitted[s]
      BY <2>1, <2>5 DEF Run
    <2>7. \A i, j \in InPipe(s) : i < j => stdout[i].n < stdout[j].n
      BY <2>1, <2>5 DEF Run
    <2> QED
      BY <2>3, <2>4, <2>6, <2>7
  <1> QED
    BY BridgeInductive, SeenInductive, <1>1, PTL

=============================================================================
