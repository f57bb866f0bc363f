------------------------- MODULE CommandKernelBridge -------------------------
(***************************************************************************)
(* The host's side of the daemon: CommandKernelBridge, its transport and   *)
(* its sessions (src/kernel/CommandKernelBridge.ts).                       *)
(*                                                                         *)
(* The host is one JavaScript thread: an action is what runs between two   *)
(* returns to the event loop, that is a call, one line of the daemon's     *)
(* output, a timer, the exit of the child, or what an async function does  *)
(* once the request it awaited is settled.  The daemon is the environment, *)
(* cut down to the order of what it prints: KernelScheduler and            *)
(* KernelSessions say how it gets there.  The bridge spawns it once.       *)
(***************************************************************************)
EXTENDS Naturals, Sequences, FiniteSets, SequencesExt

CONSTANTS
  MaxRequests,  \* bound: requests sent
  MaxSessions,  \* bound: sessions the daemon opens
  MaxEvents,    \* bound: events of a session
  MaxReaders    \* bound: readers that wait at a time

ASSUME BridgeAssumption ==
  /\ MaxRequests \in Nat /\ MaxSessions \in Nat /\ MaxEvents \in Nat
  /\ MaxReaders \in Nat

Requests == 1..MaxRequests     \* in the order sent
PolicyRequest == 0             \* kernel.policy.set, which nobody waits for
Sessions == 1..MaxSessions
None == 0

\* "send" stands for session.send and cancel.  Left out are activate, deactivate and
\* audit.query: invokes without a marker as far as the transport goes.
Methods == {"load", "invoke", "open", "send", "close"}

\* What a caller is told by a rejection: the message of the daemon's error, not its
\* code, or an error of the bridge itself.
Messages == {"none", "runtime_error", "exceeds_the_cap", "no_real_session",
             "bridge_error", "KERNEL_CONSENT_REQUIRED"}

\* Lines of the daemon's output.
Response(r, kind, message, s) ==
  [kind |-> kind, id |-> r, message |-> message, session |-> s, n |-> 0]
Result(r, s) == Response(r, "result", "none", s)
Refusal(r, message) == Response(r, "error", message, None)
Marker(r) == Response(r, "marker", "none", None)
Event(s, n) == [kind |-> "event", id |-> None, message |-> "none", session |-> s,
                n |-> n]
Garbage == [kind |-> "garbage", id |-> None, message |-> "none", session |-> None,
            n |-> 0]

VARIABLES
  sent,       \* number of requests sent
  call,       \* method and session of each request
  status,     \* of each request's promise; pending is where it is "waiting" or "async"
  timer,      \* the timer armed for each request
  answer,     \* the line or the error that settled each request
  resumed,    \* requests whose caller has gone on after they were settled
  loaded,     \* has a load succeeded (loadedManifests)?
  closed,     \* CommandKernelTransport.closed
  child,      \* the daemon process
  listening,  \* is the reader of its output open?
  queue,      \* sessionQueues
  waiting,    \* number of sessionWaiters of each session
  received,   \* events given to the readers of each session
  known,      \* sessions the host has a RemoteKernelSession of
  shut,       \* sessions whose RemoteKernelSession.closed is set
  stdin, stdout,  \* the daemon's pipes
  executing,  \* invokes the daemon has accepted and not answered
  due,        \* the request whose accepted marker the daemon thread prints next
  serving,    \* sessions open in the daemon
  opened,     \* number of sessions opened in the daemon
  emitted     \* number of events printed for each session

callVars == <<sent, call, status, timer, answer, resumed, loaded>>
eventVars == <<queue, waiting, received, known, shut>>
daemonVars == <<stdin, stdout, executing, due, serving, opened, emitted>>
vars == <<callVars, closed, child, listening, eventVars, daemonVars>>

Init ==
  /\ sent = 0
  /\ call = [r \in Requests |-> [method |-> "load", session |-> None]]
  /\ status = [r \in Requests |-> "unsent"]
  /\ timer = [r \in Requests |-> "none"]
  /\ answer = [r \in Requests |-> Result(None, None)]
  /\ resumed = {}
  /\ loaded = FALSE /\ closed = FALSE /\ listening = FALSE
  /\ child = "none"
  /\ queue = [s \in Sessions |-> <<>>]
  /\ waiting = [s \in Sessions |-> 0]
  /\ received = [s \in Sessions |-> <<>>]
  /\ known = {} /\ shut = {}
  /\ stdin = <<>> /\ stdout = <<>>
  /\ executing = {} /\ due = None /\ serving = {}
  /\ opened = 0
  /\ emitted = [s \in Sessions |-> 0]

Pending(r) == r \in Requests /\ status[r] \in {"waiting", "async"}
Settled(r) == status[r] \in {"resolved", "rejected"}
BridgeError(r) == Refusal(r, "bridge_error")

-----------------------------------------------------------------------------
(* Requests.                                                                *)

\* CommandKernelTransport.request on an open transport: the daemon is spawned on
\* first use and gets the policy before anything else.
Request(method, s) ==
  LET r == sent + 1 IN
  /\ ~closed
  /\ sent < MaxRequests
  /\ sent' = r
  /\ call' = [call EXCEPT ![r] = [method |-> method, session |-> s]]
  /\ status' = [status EXCEPT ![r] = "waiting"]
  /\ timer' = [timer EXCEPT ![r] = "request"]
  /\ child' = IF child = "none" THEN "running" ELSE child
  /\ listening' = (listening \/ child = "none")
  /\ stdin' = (IF child = "none" THEN <<PolicyRequest>> ELSE stdin) \o <<r>>
  /\ UNCHANGED <<answer, closed, stdout, executing, due, serving, opened, emitted>>

Call(method) ==
  /\ method \in {"load", "invoke", "open"}
  /\ Request(method, None)
  /\ UNCHANGED <<resumed, loaded, eventVars>>

\* send, cancel and close of a RemoteKernelSession; the host may close twice.
SessionCall(method, s) ==
  /\ method \in {"send", "close"}
  /\ s \in known \ shut
  /\ Request(method, s)
  /\ UNCHANGED <<resumed, loaded, eventVars>>

\* What settling r does to the promises: clearPending, then resolve or reject.
Settle(r, how, line) ==
  /\ status' = [status EXCEPT ![r] = how]
  /\ timer' = [timer EXCEPT ![r] = "none"]
  /\ answer' = [answer EXCEPT ![r] = line]

Timeout(r) ==
  /\ timer[r] # "none"
  /\ Settle(r, "rejected", BridgeError(r))
  /\ UNCHANGED <<sent, call, resumed, loaded, closed, child, listening,
                 eventVars, daemonVars>>

\* The write callback reports that the pipe of a dead daemon is broken.
WriteFails(r) ==
  /\ child = "exited"
  /\ Contains(stdin, r) /\ Pending(r)
  /\ Settle(r, "rejected", BridgeError(r))
  /\ UNCHANGED <<sent, call, resumed, loaded, closed, child, listening,
                 eventVars, daemonVars>>

\* Broken variant: the sessions' readers are rejected and the requests forgotten.
FailAllReaders ==
  /\ UNCHANGED <<status, timer, answer>>
  /\ waiting' = [s \in Sessions |-> 0]
  /\ queue' = [s \in Sessions |-> <<>>]

\* failAll: every request and every reader is rejected, and events that wait for a
\* reader are lost.
FailAll ==
  /\ status' = [r \in Requests |-> IF Pending(r) THEN "rejected" ELSE status[r]]
  /\ timer' = [r \in Requests |-> "none"]
  /\ answer' = [r \in Requests |-> IF Pending(r) THEN BridgeError(r) ELSE answer[r]]
  /\ waiting' = [s \in Sessions |-> 0]
  /\ queue' = [s \in Sessions |-> <<>>]

FailUnchanged == UNCHANGED <<sent, call, resumed, loaded, received, known, shut>>

\* What the daemon had in hand is gone with it; what it had printed can be read.
DaemonDies == /\ child' = "exited"
              /\ executing' = {} /\ due' = None /\ serving' = {}

\* The child's close event, once its output was read to the end or is not read.
ChildClose ==
  /\ child = "exited"
  /\ listening => stdout = <<>>
  /\ child' = "closed"
  /\ closed' = TRUE
  /\ FailAll
  /\ FailUnchanged
  /\ UNCHANGED <<listening, daemonVars>>

\* dispose; the kill of a running child takes effect at once.  That the manifests are
\* forgotten makes no difference: nothing is sent any more.
Dispose ==
  /\ closed' = TRUE
  /\ listening' = FALSE
  /\ IF child = "running" THEN DaemonDies
     ELSE UNCHANGED <<child, executing, due, serving>>
  /\ UNCHANGED <<stdin, stdout, opened, emitted>>
  /\ FailAll
  /\ FailUnchanged

-----------------------------------------------------------------------------
(* Lines from the daemon.                                                   *)

\* Broken variant: the accepted marker is taken for the answer.
HandleResponseAtOnce(line) ==
  IF ~Pending(line.id) THEN UNCHANGED <<status, timer, answer>>
  ELSE Settle(line.id, IF line.kind = "error" THEN "rejected" ELSE "resolved", line)

\* Broken variant: the marker stops the timer and no other is started.
HandleResponseUntimed(line) ==
  LET r == line.id IN
  IF ~Pending(r) THEN UNCHANGED <<status, timer, answer>>
  ELSE IF call[r].method = "invoke" /\ status[r] = "waiting" /\ line.kind = "marker"
    THEN /\ status' = [status EXCEPT ![r] = "async"]
         /\ timer' = [timer EXCEPT ![r] = "none"]
         /\ UNCHANGED answer
    ELSE Settle(r, IF line.kind = "error" THEN "rejected" ELSE "resolved", line)

\* A response nobody waits for is dropped, the first accepted marker of an invoke
\* exchanges its timer, and anything else settles the request.
HandleResponse(line) ==
  LET r == line.id IN
  IF ~Pending(r) THEN UNCHANGED <<status, timer, answer>>
  ELSE IF call[r].method = "invoke" /\ status[r] = "waiting" /\ line.kind = "marker"
    THEN /\ status' = [status EXCEPT ![r] = "async"]
         /\ timer' = [timer EXCEPT ![r] = "async"]
         /\ UNCHANGED answer
    ELSE Settle(r, IF line.kind = "error" THEN "rejected" ELSE "resolved", line)

\* Broken variant: an event is queued although a reader waits for it.
HandleEventQueued(s, n) ==
  /\ queue' = [queue EXCEPT ![s] = Append(@, n)]
  /\ UNCHANGED <<waiting, received>>

HandleEvent(s, n) ==
  IF waiting[s] > 0
    THEN /\ waiting' = [waiting EXCEPT ![s] = @ - 1]
         /\ received' = [received EXCEPT ![s] = Append(@, n)]
         /\ UNCHANGED queue
    ELSE /\ queue' = [queue EXCEPT ![s] = Append(@, n)]
         /\ UNCHANGED <<waiting, received>>

\* The next line, which closes the transport if it cannot be understood; the exit
\* that follows the kill then settles what is pending.
HandleLine ==
  /\ listening
  /\ stdout # <<>>
  /\ stdout' = Tail(stdout)
  /\ LET line == Head(stdout) IN
     \/ /\ line.kind \in {"result", "error", "marker"}
        /\ HandleResponse(line)
        /\ UNCHANGED <<closed, child, listening, eventVars, executing, due, serving>>
     \/ /\ line.kind = "event"
        /\ HandleEvent(line.session, line.n)
        /\ UNCHANGED <<status, timer, answer, closed, child, listening, known, shut,
                       executing, due, serving>>
     \/ /\ line.kind = "garbage"
        /\ closed' = TRUE
        /\ listening' = FALSE
        /\ IF child = "running"
             THEN /\ DaemonDies
                  /\ UNCHANGED <<status, timer, answer, eventVars>>
             ELSE /\ FailAll
                  /\ UNCHANGED <<child, executing, due, serving, received, known, shut>>
  /\ UNCHANGED <<sent, call, resumed, loaded, stdin, opened, emitted>>

-----------------------------------------------------------------------------
(* What callers do once a request of theirs is settled.                     *)

Resume(r) == r \in Requests \ resumed /\ Settled(r) /\ resumed' = resumed \cup {r}

Failure(r) == status[r] = "rejected"

\* load: onPolicyConsent is asked when the error's message contains its code, and an
\* approved load is sent again.  No message of the kernel contains a code: it never is.
LoadResumes(r, approved) ==
  LET consent == Failure(r) /\ answer[r].message = "KERNEL_CONSENT_REQUIRED" IN
  /\ Resume(r)
  /\ call[r].method = "load"
  /\ loaded' = (loaded \/ ~Failure(r))
  /\ IF consent /\ approved
       THEN Request("load", None)
       ELSE UNCHANGED <<sent, call, status, timer, answer, closed, child, listening,
                        daemonVars>>
  /\ UNCHANGED eventVars

\* Broken variant: any answer makes a session.
OpenResumesAnyway(r) ==
  /\ Resume(r)
  /\ call[r].method = "open"
  /\ known' = known \cup {answer[r].session}
  /\ UNCHANGED <<sent, call, status, timer, answer, loaded, closed, child,
                 listening, queue, waiting, received, shut, daemonVars>>

\* openSession of a capability without sessions: a plain invoke in its place, if the
\* extension was loaded through this bridge.
OpenFallsBack(r) ==
  /\ Resume(r)
  /\ call[r].method = "open" /\ Failure(r) /\ answer[r].message = "no_real_session"
  /\ loaded
  /\ Request("invoke", None)
  /\ UNCHANGED <<loaded, eventVars>>

\* A RemoteKernelSession is made for the id in the answer.
OpenResumes(r) ==
  /\ Resume(r)
  /\ call[r].method = "open" /\ ~Failure(r)
  /\ known' = known \cup {answer[r].session}
  /\ UNCHANGED <<sent, call, status, timer, answer, loaded, closed, child,
                 listening, queue, waiting, received, shut, daemonVars>>

\* Broken variant: readers of a closed session are forgotten.
CloseForgetsReaders(r) ==
  /\ Resume(r)
  /\ call[r].method = "close" /\ ~Failure(r)
  /\ queue' = [queue EXCEPT ![call[r].session] = <<>>]
  /\ shut' = shut \cup {call[r].session}
  /\ UNCHANGED <<sent, call, status, timer, answer, loaded, closed, child,
                 listening, waiting, received, known, daemonVars>>

\* close: clearSessionState, then the session refuses further operations.
CloseResumes(r) ==
  /\ Resume(r)
  /\ call[r].method = "close" /\ ~Failure(r)
  /\ queue' = [queue EXCEPT ![call[r].session] = <<>>]
  /\ waiting' = [waiting EXCEPT ![call[r].session] = 0]
  /\ shut' = shut \cup {call[r].session}
  /\ UNCHANGED <<sent, call, status, timer, answer, loaded, closed, child,
                 listening, received, known, daemonVars>>

-----------------------------------------------------------------------------
(* Readers of session events, who are not told that the transport is closed. *)

NextEvent(s) ==
  /\ s \in known \ shut
  /\ IF queue[s] # <<>>
       THEN /\ received' = [received EXCEPT ![s] = Append(@, Head(queue[s]))]
            /\ queue' = [queue EXCEPT ![s] = Tail(@)]
            /\ UNCHANGED waiting
       ELSE /\ waiting[s] < MaxReaders
            /\ waiting' = [waiting EXCEPT ![s] = @ + 1]
            /\ UNCHANGED <<queue, received>>
  /\ UNCHANGED <<callVars, closed, child, listening, known, shut, daemonVars>>

-----------------------------------------------------------------------------
(* The daemon: one request at a time, with workers that print the answers of
   accepted invokes whenever they have them.                                *)

Printing(lines) == /\ child = "running"
                   /\ stdout' = stdout \o lines
                   /\ UNCHANGED <<callVars, closed, child, listening, eventVars>>

\* What the daemon thread may print for a request of each kind.
Errors(r) == {<<Refusal(r, m)>> : m \in {"runtime_error"}
                \cup (IF call[r].method = "load" THEN {"exceeds_the_cap"} ELSE {})
                \cup (IF call[r].method = "open" THEN {"no_real_session"} ELSE {})}

Plain(r) == IF r = PolicyRequest THEN {<<Result(r, None)>>}
            ELSE IF call[r].method \in {"load", "invoke"}
              THEN {<<Result(r, None)>>} \cup Errors(r)
              ELSE Errors(r)

DaemonTakes == stdin # <<>> /\ due = None /\ stdin' = Tail(stdin)

DaemonAnswers ==
  /\ DaemonTakes
  /\ \E lines \in Plain(Head(stdin)) : Printing(lines)
  /\ UNCHANGED <<executing, due, serving, opened, emitted>>

\* An invoke is given to the pool: its worker may print before the daemon thread
\* prints the marker.
DaemonAccepts ==
  LET r == Head(stdin) IN
  /\ DaemonTakes
  /\ r # PolicyRequest /\ call[r].method = "invoke"
  /\ executing' = executing \cup {r}
  /\ due' = r
  /\ Printing(<<>>)
  /\ UNCHANGED <<serving, opened, emitted>>

DaemonMarks ==
  /\ due # None
  /\ due' = None
  /\ Printing(<<Marker(due)>>)
  /\ UNCHANGED <<stdin, executing, serving, opened, emitted>>

WorkerAnswers(r) ==
  /\ r \in executing
  /\ executing' = executing \ {r}
  /\ \E line \in {Result(r, None), Refusal(r, "runtime_error")} : Printing(<<line>>)
  /\ UNCHANGED <<stdin, due, serving, opened, emitted>>

\* A session operation succeeds: its answer, then the events it brought.
DaemonServes(s, more) ==
  LET r == Head(stdin)
      n == emitted[s]
  IN  /\ DaemonTakes
      /\ r # PolicyRequest
      /\ \/ /\ call[r].method = "open"
            /\ s = opened + 1
            /\ opened' = s
            /\ serving' = serving \cup {s}
         \/ /\ call[r].method = "send" /\ call[r].session = s /\ s \in serving
            /\ UNCHANGED <<serving, opened>>
         \/ /\ call[r].method = "close" /\ call[r].session = s /\ ~more
            /\ serving' = serving \ {s}
            /\ UNCHANGED opened
      /\ more => n < MaxEvents
      /\ emitted' = [emitted EXCEPT ![s] = IF more THEN @ + 1 ELSE @]
      /\ Printing(<<Result(r, s)>> \o (IF more THEN <<Event(s, n + 1)>> ELSE <<>>))
      /\ UNCHANGED <<executing, due>>

DaemonPrintsGarbage ==
  /\ Printing(<<Garbage>>)
  /\ ~Contains(stdout, Garbage)
  /\ UNCHANGED <<stdin, executing, due, serving, opened, emitted>>

DaemonExits ==
  /\ child = "running"
  /\ DaemonDies
  /\ UNCHANGED <<callVars, closed, listening, eventVars, stdin, stdout, opened, emitted>>

-----------------------------------------------------------------------------

CallerStep(r) == \/ \E approved \in BOOLEAN : LoadResumes(r, approved)
                 \/ OpenFallsBack(r)
                 \/ OpenResumes(r)
                 \/ CloseResumes(r)

HostStep == \/ \E method \in Methods : Call(method)
            \/ \E method \in Methods, s \in Sessions : SessionCall(method, s)
            \/ \E r \in Requests : CallerStep(r) \/ Timeout(r) \/ WriteFails(r)
            \/ \E s \in Sessions : NextEvent(s)
            \/ HandleLine
            \/ ChildClose
            \/ Dispose

DaemonStep == \/ DaemonAnswers
              \/ DaemonAccepts
              \/ DaemonMarks
              \/ \E r \in Requests : WorkerAnswers(r)
              \/ \E s \in Sessions, more \in BOOLEAN : DaemonServes(s, more)
              \/ DaemonPrintsGarbage
              \/ DaemonExits

Next == HostStep \/ DaemonStep

Spec == Init /\ [][Next]_vars

-----------------------------------------------------------------------------
(* Properties.                                                              *)

Lines == [kind : {"result", "error", "marker", "event", "garbage"},
          id : Requests \cup {None}, message : Messages,
          session : Sessions \cup {None}, n : Nat]

\* Type correctness.
TypeOK ==
  /\ sent \in 0..MaxRequests
  /\ call \in [Requests -> [method : Methods, session : Sessions \cup {None}]]
  /\ status \in [Requests -> {"unsent", "waiting", "async", "resolved", "rejected"}]
  /\ timer \in [Requests -> {"none", "request", "async"}]
  /\ answer \in [Requests -> Lines]
  /\ resumed \subseteq Requests
  /\ loaded \in BOOLEAN /\ closed \in BOOLEAN /\ listening \in BOOLEAN
  /\ child \in {"none", "running", "exited", "closed"}
  /\ \A s \in Sessions : waiting[s] \in 0..MaxReaders
  /\ known \subseteq 1..opened /\ shut \subseteq known /\ serving \subseteq 1..opened
  /\ opened \in 0..MaxSessions
  /\ executing \subseteq Requests /\ due \in Requests \cup {None}
  /\ \A i \in DOMAIN stdout : stdout[i] \in Lines

\* A caller gets the final answer to its own request: never the accepted marker, never
\* an answer that came late to a request that had timed out, and for an accepted
\* invoke what its worker printed, in whichever order marker and answer arrive.
AnswerIsFinal ==
  \A r \in Requests :
    status[r] = "resolved" => answer[r].kind = "result" /\ answer[r].id = r

\* No caller waits without a timer: the request's own until the daemon has accepted the
\* invoke, the longer one afterwards, so nothing the daemon does or omits can leave a
\* promise pending for good.
PendingIsTimed ==
  \A r \in Requests :
    /\ status[r] = "waiting" <=> timer[r] = "request"
    /\ status[r] = "async" <=> timer[r] = "async"

\* The end of the daemon settles every request at once: none is left to its timer, also
\* none that was sent, or sent again, while the daemon was going down.
ExitSettlesAll == child = "closed" => \A r \in Requests : ~Pending(r)

\* Where the events of a session are in what the daemon has printed.
InPipe(s) == {i \in DOMAIN stdout : stdout[i].kind = "event" /\ stdout[i].session = s}

\* As long as the transport is open the readers of a session get its events once, in
\* order and without a gap, also those that arrived before the host knew the session;
\* a reader never waits while an event is queued.
EventsInOrder ==
  \A s \in Sessions :
    /\ waiting[s] > 0 => queue[s] = <<>>
    /\ ~closed /\ s \notin shut =>
         LET seen == received[s] \o queue[s]
         IN  /\ \A n \in DOMAIN seen : seen[n] = n
             /\ {stdout[i].n : i \in InPipe(s)} = Len(seen) + 1..emitted[s]
             /\ \A i, j \in InPipe(s) : i < j => stdout[i].n < stdout[j].n

\* A closed session leaves no reader and no event behind, whatever was in flight when
\* it was closed, and however often.
ClosedLeavesNothing == \A s \in shut : waiting[s] = 0 /\ queue[s] = <<>>
=============================================================================
