--------------------------- MODULE KernelScheduler ---------------------------
(***************************************************************************)
(* The invoke scheduler of the Rust kernel in daemon mode                  *)
(* (rust/extensions-kernel/src/lib.rs, rust/extensionsd/src/main.rs).      *)
(*                                                                         *)
(* Threads: the daemon thread (reads one request line at a time and may    *)
(* block in it), the workers of every pool generation ever spawned, and    *)
(* the writer thread that moves sink envelopes to stdout.  They share the  *)
(* in-flight counter, the job channels, the sink and one mutex per plugin  *)
(* instance.  Only process plugins appear: a wasm plugin is never handed   *)
(* to the pool.  Audit and accounting records, which the scheduler writes  *)
(* and never reads, are left to other modules, and so are the bytes a call *)
(* exchanges with its plugin (ProcessChannel).                             *)
(***************************************************************************)
EXTENDS Naturals, Sequences, FiniteSets

CONSTANTS
  Extensions,   \* the loaded extensions, all with a process runtime
  MaxRequests,  \* bound: invokes the host sends
  Threads,      \* the asyncPoolThreads values a policy may carry
  Caps,         \* the queueCap values a policy may carry
  Hanging,      \* extensions whose plugin may stop answering while alive
  MaxHandles,   \* bound: plugin instances ever started
  MaxPools,     \* bound: pool generations ever spawned
  MaxControl    \* bound: control requests (policy, load, activate, deactivate)

ASSUME SchedulerAssumption ==
  /\ Extensions # {}
  /\ Threads \subseteq Nat
  /\ Caps \subseteq Nat /\ Caps # {}
  /\ MaxRequests \in Nat /\ MaxHandles \in Nat /\ MaxPools \in Nat
  /\ MaxControl \in Nat

\* Request ids are opaque and unique; they are numbered in the order sent.
Requests == 1..MaxRequests
NoRequest == 0
NoHandle == 0
Handles == 1..MaxHandles
Pools == 1..MaxPools
Slots == UNION {1..n : n \in Threads}
Workers == Pools \X Slots

\* Owners of a mutex: a worker, or one of these two.
Daemon == <<0, 0>>
Free == <<0, 1>>

VARIABLES
  policy,     \* [threads, cap]: the scheduler part of the host policy
  handle,     \* LoadedExtension.runtime_handle of each extension
  owner,      \* the extension each instance belongs to
  started,    \* number of instances started so far
  alive,      \* is the instance's child process running?
  holder,     \* who owns the instance's Mutex<RuntimeHandle>
  daemon,     \* the daemon thread: where it stands in which request
  in_flight,  \* in_flight_invokes
  pool,       \* generation of async_pool, 0 while it is None
  queue,      \* the job channel of each pool generation
  target,     \* AsyncInvokeJob.handle: the instance a job was given
  wpc, wjob,  \* each worker: where it stands, and its job
  sink,       \* envelopes on their way to the writer thread
  markers,    \* requests whose accepted marker is on stdout
  answers,    \* number of final responses on stdout for each request
  sent,       \* number of invokes the host has sent
  control     \* control requests sent so far

pluginVars == <<handle, owner, started, alive>>
workerVars == <<wpc, wjob>>
outputVars == <<sink, markers, answers>>
hostVars == <<policy, sent, control>>
vars == <<pluginVars, holder, daemon, in_flight, pool, queue, target,
          workerVars, outputVars, hostVars>>

Reading == [pc |-> "read", op |-> "none", req |-> NoRequest, h |-> NoHandle]

Init ==
  /\ policy \in [threads : {0}, cap : Caps]
  /\ handle = [e \in Extensions |-> NoHandle]
  /\ owner = [h \in Handles |-> CHOOSE e \in Extensions : TRUE]
  /\ started = 0
  /\ alive = [h \in Handles |-> FALSE]
  /\ holder = [h \in Handles |-> Free]
  /\ daemon = Reading
  /\ in_flight = 0
  /\ pool = 0
  /\ queue = [g \in Pools |-> <<>>]
  /\ target = [r \in Requests |-> NoHandle]
  /\ wpc = [w \in Workers |-> "none"]
  /\ wjob = [w \in Workers |-> NoRequest]
  /\ sink = <<>>
  /\ markers = {}
  /\ answers = [r \in Requests |-> 0]
  /\ sent = 0
  /\ control = 0

Running == daemon.pc # "exited"

-----------------------------------------------------------------------------
(* Control requests: the daemon thread alone, before it may have to wait.   *)

Control == /\ daemon.pc = "read"
           /\ control < MaxControl
           /\ control' = control + 1

\* kernel.policy.set replaces the policy; the pool follows at the next dispatch.
SetPolicy(n, c) ==
  /\ Control
  /\ policy' = [threads |-> n, cap |-> c]
  /\ UNCHANGED <<pluginVars, holder, daemon, in_flight, pool, queue, target,
                 workerVars, outputVars, sent>>

\* kernel.load of a loaded id drops the daemon's reference to the instance; the
\* jobs that cloned it keep theirs, and nothing stops the child process.
Reload(e) ==
  /\ Control
  /\ handle' = [handle EXCEPT ![e] = NoHandle]
  /\ UNCHANGED <<owner, started, alive, holder, daemon, in_flight, pool, queue,
                 target, workerVars, outputVars, policy, sent>>

\* kernel.activate starts an instance and calls it before anyone else can see it;
\* with an instance in place it answers true and does nothing.
Activate(e) ==
  /\ Control
  /\ IF handle[e] # NoHandle
       THEN UNCHANGED <<pluginVars, holder, daemon>>
       ELSE /\ started < MaxHandles
            /\ started' = started + 1
            /\ owner' = [owner EXCEPT ![started + 1] = e]
            /\ alive' = [alive EXCEPT ![started + 1] = TRUE]
            /\ holder' = [holder EXCEPT ![started + 1] = Daemon]
            /\ daemon' = [pc |-> "call", op |-> "activate", req |-> NoRequest,
                          h |-> started + 1]
            /\ UNCHANGED handle
  /\ UNCHANGED <<in_flight, pool, queue, target, workerVars, outputVars, policy,
                 sent>>

\* kernel.deactivate waits for the instance's mutex on the daemon thread.
Deactivate(e) ==
  /\ Control
  /\ daemon' = IF handle[e] = NoHandle THEN daemon
               ELSE [pc |-> "lock", op |-> "deactivate", req |-> NoRequest,
                     h |-> handle[e]]
  /\ UNCHANGED <<pluginVars, holder, in_flight, pool, queue, target, workerVars,
                 outputVars, policy, sent>>

-----------------------------------------------------------------------------
(* kernel.invoke on the daemon thread.                                      *)

NewInvoke(r) == /\ daemon.pc = "read"
                /\ r = sent + 1
                /\ sent' = r
                /\ UNCHANGED <<policy, control>>

Answering(r, kind) == [pc |-> "reply", op |-> kind, req |-> r, h |-> NoHandle]

\* extension is not active: an error envelope in both branches.
InvokeInactive(r, e) ==
  /\ NewInvoke(r)
  /\ handle[e] = NoHandle
  /\ daemon' = Answering(r, "final")
  /\ UNCHANGED <<pluginVars, holder, in_flight, pool, queue, target, workerVars,
                 outputVars>>

\* No scheduler in the policy: the daemon thread makes the call itself.
InvokeSync(r, e) ==
  /\ NewInvoke(r)
  /\ handle[e] # NoHandle
  /\ policy.threads = 0
  /\ daemon' = [pc |-> "lock", op |-> "invoke", req |-> r, h |-> handle[e]]
  /\ UNCHANGED <<pluginVars, holder, in_flight, pool, queue, target, workerVars,
                 outputVars>>

\* dispatch_invoke_async with every slot taken: KERNEL_BUSY.
InvokeBusy(r, e) ==
  /\ NewInvoke(r)
  /\ handle[e] # NoHandle
  /\ policy.threads > 0
  /\ in_flight >= policy.cap
  /\ daemon' = Answering(r, "final")
  /\ UNCHANGED <<pluginVars, holder, in_flight, pool, queue, target, workerVars,
                 outputVars>>

PoolSize(g) == Cardinality({i \in Slots : wpc[<<g, i>>] # "none"})

\* The pool is spawned on first use and replaced when the policy's thread count
\* differs; replacing it drops the sender of the old pool's channel.
EnsurePool ==
  IF pool # 0 /\ PoolSize(pool) = policy.threads
    THEN UNCHANGED <<pool, wpc>>
    ELSE /\ pool < MaxPools
         /\ pool' = pool + 1
         /\ wpc' = [w \in Workers |->
                      IF w[1] = pool + 1 /\ w[2] <= policy.threads
                        THEN "recv" ELSE wpc[w]]

\* Broken variant: the capacity check is off by one.
InvokeAsyncOverCap(r, e) ==
  /\ NewInvoke(r)
  /\ handle[e] # NoHandle
  /\ policy.threads > 0
  /\ in_flight <= policy.cap
  /\ EnsurePool
  /\ target' = [target EXCEPT ![r] = handle[e]]
  /\ daemon' = [pc |-> "reserve", op |-> "invoke", req |-> r, h |-> NoHandle]
  /\ UNCHANGED <<pluginVars, holder, in_flight, queue, wjob, outputVars>>

\* dispatch_invoke_async with a slot free: pool ensured, instance cloned.
InvokeAsync(r, e) ==
  /\ NewInvoke(r)
  /\ handle[e] # NoHandle
  /\ policy.threads > 0
  /\ in_flight < policy.cap
  /\ EnsurePool
  /\ target' = [target EXCEPT ![r] = handle[e]]
  /\ daemon' = [pc |-> "reserve", op |-> "invoke", req |-> r, h |-> NoHandle]
  /\ UNCHANGED <<pluginVars, holder, in_flight, queue, wjob, outputVars>>

\* The slot is taken before the job is visible to any worker.
Reserve ==
  /\ daemon.pc = "reserve"
  /\ in_flight' = in_flight + 1
  /\ daemon' = [daemon EXCEPT !.pc = "enqueue"]
  /\ UNCHANGED <<pluginVars, holder, pool, queue, target, workerVars, outputVars,
                 hostVars>>

\* Broken variant: the caller gets a final response instead of the accepted marker.
EnqueueAnswersAtOnce ==
  /\ daemon.pc = "enqueue"
  /\ queue' = [queue EXCEPT ![pool] = Append(@, daemon.req)]
  /\ daemon' = Answering(daemon.req, "final")
  /\ UNCHANGED <<pluginVars, holder, in_flight, pool, target, workerVars,
                 outputVars, hostVars>>

Enqueue ==
  /\ daemon.pc = "enqueue"
  /\ queue' = [queue EXCEPT ![pool] = Append(@, daemon.req)]
  /\ daemon' = Answering(daemon.req, "accepted")
  /\ UNCHANGED <<pluginVars, holder, in_flight, pool, target, workerVars,
                 outputVars, hostVars>>

\* main prints the handler's output line.
Reply ==
  /\ daemon.pc = "reply"
  /\ IF daemon.op = "accepted"
       THEN markers' = markers \cup {daemon.req} /\ UNCHANGED answers
       ELSE /\ answers' = [answers EXCEPT ![daemon.req] = @ + 1]
            /\ UNCHANGED markers
  /\ daemon' = Reading
  /\ UNCHANGED <<pluginVars, holder, in_flight, pool, queue, target, workerVars,
                 sink, hostVars>>

-----------------------------------------------------------------------------
(* Calls made by the daemon thread itself.                                  *)

Acquire(h, t) == holder[h] = Free /\ holder' = [holder EXCEPT ![h] = t]

DaemonLock ==
  /\ daemon.pc = "lock"
  /\ Acquire(daemon.h, Daemon)
  /\ daemon' = [daemon EXCEPT !.pc = "call"]
  /\ UNCHANGED <<pluginVars, in_flight, pool, queue, target, workerVars,
                 outputVars, hostVars>>

Exited == [pc |-> "exited", op |-> "none", req |-> NoRequest, h |-> NoHandle]

\* A call the plugin answers with a result.
DaemonCallOk ==
  /\ daemon.pc = "call"
  /\ alive[daemon.h]
  /\ holder' = [holder EXCEPT ![daemon.h] = Free]
  /\ \/ /\ daemon.op = "invoke"
        /\ daemon' = Answering(daemon.req, "final")
        /\ UNCHANGED <<handle, alive>>
     \/ /\ daemon.op = "activate"
        /\ handle' = [handle EXCEPT ![owner[daemon.h]] = daemon.h]
        /\ daemon' = Reading
        /\ UNCHANGED alive
     \/ /\ daemon.op = "deactivate"
        /\ alive' = [alive EXCEPT ![daemon.h] = FALSE]
        /\ daemon' = Reading
        /\ UNCHANGED handle
  /\ UNCHANGED <<owner, started, in_flight, pool, queue, target, workerVars,
                 outputVars, hostVars>>

\* A call that fails.  deactivate ignores the failure and kills the child.  For
\* the others a dead process is a fatal error (main calls exit), and an error the
\* plugin reports is fatal unless its text is on is_expected_runtime_error's list.
DaemonCallFails ==
  /\ daemon.pc = "call"
  /\ holder' = [holder EXCEPT ![daemon.h] = Free]
  /\ IF daemon.op = "deactivate"
       THEN /\ alive' = [alive EXCEPT ![daemon.h] = FALSE]
            /\ daemon' = Reading
       ELSE /\ UNCHANGED alive
            /\ \/ daemon' = Exited
               \/ /\ alive[daemon.h]
                  /\ daemon' = IF daemon.op = "invoke"
                                 THEN Answering(daemon.req, "final") ELSE Reading
  /\ UNCHANGED <<handle, owner, started, in_flight, pool, queue, target,
                 workerVars, outputVars, hostVars>>

\* The host closes stdin between requests: main returns, every thread ends.
HostCloses ==
  /\ daemon.pc = "read"
  /\ daemon' = Exited
  /\ UNCHANGED <<pluginVars, holder, in_flight, pool, queue, target, workerVars,
                 outputVars, hostVars>>

-----------------------------------------------------------------------------
(* Pool workers: the loop of AsyncPool::spawn and run_async_job.            *)

Step(w, from, to) == /\ Running
                     /\ wpc[w] = from
                     /\ wpc' = [wpc EXCEPT ![w] = to]

Receive(w) ==
  /\ Step(w, "recv", "lock")
  /\ queue[w[1]] # <<>>
  /\ wjob' = [wjob EXCEPT ![w] = Head(queue[w[1]])]
  /\ queue' = [queue EXCEPT ![w[1]] = Tail(@)]
  /\ UNCHANGED <<pluginVars, holder, daemon, in_flight, pool, target, outputVars,
                 hostVars>>

\* Broken variant: a worker of a replaced pool leaves without draining its channel.
QuitUndrained(w) ==
  /\ Step(w, "recv", "gone")
  /\ pool # w[1]
  /\ UNCHANGED <<pluginVars, holder, daemon, in_flight, pool, queue, target, wjob,
                 outputVars, hostVars>>

\* recv fails once the sender is gone and the channel is drained.
Quit(w) ==
  /\ Step(w, "recv", "gone")
  /\ queue[w[1]] = <<>>
  /\ pool # w[1]
  /\ UNCHANGED <<pluginVars, holder, daemon, in_flight, pool, queue, target, wjob,
                 outputVars, hostVars>>

\* Broken variant: the worker calls the plugin without taking its mutex.
LockSkipsMutex(w) ==
  /\ Step(w, "lock", "call")
  /\ UNCHANGED <<pluginVars, holder, daemon, in_flight, pool, queue, target, wjob,
                 outputVars, hostVars>>

Lock(w) ==
  /\ Step(w, "lock", "call")
  /\ Acquire(target[wjob[w]], w)
  /\ UNCHANGED <<pluginVars, daemon, in_flight, pool, queue, target, wjob,
                 outputVars, hostVars>>

\* Broken variant: a call that fails because the child is gone ends the job early.
ReturnDropsDeadCall(w) ==
  /\ Step(w, "call", IF alive[target[wjob[w]]] THEN "settle" ELSE "recv")
  /\ wjob' = IF alive[target[wjob[w]]] THEN wjob ELSE [wjob EXCEPT ![w] = NoRequest]
  /\ holder' = [holder EXCEPT ![target[wjob[w]]] = Free]
  /\ UNCHANGED <<pluginVars, daemon, in_flight, pool, queue, target, outputVars,
                 hostVars>>

\* request returns: a live plugin answered, with a result or an error, or the
\* child is gone.  Either way the worker goes on and drops its lock.
Return(w) ==
  /\ Step(w, "call", "settle")
  /\ holder' = [holder EXCEPT ![target[wjob[w]]] = Free]
  /\ UNCHANGED <<pluginVars, daemon, in_flight, pool, queue, target, wjob,
                 outputVars, hostVars>>

\* Broken variant: the slot is not given back.
SettleKeepsSlot(w) ==
  /\ Step(w, "settle", "deliver")
  /\ UNCHANGED <<pluginVars, holder, daemon, in_flight, pool, queue, target, wjob,
                 outputVars, hostVars>>

\* The slot is released before the response is delivered.
Settle(w) ==
  /\ Step(w, "settle", "deliver")
  /\ in_flight' = in_flight - 1
  /\ UNCHANGED <<pluginVars, holder, daemon, pool, queue, target, wjob, outputVars,
                 hostVars>>

\* Broken variant: the slot is given back a second time.
DeliverReleasesSlot(w) ==
  /\ Step(w, "deliver", "recv")
  /\ sink' = Append(sink, wjob[w])
  /\ wjob' = [wjob EXCEPT ![w] = NoRequest]
  /\ in_flight' = in_flight - 1
  /\ UNCHANGED <<pluginVars, holder, daemon, pool, queue, target, markers, answers,
                 hostVars>>

Deliver(w) ==
  /\ Step(w, "deliver", "recv")
  /\ sink' = Append(sink, wjob[w])
  /\ wjob' = [wjob EXCEPT ![w] = NoRequest]
  /\ UNCHANGED <<pluginVars, holder, daemon, in_flight, pool, queue, target,
                 markers, answers, hostVars>>

\* The writer thread of extensionsd.
Write ==
  /\ Running
  /\ sink # <<>>
  /\ answers' = [answers EXCEPT ![Head(sink)] = @ + 1]
  /\ sink' = Tail(sink)
  /\ UNCHANGED <<pluginVars, holder, daemon, in_flight, pool, queue, target,
                 workerVars, markers, hostVars>>

\* A plugin's child process dies on its own.
PluginDies(h) ==
  /\ Running
  /\ alive[h]
  /\ alive' = [alive EXCEPT ![h] = FALSE]
  /\ UNCHANGED <<handle, owner, started, holder, daemon, in_flight, pool, queue,
                 target, workerVars, outputVars, hostVars>>

-----------------------------------------------------------------------------

HostStep == \/ \E n \in Threads, c \in Caps : SetPolicy(n, c)
            \/ \E e \in Extensions : Reload(e) \/ Activate(e) \/ Deactivate(e)
            \/ \E r \in Requests, e \in Extensions :
                 \/ InvokeInactive(r, e)
                 \/ InvokeSync(r, e)
                 \/ InvokeBusy(r, e)
                 \/ InvokeAsync(r, e)
            \/ HostCloses

DaemonStep == Reserve \/ Enqueue \/ Reply \/ DaemonLock \/ DaemonCallOk
              \/ DaemonCallFails

WorkerStep(w) == Receive(w) \/ Quit(w) \/ Lock(w) \/ Return(w) \/ Settle(w)
                 \/ Deliver(w)

Terminated == ~Running /\ UNCHANGED vars

Next == \/ HostStep
        \/ DaemonStep
        \/ \E w \in Workers : WorkerStep(w)
        \/ Write
        \/ \E h \in Handles : PluginDies(h)
        \/ Terminated

\* A call on a live instance of an extension in Hanging may never return.
MayHang(h) == alive[h] /\ owner[h] \in Hanging

\* Every thread of the kernel keeps running, and a plugin outside Hanging
\* answers or dies.  The host owes nothing, so its steps carry no fairness.
Fairness ==
  /\ WF_vars(\/ Reserve \/ Enqueue \/ Reply \/ DaemonLock
             \/ (DaemonCallOk \/ DaemonCallFails) /\ ~MayHang(daemon.h))
  /\ \A w \in Workers :
       WF_vars(\/ Receive(w) \/ Lock(w) \/ Settle(w) \/ Deliver(w)
               \/ Return(w) /\ ~MayHang(target[wjob[w]]))
  /\ WF_vars(Write)

Spec == Init /\ [][Next]_vars /\ Fairness

-----------------------------------------------------------------------------
(* Properties.                                                              *)

Members(s) == {s[i] : i \in DOMAIN s}

\* Where the daemon thread may stand.
DaemonStates ==
  [pc : {"read", "reserve", "enqueue", "reply", "lock", "call", "exited"},
   op : {"none", "activate", "deactivate", "invoke", "accepted", "final"},
   req : Requests \cup {NoRequest},
   h : Handles \cup {NoHandle}]

\* Type correctness.
TypeOK ==
  /\ policy \in [threads : Threads \cup {0}, cap : Caps]
  /\ handle \in [Extensions -> Handles \cup {NoHandle}]
  /\ owner \in [Handles -> Extensions]
  /\ started \in 0..MaxHandles
  /\ alive \in [Handles -> BOOLEAN]
  /\ holder \in [Handles -> Workers \cup {Daemon, Free}]
  /\ daemon \in DaemonStates
  /\ in_flight \in Nat
  /\ pool \in Pools \cup {0}
  /\ queue \in [Pools -> Seq(Requests)]
  /\ target \in [Requests -> Handles \cup {NoHandle}]
  /\ wpc \in [Workers -> {"none", "recv", "lock", "call", "settle", "deliver",
                          "gone"}]
  /\ wjob \in [Workers -> Requests \cup {NoRequest}]
  /\ sink \in Seq(Requests)
  /\ markers \subseteq Requests
  /\ answers \in [Requests -> Nat]
  /\ sent \in 0..MaxRequests
  /\ control \in 0..MaxControl

Busy(w) == wpc[w] \in {"lock", "call", "settle"}

\* The requests that hold one of the queueCap slots.
Holding == {r \in Requests : \/ daemon.pc = "enqueue" /\ daemon.req = r
                             \/ \E g \in Pools : r \in Members(queue[g])
                             \/ \E w \in Workers : Busy(w) /\ wjob[w] = r}

\* in_flight_invokes counts exactly the queued and executing invokes, whatever
\* pools were replaced, instances dropped or plugins killed meanwhile: no slot
\* leaks and none is given back twice.
SlotAccounting == in_flight = Cardinality(Holding)

\* Finished requests whose response is not on stdout yet.
Finished == {r \in Requests : \/ \E w \in Workers : wpc[w] = "deliver" /\ wjob[w] = r
                              \/ r \in Members(sink)}

\* A slot is never taken beyond the queueCap in force, although workers release
\* slots between the daemon's check and its increment.
Backpressure == [][in_flight' > in_flight => in_flight < policy.cap]_vars

\* A request has at most one owner: it stands once in one channel, or with one
\* worker, or once in the sink.
OneOwner ==
  /\ \A g1, g2 \in Pools : \A i \in DOMAIN queue[g1], j \in DOMAIN queue[g2] :
       queue[g1][i] = queue[g2][j] => g1 = g2 /\ i = j
  /\ \A w1, w2 \in Workers :
       wjob[w1] # NoRequest /\ wjob[w1] = wjob[w2] => w1 = w2
  /\ \A i, j \in DOMAIN sink : sink[i] = sink[j] => i = j
  /\ \A w \in Workers : \A g \in Pools : wjob[w] \notin Members(queue[g])
  /\ \A r \in Members(sink) : r \notin Holding /\ \A w \in Workers : wjob[w] # r

\* Every request gets at most one final response, and once it is on stdout no work
\* for that request is left anywhere in the kernel.
AnsweredOnce ==
  /\ OneOwner
  /\ \A r \in Requests : answers[r] <= 1
                          /\ (answers[r] = 1 => r \notin Holding \cup Finished)

\* Same-plugin calls are serialized on the instance's mutex: at most one thread is
\* inside a plugin instance, and it is the one the mutex names.
OneCallPerInstance ==
  \A h \in Handles :
    LET inside == {w \in Workers : wpc[w] = "call" /\ target[wjob[w]] = h}
                  \cup (IF daemon.pc = "call" /\ daemon.h = h THEN {Daemon} ELSE {})
    IN  inside = IF holder[h] = Free THEN {} ELSE {holder[h]}

\* The abstract status of every request.
StatusOf == LET executing == Holding
                finished == Finished
            IN [r \in Requests |-> IF answers[r] > 0 THEN "answered"
                                   ELSE IF r \in executing THEN "executing"
                                   ELSE IF r \in finished THEN "finished" ELSE "idle"]

Service == INSTANCE InvokeService
             WITH cap <- policy.cap, up <- Running, status <- StatusOf

\* The threads, channels, pool generations and mutexes implement the abstract
\* invoke service.
ImplementsService == Service!Spec

\* An accepted invoke is eventually answered (or the daemon exits): nothing is
\* stranded in the channel of a replaced pool, behind a dead or dropped instance,
\* or in the sink.
AcceptedIsAnswered ==
  \A r \in Requests : r \in Holding ~> (answers[r] = 1 \/ ~Running)

\* "A slow plugin call blocks only its own caller - other plugins' requests proceed
\* on their own channels/threads" (comment on ManagedProcess): an invoke given to an
\* extension that answers its calls is answered, whatever the others do.
OtherPluginsProceed ==
  \A r \in Requests :
    (r \in Holding /\ owner[target[r]] \notin Hanging)
      ~> (answers[r] = 1 \/ ~Running)
=============================================================================
