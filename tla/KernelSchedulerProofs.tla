------------------------ MODULE KernelSchedulerProofs ------------------------
(***************************************************************************)
(* Proofs about KernelScheduler for every number of extensions, requests,  *)
(* pool sizes and generations.                                             *)
(***************************************************************************)
EXTENDS KernelScheduler, FiniteSetTheorems, TLAPS

-----------------------------------------------------------------------------
(* The inductive invariant.                                                 *)

\* The request is in a channel, with a worker or in the sink.
Placed(r) == \/ \E g \in Pools : r \in Members(queue[g])
             \/ \E w \in Workers : wjob[w] = r
             \/ r \in Members(sink)

\* The daemon thread is handling an invoke it still has to answer or hand over.
DaemonOwns == \/ daemon.pc \in {"reserve", "enqueue"}
              \/ daemon.pc \in {"lock", "call"} /\ daemon.op = "invoke"
              \/ daemon.pc = "reply" /\ daemon.op = "final"

\* A worker has a job exactly between recv and recv; later generations do not exist.
JobHeld == \A w \in Workers :
             /\ wjob[w] # NoRequest <=> wpc[w] \in {"lock", "call", "settle", "deliver"}
             /\ w[1] > pool => wpc[w] = "none"

\* The request in the daemon's hands is the newest, and nobody else has it.
DaemonRequest ==
  DaemonOwns => /\ daemon.req \in Requests
                /\ daemon.req = sent
                /\ ~Placed(daemon.req)
                /\ answers[daemon.req] = 0

\* Answered at most once, never while owned, and nothing is known of unsent ids.
Answers == \A r \in Requests :
             /\ answers[r] <= 1
             /\ Placed(r) => r <= sent /\ answers[r] = 0
             /\ answers[r] # 0 => r <= sent

\* A job is dispatched only to a pool that exists, a slot is reserved only while the
\* check that allowed it still holds, and what is printed is an answer to a request.
DispatchReady == /\ daemon.pc \in {"reserve", "enqueue"} => pool \in Pools
                 /\ daemon.pc = "reserve" => in_flight < policy.cap
                 /\ daemon.pc = "reply" => /\ daemon.op \in {"accepted", "final"}
                                           /\ daemon.req \in Requests

IInv == /\ TypeOK
        /\ SlotAccounting
        /\ OneOwner
        /\ JobHeld
        /\ DaemonRequest
        /\ Answers
        /\ DispatchReady

-----------------------------------------------------------------------------
(* Sequences.                                                               *)

\* Appending adds one element to the range and keeps the old positions.
LEMMA AppendFacts ==
  ASSUME NEW S, NEW s \in Seq(S), NEW x \in S
  PROVE  /\ Append(s, x) \in Seq(S)
         /\ DOMAIN Append(s, x) = 1..Len(s) + 1
         /\ \A i \in 1..Len(s) : Append(s, x)[i] = s[i]
         /\ Append(s, x)[Len(s) + 1] = x
         /\ Members(Append(s, x)) = Members(s) \cup {x}
  BY DEF Members

\* Taking the head off a sequence without repetitions removes it from the range.
LEMMA TailFacts ==
  ASSUME NEW S, NEW s \in Seq(S), s # <<>>,
         \A i, j \in DOMAIN s : s[i] = s[j] => i = j
  PROVE  /\ Tail(s) \in Seq(S)
         /\ Head(s) \in S
         /\ Head(s) = s[1] /\ 1 \in DOMAIN s
         /\ DOMAIN Tail(s) = 1..Len(s) - 1
         /\ \A i \in 1..Len(s) - 1 : Tail(s)[i] = s[i + 1] /\ i + 1 \in DOMAIN s
         /\ Members(Tail(s)) = Members(s) \ {Head(s)}
         /\ Head(s) \in Members(s)
  <1>1. /\ Tail(s) \in Seq(S) /\ Head(s) \in S /\ Head(s) = s[1] /\ 1 \in DOMAIN s
        /\ DOMAIN Tail(s) = 1..Len(s) - 1
        /\ \A i \in 1..Len(s) - 1 : Tail(s)[i] = s[i + 1] /\ i + 1 \in DOMAIN s
    OBVIOUS
  <1>2. Head(s) \in Members(s)
    BY <1>1 DEF Members
  <1>3. ASSUME NEW x \in Members(s), x # Head(s) PROVE x \in Members(Tail(s))
    <2>1. PICK i \in DOMAIN s : x = s[i]
      BY <1>3 DEF Members
    <2>2. i # 1 /\ i - 1 \in 1..Len(s) - 1
      BY <2>1, <1>1, <1>3
    <2> QED
      BY <2>1, <2>2, <1>1 DEF Members
  <1>4. ASSUME NEW x \in Members(Tail(s)) PROVE x \in Members(s) /\ x # Head(s)
    <2>1. PICK i \in 1..Len(s) - 1 : x = Tail(s)[i]
      BY <1>1 DEF Members
    <2> QED
      BY <2>1, <1>1 DEF Members
  <1> QED
    BY <1>1, <1>2, <1>3, <1>4

-----------------------------------------------------------------------------
(* The initial states, and the steps that move no request.                  *)

LEMMA HoldingFinite == IsFiniteSet(Holding) /\ Cardinality(Holding) \in Nat
  <1>1. IsFiniteSet(Requests)
    BY FS_Interval, SchedulerAssumption DEF Requests
  <1> QED
    BY <1>1, FS_Subset, FS_CardinalityType DEF Holding

LEMMA InitIInv == Init => IInv
  <1> SUFFICES ASSUME Init PROVE IInv
    OBVIOUS
  <1>1. TypeOK
    BY SchedulerAssumption
    DEF Init, TypeOK, DaemonStates, Reading, Requests, Handles, Pools, Workers, NoRequest, NoHandle
  <1>2. \A g \in Pools : Members(queue[g]) = {}
    BY DEF Init, Members
  <1>3. Holding = {}
    BY <1>2 DEF Init, Holding, Busy, Reading
  <1>4. SlotAccounting
    BY <1>3, FS_EmptySet DEF SlotAccounting, Init
  <1>5. OneOwner
    BY <1>2 DEF OneOwner, Init, NoRequest, Members
  <1>6. JobHeld /\ DaemonRequest /\ DispatchReady
    BY DEF JobHeld, DaemonRequest, DaemonOwns, DispatchReady, Init, Reading, Workers, Pools
  <1>7. Answers
    BY <1>2 DEF Answers, Placed, Init, Requests, NoRequest, Members
  <1> QED
    BY <1>1, <1>4, <1>5, <1>6, <1>7 DEF IInv

\* A step that leaves the channels, the jobs and the sink alone keeps ownership.
LEMMA OwnershipUnmoved ==
  ASSUME OneOwner, UNCHANGED <<queue, wjob, sink>>, Holding' \subseteq Holding
  PROVE  OneOwner' /\ (\A r : Placed(r)' <=> Placed(r))
  BY DEF OneOwner, Placed, Members

\* A step after which the same requests hold slots, with the daemon idle, exited or
\* in the same request, keeps the invariant.
LEMMA QuietStep ==
  ASSUME IInv, TypeOK', UNCHANGED <<queue, wjob, sink, in_flight, answers, sent>>,
         Holding' = Holding, JobHeld', DispatchReady',
         DaemonOwns' => DaemonOwns /\ UNCHANGED daemon.req
  PROVE  IInv'
  <1>1. OneOwner' /\ (\A r : Placed(r)' <=> Placed(r))
    BY OwnershipUnmoved DEF IInv
  <1>2. SlotAccounting'
    BY DEF IInv, SlotAccounting
  <1>3. Answers'
    BY <1>1 DEF IInv, Answers
  <1>4. DaemonRequest'
    BY <1>1 DEF IInv, DaemonRequest
  <1> QED
    BY <1>1, <1>2, <1>3, <1>4 DEF IInv

-----------------------------------------------------------------------------
(* Every step keeps the invariant: control requests.                        *)

LEMMA SetPolicyStep ==
  ASSUME IInv, NEW n \in Threads, NEW c \in Caps, SetPolicy(n, c)
  PROVE  IInv'
  <1> USE DEF SetPolicy, Control, outputVars, workerVars, pluginVars
  <1>1. TypeOK'
    <2>1. policy' \in [threads : Threads \cup {0}, cap : Caps]
      OBVIOUS
    <2>2. control' \in 0..MaxControl
      BY SchedulerAssumption DEF IInv, TypeOK
    <2>3. UNCHANGED <<handle, owner, started, alive, holder, daemon, in_flight, pool,
                      queue, target, wpc, wjob, sink, markers, answers, sent>>
      OBVIOUS
    <2> HIDE DEF SetPolicy
    <2> QED
      BY <2>1, <2>2, <2>3 DEF IInv, TypeOK
  <1>2. Holding' = Holding
    BY DEF Holding, Busy
  <1> QED
    BY <1>1, <1>2, QuietStep DEF IInv, JobHeld, DispatchReady, DaemonOwns

LEMMA ReloadStep ==
  ASSUME IInv, NEW e \in Extensions, Reload(e)
  PROVE  IInv'
  <1> USE DEF Reload, Control, outputVars, workerVars
  <1>1. TypeOK'
    BY SchedulerAssumption DEF IInv, TypeOK, NoHandle
  <1>2. Holding' = Holding
    BY DEF Holding, Busy
  <1> QED
    BY <1>1, <1>2, QuietStep DEF IInv, JobHeld, DispatchReady, DaemonOwns

LEMMA ActivateStep ==
  ASSUME IInv, NEW e \in Extensions, Activate(e)
  PROVE  IInv'
  <1>1. daemon' \in DaemonStates
    <2>1. CASE handle[e] = NoHandle
      <3>1. started + 1 \in Handles
        BY <2>1, SchedulerAssumption DEF Activate, IInv, TypeOK, Handles
      <3> QED
        BY <2>1, <3>1 DEF Activate, DaemonStates, NoRequest
    <2>2. CASE handle[e] # NoHandle
      BY <2>2 DEF Activate, IInv, TypeOK, pluginVars
    <2> QED
      BY <2>1, <2>2
  <1>2. started' \in 0..MaxHandles /\ control' \in 0..MaxControl
    BY SchedulerAssumption DEF Activate, Control, IInv, TypeOK, pluginVars
  <1>3. /\ owner' \in [Handles -> Extensions]
        /\ alive' \in [Handles -> BOOLEAN]
        /\ holder' \in [Handles -> Workers \cup {Daemon, Free}]
    BY DEF Activate, IInv, TypeOK, pluginVars
  <1>4. UNCHANGED <<policy, handle, in_flight, pool, queue, target, wpc, wjob, sink,
                    markers, answers, sent>>
    BY DEF Activate, pluginVars, workerVars, outputVars
  <1>5. /\ daemon.pc = "read"
        /\ daemon' = daemon \/ (daemon'.pc = "call" /\ daemon'.op = "activate")
    BY DEF Activate, Control, pluginVars
  <1>6. TypeOK'
    BY <1>1, <1>2, <1>3, <1>4 DEF IInv, TypeOK
  <1>7. Holding' = Holding
    BY <1>4, <1>5 DEF Holding, Busy
  <1> QED
    BY <1>4, <1>5, <1>6, <1>7, QuietStep DEF IInv, JobHeld, DispatchReady, DaemonOwns

LEMMA DeactivateStep ==
  ASSUME IInv, NEW e \in Extensions, Deactivate(e)
  PROVE  IInv'
  <1>1. daemon' \in DaemonStates
    BY DEF Deactivate, DaemonStates, IInv, TypeOK, NoRequest
  <1>2. control' \in 0..MaxControl
    BY SchedulerAssumption DEF Deactivate, Control, IInv, TypeOK
  <1>3. UNCHANGED <<policy, handle, owner, started, alive, holder, in_flight, pool, queue,
                    target, wpc, wjob, sink, markers, answers, sent>>
    BY DEF Deactivate, pluginVars, workerVars, outputVars
  <1>4. /\ daemon.pc = "read"
        /\ daemon' = daemon \/ (daemon'.pc = "lock" /\ daemon'.op = "deactivate")
    BY DEF Deactivate, Control
  <1>5. TypeOK'
    BY <1>1, <1>2, <1>3 DEF IInv, TypeOK
  <1>6. Holding' = Holding
    BY <1>3, <1>4 DEF Holding, Busy
  <1> QED
    BY <1>3, <1>4, <1>5, <1>6, QuietStep DEF IInv, JobHeld, DispatchReady, DaemonOwns

-----------------------------------------------------------------------------
(* Invokes on the daemon thread.                                            *)

\* A request holds a slot only as the daemon's request or because it is placed.
LEMMA HoldingPlaced ==
  ASSUME NEW r \in Holding
  PROVE  Placed(r) \/ (daemon.pc = "enqueue" /\ daemon.req = r)
  BY DEF Holding, Placed

\* A new invoke taken up by the daemon thread: nobody can know its id yet.
LEMMA TakeUpStep ==
  ASSUME IInv, TypeOK', NEW r \in Requests, NewInvoke(r), daemon'.req = r,
         UNCHANGED <<queue, wjob, sink, in_flight, answers>>,
         Holding' = Holding, JobHeld', DispatchReady'
  PROVE  IInv'
  <1>1. OneOwner' /\ (\A q : Placed(q)' <=> Placed(q))
    BY OwnershipUnmoved DEF IInv
  <1>2. sent \in Nat /\ sent' = sent + 1 /\ r = sent + 1
    BY DEF NewInvoke, IInv, TypeOK
  <1>3. SlotAccounting'
    BY DEF IInv, SlotAccounting
  <1>4. Answers'
    <2> SUFFICES ASSUME NEW q \in Requests
                 PROVE  /\ answers'[q] <= 1
                        /\ Placed(q)' => q <= sent' /\ answers'[q] = 0
                        /\ answers'[q] # 0 => q <= sent'
      BY DEF Answers
    <2>1. q \in Nat
      BY DEF Requests
    <2>2. /\ answers[q] <= 1
          /\ Placed(q) => q <= sent /\ answers[q] = 0
          /\ answers[q] # 0 => q <= sent
      BY DEF IInv, Answers
    <2> QED
      BY <1>1, <1>2, <2>1, <2>2
  <1>5. ~Placed(r) /\ answers[r] = 0
    <2>1. r \in Nat /\ ~(r <= sent)
      BY <1>2
    <2> QED
      BY <2>1 DEF IInv, Answers
  <1>6. DaemonRequest'
    BY <1>1, <1>2, <1>5 DEF DaemonRequest
  <1> QED
    BY <1>1, <1>3, <1>4, <1>6 DEF IInv

LEMMA InvokeInactiveStep ==
  ASSUME IInv, NEW r \in Requests, NEW e \in Extensions,
         InvokeInactive(r, e) \/ InvokeBusy(r, e)
  PROVE  IInv'
  <1>1. daemon' = Answering(r, "final") /\ NewInvoke(r)
    BY DEF InvokeInactive, InvokeBusy
  <1>2. UNCHANGED <<policy, control, handle, owner, started, alive, holder, in_flight, pool,
                    queue, target, wpc, wjob, sink, markers, answers>>
    BY DEF InvokeInactive, InvokeBusy, NewInvoke, pluginVars, workerVars, outputVars
  <1>3. /\ daemon' \in DaemonStates /\ daemon'.pc = "reply" /\ daemon'.req = r
        /\ daemon'.op = "final" /\ daemon.pc = "read"
    BY <1>1 DEF Answering, DaemonStates, NoHandle, NewInvoke
  <1>4. sent' \in 0..MaxRequests
    BY <1>1, SchedulerAssumption DEF NewInvoke, Requests
  <1>5. TypeOK'
    BY <1>2, <1>3, <1>4 DEF IInv, TypeOK
  <1>6. Holding' = Holding
    BY <1>2, <1>3 DEF Holding, Busy
  <1> QED
    BY <1>1, <1>2, <1>3, <1>5, <1>6, TakeUpStep DEF IInv, JobHeld, DispatchReady

LEMMA InvokeSyncStep ==
  ASSUME IInv, NEW r \in Requests, NEW e \in Extensions, InvokeSync(r, e)
  PROVE  IInv'
  <1>1. NewInvoke(r)
    BY DEF InvokeSync
  <1>2. UNCHANGED <<policy, control, handle, owner, started, alive, holder, in_flight, pool,
                    queue, target, wpc, wjob, sink, markers, answers>>
    BY DEF InvokeSync, NewInvoke, pluginVars, workerVars, outputVars
  <1>3. /\ daemon' \in DaemonStates /\ daemon'.pc = "lock" /\ daemon'.req = r
        /\ daemon.pc = "read"
    BY DEF InvokeSync, IInv, TypeOK, DaemonStates, NewInvoke
  <1>4. sent' \in 0..MaxRequests
    BY <1>1, SchedulerAssumption DEF NewInvoke, Requests
  <1>5. TypeOK'
    BY <1>2, <1>3, <1>4 DEF IInv, TypeOK
  <1>6. Holding' = Holding
    BY <1>2, <1>3 DEF Holding, Busy
  <1> QED
    BY <1>1, <1>2, <1>3, <1>5, <1>6, TakeUpStep DEF IInv, JobHeld, DispatchReady

\* The pool in force exists, and the workers it adds hold no job.
LEMMA EnsurePoolFacts ==
  ASSUME IInv, EnsurePool, UNCHANGED wjob
  PROVE  /\ pool' \in Pools
         /\ wpc' \in [Workers -> {"none", "recv", "lock", "call", "settle", "deliver",
                                  "gone"}]
         /\ \A w \in Workers : Busy(w)' <=> Busy(w)
         /\ JobHeld'
  <1>1. CASE UNCHANGED <<pool, wpc>> /\ pool # 0
    BY <1>1 DEF IInv, TypeOK, JobHeld, Busy
  <1>2. CASE /\ pool < MaxPools /\ pool' = pool + 1
             /\ wpc' = [w \in Workers |->
                          IF w[1] = pool + 1 /\ w[2] <= policy.threads
                            THEN "recv" ELSE wpc[w]]
    <2>1. pool \in Nat /\ pool' \in Pools
      BY <1>2, SchedulerAssumption DEF IInv, TypeOK, Pools
    <2>2. \A w \in Workers : w[1] \in Nat
      BY DEF Workers, Pools
    <2>3. wpc \in [Workers -> {"none", "recv", "lock", "call", "settle", "deliver",
                               "gone"}]
      BY DEF IInv, TypeOK
    <2>4. \A w \in Workers : w[1] = pool + 1 => wpc[w] = "none"
      BY <2>1, <2>2 DEF IInv, JobHeld
    <2>5. \A w \in Workers : \/ wpc'[w] = wpc[w]
                             \/ wpc[w] = "none" /\ wpc'[w] = "recv" /\ w[1] = pool'
      BY <1>2, <2>4
    <2>6. wpc' \in [Workers -> {"none", "recv", "lock", "call", "settle", "deliver",
                                "gone"}]
      BY <1>2, <2>3
    <2>7. ASSUME NEW w \in Workers
          PROVE  /\ Busy(w)' <=> Busy(w)
                 /\ wjob'[w] # NoRequest
                      <=> wpc'[w] \in {"lock", "call", "settle", "deliver"}
                 /\ w[1] > pool' => wpc'[w] = "none"
      <3>1. /\ wjob[w] # NoRequest <=> wpc[w] \in {"lock", "call", "settle", "deliver"}
            /\ w[1] > pool => wpc[w] = "none"
        BY DEF IInv, JobHeld
      <3>2. w[1] > pool' => w[1] > pool /\ w[1] # pool'
        BY <1>2, <2>1, <2>2
      <3> QED
        BY <2>5, <3>1, <3>2 DEF Busy
    <2> QED
      BY <2>1, <2>6, <2>7 DEF JobHeld
  <1> QED
    BY <1>1, <1>2 DEF EnsurePool

LEMMA InvokeAsyncStep ==
  ASSUME IInv, NEW r \in Requests, NEW e \in Extensions, InvokeAsync(r, e)
  PROVE  IInv' /\ Holding' = Holding
  <1>1. /\ NewInvoke(r) /\ EnsurePool /\ in_flight < policy.cap
        /\ target' = [target EXCEPT ![r] = handle[e]]
        /\ daemon' = [pc |-> "reserve", op |-> "invoke", req |-> r, h |-> NoHandle]
    BY DEF InvokeAsync
  <1>2. UNCHANGED <<policy, control, handle, owner, started, alive, holder, in_flight,
                    queue, wjob, sink, markers, answers>>
    BY DEF InvokeAsync, NewInvoke, pluginVars, outputVars
  <1>3. /\ pool' \in Pools
        /\ wpc' \in [Workers -> {"none", "recv", "lock", "call", "settle", "deliver",
                                 "gone"}]
        /\ \A w \in Workers : Busy(w)' <=> Busy(w)
        /\ JobHeld'
    BY <1>1, <1>2, EnsurePoolFacts
  <1>4. /\ daemon' \in DaemonStates /\ daemon'.pc = "reserve" /\ daemon'.req = r
        /\ daemon.pc = "read"
    BY <1>1 DEF DaemonStates, NewInvoke
  <1>5. sent' \in 0..MaxRequests
    BY <1>1, SchedulerAssumption DEF NewInvoke, Requests
  <1>6. target' \in [Requests -> Handles \cup {NoHandle}]
    BY <1>1 DEF IInv, TypeOK
  <1>7. TypeOK'
    BY <1>2, <1>3, <1>4, <1>5, <1>6 DEF IInv, TypeOK
  <1>8. Holding' = Holding
    BY <1>2, <1>3, <1>4 DEF Holding
  <1>9. DispatchReady'
    BY <1>1, <1>2, <1>3, <1>4 DEF DispatchReady
  <1> QED
    BY <1>1, <1>2, <1>3, <1>4, <1>7, <1>8, <1>9, TakeUpStep

LEMMA ReserveStep ==
  ASSUME IInv, Reserve
  PROVE  IInv' /\ Holding' = Holding \cup {daemon.req}
  <1>1. /\ daemon.pc = "reserve" /\ daemon'.pc = "enqueue" /\ daemon'.req = daemon.req
        /\ daemon' \in DaemonStates
    BY DEF Reserve, IInv, TypeOK, DaemonStates
  <1>2. UNCHANGED <<policy, sent, control, handle, owner, started, alive, holder, pool,
                    queue, target, wpc, wjob, sink, markers, answers>>
    BY DEF Reserve, hostVars, pluginVars, workerVars, outputVars
  <1>3. in_flight' = in_flight + 1 /\ in_flight \in Nat
    BY DEF Reserve, IInv, TypeOK
  <1>4. TypeOK'
    BY <1>1, <1>2, <1>3 DEF IInv, TypeOK
  <1>5. daemon.req \in Requests /\ ~Placed(daemon.req)
    BY <1>1 DEF IInv, DaemonRequest, DaemonOwns
  <1>6. daemon.req \notin Holding
    BY <1>1, <1>5, HoldingPlaced
  <1>7. Holding' = Holding \cup {daemon.req}
    BY <1>1, <1>2, <1>5 DEF Holding, Busy
  <1>8. Cardinality(Holding') = Cardinality(Holding) + 1
    BY <1>6, <1>7, HoldingFinite, FS_AddElement
  <1>9. SlotAccounting'
    BY <1>3, <1>8 DEF IInv, SlotAccounting
  <1>10. \A q : Placed(q)' <=> Placed(q)
    BY <1>2 DEF Placed, Members
  <1>11. OneOwner'
    <2>1. \A q \in Members(sink) : q \notin Holding'
      BY <1>5, <1>7 DEF IInv, OneOwner, Placed
    <2> QED
      BY <1>2, <2>1 DEF IInv, OneOwner, Members
  <1>12. JobHeld' /\ Answers' /\ DaemonRequest' /\ DispatchReady'
    BY <1>1, <1>2, <1>10 DEF IInv, JobHeld, Answers, DaemonRequest, DaemonOwns,
                             DispatchReady
  <1> QED
    BY <1>7, <1>4, <1>9, <1>11, <1>12 DEF IInv

LEMMA EnqueueStep ==
  ASSUME IInv, Enqueue
  PROVE  IInv' /\ Holding' = Holding
  <1> DEFINE r == daemon.req
             g == pool
  <1>1. /\ daemon.pc = "enqueue" /\ daemon'.pc = "reply" /\ daemon'.op = "accepted"
        /\ daemon' \in DaemonStates /\ daemon'.req = daemon.req
    BY DEF Enqueue, Answering, IInv, TypeOK, DaemonStates, NoHandle
  <1>2. UNCHANGED <<policy, sent, control, handle, owner, started, alive, holder, in_flight,
                    pool, target, wpc, wjob, sink, markers, answers>>
    BY DEF Enqueue, hostVars, pluginVars, workerVars, outputVars
  <1>3. r \in Requests /\ r = sent /\ ~Placed(r) /\ answers[r] = 0
    BY <1>1 DEF IInv, DaemonRequest, DaemonOwns
  <1>4. g \in Pools /\ queue \in [Pools -> Seq(Requests)]
    BY <1>1 DEF IInv, DispatchReady, TypeOK
  <1>5. queue' = [queue EXCEPT ![g] = Append(queue[g], r)]
    BY DEF Enqueue
  <1>6. queue' \in [Pools -> Seq(Requests)]
    BY <1>3, <1>4, <1>5
  <1>7. TypeOK'
    BY <1>1, <1>2, <1>6 DEF IInv, TypeOK
  <1>8. /\ DOMAIN Append(queue[g], r) = 1..Len(queue[g]) + 1
        /\ \A i \in 1..Len(queue[g]) : Append(queue[g], r)[i] = queue[g][i]
        /\ Append(queue[g], r)[Len(queue[g]) + 1] = r
        /\ Members(Append(queue[g], r)) = Members(queue[g]) \cup {r}
        /\ DOMAIN queue[g] = 1..Len(queue[g]) /\ Len(queue[g]) \in Nat
    <2>1. queue[g] \in Seq(Requests)
      BY <1>4
    <2> QED
      BY <2>1, <1>3, AppendFacts
  <1>9. \A p \in Pools : Members(queue'[p]) = IF p = g THEN Members(queue[p]) \cup {r}
                                                   ELSE Members(queue[p])
    <2> SUFFICES ASSUME NEW p \in Pools
                 PROVE  Members(queue'[p]) = IF p = g THEN Members(queue[p]) \cup {r}
                                                    ELSE Members(queue[p])
      OBVIOUS
    <2>1. CASE p = g
      BY <2>1, <1>4, <1>5, <1>8
    <2>2. CASE p # g
      BY <2>2, <1>4, <1>5
    <2> QED
      BY <2>1, <2>2
  <1>10. \A q : Placed(q)' <=> (Placed(q) \/ q = r)
    BY <1>2, <1>4, <1>9 DEF Placed, Members
  <1>11. Holding' = Holding
    BY <1>1, <1>2, <1>3, <1>4, <1>9 DEF Holding, Busy
  <1>12. OneOwner'
    <2>1. \A p \in Pools : \A i \in DOMAIN queue'[p] :
            \/ i \in DOMAIN queue[p] /\ queue'[p][i] = queue[p][i]
            \/ p = g /\ i = Len(queue[g]) + 1 /\ queue'[p][i] = r
      <3> SUFFICES ASSUME NEW p \in Pools, NEW i \in DOMAIN queue'[p]
                   PROVE  \/ i \in DOMAIN queue[p] /\ queue'[p][i] = queue[p][i]
                          \/ p = g /\ i = Len(queue[g]) + 1 /\ queue'[p][i] = r
        OBVIOUS
      <3>1. CASE p = g
        <4>1. queue'[p] = Append(queue[g], r)
          BY <3>1, <1>4, <1>5
        <4> QED
          BY <4>1, <3>1, <1>8
      <3>2. CASE p # g
        BY <3>2, <1>4, <1>5
      <3> QED
        BY <3>1, <3>2
    <2>2. \A p \in Pools : \A i \in DOMAIN queue[p] : queue[p][i] # r
      BY <1>3 DEF Placed, Members
    <2>3. \A g1, g2 \in Pools : \A i \in DOMAIN queue'[g1], j \in DOMAIN queue'[g2] :
            queue'[g1][i] = queue'[g2][j] => g1 = g2 /\ i = j
      BY <2>1, <2>2 DEF IInv, OneOwner
    <2>4. \A w \in Workers : \A p \in Pools : wjob'[w] \notin Members(queue'[p])
      <3>1. \A w \in Workers : wjob[w] # r
        BY <1>3 DEF Placed
      <3>2. \A w \in Workers : \A p \in Pools : wjob[w] \notin Members(queue[p])
        BY DEF IInv, OneOwner
      <3> QED
        BY <3>1, <3>2, <1>2, <1>9
    <2>5. \A q \in Members(sink') : q \notin Holding' /\ \A w \in Workers : wjob'[w] # q
      BY <1>2, <1>11 DEF IInv, OneOwner, Members
    <2>6. /\ \A w1, w2 \in Workers :
               wjob'[w1] # NoRequest /\ wjob'[w1] = wjob'[w2] => w1 = w2
          /\ \A i, j \in DOMAIN sink' : sink'[i] = sink'[j] => i = j
      BY <1>2 DEF IInv, OneOwner
    <2> QED
      BY <2>3, <2>4, <2>5, <2>6 DEF OneOwner
  <1>13. SlotAccounting'
    BY <1>2, <1>11 DEF IInv, SlotAccounting
  <1>14. Answers'
    <2>1. r <= sent
      BY <1>3 DEF IInv, TypeOK
    <2> QED
      BY <1>2, <1>3, <1>10, <2>1 DEF IInv, Answers
  <1>15. JobHeld' /\ DaemonRequest' /\ DispatchReady'
    BY <1>1, <1>2, <1>3 DEF IInv, JobHeld, DaemonRequest, DaemonOwns, DispatchReady
  <1> QED
    BY <1>11, <1>7, <1>12, <1>13, <1>14, <1>15 DEF IInv

LEMMA ReplyStep ==
  ASSUME IInv, Reply
  PROVE  IInv'
  <1>1. daemon.pc = "reply" /\ daemon' = Reading
    BY DEF Reply
  <1>2. UNCHANGED <<policy, sent, control, handle, owner, started, alive, holder, in_flight,
                    pool, queue, target, wpc, wjob, sink>>
    BY DEF Reply, hostVars, pluginVars, workerVars
  <1>3. Holding' = Holding
    BY <1>1, <1>2 DEF Holding, Busy, Reading
  <1>4. daemon' \in DaemonStates /\ daemon'.pc = "read"
    BY <1>1 DEF Reading, DaemonStates
  <1>5. daemon.req \in Requests /\ (daemon.op # "accepted" => daemon.op = "final")
    BY <1>1 DEF IInv, DispatchReady
  <1>6. OneOwner' /\ (\A q : Placed(q)' <=> Placed(q))
    BY <1>2, <1>3, OwnershipUnmoved DEF IInv
  <1>7. /\ markers' \subseteq Requests
        /\ answers' \in [Requests -> Nat]
        /\ Answers'
    <2>1. CASE daemon.op = "accepted"
      BY <2>1, <1>2, <1>5, <1>6 DEF Reply, IInv, TypeOK, Answers
    <2>2. CASE daemon.op = "final"
      <3>1. answers' = [answers EXCEPT ![daemon.req] = @ + 1] /\ UNCHANGED markers
        BY <2>2 DEF Reply
      <3>2. /\ daemon.req = sent /\ ~Placed(daemon.req) /\ answers[daemon.req] = 0
            /\ sent \in Nat
        BY <1>1, <2>2 DEF IInv, DaemonRequest, DaemonOwns, TypeOK
      <3>3. answers' \in [Requests -> Nat]
        BY <3>1, <1>5 DEF IInv, TypeOK
      <3>4. \A q \in Requests : answers'[q] = IF q = daemon.req THEN 1 ELSE answers[q]
        BY <3>1, <3>2, <1>5 DEF IInv, TypeOK
      <3>5. Answers'
        BY <3>2, <3>4, <1>2, <1>6 DEF IInv, Answers
      <3> QED
        BY <3>1, <3>3, <3>5 DEF IInv, TypeOK
    <2> QED
      BY <2>1, <2>2, <1>5
  <1>8. TypeOK'
    BY <1>2, <1>4, <1>7 DEF IInv, TypeOK
  <1>9. SlotAccounting' /\ JobHeld'
    BY <1>2, <1>3 DEF IInv, SlotAccounting, JobHeld
  <1>10. DaemonRequest' /\ DispatchReady'
    BY <1>4 DEF DaemonRequest, DaemonOwns, DispatchReady
  <1> QED
    BY <1>6, <1>7, <1>8, <1>9, <1>10 DEF IInv

-----------------------------------------------------------------------------
(* Calls on the daemon thread, and the end of the daemon.                   *)

\* A step of the daemon thread that touches no request but its own.
LEMMA DaemonQuietStep ==
  ASSUME IInv, daemon' \in DaemonStates,
         handle' \in [Extensions -> Handles \cup {NoHandle}],
         alive' \in [Handles -> BOOLEAN],
         holder' \in [Handles -> Workers \cup {Daemon, Free}],
         UNCHANGED <<policy, sent, control, owner, started, in_flight, pool, queue,
                     target, wpc, wjob, sink, markers, answers>>,
         daemon.pc # "enqueue", daemon'.pc \notin {"reserve", "enqueue"},
         daemon'.pc = "reply" => /\ daemon'.op \in {"accepted", "final"}
                                 /\ daemon'.req \in Requests,
         DaemonOwns' => DaemonOwns /\ UNCHANGED daemon.req
  PROVE  IInv'
  <1>1. TypeOK'
    BY DEF IInv, TypeOK
  <1>2. Holding' = Holding
    BY DEF Holding, Busy
  <1>3. JobHeld' /\ DispatchReady'
    BY DEF IInv, JobHeld, DispatchReady
  <1> QED
    BY <1>1, <1>2, <1>3, QuietStep

LEMMA DaemonLockStep ==
  ASSUME IInv, DaemonLock
  PROVE  IInv'
  <1>1. /\ daemon.pc = "lock" /\ daemon'.pc = "call" /\ daemon'.op = daemon.op
        /\ daemon'.req = daemon.req /\ daemon' \in DaemonStates
    BY DEF DaemonLock, IInv, TypeOK, DaemonStates
  <1>2. UNCHANGED <<policy, sent, control, handle, owner, started, alive, in_flight, pool,
                    queue, target, wpc, wjob, sink, markers, answers>>
    BY DEF DaemonLock, hostVars, pluginVars, workerVars, outputVars
  <1>3. holder' \in [Handles -> Workers \cup {Daemon, Free}]
    BY DEF DaemonLock, Acquire, IInv, TypeOK
  <1>4. /\ handle' \in [Extensions -> Handles \cup {NoHandle}]
        /\ alive' \in [Handles -> BOOLEAN]
    BY <1>2 DEF IInv, TypeOK
  <1>5. DaemonOwns' => DaemonOwns /\ UNCHANGED daemon.req
    BY <1>1 DEF DaemonOwns
  <1> QED
    BY <1>1, <1>2, <1>3, <1>4, <1>5, DaemonQuietStep

LEMMA DaemonCallStep ==
  ASSUME IInv, DaemonCallOk \/ DaemonCallFails
  PROVE  IInv'
  <1>1. daemon.pc = "call" /\ holder' = [holder EXCEPT ![daemon.h] = Free]
    BY DEF DaemonCallOk, DaemonCallFails
  <1>2. UNCHANGED <<policy, sent, control, owner, started, in_flight, pool, queue, target,
                    wpc, wjob, sink, markers, answers>>
    BY DEF DaemonCallOk, DaemonCallFails, hostVars, workerVars, outputVars
  <1>3. holder' \in [Handles -> Workers \cup {Daemon, Free}]
    BY <1>1 DEF IInv, TypeOK
  <1>4. daemon \in DaemonStates
    BY DEF IInv, TypeOK
  <1>5. \/ daemon' = Reading
        \/ daemon' = Exited
        \/ daemon.op = "invoke" /\ daemon' = Answering(daemon.req, "final")
    BY DEF DaemonCallOk, DaemonCallFails
  <1>6. handle' \in [Extensions -> Handles \cup {NoHandle}]
    BY <1>4 DEF DaemonCallOk, DaemonCallFails, IInv, TypeOK, DaemonStates
  <1>7. alive' \in [Handles -> BOOLEAN]
    BY DEF DaemonCallOk, DaemonCallFails, IInv, TypeOK
  <1>8. daemon.op = "invoke" => DaemonOwns /\ daemon.req \in Requests
    BY <1>1 DEF DaemonOwns, IInv, DaemonRequest
  <1>9. /\ daemon' \in DaemonStates
        /\ daemon'.pc \notin {"reserve", "enqueue"}
        /\ daemon'.pc = "reply" => /\ daemon'.op \in {"accepted", "final"}
                                   /\ daemon'.req \in Requests
        /\ DaemonOwns' => DaemonOwns /\ UNCHANGED daemon.req
    <2>1. CASE daemon' = Reading
      BY <2>1 DEF Reading, DaemonStates, DaemonOwns, NoRequest, NoHandle
    <2>2. CASE daemon' = Exited
      BY <2>2 DEF Exited, DaemonStates, DaemonOwns, NoRequest, NoHandle
    <2>3. CASE daemon.op = "invoke" /\ daemon' = Answering(daemon.req, "final")
      <3>1. /\ daemon' \in DaemonStates /\ daemon'.pc = "reply" /\ daemon'.op = "final"
            /\ daemon'.req = daemon.req
        BY <2>3, <1>4 DEF Answering, DaemonStates, NoHandle
      <3> QED
        BY <2>3, <3>1, <1>8
    <2> QED
      BY <1>5, <2>1, <2>2, <2>3
  <1> QED
    BY <1>1, <1>2, <1>3, <1>6, <1>7, <1>9, DaemonQuietStep

LEMMA HostClosesStep ==
  ASSUME IInv, HostCloses
  PROVE  IInv'
  <1>1. daemon.pc = "read" /\ daemon' = Exited
    BY DEF HostCloses
  <1>2. UNCHANGED <<policy, sent, control, handle, owner, started, alive, holder, in_flight,
                    pool, queue, target, wpc, wjob, sink, markers, answers>>
    BY DEF HostCloses, hostVars, pluginVars, workerVars, outputVars
  <1>3. /\ daemon' \in DaemonStates /\ daemon'.pc = "exited" /\ ~DaemonOwns'
    BY <1>1 DEF Exited, DaemonStates, DaemonOwns, NoRequest, NoHandle
  <1> QED
    BY <1>1, <1>2, <1>3, DaemonQuietStep DEF IInv, TypeOK

-----------------------------------------------------------------------------
(* Workers, the writer thread and the plugins.                              *)

\* A worker moves on with the job it has, or with none, and keeps its slot.
LEMMA WorkerQuietStep ==
  ASSUME IInv, NEW w \in Workers, NEW from, NEW to, Step(w, from, to),
         \/ from = "recv" /\ to = "gone"
         \/ from = "lock" /\ to = "call"
         \/ from = "call" /\ to = "settle",
         holder' \in [Handles -> Workers \cup {Daemon, Free}],
         UNCHANGED <<policy, sent, control, handle, owner, started, alive, daemon,
                     in_flight, pool, queue, target, wjob, sink, markers, answers>>
  PROVE  IInv' /\ Holding' = Holding
  <1>1. wpc[w] = from /\ wpc' = [wpc EXCEPT ![w] = to]
    BY DEF Step
  <1>2. wpc' \in [Workers -> {"none", "recv", "lock", "call", "settle", "deliver", "gone"}]
    BY <1>1 DEF IInv, TypeOK
  <1>3. \A v \in Workers : wpc'[v] = IF v = w THEN to ELSE wpc[v]
    BY <1>1 DEF IInv, TypeOK
  <1>4. TypeOK'
    BY <1>2 DEF IInv, TypeOK
  <1>5. \A v \in Workers : Busy(v)' <=> Busy(v)
    BY <1>1, <1>3 DEF Busy
  <1>6. Holding' = Holding
    BY <1>5 DEF Holding
  <1>7. JobHeld'
    BY <1>1, <1>3 DEF IInv, JobHeld
  <1>8. DispatchReady' /\ (DaemonOwns' => DaemonOwns /\ UNCHANGED daemon.req)
    BY DEF IInv, DispatchReady, DaemonOwns
  <1> QED
    BY <1>4, <1>6, <1>7, <1>8, QuietStep

LEMMA QuitLockReturnStep ==
  ASSUME IInv, NEW w \in Workers, Quit(w) \/ Lock(w) \/ Return(w)
  PROVE  IInv' /\ Holding' = Holding
  <1>1. UNCHANGED <<policy, sent, control, handle, owner, started, alive, daemon, in_flight,
                    pool, queue, target, wjob, sink, markers, answers>>
    BY DEF Quit, Lock, Return, hostVars, pluginVars, outputVars
  <1>2. holder' \in [Handles -> Workers \cup {Daemon, Free}]
    BY DEF Quit, Lock, Return, Acquire, IInv, TypeOK
  <1>3. CASE Quit(w)
    BY <1>1, <1>2, <1>3, WorkerQuietStep DEF Quit
  <1>4. CASE Lock(w)
    BY <1>1, <1>2, <1>4, WorkerQuietStep DEF Lock
  <1>5. CASE Return(w)
    BY <1>1, <1>2, <1>5, WorkerQuietStep DEF Return
  <1> QED
    BY <1>3, <1>4, <1>5

LEMMA PluginDiesStep ==
  ASSUME IInv, NEW h \in Handles, PluginDies(h)
  PROVE  IInv'
  <1>1. UNCHANGED <<policy, sent, control, handle, owner, started, holder, daemon, in_flight,
                    pool, queue, target, wpc, wjob, sink, markers, answers>>
    BY DEF PluginDies, hostVars, workerVars, outputVars
  <1>2. alive' \in [Handles -> BOOLEAN]
    BY DEF PluginDies, IInv, TypeOK
  <1>3. TypeOK'
    BY <1>1, <1>2 DEF IInv, TypeOK
  <1>4. Holding' = Holding /\ JobHeld' /\ DispatchReady'
    BY <1>1 DEF Holding, Busy, IInv, JobHeld, DispatchReady
  <1>5. DaemonOwns' => DaemonOwns /\ UNCHANGED daemon.req
    BY <1>1 DEF DaemonOwns
  <1> QED
    BY <1>1, <1>3, <1>4, <1>5, QuietStep

LEMMA ReceiveStep ==
  ASSUME IInv, NEW w \in Workers, Receive(w)
  PROVE  IInv' /\ Holding' = Holding
  <1> DEFINE g == w[1]
             r == Head(queue[g])
  <1>1. /\ wpc[w] = "recv" /\ wpc' = [wpc EXCEPT ![w] = "lock"]
        /\ wjob' = [wjob EXCEPT ![w] = r]
        /\ queue' = [queue EXCEPT ![g] = Tail(queue[g])]
        /\ queue[g] # <<>>
    BY DEF Receive, Step
  <1>2. UNCHANGED <<policy, sent, control, handle, owner, started, alive, holder, daemon,
                    in_flight, pool, target, sink, markers, answers>>
    BY DEF Receive, hostVars, pluginVars, outputVars
  <1>3. g \in Pools /\ queue[g] \in Seq(Requests) /\ Requests \subseteq Nat \ {0}
    BY DEF Workers, IInv, TypeOK, Requests
  <1>4. \A i, j \in DOMAIN queue[g] : queue[g][i] = queue[g][j] => i = j
    BY <1>3 DEF IInv, OneOwner
  <1>5. /\ Tail(queue[g]) \in Seq(Requests) /\ r \in Requests
        /\ r = queue[g][1] /\ 1 \in DOMAIN queue[g]
        /\ DOMAIN Tail(queue[g]) = 1..Len(queue[g]) - 1
        /\ \A i \in 1..Len(queue[g]) - 1 : /\ Tail(queue[g])[i] = queue[g][i + 1]
                                           /\ i + 1 \in DOMAIN queue[g]
        /\ Members(Tail(queue[g])) = Members(queue[g]) \ {r}
        /\ r \in Members(queue[g])
    BY <1>1, <1>3, <1>4, TailFacts
  <1>6. /\ queue' \in [Pools -> Seq(Requests)]
        /\ wjob' \in [Workers -> Requests \cup {NoRequest}]
        /\ wpc' \in [Workers -> {"none", "recv", "lock", "call", "settle", "deliver",
                                 "gone"}]
    BY <1>1, <1>3, <1>5 DEF IInv, TypeOK
  <1>7. TypeOK'
    BY <1>2, <1>6 DEF IInv, TypeOK
  <1>8. \A p \in Pools : Members(queue'[p]) = Members(queue[p]) \ {r}
    <2> SUFFICES ASSUME NEW p \in Pools
                 PROVE  Members(queue'[p]) = Members(queue[p]) \ {r}
      OBVIOUS
    <2>1. CASE p = g
      BY <2>1, <1>1, <1>3, <1>5 DEF IInv, TypeOK
    <2>2. CASE p # g
      <3>1. queue'[p] = queue[p]
        BY <2>2, <1>1, <1>3 DEF IInv, TypeOK
      <3>2. r \notin Members(queue[p])
        BY <2>2, <1>3, <1>5 DEF IInv, OneOwner, Members
      <3> QED
        BY <3>1, <3>2
    <2> QED
      BY <2>1, <2>2
  <1>9. /\ wjob'[w] = r /\ wpc'[w] = "lock"
        /\ \A v \in Workers : v # w => wjob'[v] = wjob[v] /\ wpc'[v] = wpc[v]
    <2>1. /\ wjob \in [Workers -> Requests \cup {NoRequest}]
          /\ wpc \in [Workers -> {"none", "recv", "lock", "call", "settle", "deliver",
                                 "gone"}]
      BY DEF IInv, TypeOK
    <2> QED
      BY <2>1, <1>1
  <1>10. wjob[w] = NoRequest /\ \A v \in Workers : wjob[v] # r
    BY <1>1, <1>3, <1>5 DEF IInv, JobHeld, OneOwner
  <1>11. \A q \in Requests : Placed(q)' <=> Placed(q)
    <2> SUFFICES ASSUME NEW q \in Requests PROVE Placed(q)' <=> Placed(q)
      OBVIOUS
    <2>1. CASE q = r
      BY <2>1, <1>3, <1>5, <1>9 DEF Placed
    <2>2. CASE q # r
      <3>1. (\E v \in Workers : wjob'[v] = q) <=> (\E v \in Workers : wjob[v] = q)
        <4>1. q # NoRequest
          BY <1>3 DEF NoRequest
        <4> QED
          BY <4>1, <2>2, <1>9, <1>10
      <3>2. (\E p \in Pools : q \in Members(queue'[p])) <=> (\E p \in Pools : q \in Members(queue[p]))
        BY <2>2, <1>8
      <3>3. Members(sink') = Members(sink)
        BY <1>2 DEF Members
      <3> QED
        BY <3>1, <3>2, <3>3 DEF Placed
    <2> QED
      BY <2>1, <2>2
  <1>12. Holding' = Holding
    <2> SUFFICES ASSUME NEW q \in Requests PROVE q \in Holding' <=> q \in Holding
      BY DEF Holding
    <2>1. \A v \in Workers : v # w => (Busy(v)' <=> Busy(v))
      BY <1>9 DEF Busy
    <2>2. ~Busy(w) /\ Busy(w)'
      BY <1>1, <1>9 DEF Busy
    <2>3. CASE q = r
      <3>1. q \in Holding
        BY <2>3, <1>3, <1>5 DEF Holding
      <3>2. q \in Holding'
        BY <2>2, <2>3, <1>9 DEF Holding
      <3> QED
        BY <3>1, <3>2
    <2>4. CASE q # r
      BY <2>1, <2>2, <2>4, <1>2, <1>8, <1>9 DEF Holding
    <2> QED
      BY <2>3, <2>4
  <1>13. SlotAccounting'
    BY <1>2, <1>12 DEF IInv, SlotAccounting
  <1>14. OneOwner'
    <2>1. \A g1, g2 \in Pools : \A i \in DOMAIN queue'[g1], j \in DOMAIN queue'[g2] :
            queue'[g1][i] = queue'[g2][j] => g1 = g2 /\ i = j
      <3> SUFFICES ASSUME NEW g1 \in Pools, NEW g2 \in Pools,
                          NEW i \in DOMAIN queue'[g1], NEW j \in DOMAIN queue'[g2],
                          queue'[g1][i] = queue'[g2][j]
                   PROVE  g1 = g2 /\ i = j
        OBVIOUS
      <3>1. \A p \in Pools : /\ p # g => queue'[p] = queue[p]
                             /\ p = g => queue'[p] = Tail(queue[p])
        BY <1>1 DEF IInv, TypeOK
      <3>2. \A p \in Pools : \A k \in DOMAIN queue'[p] :
              /\ p # g => k \in DOMAIN queue[p] /\ queue'[p][k] = queue[p][k]
              /\ p = g => /\ k \in Int /\ k + 1 \in DOMAIN queue[p]
                          /\ queue'[p][k] = queue[p][k + 1]
        <4> SUFFICES ASSUME NEW p \in Pools, NEW k \in DOMAIN queue'[p]
                     PROVE  /\ p # g => k \in DOMAIN queue[p] /\ queue'[p][k] = queue[p][k]
                            /\ p = g => /\ k \in Int /\ k + 1 \in DOMAIN queue[p]
                                        /\ queue'[p][k] = queue[p][k + 1]
          OBVIOUS
        <4>1. CASE p # g
          BY <4>1, <3>1
        <4>2. CASE p = g
          <5>1. queue'[p] = Tail(queue[g])
            BY <4>2, <3>1
          <5>2. k \in 1..Len(queue[g]) - 1 /\ Len(queue[g]) \in Nat
            BY <5>1, <1>3, <1>5
          <5>3. k \in Int
            BY <5>2
          <5>4. queue'[p][k] = queue[g][k + 1] /\ k + 1 \in DOMAIN queue[g]
            BY <5>1, <5>2, <1>5
          <5> QED
            BY <4>2, <5>3, <5>4
        <4> QED
          BY <4>1, <4>2
      <3>3. \A p1, p2 \in Pools : \A k \in DOMAIN queue[p1], l \in DOMAIN queue[p2] :
              queue[p1][k] = queue[p2][l] => p1 = p2 /\ k = l
        BY DEF IInv, OneOwner
      <3>4. CASE g1 = g /\ g2 = g
        <4>1. i \in Int /\ j \in Int /\ i + 1 = j + 1
          BY <3>2, <3>3, <3>4
        <4> QED
          BY <4>1, <3>4
      <3>5. CASE g1 # g /\ g2 # g
        BY <3>2, <3>3, <3>5
      <3>6. CASE g1 = g /\ g2 # g
        BY <3>2, <3>3, <3>6
      <3>7. CASE g1 # g /\ g2 = g
        BY <3>2, <3>3, <3>7
      <3> QED
        BY <3>4, <3>5, <3>6, <3>7
    <2>2. \A w1, w2 \in Workers :
            wjob'[w1] # NoRequest /\ wjob'[w1] = wjob'[w2] => w1 = w2
      BY <1>9, <1>10 DEF IInv, OneOwner
    <2>3. \A i, j \in DOMAIN sink' : sink'[i] = sink'[j] => i = j
      BY <1>2 DEF IInv, OneOwner
    <2>4. \A v \in Workers : \A p \in Pools : wjob'[v] \notin Members(queue'[p])
      BY <1>8, <1>9 DEF IInv, OneOwner
    <2>5. \A q \in Members(sink') : q \notin Holding' /\ \A v \in Workers : wjob'[v] # q
      <3>1. Members(sink') = Members(sink)
        BY <1>2 DEF Members
      <3>2. r \in Holding
        BY <1>3, <1>5 DEF Holding
      <3> QED
        BY <3>1, <3>2, <1>9, <1>12 DEF IInv, OneOwner
    <2> QED
      BY <2>1, <2>2, <2>3, <2>4, <2>5 DEF OneOwner
  <1>15. JobHeld'
    <2>1. r # NoRequest
      BY <1>3, <1>5 DEF NoRequest
    <2>2. \A v \in Workers :
            /\ wjob[v] # NoRequest <=> wpc[v] \in {"lock", "call", "settle", "deliver"}
            /\ v[1] > pool => wpc[v] = "none"
      BY DEF IInv, JobHeld
    <2> QED
      BY <2>1, <2>2, <1>1, <1>2, <1>9 DEF JobHeld
  <1>16. DaemonRequest' /\ Answers' /\ DispatchReady'
    BY <1>2, <1>11 DEF IInv, DaemonRequest, DaemonOwns, Answers, DispatchReady
  <1> QED
    BY <1>12, <1>7, <1>13, <1>14, <1>15, <1>16 DEF IInv

LEMMA SettleStep ==
  ASSUME IInv, NEW w \in Workers, Settle(w)
  PROVE  IInv' /\ Holding' = Holding \ {wjob[w]}
  <1>1. wpc[w] = "settle" /\ wpc' = [wpc EXCEPT ![w] = "deliver"]
    BY DEF Settle, Step
  <1>2. UNCHANGED <<policy, sent, control, handle, owner, started, alive, holder, daemon,
                    pool, queue, target, wjob, sink, markers, answers>>
    BY DEF Settle, hostVars, pluginVars, outputVars
  <1>3. wjob[w] \in Requests /\ wjob[w] \in Holding
    BY <1>1 DEF IInv, JobHeld, TypeOK, Holding, Busy
  <1>4. /\ wpc' \in [Workers -> {"none", "recv", "lock", "call", "settle", "deliver",
                                 "gone"}]
        /\ wpc'[w] = "deliver"
        /\ \A v \in Workers : v # w => wpc'[v] = wpc[v]
    BY <1>1 DEF IInv, TypeOK
  <1>5. Holding' = Holding \ {wjob[w]}
    <2> SUFFICES ASSUME NEW q \in Requests
                 PROVE  q \in Holding' <=> (q \in Holding /\ q # wjob[w])
      BY DEF Holding
    <2>1. ~Busy(w)' /\ \A v \in Workers : v # w => (Busy(v)' <=> Busy(v))
      BY <1>4 DEF Busy
    <2>2. CASE q = wjob[w]
      <3>1. \A p \in Pools : q \notin Members(queue[p])
        BY <2>2 DEF IInv, OneOwner
      <3>2. \A v \in Workers : v # w => wjob[v] # q
        BY <1>3, <2>2 DEF IInv, OneOwner, NoRequest, Requests
      <3>3. ~(daemon.pc = "enqueue" /\ daemon.req = q)
        BY <2>2 DEF IInv, DaemonRequest, DaemonOwns, Placed
      <3> QED
        BY <1>2, <2>1, <2>2, <3>1, <3>2, <3>3 DEF Holding
    <2>3. CASE q # wjob[w]
      BY <1>2, <2>1, <2>3 DEF Holding
    <2> QED
      BY <2>2, <2>3
  <1>6. Cardinality(Holding') = Cardinality(Holding) - 1
    BY <1>3, <1>5, HoldingFinite, FS_RemoveElement
  <1>7. Cardinality(Holding) # 0
    BY <1>3, HoldingFinite, FS_EmptySet
  <1>8. in_flight' = in_flight - 1 /\ in_flight = Cardinality(Holding) /\ in_flight \in Nat
    BY DEF Settle, IInv, SlotAccounting, TypeOK
  <1>9. in_flight' \in Nat /\ SlotAccounting'
    BY <1>6, <1>7, <1>8 DEF SlotAccounting
  <1>10. TypeOK'
    BY <1>2, <1>4, <1>9 DEF IInv, TypeOK
  <1>11. OneOwner' /\ (\A q : Placed(q)' <=> Placed(q))
    BY <1>2, <1>5, OwnershipUnmoved DEF IInv
  <1>12. JobHeld'
    BY <1>1, <1>2, <1>4 DEF IInv, JobHeld
  <1>13. DispatchReady'
    <2>1. policy.cap \in Nat
      BY SchedulerAssumption DEF IInv, TypeOK
    <2> QED
      BY <1>2, <1>8, <2>1 DEF IInv, DispatchReady
  <1>14. DaemonRequest' /\ Answers'
    BY <1>2, <1>11 DEF IInv, DaemonRequest, DaemonOwns, Answers
  <1> QED
    BY <1>5, <1>9, <1>10, <1>11, <1>12, <1>13, <1>14 DEF IInv

LEMMA DeliverStep ==
  ASSUME IInv, NEW w \in Workers, Deliver(w)
  PROVE  IInv' /\ Holding' = Holding
  <1> DEFINE r == wjob[w]
  <1>1. /\ wpc[w] = "deliver" /\ wpc' = [wpc EXCEPT ![w] = "recv"]
        /\ wjob' = [wjob EXCEPT ![w] = NoRequest]
        /\ sink' = Append(sink, r)
    BY DEF Deliver, Step
  <1>2. UNCHANGED <<policy, sent, control, handle, owner, started, alive, holder, daemon,
                    in_flight, pool, queue, target, markers, answers>>
    BY DEF Deliver, hostVars, pluginVars
  <1>3. /\ r \in Requests /\ r # NoRequest /\ sink \in Seq(Requests)
        /\ \A q \in Requests : q # NoRequest
    BY <1>1 DEF IInv, JobHeld, TypeOK, Requests, NoRequest
  <1>4. /\ DOMAIN sink' = 1..Len(sink) + 1 /\ DOMAIN sink = 1..Len(sink)
        /\ \A i \in 1..Len(sink) : sink'[i] = sink[i]
        /\ sink'[Len(sink) + 1] = r
        /\ Members(sink') = Members(sink) \cup {r}
        /\ sink' \in Seq(Requests) /\ Len(sink) \in Nat
    BY <1>1, <1>3, AppendFacts
  <1>5. /\ wjob' \in [Workers -> Requests \cup {NoRequest}]
        /\ wpc' \in [Workers -> {"none", "recv", "lock", "call", "settle", "deliver",
                                 "gone"}]
        /\ wjob'[w] = NoRequest /\ wpc'[w] = "recv"
        /\ \A v \in Workers : v # w => wjob'[v] = wjob[v] /\ wpc'[v] = wpc[v]
    <2>1. /\ wjob \in [Workers -> Requests \cup {NoRequest}]
          /\ wpc \in [Workers -> {"none", "recv", "lock", "call", "settle", "deliver",
                                 "gone"}]
      BY DEF IInv, TypeOK
    <2> QED
      BY <2>1, <1>1
  <1>6. TypeOK'
    BY <1>2, <1>4, <1>5 DEF IInv, TypeOK
  <1>7. Holding' = Holding
    <2>1. ~Busy(w) /\ ~Busy(w)'
      BY <1>1, <1>5 DEF Busy
    <2>2. \A v \in Workers : v # w => (Busy(v)' <=> Busy(v)) /\ wjob'[v] = wjob[v]
      BY <1>5 DEF Busy
    <2> QED
      BY <1>2, <2>1, <2>2 DEF Holding
  <1>8. r \notin Members(sink)
    BY <1>3 DEF IInv, OneOwner
  <1>9. \A q \in Requests : Placed(q)' <=> Placed(q)
    <2> SUFFICES ASSUME NEW q \in Requests PROVE Placed(q)' <=> Placed(q)
      OBVIOUS
    <2>1. CASE q = r
      BY <2>1, <1>4 DEF Placed
    <2>2. CASE q # r
      <3>1. (\E v \in Workers : wjob'[v] = q) <=> (\E v \in Workers : wjob[v] = q)
        BY <2>2, <1>3, <1>5
      <3> QED
        BY <2>2, <3>1, <1>2, <1>4 DEF Placed
    <2> QED
      BY <2>1, <2>2
  <1>10. r \notin Holding
    <2>1. ~Busy(w)
      BY <1>1 DEF Busy
    <2>2. \A p \in Pools : r \notin Members(queue[p])
      BY DEF IInv, OneOwner
    <2>3. \A v \in Workers : v # w => wjob[v] # r
      BY <1>3 DEF IInv, OneOwner
    <2>4. ~(daemon.pc = "enqueue" /\ daemon.req = r)
      BY DEF IInv, DaemonRequest, DaemonOwns, Placed
    <2> QED
      BY <2>1, <2>2, <2>3, <2>4 DEF Holding
  <1>11. OneOwner'
    <2>1. \A g1, g2 \in Pools : \A i \in DOMAIN queue'[g1], j \in DOMAIN queue'[g2] :
            queue'[g1][i] = queue'[g2][j] => g1 = g2 /\ i = j
      BY <1>2 DEF IInv, OneOwner
    <2>2. \A w1, w2 \in Workers :
            wjob'[w1] # NoRequest /\ wjob'[w1] = wjob'[w2] => w1 = w2
      BY <1>5 DEF IInv, OneOwner
    <2>3. \A i, j \in DOMAIN sink' : sink'[i] = sink'[j] => i = j
      <3>1. \A i \in 1..Len(sink) : sink[i] # r
        BY <1>4, <1>8 DEF Members
      <3>2. \A i \in 1..Len(sink) + 1 : i \in 1..Len(sink) \/ i = Len(sink) + 1
        BY <1>4
      <3>3. \A i, j \in 1..Len(sink) : sink[i] = sink[j] => i = j
        BY <1>4 DEF IInv, OneOwner
      <3> QED
        BY <3>1, <3>2, <3>3, <1>4
    <2>4. \A v \in Workers : \A p \in Pools : wjob'[v] \notin Members(queue'[p])
      <3>1. \A p \in Pools : NoRequest \notin Members(queue[p])
        <4>1. \A p \in Pools : queue[p] \in Seq(Requests)
          BY DEF IInv, TypeOK
        <4>2. \A p \in Pools : \A i \in DOMAIN queue[p] : queue[p][i] \in Requests
          BY <4>1
        <4> QED
          BY <4>2, <1>3 DEF Members
      <3> QED
        BY <3>1, <1>2, <1>5 DEF IInv, OneOwner
    <2>5. \A q \in Members(sink') : q \notin Holding' /\ \A v \in Workers : wjob'[v] # q
      <3>1. \A q \in Members(sink) : q \in Requests
        BY <1>3 DEF Members
      <3>2. \A v \in Workers : wjob'[v] # r
        BY <1>3, <1>5 DEF IInv, OneOwner
      <3> QED
        BY <3>1, <3>2, <1>3, <1>4, <1>5, <1>7, <1>10 DEF IInv, OneOwner
    <2> QED
      BY <2>1, <2>2, <2>3, <2>4, <2>5 DEF OneOwner
  <1>12. JobHeld'
    BY <1>1, <1>2, <1>5 DEF IInv, JobHeld
  <1>13. SlotAccounting' /\ DaemonRequest' /\ Answers' /\ DispatchReady'
    BY <1>2, <1>7, <1>9 DEF IInv, SlotAccounting, DaemonRequest, DaemonOwns, Answers,
                            DispatchReady
  <1> QED
    BY <1>7, <1>6, <1>11, <1>12, <1>13 DEF IInv

LEMMA WriteStep ==
  ASSUME IInv, Write
  PROVE  IInv' /\ Holding' = Holding
  <1> DEFINE r == Head(sink)
  <1>1. /\ sink # <<>> /\ sink' = Tail(sink)
        /\ answers' = [answers EXCEPT ![r] = @ + 1]
    BY DEF Write
  <1>2. UNCHANGED <<policy, sent, control, handle, owner, started, alive, holder, daemon,
                    in_flight, pool, queue, target, wpc, wjob, markers>>
    BY DEF Write, hostVars, pluginVars, workerVars
  <1>3. sink \in Seq(Requests) /\ \A i, j \in DOMAIN sink : sink[i] = sink[j] => i = j
    BY DEF IInv, TypeOK, OneOwner
  <1>4. /\ sink' \in Seq(Requests) /\ r \in Requests
        /\ DOMAIN sink' = 1..Len(sink) - 1
        /\ \A i \in 1..Len(sink) - 1 : sink'[i] = sink[i + 1] /\ i + 1 \in DOMAIN sink
        /\ Members(sink') = Members(sink) \ {r}
        /\ r \in Members(sink)
    BY <1>1, <1>3, TailFacts
  <1>5. answers[r] = 0 /\ r <= sent
    BY <1>4 DEF IInv, Answers, Placed
  <1>6. /\ answers' \in [Requests -> Nat]
        /\ answers'[r] = 1
        /\ \A q \in Requests : q # r => answers'[q] = answers[q]
    BY <1>1, <1>4, <1>5 DEF IInv, TypeOK
  <1>7. TypeOK'
    BY <1>2, <1>4, <1>6 DEF IInv, TypeOK
  <1>8. Holding' = Holding
    BY <1>2 DEF Holding, Busy
  <1>9. r \notin Holding /\ \A v \in Workers : wjob[v] # r
    BY <1>4 DEF IInv, OneOwner
  <1>10. \A p \in Pools : r \notin Members(queue[p])
    BY <1>4, <1>9 DEF Holding
  <1>11. \A q \in Requests : Placed(q)' <=> (Placed(q) /\ q # r)
    BY <1>2, <1>4, <1>9, <1>10 DEF Placed
  <1>12. OneOwner'
    <2>1. /\ \A g1, g2 \in Pools : \A i \in DOMAIN queue'[g1], j \in DOMAIN queue'[g2] :
               queue'[g1][i] = queue'[g2][j] => g1 = g2 /\ i = j
          /\ \A w1, w2 \in Workers :
               wjob'[w1] # NoRequest /\ wjob'[w1] = wjob'[w2] => w1 = w2
          /\ \A v \in Workers : \A p \in Pools : wjob'[v] \notin Members(queue'[p])
      BY <1>2 DEF IInv, OneOwner
    <2>2. \A i, j \in DOMAIN sink' : sink'[i] = sink'[j] => i = j
      <3>1. \A i \in 1..Len(sink) - 1 : i \in Int
        BY <1>3
      <3> SUFFICES ASSUME NEW i \in DOMAIN sink', NEW j \in DOMAIN sink',
                          sink'[i] = sink'[j]
                   PROVE  i = j
        OBVIOUS
      <3>2. i + 1 = j + 1 /\ i \in Int /\ j \in Int
        BY <1>3, <1>4, <3>1
      <3> QED
        BY <3>2
    <2>3. \A q \in Members(sink') : q \notin Holding' /\ \A v \in Workers : wjob'[v] # q
      BY <1>2, <1>4, <1>8 DEF IInv, OneOwner
    <2> QED
      BY <2>1, <2>2, <2>3 DEF OneOwner
  <1>13. Answers'
    <2> SUFFICES ASSUME NEW q \in Requests
                 PROVE  /\ answers'[q] <= 1
                        /\ Placed(q)' => q <= sent' /\ answers'[q] = 0
                        /\ answers'[q] # 0 => q <= sent'
      BY DEF Answers
    <2>1. CASE q = r
      BY <2>1, <1>2, <1>5, <1>6, <1>11
    <2>2. CASE q # r
      BY <2>2, <1>2, <1>6, <1>11 DEF IInv, Answers
    <2> QED
      BY <2>1, <2>2
  <1>14. DaemonRequest'
    <2>1. ASSUME DaemonOwns
          PROVE  daemon.req \in Requests /\ daemon.req # r /\ ~Placed(daemon.req)
      BY <2>1, <1>4 DEF IInv, DaemonRequest, Placed
    <2> QED
      BY <2>1, <1>2, <1>6, <1>11 DEF IInv, DaemonRequest, DaemonOwns
  <1>15. SlotAccounting' /\ JobHeld' /\ DispatchReady'
    BY <1>2, <1>8 DEF IInv, SlotAccounting, JobHeld, DispatchReady
  <1> QED
    BY <1>8, <1>7, <1>12, <1>13, <1>14, <1>15 DEF IInv

-----------------------------------------------------------------------------
(* The theorems.                                                            *)

LEMMA StutterStep ==
  ASSUME IInv, UNCHANGED vars
  PROVE  IInv'
  <1>1. UNCHANGED <<policy, sent, control, handle, owner, started, alive, holder, daemon,
                    in_flight, pool, queue, target, wpc, wjob, sink, markers, answers>>
    BY DEF vars, pluginVars, workerVars, outputVars, hostVars
  <1>2. TypeOK' /\ JobHeld' /\ DispatchReady' /\ Holding' = Holding
    BY <1>1 DEF IInv, TypeOK, JobHeld, DispatchReady, Holding, Busy
  <1> QED
    BY <1>1, <1>2, QuietStep DEF DaemonOwns

\* Every step of the scheduler keeps the inductive invariant.
LEMMA NextIInv == IInv /\ [Next]_vars => IInv'
  <1> SUFFICES ASSUME IInv, [Next]_vars PROVE IInv'
    OBVIOUS
  <1>1. CASE HostStep
    BY <1>1, SetPolicyStep, ReloadStep, ActivateStep, DeactivateStep, InvokeInactiveStep,
       InvokeSyncStep, InvokeAsyncStep, HostClosesStep DEF HostStep
  <1>2. CASE DaemonStep
    BY <1>2, ReserveStep, EnqueueStep, ReplyStep, DaemonLockStep, DaemonCallStep
       DEF DaemonStep
  <1>3. ASSUME NEW w \in Workers, WorkerStep(w) PROVE IInv'
    BY <1>3, ReceiveStep, QuitLockReturnStep, SettleStep, DeliverStep DEF WorkerStep
  <1>4. CASE Write
    BY <1>4, WriteStep
  <1>5. ASSUME NEW h \in Handles, PluginDies(h) PROVE IInv'
    BY <1>5, PluginDiesStep
  <1>6. CASE Terminated \/ UNCHANGED vars
    BY <1>6, StutterStep DEF Terminated
  <1> QED
    BY <1>1, <1>2, <1>3, <1>4, <1>5, <1>6 DEF Next

\* The inductive invariant holds in every reachable state.
THEOREM Inductive == Spec => []IInv
  BY InitIInv, NextIInv, PTL DEF Spec

\* Every variable keeps its type; in particular in_flight_invokes never wraps below
\* zero when a worker gives a slot back.
THEOREM TypeCorrect == Spec => []TypeOK
  <1>1. IInv => TypeOK
    BY DEF IInv
  <1> QED
    BY <1>1, Inductive, PTL

\* in_flight_invokes is at all times the number of queued and executing invokes.
THEOREM SlotsAccounted == Spec => []SlotAccounting
  <1>1. IInv => SlotAccounting
    BY DEF IInv
  <1> QED
    BY <1>1, Inductive, PTL

\* No request is answered twice or still worked on after its answer.
THEOREM EveryAnswerIsFinal == Spec => []AnsweredOnce
  <1>1. IInv => AnsweredOnce
    <2> SUFFICES ASSUME IInv, NEW r \in Requests, answers[r] = 1
                 PROVE  r \notin Holding \cup Finished
      BY DEF IInv, Answers, AnsweredOnce
    <2>1. ~Placed(r)
      BY DEF IInv, Answers
    <2>2. ~(daemon.pc = "enqueue" /\ daemon.req = r)
      BY DEF IInv, DaemonRequest, DaemonOwns
    <2>3. r \notin Holding
      BY <2>1, <2>2, HoldingPlaced
    <2> QED
      BY <2>1, <2>3 DEF Finished, Placed
  <1> QED
    BY <1>1, Inductive, PTL

\* No step takes a slot beyond the queueCap in force.
THEOREM BackpressureHolds == Spec => Backpressure
  <1>1. IInv /\ [Next]_vars => [in_flight' > in_flight => in_flight < policy.cap]_vars
    <2> SUFFICES ASSUME IInv, Next, in_flight' > in_flight
                 PROVE  in_flight < policy.cap
      OBVIOUS
    <2>1. in_flight \in Nat
      BY DEF IInv, TypeOK
    <2>2. CASE Reserve
      BY <2>2 DEF IInv, DispatchReady, Reserve
    <2>3. CASE \E w \in Workers : Settle(w)
      BY <2>1, <2>3 DEF Settle
    <2>4. CASE UNCHANGED in_flight
      BY <2>1, <2>4
    <2>5. Reserve \/ (\E w \in Workers : Settle(w)) \/ UNCHANGED in_flight
      BY DEF Next, HostStep, DaemonStep, WorkerStep, Terminated, vars, SetPolicy, Reload,
             Activate, Deactivate, InvokeInactive, InvokeSync, InvokeBusy, InvokeAsync,
             HostCloses, Enqueue, Reply, DaemonLock, DaemonCallOk, DaemonCallFails,
             Receive, Quit, Lock, Return, Deliver, Write, PluginDies
    <2> QED
      BY <2>2, <2>3, <2>4, <2>5
  <1> QED
    BY <1>1, Inductive, PTL DEF Spec, Backpressure
-----------------------------------------------------------------------------
(* Who is inside a plugin.                                                  *)

\* Instances are numbered as they are started; nobody knows of later ones, and
\* their mutexes are free.
InstancesKnown ==
  /\ \A e \in Extensions : handle[e] <= started
  /\ \A r \in Requests : target[r] <= started
  /\ daemon.pc \in {"lock", "call"} => daemon.h \in Handles /\ daemon.h <= started
  /\ \A h \in Handles : h > started => holder[h] = Free

\* An invoke that is dispatched, queued or with a worker was given an instance.
InstanceGiven ==
  /\ daemon.pc \in {"reserve", "enqueue"} => target[daemon.req] # NoHandle
  /\ \A g \in Pools : \A r \in Members(queue[g]) : target[r] # NoHandle
  /\ \A w \in Workers : wjob[w] # NoRequest => target[wjob[w]] # NoHandle

Calls(w, h) == wpc[w] = "call" /\ target[wjob[w]] = h

\* A thread owns the mutex of an instance exactly while it is calling that instance.
MutexHeld ==
  \A h \in Handles :
    /\ holder[h] = Daemon <=> daemon.pc = "call" /\ daemon.h = h
    /\ \A w \in Workers : holder[h] = w <=> Calls(w, h)

MutexInv == InstancesKnown /\ InstanceGiven /\ MutexHeld

LEMMA ThreadsDistinct ==
  /\ Daemon # Free
  /\ \A w \in Workers : w # Daemon /\ w # Free
  <1>1. \A w \in Workers : w[1] # 0
    BY DEF Workers, Pools
  <1>2. Daemon[1] = 0 /\ Free[1] = 0 /\ Daemon[2] = 0 /\ Free[2] = 1
    BY DEF Daemon, Free
  <1> QED
    BY <1>1, <1>2

LEMMA InitMutex == Init => MutexInv
  <1> SUFFICES ASSUME Init PROVE MutexInv
    OBVIOUS
  <1>1. \A g \in Pools : Members(queue[g]) = {}
    BY DEF Init, Members
  <1>2. InstancesKnown
    BY SchedulerAssumption DEF Init, InstancesKnown, Reading, NoHandle
  <1>3. InstanceGiven
    BY <1>1 DEF Init, InstanceGiven, Reading
  <1>4. MutexHeld
    BY ThreadsDistinct DEF Init, MutexHeld, Calls, Reading
  <1> QED
    BY <1>2, <1>3, <1>4 DEF MutexInv

\* The daemon thread moves on without a call, and without having made one.
LEMMA DaemonMoves ==
  ASSUME MutexInv, UNCHANGED <<started, holder, queue, target, wpc, wjob>>,
         \A e \in Extensions : handle'[e] <= started,
         daemon.pc # "call", daemon'.pc # "call",
         daemon'.pc = "lock" => daemon'.h \in Handles /\ daemon'.h <= started,
         daemon'.pc \in {"reserve", "enqueue"} => target[daemon'.req] # NoHandle
  PROVE  MutexInv'
  <1>1. InstancesKnown'
    BY DEF MutexInv, InstancesKnown
  <1>2. InstanceGiven'
    BY DEF MutexInv, InstanceGiven, Members
  <1>3. MutexHeld'
    BY DEF MutexInv, MutexHeld, Calls
  <1> QED
    BY <1>1, <1>2, <1>3 DEF MutexInv

LEMMA MutexControl ==
  ASSUME IInv, MutexInv, NEW e \in Extensions, Reload(e) \/ Deactivate(e)
  PROVE  MutexInv'
  <1>1. UNCHANGED <<started, holder, queue, target, wpc, wjob>> /\ daemon.pc = "read"
    BY DEF Reload, Deactivate, Control, pluginVars, workerVars
  <1>2. /\ handle \in [Extensions -> Handles \cup {NoHandle}] /\ started \in Nat
        /\ \A x \in Extensions : handle[x] <= started
    BY DEF IInv, TypeOK, MutexInv, InstancesKnown
  <1>3. CASE Reload(e)
    <2>1. UNCHANGED daemon /\ \A x \in Extensions : handle'[x] <= started
      BY <1>2, <1>3 DEF Reload, NoHandle
    <2> QED
      BY <1>1, <2>1, DaemonMoves
  <1>4. CASE Deactivate(e)
    <2>1. UNCHANGED handle
      BY <1>4 DEF Deactivate, pluginVars
    <2>2. \/ daemon' = daemon
          \/ daemon'.pc = "lock" /\ daemon'.h \in Handles /\ daemon'.h <= started
      BY <1>2, <1>4 DEF Deactivate
    <2> QED
      BY <1>1, <1>2, <2>1, <2>2, DaemonMoves
  <1> QED
    BY <1>3, <1>4

LEMMA MutexActivate ==
  ASSUME IInv, MutexInv, NEW e \in Extensions, Activate(e)
  PROVE  MutexInv'
  <1>1. UNCHANGED <<queue, target, wpc, wjob, handle>> /\ daemon.pc = "read"
    BY DEF Activate, Control, pluginVars, workerVars
  <1>2. CASE handle[e] # NoHandle
    <2>1. UNCHANGED <<started, holder, daemon>>
      BY <1>2 DEF Activate, pluginVars
    <2> QED
      BY <1>1, <2>1, DaemonMoves DEF MutexInv, InstancesKnown
  <1>3. CASE handle[e] = NoHandle
    <2> DEFINE n == started + 1
    <2>1. /\ started' = n /\ started < MaxHandles
          /\ holder' = [holder EXCEPT ![n] = Daemon]
          /\ daemon'.pc = "call" /\ daemon'.h = n
      BY <1>3 DEF Activate
    <2>2. /\ started \in Nat /\ n \in Handles /\ started < n /\ \A h \in Handles : h \in Nat
          /\ holder \in [Handles -> Workers \cup {Daemon, Free}]
          /\ handle \in [Extensions -> Handles \cup {NoHandle}]
          /\ target \in [Requests -> Handles \cup {NoHandle}]
          /\ wjob \in [Workers -> Requests \cup {NoRequest}]
      BY <2>1, SchedulerAssumption DEF IInv, TypeOK, Handles
    <2>3. /\ \A x \in Extensions : handle[x] <= started
          /\ \A r \in Requests : target[r] <= started
          /\ \A h \in Handles : h > started => holder[h] = Free
      BY DEF MutexInv, InstancesKnown
    <2>4. /\ \A x \in Extensions : handle[x] \in Nat
          /\ \A r \in Requests : target[r] \in Nat
      BY <2>2 DEF NoHandle
    <2>5. InstancesKnown'
      <3>1. /\ \A x \in Extensions : handle'[x] <= started'
            /\ \A r \in Requests : target'[r] <= started'
        BY <1>1, <2>1, <2>2, <2>3, <2>4
      <3>2. \A h \in Handles : h > started' => holder'[h] = Free
        BY <2>1, <2>2, <2>3
      <3> HIDE DEF n
      <3> QED
        BY <3>1, <3>2, <2>1, <2>2 DEF InstancesKnown
    <2>6. InstanceGiven'
      BY <1>1, <2>1 DEF MutexInv, InstanceGiven, Members
    <2>7. ASSUME NEW w \in Workers PROVE ~Calls(w, n)
      <3>1. CASE wjob[w] \in Requests
        BY <3>1, <2>2, <2>3, <2>4 DEF Calls
      <3>2. CASE wjob[w] = NoRequest
        BY <3>2 DEF IInv, JobHeld, Calls
      <3> QED
        BY <3>1, <3>2, <2>2
    <2>8. MutexHeld'
      <3> SUFFICES ASSUME NEW h \in Handles
                   PROVE  /\ holder'[h] = Daemon <=> daemon'.pc = "call" /\ daemon'.h = h
                          /\ \A w \in Workers : holder'[h] = w <=> Calls(w, h)'
        BY DEF MutexHeld
      <3>1. \A w \in Workers : Calls(w, h)' <=> Calls(w, h)
        BY <1>1 DEF Calls
      <3>2. CASE h = n
        <4>1. holder'[h] = Daemon
          BY <3>2, <2>1, <2>2
        <4> QED
          BY <4>1, <3>1, <3>2, <2>1, <2>7, ThreadsDistinct
      <3>3. CASE h # n
        <4>1. holder'[h] = holder[h]
          BY <3>3, <2>1, <2>2
        <4>2. /\ holder[h] # Daemon
              /\ \A w \in Workers : holder[h] = w <=> Calls(w, h)
          BY <1>1 DEF MutexInv, MutexHeld
        <4> QED
          BY <4>1, <4>2, <3>1, <3>3, <2>1
      <3> QED
        BY <3>2, <3>3
    <2> QED
      BY <2>5, <2>6, <2>8 DEF MutexInv
  <1> QED
    BY <1>2, <1>3

LEMMA MutexInvoke ==
  ASSUME IInv, MutexInv, NEW r \in Requests, NEW e \in Extensions,
         InvokeInactive(r, e) \/ InvokeSync(r, e) \/ InvokeBusy(r, e)
  PROVE  MutexInv'
  <1>1. /\ UNCHANGED <<handle, started, holder, queue, target, wpc, wjob>>
        /\ daemon.pc = "read"
    BY DEF InvokeInactive, InvokeSync, InvokeBusy, NewInvoke, pluginVars, workerVars
  <1>2. /\ handle[e] \in Handles \cup {NoHandle}
        /\ \A x \in Extensions : handle'[x] <= started
    BY <1>1 DEF IInv, TypeOK, MutexInv, InstancesKnown
  <1>3. \/ daemon'.pc = "reply"
        \/ daemon'.pc = "lock" /\ daemon'.h \in Handles /\ daemon'.h <= started
    BY <1>1, <1>2 DEF InvokeInactive, InvokeSync, InvokeBusy, Answering
  <1> QED
    BY <1>1, <1>2, <1>3, DaemonMoves

LEMMA MutexInvokeAsync ==
  ASSUME IInv, MutexInv, NEW r \in Requests, NEW e \in Extensions, InvokeAsync(r, e)
  PROVE  MutexInv'
  <1>1. /\ UNCHANGED <<handle, started, holder, queue, wjob>>
        /\ daemon.pc = "read" /\ daemon'.pc = "reserve" /\ daemon'.req = r
        /\ target' = [target EXCEPT ![r] = handle[e]] /\ handle[e] # NoHandle
        /\ EnsurePool
    BY DEF InvokeAsync, NewInvoke, pluginVars
  <1>2. ~Placed(r)
    <2>1. sent \in Nat /\ r = sent + 1 /\ ~(r <= sent)
      BY DEF InvokeAsync, NewInvoke, IInv, TypeOK
    <2> QED
      BY <2>1 DEF IInv, Answers
  <1>3. /\ target \in [Requests -> Handles \cup {NoHandle}]
        /\ wjob \in [Workers -> Requests \cup {NoRequest}]
        /\ \A g \in Pools : queue[g] \in Seq(Requests)
        /\ wpc \in [Workers -> {"none", "recv", "lock", "call", "settle", "deliver",
                                "gone"}]
        /\ pool \in Pools \cup {0}
    BY DEF IInv, TypeOK
  <1>4. \A q \in Requests : target'[q] = IF q = r THEN handle[e] ELSE target[q]
    BY <1>1, <1>3
  <1>5. \A w \in Workers : wpc'[w] = "call" <=> wpc[w] = "call"
    <2>1. CASE UNCHANGED wpc
      BY <2>1
    <2>2. CASE wpc' = [w \in Workers |->
                         IF w[1] = pool + 1 /\ w[2] <= policy.threads
                           THEN "recv" ELSE wpc[w]]
      <3>1. \A w \in Workers : w[1] = pool + 1 => wpc[w] = "none"
        <4>1. \A w \in Workers : w[1] \in Nat
          BY DEF Workers, Pools
        <4>2. pool \in Nat
          BY <1>3 DEF Pools
        <4> QED
          BY <4>1, <4>2 DEF IInv, JobHeld
      <3> QED
        BY <2>2, <3>1
    <2> QED
      BY <1>1, <2>1, <2>2 DEF EnsurePool
  <1>6. InstancesKnown'
    <2>1. /\ \A q \in Requests : target[q] <= started
          /\ \A x \in Extensions : handle[x] <= started
          /\ \A h \in Handles : h > started => holder[h] = Free
      BY DEF MutexInv, InstancesKnown
    <2>2. \A q \in Requests : target'[q] <= started
      BY <1>4, <2>1
    <2> QED
      BY <1>1, <2>1, <2>2 DEF InstancesKnown
  <1>7. InstanceGiven'
    <2>1. \A g \in Pools : \A q \in Members(queue[g]) : q \in Requests
      BY <1>3 DEF Members
    <2>2. /\ \A g \in Pools : \A q \in Members(queue[g]) : target[q] # NoHandle
          /\ \A w \in Workers : wjob[w] # NoRequest => target[wjob[w]] # NoHandle
      BY DEF MutexInv, InstanceGiven
    <2>3. \A g \in Pools : \A q \in Members(queue[g]) : target'[q] # NoHandle
      BY <1>1, <1>4, <2>1, <2>2
    <2>4. \A w \in Workers : wjob[w] # NoRequest => target'[wjob[w]] # NoHandle
      BY <1>1, <1>3, <1>4, <2>2
    <2>5. target'[daemon'.req] # NoHandle
      BY <1>1, <1>4
    <2> QED
      BY <1>1, <2>3, <2>4, <2>5 DEF InstanceGiven, Members
  <1>8. ASSUME NEW w \in Workers, NEW h \in Handles PROVE Calls(w, h)' <=> Calls(w, h)
    <2>1. wpc[w] = "call" => wjob[w] \in Requests /\ wjob[w] # r
      BY <1>2, <1>3 DEF IInv, JobHeld, Placed
    <2> QED
      BY <2>1, <1>1, <1>4, <1>5 DEF Calls
  <1>9. MutexHeld'
    BY <1>1, <1>8 DEF MutexInv, MutexHeld
  <1> QED
    BY <1>6, <1>7, <1>9 DEF MutexInv

LEMMA MutexDispatch ==
  ASSUME IInv, MutexInv, Reserve \/ Reply \/ HostCloses
  PROVE  MutexInv'
  <1>1. /\ UNCHANGED <<handle, started, holder, queue, target, wpc, wjob>>
        /\ daemon.pc # "call" /\ daemon \in DaemonStates
    BY DEF Reserve, Reply, HostCloses, pluginVars, workerVars, IInv, TypeOK
  <1>2. \/ daemon'.pc \in {"read", "exited"}
        \/ /\ daemon.pc = "reserve" /\ daemon'.pc = "enqueue"
           /\ daemon'.req = daemon.req
    BY <1>1 DEF Reserve, Reply, HostCloses, Reading, Exited, DaemonStates
  <1> QED
    BY <1>1, <1>2, DaemonMoves DEF MutexInv, InstancesKnown, InstanceGiven

LEMMA MutexEnqueue ==
  ASSUME IInv, MutexInv, Enqueue
  PROVE  MutexInv'
  <1>1. /\ UNCHANGED <<handle, started, holder, target, wpc, wjob>>
        /\ daemon.pc = "enqueue" /\ daemon'.pc = "reply"
        /\ queue' = [queue EXCEPT ![pool] = Append(queue[pool], daemon.req)]
    BY DEF Enqueue, Answering, pluginVars, workerVars
  <1>2. pool \in Pools /\ daemon.req \in Requests /\ queue \in [Pools -> Seq(Requests)]
    BY <1>1 DEF IInv, DispatchReady, DaemonRequest, DaemonOwns, TypeOK
  <1>3. ASSUME NEW g \in Pools
        PROVE  Members(queue'[g]) \subseteq Members(queue[g]) \cup {daemon.req}
    <2>1. CASE g = pool
      <3>1. queue'[g] = Append(queue[g], daemon.req) /\ queue[g] \in Seq(Requests)
        BY <1>1, <1>2, <2>1
      <3> QED
        BY <3>1, <1>2, AppendFacts
    <2>2. CASE g # pool
      BY <1>1, <1>2, <2>2
    <2> QED
      BY <2>1, <2>2
  <1>4. InstanceGiven'
    <2>1. target[daemon.req] # NoHandle
      BY <1>1 DEF MutexInv, InstanceGiven
    <2>2. \A g \in Pools : \A q \in Members(queue'[g]) : target[q] # NoHandle
      BY <1>3, <2>1 DEF MutexInv, InstanceGiven
    <2>3. \A g \in Pools : Members(queue[g])' = Members(queue'[g])
      BY DEF Members
    <2> QED
      BY <1>1, <2>2, <2>3 DEF MutexInv, InstanceGiven
  <1>5. InstancesKnown' /\ MutexHeld'
    BY <1>1 DEF MutexInv, InstancesKnown, MutexHeld, Calls
  <1> QED
    BY <1>4, <1>5 DEF MutexInv

\* The mutex of one instance changes hands, from a thread to nobody or back; the calls
\* to the other instances are as before.
LEMMA MutexChangesHands ==
  ASSUME MutexInv, IInv, NEW h \in Handles, h <= started, NEW t,
         holder' = [holder EXCEPT ![h] = t],
         UNCHANGED <<started, queue, target, wjob>>,
         \A e \in Extensions : handle'[e] <= started,
         daemon'.pc \in {"lock", "call"} => daemon'.h \in Handles /\ daemon'.h <= started,
         daemon' = daemon \/ daemon'.pc \notin {"reserve", "enqueue"},
         t = Daemon <=> daemon'.pc = "call" /\ daemon'.h = h,
         \A w \in Workers : t = w <=> Calls(w, h)',
         \A k \in Handles \ {h} : /\ daemon'.pc = "call" /\ daemon'.h = k
                                       <=> daemon.pc = "call" /\ daemon.h = k
                                  /\ \A w \in Workers : Calls(w, k)' <=> Calls(w, k)
  PROVE  MutexInv'
  <1>1. \A k \in Handles : holder'[k] = IF k = h THEN t ELSE holder[k]
    BY DEF IInv, TypeOK
  <1>2. InstancesKnown'
    <2>1. \A k \in Handles : k > started' => holder'[k] = Free
      <3>1. ASSUME NEW k \in Handles, k > started' PROVE k # h
        BY <3>1 DEF IInv, TypeOK, Handles
      <3> QED
        BY <1>1, <3>1 DEF MutexInv, InstancesKnown
    <2> QED
      BY <2>1 DEF MutexInv, InstancesKnown
  <1>3. InstanceGiven'
    BY DEF MutexInv, InstanceGiven, Members
  <1>4. MutexHeld'
    <2> SUFFICES ASSUME NEW k \in Handles
                 PROVE  /\ holder'[k] = Daemon <=> daemon'.pc = "call" /\ daemon'.h = k
                        /\ \A w \in Workers : holder'[k] = w <=> Calls(w, k)'
      BY DEF MutexHeld
    <2>1. CASE k = h
      BY <1>1, <2>1
    <2>2. CASE k # h
      BY <1>1, <2>2 DEF MutexInv, MutexHeld
    <2> QED
      BY <2>1, <2>2
  <1> QED
    BY <1>2, <1>3, <1>4 DEF MutexInv

LEMMA MutexDaemonLock ==
  ASSUME IInv, MutexInv, DaemonLock
  PROVE  MutexInv'
  <1>1. /\ daemon.pc = "lock" /\ daemon'.pc = "call" /\ daemon'.h = daemon.h
        /\ holder' = [holder EXCEPT ![daemon.h] = Daemon]
        /\ UNCHANGED <<handle, started, queue, target, wpc, wjob>>
        /\ holder[daemon.h] = Free
    BY DEF DaemonLock, Acquire, pluginVars, workerVars, IInv, TypeOK, DaemonStates
  <1>2. daemon.h \in Handles /\ daemon.h <= started
    BY <1>1 DEF MutexInv, InstancesKnown
  <1> PICK h \in Handles : h = daemon.h /\ h <= started
    BY <1>2
  <1>3. \A k \in Handles : \A w \in Workers : Calls(w, k)' <=> Calls(w, k)
    BY <1>1 DEF Calls
  <1>4. \A w \in Workers : ~Calls(w, h) /\ w # Daemon
    BY <1>1, ThreadsDistinct DEF MutexInv, MutexHeld
  <1>5. \A e \in Extensions : handle'[e] <= started
    BY <1>1 DEF MutexInv, InstancesKnown
  <1>6. holder' = [holder EXCEPT ![h] = Daemon] /\ UNCHANGED <<started, queue, target, wjob>>
    BY <1>1 DEF DaemonLock, workerVars
  <1>7. daemon'.pc = "call" /\ daemon'.h = h /\ daemon.pc # "call"
    BY <1>1
  <1>8. \A w \in Workers : Daemon = w <=> Calls(w, h)'
    BY <1>3, <1>4
  <1>9. \A k \in Handles \ {h} : daemon'.h # k
    BY <1>7
  <1> QED
    BY <1>3, <1>5, <1>6, <1>7, <1>8, <1>9, MutexChangesHands

LEMMA MutexDaemonCall ==
  ASSUME IInv, MutexInv, DaemonCallOk \/ DaemonCallFails
  PROVE  MutexInv'
  <1>1. /\ daemon.pc = "call"
        /\ holder' = [holder EXCEPT ![daemon.h] = Free]
        /\ UNCHANGED <<started, queue, target, wpc, wjob>>
        /\ daemon'.pc \in {"read", "exited", "reply"}
    BY DEF DaemonCallOk, DaemonCallFails, workerVars, Answering, Reading, Exited
  <1>2. daemon.h \in Handles /\ daemon.h <= started
    BY <1>1 DEF MutexInv, InstancesKnown
  <1> PICK h \in Handles : h = daemon.h /\ h <= started
    BY <1>2
  <1>3. \A k \in Handles : \A w \in Workers : Calls(w, k)' <=> Calls(w, k)
    BY <1>1 DEF Calls
  <1>4. \A w \in Workers : ~Calls(w, h) /\ w # Free
    BY <1>1, ThreadsDistinct DEF MutexInv, MutexHeld
  <1>5. \A e \in Extensions : handle'[e] <= started
    <2>1. handle' = handle \/ handle' = [handle EXCEPT ![owner[daemon.h]] = daemon.h]
      BY DEF DaemonCallOk, DaemonCallFails
    <2> QED
      BY <1>2, <2>1 DEF MutexInv, InstancesKnown, IInv, TypeOK
  <1>6. Free = Daemon <=> daemon'.pc = "call" /\ daemon'.h = h
    BY <1>1, ThreadsDistinct
  <1>7. \A w \in Workers : Free = w <=> Calls(w, h)'
    BY <1>3, <1>4
  <1>8. \A k \in Handles \ {h} : /\ daemon'.pc = "call" /\ daemon'.h = k
                                     <=> daemon.pc = "call" /\ daemon.h = k
                                 /\ \A w \in Workers : Calls(w, k)' <=> Calls(w, k)
    BY <1>1, <1>3
  <1>9. /\ holder' = [holder EXCEPT ![h] = Free]
        /\ daemon'.pc \in {"lock", "call"} => daemon'.h \in Handles /\ daemon'.h <= started
        /\ daemon'.pc \notin {"reserve", "enqueue"}
    BY <1>1
  <1>10. UNCHANGED <<started, queue, target, wjob>>
    BY <1>1
  <1> QED
    BY ONLY IInv, MutexInv, h \in Handles, h <= started, <1>5, <1>6, <1>7, <1>8, <1>9, <1>10,
            MutexChangesHands

LEMMA MutexLock ==
  ASSUME IInv, MutexInv, NEW w \in Workers, Lock(w)
  PROVE  MutexInv'
  <1>0. /\ wpc[w] \in {"lock", "call"} /\ wjob[w] \in Requests /\ wjob[w] # NoRequest
        /\ target[wjob[w]] \in Handles /\ target[wjob[w]] <= started
    <2>1. wpc[w] \in {"lock", "call"}
      BY DEF Lock, Step
    <2>2. wjob[w] \in Requests /\ wjob[w] # NoRequest
      BY <2>1 DEF IInv, TypeOK, JobHeld
    <2> QED
      BY <2>1, <2>2 DEF IInv, TypeOK, MutexInv, InstancesKnown, InstanceGiven
  <1> PICK h \in Handles : h = target[wjob[w]] /\ h <= started
    BY <1>0
  <1>1. /\ wpc[w] = "lock" /\ wpc' = [wpc EXCEPT ![w] = "call"]
        /\ holder' = [holder EXCEPT ![h] = w] /\ holder[h] = Free
        /\ UNCHANGED <<handle, started, daemon, queue, target, wjob>>
    BY DEF Lock, Step, Acquire, pluginVars
  <1>4. /\ \A v \in Workers : wpc'[v] = IF v = w THEN "call" ELSE wpc[v]
    BY <1>1 DEF IInv, TypeOK
  <1>5. \A v \in Workers : ~Calls(v, h)
    BY <1>1, ThreadsDistinct DEF MutexInv, MutexHeld
  <1>6. ~(daemon.pc = "call" /\ daemon.h = h)
    BY <1>1, ThreadsDistinct DEF MutexInv, MutexHeld
  <1>7. \A v \in Workers : w = v <=> Calls(v, h)'
    BY <1>1, <1>4, <1>5 DEF Calls
  <1>8. \A k \in Handles \ {h} : \A v \in Workers : Calls(v, k)' <=> Calls(v, k)
    BY <1>1, <1>4 DEF Calls
  <1>9. /\ \A e \in Extensions : handle'[e] <= started
        /\ daemon.pc \in {"lock", "call"} => daemon.h \in Handles /\ daemon.h <= started
    BY <1>1 DEF MutexInv, InstancesKnown
  <1> QED
    BY <1>1, <1>6, <1>7, <1>8, <1>9, ThreadsDistinct, MutexChangesHands

LEMMA MutexReturn ==
  ASSUME IInv, MutexInv, NEW w \in Workers, Return(w)
  PROVE  MutexInv'
  <1>0. /\ wpc[w] \in {"lock", "call"} /\ wjob[w] \in Requests /\ wjob[w] # NoRequest
        /\ target[wjob[w]] \in Handles /\ target[wjob[w]] <= started
    <2>1. wpc[w] \in {"lock", "call"}
      BY DEF Return, Step
    <2>2. wjob[w] \in Requests /\ wjob[w] # NoRequest
      BY <2>1 DEF IInv, TypeOK, JobHeld
    <2> QED
      BY <2>1, <2>2 DEF IInv, TypeOK, MutexInv, InstancesKnown, InstanceGiven
  <1> PICK h \in Handles : h = target[wjob[w]] /\ h <= started
    BY <1>0
  <1>1. /\ wpc[w] = "call" /\ wpc' = [wpc EXCEPT ![w] = "settle"]
        /\ holder' = [holder EXCEPT ![h] = Free]
        /\ UNCHANGED <<handle, started, daemon, queue, target, wjob>>
    BY DEF Return, Step, pluginVars
  <1>4. /\ \A v \in Workers : wpc'[v] = IF v = w THEN "settle" ELSE wpc[v]
    BY <1>1 DEF IInv, TypeOK
  <1>5. holder[h] = w
    BY <1>1 DEF MutexInv, MutexHeld, Calls
  <1>6. ~(daemon.pc = "call" /\ daemon.h = h) /\ \A v \in Workers : Calls(v, h) => v = w
    BY <1>5, ThreadsDistinct DEF MutexInv, MutexHeld
  <1>7. \A v \in Workers : ~Calls(v, h)'
    BY <1>1, <1>4, <1>6 DEF Calls
  <1>8. \A k \in Handles \ {h} : \A v \in Workers : Calls(v, k)' <=> Calls(v, k)
    BY <1>1, <1>4 DEF Calls
  <1>9. /\ \A e \in Extensions : handle'[e] <= started
        /\ daemon.pc \in {"lock", "call"} => daemon.h \in Handles /\ daemon.h <= started
    BY <1>1 DEF MutexInv, InstancesKnown
  <1> QED
    BY <1>1, <1>6, <1>7, <1>8, <1>9, ThreadsDistinct, MutexChangesHands

LEMMA MutexWorker ==
  ASSUME IInv, MutexInv, NEW w \in Workers,
         Receive(w) \/ Quit(w) \/ Settle(w) \/ Deliver(w)
  PROVE  MutexInv'
  <1>1. /\ UNCHANGED <<handle, started, holder, daemon, target>>
        /\ wpc[w] # "call"
        /\ \E to \in {"lock", "gone", "deliver", "recv"} : wpc' = [wpc EXCEPT ![w] = to]
    BY DEF Receive, Quit, Settle, Deliver, Step, pluginVars
  <1>2. \A v \in Workers : /\ wpc'[v] = "call" <=> wpc[v] = "call"
                           /\ wpc[v] = "call" => wjob'[v] = wjob[v]
    <2>1. \/ wjob' = wjob \/ wjob' = [wjob EXCEPT ![w] = NoRequest]
          \/ wjob' = [wjob EXCEPT ![w] = Head(queue[w[1]])]
      BY DEF Receive, Quit, Settle, Deliver
    <2> QED
      BY <1>1, <2>1 DEF IInv, TypeOK
  <1>3. InstanceGiven'
    <2>1. CASE Receive(w)
      <3> DEFINE g == w[1]
      <3>1. /\ g \in Pools /\ queue[g] \in Seq(Requests) /\ queue[g] # <<>>
            /\ queue' = [queue EXCEPT ![g] = Tail(queue[g])]
            /\ wjob' = [wjob EXCEPT ![w] = Head(queue[g])]
        BY <2>1 DEF Receive, Workers, IInv, TypeOK
      <3>2. \A i, j \in DOMAIN queue[g] : queue[g][i] = queue[g][j] => i = j
        BY <3>1 DEF IInv, OneOwner
      <3>3. /\ Head(queue[g]) \in Members(queue[g])
            /\ Members(Tail(queue[g])) \subseteq Members(queue[g])
        BY <3>1, <3>2, TailFacts
      <3>4. \A p \in Pools : Members(queue'[p]) \subseteq Members(queue[p])
        <4> SUFFICES ASSUME NEW p \in Pools
                     PROVE  Members(queue'[p]) \subseteq Members(queue[p])
          OBVIOUS
        <4>1. CASE p = g
          BY <4>1, <3>1, <3>3 DEF IInv, TypeOK
        <4>2. CASE p # g
          BY <4>2, <3>1 DEF IInv, TypeOK
        <4> QED
          BY <4>1, <4>2
      <3>5. /\ \A p \in Pools : \A q \in Members(queue[p]) : target[q] # NoHandle
            /\ \A v \in Workers : wjob[v] # NoRequest => target[wjob[v]] # NoHandle
        BY DEF MutexInv, InstanceGiven
      <3>6. \A v \in Workers : wjob'[v] # NoRequest => target[wjob'[v]] # NoHandle
        BY <3>1, <3>3, <3>5 DEF IInv, TypeOK
      <3>7. \A p \in Pools : Members(queue[p])' = Members(queue'[p])
        BY DEF Members
      <3> QED
        BY <1>1, <3>4, <3>5, <3>6, <3>7 DEF MutexInv, InstanceGiven
    <2>2. CASE ~Receive(w)
      <3>1. UNCHANGED queue /\ (wjob' = wjob \/ wjob' = [wjob EXCEPT ![w] = NoRequest])
        BY <2>2 DEF Quit, Settle, Deliver
      <3>2. \A v \in Workers : wjob'[v] # NoRequest => wjob'[v] = wjob[v]
        BY <3>1 DEF IInv, TypeOK
      <3>3. \A v \in Workers : wjob'[v] # NoRequest => target[wjob'[v]] # NoHandle
        BY <3>2 DEF MutexInv, InstanceGiven
      <3> QED
        BY <1>1, <3>1, <3>3 DEF MutexInv, InstanceGiven, Members
    <2> QED
      BY <2>1, <2>2
  <1>4. InstancesKnown'
    BY <1>1 DEF MutexInv, InstancesKnown
  <1>5. MutexHeld'
    BY <1>1, <1>2 DEF MutexInv, MutexHeld, Calls
  <1> QED
    BY <1>3, <1>4, <1>5 DEF MutexInv

\* A step that no instance, queue or worker takes part in.
LEMMA MutexElsewhere ==
  ASSUME MutexInv, UNCHANGED <<handle, started, holder, daemon, queue, target, wpc, wjob>>
  PROVE  MutexInv'
  BY DEF MutexInv, InstancesKnown, InstanceGiven, MutexHeld, Calls, Members

LEMMA NextMutex == IInv /\ MutexInv /\ [Next]_vars => MutexInv'
  <1> SUFFICES ASSUME IInv, MutexInv, [Next]_vars PROVE MutexInv'
    OBVIOUS
  <1>1. CASE \E n \in Threads, c \in Caps : SetPolicy(n, c)
    BY <1>1, MutexElsewhere DEF SetPolicy, pluginVars, workerVars
  <1>2. CASE HostStep /\ ~\E n \in Threads, c \in Caps : SetPolicy(n, c)
    BY <1>2, MutexControl, MutexActivate, MutexInvoke, MutexInvokeAsync, MutexDispatch
       DEF HostStep
  <1>3. CASE DaemonStep
    BY <1>3, MutexDispatch, MutexEnqueue, MutexDaemonLock, MutexDaemonCall DEF DaemonStep
  <1>4. ASSUME NEW w \in Workers, WorkerStep(w) PROVE MutexInv'
    BY <1>4, MutexLock, MutexReturn, MutexWorker DEF WorkerStep
  <1>5. CASE Write
    BY <1>5, MutexElsewhere DEF Write, pluginVars, workerVars
  <1>6. ASSUME NEW h \in Handles, PluginDies(h) PROVE MutexInv'
    BY <1>6, MutexElsewhere DEF PluginDies, workerVars
  <1>7. CASE Terminated \/ UNCHANGED vars
    BY <1>7, MutexElsewhere DEF Terminated, vars, pluginVars, workerVars
  <1> QED
    BY <1>1, <1>2, <1>3, <1>4, <1>5, <1>6, <1>7 DEF Next

\* The mutex of every instance names exactly the thread that is calling it.
THEOREM MutexInductive == Spec => [](IInv /\ MutexInv)
  BY InitIInv, NextIInv, InitMutex, NextMutex, PTL DEF Spec

\* At most one thread is inside a plugin instance, whatever pools and instances come
\* and go, because the daemon thread and the workers of all generations take the same
\* mutex, and an instance that is being started is nobody else's yet.
THEOREM CallsAreSerialized == Spec => []OneCallPerInstance
  <1>1. IInv /\ MutexInv => OneCallPerInstance
    <2> SUFFICES ASSUME IInv, MutexInv, NEW h \in Handles
                 PROVE  {w \in Workers : wpc[w] = "call" /\ target[wjob[w]] = h}
                          \cup (IF daemon.pc = "call" /\ daemon.h = h THEN {Daemon} ELSE {})
                        = IF holder[h] = Free THEN {} ELSE {holder[h]}
      BY DEF OneCallPerInstance
    <2>1. holder[h] \in Workers \cup {Daemon, Free}
      BY DEF IInv, TypeOK
    <2>2. /\ holder[h] = Daemon <=> daemon.pc = "call" /\ daemon.h = h
          /\ \A w \in Workers : holder[h] = w <=> wpc[w] = "call" /\ target[wjob[w]] = h
      BY DEF MutexInv, MutexHeld, Calls
    <2>3. {w \in Workers : wpc[w] = "call" /\ target[wjob[w]] = h}
            = {w \in Workers : holder[h] = w}
      BY <2>2
    <2> QED
      BY <2>1, <2>2, <2>3, ThreadsDistinct
  <1> QED
    BY <1>1, MutexInductive, PTL

-----------------------------------------------------------------------------
(* The scheduler implements the abstract invoke service, step by step.      *)

\* Where the abstract service has a request.
Stage(r) == IF answers[r] > 0 THEN "answered"
            ELSE IF r \in Holding THEN "executing"
            ELSE IF r \in Finished THEN "finished" ELSE "idle"

LEMMA StatusStages == StatusOf = [r \in Requests |-> Stage(r)]
  BY DEF StatusOf, Stage

LEMMA StatusStagesNext == StatusOf' = [r \in Requests |-> Stage(r)']
  BY DEF StatusOf, Stage

\* The slots the abstract service counts are the ones the code counts.
LEMMA ExecutingHolds == IInv => Service!Executing = Holding
  <1> SUFFICES ASSUME IInv PROVE Service!Executing = Holding
    OBVIOUS
  <1>1. ASSUME NEW r \in Holding PROVE answers[r] = 0 /\ r \in Requests
    BY HoldingPlaced DEF IInv, Answers, DaemonRequest, DaemonOwns, Holding
  <1>2. ASSUME NEW r \in Requests PROVE StatusOf[r] = "executing" <=> r \in Holding
    BY <1>1, StatusStages DEF Stage
  <1> QED
    BY <1>1, <1>2 DEF Service!Executing

\* The instance counts the way this module does.
LEMMA SameCardinality == \A S : Service!Cardinality(S) = Cardinality(S)
  BY Zenon DEF Cardinality, Service!Cardinality

LEMMA ServiceStutters ==
  ASSUME UNCHANGED <<policy, answers>>, Running' = Running,
         Holding' = Holding, Finished' = Finished
  PROVE  UNCHANGED Service!vars
  <1>1. StatusOf' = StatusOf
    BY DEF StatusOf
  <1> QED
    BY <1>1 DEF Service!vars

\* One request moves from one stage to another.
LEMMA RequestMoves ==
  ASSUME NEW r \in Requests, NEW from, NEW to, Running, Running', UNCHANGED policy,
         Stage(r) = from, Stage(r)' = to, \A q \in Requests \ {r} : Stage(q)' = Stage(q)
  PROVE  Service!Move(r, from, to)
  <1>1. StatusOf' = [StatusOf EXCEPT ![r] = to]
    BY StatusStages, StatusStagesNext
  <1>2. StatusOf[r] = from
    BY StatusStages
  <1> QED
    BY <1>1, <1>2 DEF Service!Move

LEMMA FinishedKept ==
  ASSUME UNCHANGED sink,
         \A w \in Workers : /\ wpc'[w] = "deliver" <=> wpc[w] = "deliver"
                            /\ wpc[w] = "deliver" => wjob'[w] = wjob[w]
  PROVE  Finished' = Finished
  BY DEF Finished, Members

\* The daemon thread goes on without handing a job over.
LEMMA DaemonStutters ==
  ASSUME UNCHANGED <<policy, queue, wpc, wjob, sink, answers>>,
         daemon.pc \notin {"enqueue", "exited"}, daemon'.pc \notin {"enqueue", "exited"}
  PROVE  UNCHANGED Service!vars
  <1>1. Holding' = Holding
    BY DEF Holding, Busy
  <1>2. Finished' = Finished
    BY FinishedKept
  <1> QED
    BY <1>1, <1>2, ServiceStutters DEF Running

LEMMA ExitStops ==
  ASSUME UNCHANGED <<policy, queue, wpc, wjob, sink, answers>>,
         daemon.pc \notin {"enqueue", "exited"}, daemon'.pc = "exited"
  PROVE  Service!Stop
  <1>1. Holding' = Holding
    BY DEF Holding, Busy
  <1>2. StatusOf' = StatusOf
    BY <1>1, FinishedKept DEF StatusOf
  <1> QED
    BY <1>2 DEF Service!Stop, Running

LEMMA ControlRefines ==
  ASSUME IInv, HostStep, \A r \in Requests, e \in Extensions : ~InvokeAsync(r, e)
  PROVE  Service!Next \/ UNCHANGED Service!vars
  <1>1. CASE \E n \in Threads, c \in Caps : SetPolicy(n, c)
    <2>1. /\ daemon.pc = "read" /\ policy'.cap \in Caps
          /\ UNCHANGED <<daemon, queue, wpc, wjob, sink, answers>>
      BY <1>1 DEF SetPolicy, Control, workerVars, outputVars
    <2>2. Holding' = Holding
      BY <2>1 DEF Holding, Busy
    <2>3. StatusOf' = StatusOf
      BY <2>1, <2>2, FinishedKept DEF StatusOf
    <2>4. Service!Reconfigure
      BY <2>1, <2>3 DEF Service!Reconfigure, Running
    <2> QED
      BY <2>4 DEF Service!Next
  <1>2. CASE HostCloses
    <2>1. /\ daemon.pc = "read" /\ daemon'.pc = "exited"
          /\ UNCHANGED <<policy, queue, wpc, wjob, sink, answers>>
      BY <1>2 DEF HostCloses, Exited, workerVars, outputVars, hostVars
    <2> QED
      BY <2>1, ExitStops DEF Service!Next
  <1>3. ASSUME NEW e \in Extensions, Reload(e) \/ Activate(e) \/ Deactivate(e)
        PROVE  UNCHANGED Service!vars
    <2>1. /\ daemon.pc = "read" /\ daemon'.pc \in {"read", "call", "lock"}
          /\ UNCHANGED <<policy, queue, wpc, wjob, sink, answers>>
      BY <1>3 DEF Reload, Activate, Deactivate, Control, workerVars, outputVars
    <2> QED
      BY <2>1, DaemonStutters
  <1>4. ASSUME NEW r \in Requests, NEW e \in Extensions,
               InvokeInactive(r, e) \/ InvokeSync(r, e) \/ InvokeBusy(r, e)
        PROVE  UNCHANGED Service!vars
    <2>1. /\ daemon.pc = "read" /\ daemon'.pc \in {"reply", "lock"}
          /\ UNCHANGED <<policy, queue, wpc, wjob, sink, answers>>
      BY <1>4 DEF InvokeInactive, InvokeSync, InvokeBusy, NewInvoke, Answering,
                  workerVars, outputVars
    <2> QED
      BY <2>1, DaemonStutters
  <1> QED
    BY <1>1, <1>2, <1>3, <1>4 DEF HostStep

LEMMA InvokeAsyncRefines ==
  ASSUME IInv, NEW r \in Requests, NEW e \in Extensions, InvokeAsync(r, e)
  PROVE  UNCHANGED Service!vars
  <1>1. /\ daemon.pc = "read" /\ daemon'.pc = "reserve" /\ EnsurePool
        /\ UNCHANGED <<policy, queue, wjob, sink, answers>>
    BY DEF InvokeAsync, NewInvoke, outputVars
  <1>2. \A w \in Workers : /\ wpc'[w] = "deliver" <=> wpc[w] = "deliver"
                           /\ wjob'[w] = wjob[w]
    <2>1. \A w \in Workers : wpc[w] # "none" => wpc'[w] = wpc[w]
      <3>1. \A w \in Workers : w[1] = pool + 1 => wpc[w] = "none"
        <4>1. \A w \in Workers : w[1] \in Nat
          BY DEF Workers, Pools
        <4>2. pool \in Nat
          BY DEF Pools, IInv, TypeOK
        <4> QED
          BY <4>1, <4>2 DEF IInv, JobHeld
      <3> QED
        BY <1>1, <3>1 DEF EnsurePool
    <2>2. \A w \in Workers : wpc[w] = "none" => wpc'[w] \in {"none", "recv"}
      BY <1>1 DEF EnsurePool
    <2> QED
      BY <1>1, <2>1, <2>2
  <1>3. Finished' = Finished
    BY <1>1, <1>2, FinishedKept
  <1> QED
    BY <1>1, <1>3, InvokeAsyncStep, ServiceStutters DEF Running

LEMMA ReserveRefines ==
  ASSUME IInv, Reserve
  PROVE  Service!Next
  <1> PICK r \in Requests : r = daemon.req
    BY DEF Reserve, IInv, DaemonRequest, DaemonOwns
  <1>1. /\ daemon.pc = "reserve" /\ daemon'.pc = "enqueue"
        /\ UNCHANGED <<policy, wpc, wjob, sink, answers>>
    BY DEF Reserve, IInv, TypeOK, DaemonStates, workerVars, outputVars, hostVars
  <1>2. ~Placed(r) /\ answers[r] = 0
    BY <1>1 DEF IInv, DaemonRequest, DaemonOwns
  <1>3. r \notin Holding /\ r \notin Finished
    BY <1>1, <1>2, HoldingPlaced DEF Finished, Placed
  <1>4. Holding' = Holding \cup {r} /\ Finished' = Finished
    BY <1>1, ReserveStep, FinishedKept
  <1>5. Stage(r) = "idle" /\ Stage(r)' = "executing"
    BY <1>1, <1>2, <1>3, <1>4 DEF Stage
  <1>6. \A q \in Requests \ {r} : Stage(q)' = Stage(q)
    BY <1>1, <1>4 DEF Stage
  <1>7. Service!Move(r, "idle", "executing")
    BY <1>1, <1>5, <1>6, RequestMoves DEF Running
  <1>8. Cardinality(Service!Executing) < policy.cap
    BY <1>1, ExecutingHolds DEF IInv, SlotAccounting, DispatchReady
  <1>9. Service!Accept(r)
    BY <1>7, <1>8, SameCardinality DEF Service!Accept
  <1> QED
    BY <1>9 DEF Service!Next

LEMMA EnqueueRefines ==
  ASSUME IInv, Enqueue
  PROVE  UNCHANGED Service!vars
  <1>1. /\ daemon.pc = "enqueue" /\ daemon'.pc = "reply"
        /\ UNCHANGED <<policy, wpc, wjob, sink, answers>>
    BY DEF Enqueue, Answering, workerVars, outputVars, hostVars
  <1> QED
    BY <1>1, EnqueueStep, FinishedKept, ServiceStutters DEF Running

LEMMA ReplyRefines ==
  ASSUME IInv, Reply
  PROVE  Service!Next \/ UNCHANGED Service!vars
  <1>1. /\ daemon.pc = "reply" /\ daemon'.pc = "read"
        /\ UNCHANGED <<policy, queue, wpc, wjob, sink>>
    BY DEF Reply, Reading, workerVars, hostVars
  <1>2. CASE daemon.op = "accepted"
    <2>1. UNCHANGED answers
      BY <1>2 DEF Reply
    <2> QED
      BY <1>1, <2>1, DaemonStutters
  <1>3. CASE daemon.op # "accepted"
    <2> PICK r \in Requests : r = daemon.req
      BY <1>1 DEF IInv, DispatchReady
    <2>1. /\ answers' = [answers EXCEPT ![r] = @ + 1]
          /\ answers \in [Requests -> Nat]
      BY <1>3 DEF Reply, IInv, TypeOK
    <2>2. ~Placed(r) /\ answers[r] = 0
      BY <1>1, <1>3 DEF IInv, DaemonRequest, DaemonOwns, DispatchReady
    <2>3. r \notin Holding /\ r \notin Finished
      BY <1>1, <2>2, HoldingPlaced DEF Finished, Placed
    <2>4. Holding' = Holding /\ Finished' = Finished
      BY <1>1, FinishedKept DEF Holding, Busy
    <2>5. answers'[r] = 1 /\ \A q \in Requests \ {r} : answers'[q] = answers[q]
      BY <2>1, <2>2
    <2>6. Stage(r) = "idle" /\ Stage(r)' = "answered"
      BY <2>2, <2>3, <2>5 DEF Stage
    <2>7. \A q \in Requests \ {r} : Stage(q)' = Stage(q)
      BY <2>4, <2>5 DEF Stage
    <2>8. Service!Move(r, "idle", "answered")
      BY <1>1, <2>6, <2>7, RequestMoves DEF Running
    <2> QED
      BY <2>8 DEF Service!Next, Service!AnswerAtOnce
  <1> QED
    BY <1>2, <1>3

LEMMA DaemonCallRefines ==
  ASSUME IInv, DaemonLock \/ DaemonCallOk \/ DaemonCallFails
  PROVE  Service!Next \/ UNCHANGED Service!vars
  <1>1. /\ daemon.pc \in {"lock", "call"}
        /\ UNCHANGED <<policy, queue, wpc, wjob, sink, answers>>
    BY DEF DaemonLock, DaemonCallOk, DaemonCallFails, workerVars, outputVars, hostVars
  <1>2. daemon'.pc \in {"call", "reply", "read", "exited"}
    BY DEF DaemonLock, DaemonCallOk, DaemonCallFails, Answering, Reading, Exited, IInv,
           TypeOK, DaemonStates
  <1> QED
    BY <1>1, <1>2, DaemonStutters, ExitStops DEF Service!Next

LEMMA WorkerRefines ==
  ASSUME IInv, NEW w \in Workers, WorkerStep(w)
  PROVE  Service!Next \/ UNCHANGED Service!vars
  <1>1. /\ UNCHANGED <<policy, daemon, answers>> /\ Running
        /\ \E from, to \in {"recv", "lock", "call", "settle", "deliver", "gone"} :
             wpc[w] = from /\ wpc' = [wpc EXCEPT ![w] = to]
    BY DEF WorkerStep, Receive, Quit, Lock, Return, Settle, Deliver, Step, outputVars,
           hostVars
  <1>2. Running'
    BY <1>1 DEF Running
  <1>3. /\ wpc \in [Workers -> {"none", "recv", "lock", "call", "settle", "deliver",
                                "gone"}]
        /\ wjob \in [Workers -> Requests \cup {NoRequest}]
    BY DEF IInv, TypeOK
  <1>4. CASE Receive(w) \/ Quit(w) \/ Lock(w) \/ Return(w)
    <2>1. UNCHANGED sink
      BY <1>4 DEF Receive, Quit, Lock, Return, outputVars
    <2>2. \A v \in Workers : /\ wpc'[v] = "deliver" <=> wpc[v] = "deliver"
                             /\ wpc[v] = "deliver" => wjob'[v] = wjob[v]
      BY <1>3, <1>4 DEF Receive, Quit, Lock, Return, Step
    <2>3. Holding' = Holding
      BY <1>4, ReceiveStep, QuitLockReturnStep
    <2> QED
      BY <1>1, <1>2, <2>1, <2>2, <2>3, FinishedKept, ServiceStutters
  <1>5. CASE Settle(w)
    <2> PICK r \in Requests : r = wjob[w]
      BY <1>5 DEF Settle, Step, IInv, TypeOK, JobHeld
    <2>1. /\ wpc[w] = "settle" /\ UNCHANGED <<wjob, sink>>
          /\ \A v \in Workers : wpc'[v] = IF v = w THEN "deliver" ELSE wpc[v]
      BY <1>3, <1>5 DEF Settle, Step, outputVars
    <2>2. Holding' = Holding \ {r}
      BY <1>5, SettleStep
    <2>3. Finished' = Finished \cup {r}
      BY <2>1 DEF Finished, Members
    <2>4. r \in Holding /\ answers[r] = 0
      BY <2>1 DEF Holding, Busy, IInv, Answers, Placed
    <2>5. Stage(r) = "executing" /\ Stage(r)' = "finished"
      BY <1>1, <2>2, <2>3, <2>4 DEF Stage
    <2>6. \A q \in Requests \ {r} : Stage(q)' = Stage(q)
      BY <1>1, <2>2, <2>3 DEF Stage
    <2>7. Service!Move(r, "executing", "finished")
      BY <1>1, <1>2, <2>5, <2>6, RequestMoves
    <2> QED
      BY <2>7 DEF Service!Next, Service!Finish
  <1>6. CASE Deliver(w)
    <2>1. /\ wpc[w] = "deliver" /\ sink' = Append(sink, wjob[w])
          /\ \A v \in Workers : wpc'[v] = IF v = w THEN "recv" ELSE wpc[v]
          /\ \A v \in Workers : wjob'[v] = IF v = w THEN NoRequest ELSE wjob[v]
      BY <1>3, <1>6 DEF Deliver, Step
    <2>2. wjob[w] \in Requests /\ sink \in Seq(Requests)
      BY <2>1 DEF IInv, TypeOK, JobHeld
    <2>3. Members(sink') = Members(sink) \cup {wjob[w]}
      BY <2>1, <2>2, AppendFacts
    <2>4. Members(sink)' = Members(sink')
      BY DEF Members
    <2>5. Finished' = Finished
      BY <2>1, <2>2, <2>3, <2>4 DEF Finished
    <2> QED
      BY <1>1, <1>2, <1>6, <2>5, DeliverStep, ServiceStutters
  <1> QED
    BY <1>4, <1>5, <1>6 DEF WorkerStep

LEMMA WriteRefines ==
  ASSUME IInv, Write
  PROVE  Service!Next
  <1>1. /\ sink # <<>> /\ sink' = Tail(sink) /\ Running
        /\ answers' = [answers EXCEPT ![Head(sink)] = @ + 1]
        /\ UNCHANGED <<policy, daemon, wpc, wjob>>
    BY DEF Write, workerVars, hostVars
  <1>2. /\ sink \in Seq(Requests) /\ answers \in [Requests -> Nat]
        /\ \A i, j \in DOMAIN sink : sink[i] = sink[j] => i = j
    BY DEF IInv, TypeOK, OneOwner
  <1>3. /\ Head(sink) \in Requests
        /\ Members(Tail(sink)) = Members(sink) \ {Head(sink)}
        /\ Head(sink) \in Members(sink)
    BY <1>1, <1>2, TailFacts
  <1> PICK r \in Requests : r = Head(sink)
    BY <1>3
  <1>4. Members(sink)' = Members(sink) \ {r}
    BY <1>1, <1>3 DEF Members
  <1>5. r \notin Holding /\ answers[r] = 0 /\ \A v \in Workers : wjob[v] # r
    BY <1>3 DEF IInv, OneOwner, Answers, Placed
  <1>6. Finished' = Finished \ {r} /\ r \in Finished
    BY <1>1, <1>3, <1>4, <1>5 DEF Finished
  <1>7. answers'[r] = 1 /\ \A q \in Requests \ {r} : answers'[q] = answers[q]
    BY <1>1, <1>2, <1>5
  <1>8. Holding' = Holding
    BY WriteStep
  <1>9. Stage(r) = "finished" /\ Stage(r)' = "answered"
    BY <1>5, <1>6, <1>7 DEF Stage
  <1>10. \A q \in Requests \ {r} : Stage(q)' = Stage(q)
    BY <1>6, <1>7, <1>8 DEF Stage
  <1>11. Running'
    BY <1>1 DEF Running
  <1>12. Service!Move(r, "finished", "answered")
    BY <1>1, <1>9, <1>10, <1>11, RequestMoves
  <1> QED
    BY <1>12 DEF Service!Next, Service!Deliver

\* A step that no thread of the kernel takes.
LEMMA ElsewhereRefines ==
  ASSUME UNCHANGED <<policy, daemon, queue, wpc, wjob, sink, answers>>
  PROVE  UNCHANGED Service!vars
  <1>1. Holding' = Holding
    BY DEF Holding, Busy
  <1> QED
    BY <1>1, FinishedKept, ServiceStutters DEF Running

LEMMA NextRefines ==
  IInv /\ [Next]_vars => [Service!Next]_(Service!vars)
  <1> SUFFICES ASSUME IInv, [Next]_vars
               PROVE  Service!Next \/ UNCHANGED Service!vars
    OBVIOUS
  <1>1. CASE HostStep
    BY <1>1, ControlRefines, InvokeAsyncRefines
  <1>2. CASE DaemonStep
    BY <1>2, ReserveRefines, EnqueueRefines, ReplyRefines, DaemonCallRefines DEF DaemonStep
  <1>3. ASSUME NEW w \in Workers, WorkerStep(w)
        PROVE  Service!Next \/ UNCHANGED Service!vars
    BY <1>3, WorkerRefines
  <1>4. CASE Write
    BY <1>4, WriteRefines
  <1>5. ASSUME NEW h \in Handles, PluginDies(h) PROVE UNCHANGED Service!vars
    BY <1>5, ElsewhereRefines DEF PluginDies, workerVars, outputVars, hostVars
  <1>6. CASE Terminated \/ UNCHANGED vars
    BY <1>6, ElsewhereRefines DEF Terminated, vars, pluginVars, workerVars, outputVars,
                                  hostVars
  <1> QED
    BY <1>1, <1>2, <1>3, <1>4, <1>5, <1>6 DEF Next

LEMMA InitRefines == Init => Service!Init
  <1> SUFFICES ASSUME Init PROVE Service!Init
    OBVIOUS
  <1>1. Holding = {} /\ Finished = {}
    BY DEF Init, Holding, Finished, Busy, Reading, Members
  <1>2. StatusOf = [r \in Requests |-> "idle"]
    BY <1>1 DEF Init, StatusOf
  <1>3. policy.cap \in Caps /\ Running
    BY DEF Init, Running, Reading
  <1> QED
    BY <1>2, <1>3 DEF Service!Init

\* Threads, channels, pool generations and mutexes implement the service the host was
\* promised: an invoke is answered on the spot, or accepted while a slot is free,
\* executed and then answered once, and nothing else happens to it.
THEOREM SchedulerImplementsService == Spec => ImplementsService
  <1>1. IInv /\ [Next]_vars => [Service!Next]_(Service!vars)
    BY NextRefines
  <1> QED
    BY <1>1, Inductive, InitRefines, PTL DEF Spec, ImplementsService, Service!Spec

=============================================================================
