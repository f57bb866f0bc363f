-------------------------- MODULE ExtensionManager --------------------------
(***************************************************************************)
(* ExtensionManager over LocalKernelBridge and a runtime that is a process *)
(* (ProcessRuntime.ts): calls of the host on one extension, interleaved at *)
(* their awaits.                                                           *)
(*                                                                         *)
(* The three layers keep a flag each (active, bridgeActive and the         *)
(* adapter's activated) that are set one after the other.  A call goes     *)
(* from one await to the next in one action.  Calls whose await is over    *)
(* take their turn in a queue; the others wait for the plugin or for the   *)
(* host's user, who answer when no call is ready to go on.  The host may   *)
(* start a call at any moment.  A call that throws ends.                   *)
(*                                                                         *)
(* The instance that load and get return calls the bridge itself: it knows *)
(* neither the manager's flag nor the permission gate.                     *)
(***************************************************************************)
EXTENDS Naturals, Sequences, FiniteSets, SequencesExt

CONSTANTS
  Calls,        \* calls of the host that may be under way at once
  MaxCalls,     \* bound: calls the host starts
  MaxRuntimes   \* bound: processes spawned

ASSUME ManagerAssumption ==
  Calls # {} /\ IsFiniteSet(Calls) /\ MaxCalls \in Nat /\ MaxRuntimes \in Nat

ManagerOps ==
  {"load", "activate", "deactivate", "invoke", "openSession", "reinitialize", "dispose"}
InstanceOps ==
  {"instanceActivate", "instanceDeactivate", "instanceInvoke", "instanceOpenSession"}
Ops == ManagerOps \cup InstanceOps

\* The calls that set the bridge's flag without the manager's, or the other way round.
OneSided == {"dispose", "instanceActivate", "instanceDeactivate"}

Ready == {"registering", "ready", "activated", "bridged", "gate", "call", "opening",
          "opened", "stopped", "unbridged", "reactivating", "clearing", "cleared"}
OnPlugin == {"activating", "deactivating", "invoking", "session"}
Waiting == OnPlugin \cup {"loading", "asking"}

VARIABLES
  registered,    \* is the extension in the registry?
  held,          \* has the host been given an instance?
  active,        \* ExtensionManager.activeExtensions
  grant,         \* capabilityPermissionGrants of its prompt capability
  current,       \* LocalKernelBridge.loaded: the number of a record, 0 if none
  records,       \* every LoadedRuntimeRecord, calls hold on to theirs
  bridgeActive,  \* LocalKernelBridge.activeExtensions
  runtimes,      \* every process spawned; ended: it answered a deactivate and left
  task,          \* the calls under way
  queue,         \* those that are ready, in the order they became so
  started,       \* counts the calls started
  epoch,         \* counts the deactivations completed
  answers,       \* what the host's user decided, and in which epochs it was asked and given
  used           \* which of the calls in OneSided the host has made

manager == <<registered, held, active, grant>>
bridge == <<current, records, bridgeActive, runtimes>>
ghosts == <<epoch, answers, used>>
calls == <<task, queue>>
vars == <<manager, bridge, calls, started, ghosts>>

\* rec: the record the call holds; rt: the process it waits for or has spawned; since
\* and asked: the epochs it was made in and put its prompt in.
Idle == [op |-> "none", pc |-> "idle", rec |-> 0, rt |-> 0, since |-> 0, asked |-> 0]

Spawned == [alive |-> TRUE, activated |-> FALSE, ended |-> FALSE]

Init ==
  /\ registered = FALSE /\ held = FALSE /\ active = FALSE /\ grant = "none"
  /\ current = 0 /\ records = <<>> /\ bridgeActive = FALSE /\ runtimes = <<>>
  /\ task = [c \in Calls |-> Idle] /\ queue = <<>>
  /\ started = 0
  /\ epoch = 0 /\ answers = {} /\ used = {}

At(t, pc) == [t EXCEPT !.pc = pc]

\* A call that has spawned a process and not adopted it is on no turn.
Goto(c, t) ==
  LET others == IF queue # <<>> /\ Head(queue) = c THEN Tail(queue) ELSE queue
  IN  /\ task' = [task EXCEPT ![c] = t]
      /\ queue' = IF t.pc \in Ready /\ t.rt = 0 THEN Append(others, c) ELSE others

Done(c) == Goto(c, Idle)
Turn(c, pc) == task[c].pc = pc /\ queue # <<>> /\ Head(queue) = c
Runtime(rec) == runtimes[records[rec].runtime]

\* No call is ready: the event loop takes the next event from outside.
Settled == \A c \in Calls : task[c].pc \notin Ready

\* A request to the process, which rejects once it has exited.
Send(c, t, rec, pc) ==
  IF Runtime(rec).alive
  THEN Goto(c, [t EXCEPT !.pc = pc, !.rt = records[rec].runtime])
  ELSE Done(c)

-----------------------------------------------------------------------------
(* Loading.                                                                 *)

\* Admission, security verdict and integrity hold and the process is spawned: the
\* record replaces the one before it, whether it will be registered or not.
Loaded(c) ==
  /\ task[c].pc = "loading" /\ Settled
  /\ Len(runtimes) < MaxRuntimes
  /\ runtimes' = Append(runtimes, Spawned)
  /\ records' = Append(records, [runtime |-> Len(runtimes) + 1, recreate |-> FALSE])
  /\ current' = Len(records) + 1
  /\ Goto(c, At(task[c], "registering"))
  /\ UNCHANGED <<manager, bridgeActive, started, ghosts>>

\* registry.register throws if the extension is there already; then the host holds the
\* instance of another load.
Register(c) ==
  /\ Turn(c, "registering")
  /\ registered' = TRUE /\ held' = TRUE
  /\ Done(c)
  /\ UNCHANGED <<active, grant, bridge, started, ghosts>>

-----------------------------------------------------------------------------
(* Activation, from the manager down.                                       *)

\* ensureRuntimeReady: it may find another call's process, or spawn one that it has
\* yet to adopt.
EnsureReady(c, t) ==
  /\ UNCHANGED <<current, records, bridgeActive>>
  /\ \/ current = 0 /\ Done(c) /\ UNCHANGED runtimes
     \/ /\ current # 0 /\ ~records[current].recreate
        /\ Goto(c, [t EXCEPT !.rec = current])
        /\ UNCHANGED runtimes
     \/ /\ current # 0 /\ records[current].recreate
        /\ \/ Done(c) /\ UNCHANGED runtimes
           \/ /\ Len(runtimes) < MaxRuntimes
              /\ runtimes' = Append(runtimes, Spawned)
              /\ Goto(c, [t EXCEPT !.rec = current, !.rt = Len(runtimes) + 1])

\* What a call does once the extension is active.
Activated(t) ==
  CASE t.op = "invoke" -> At(t, "gate")
    [] t.op = "openSession" -> At(t, "opening")
    [] OTHER -> Idle

\* What a call does once the bridge has the extension active.
BridgeHasIt(t) == IF t.op = "instanceActivate" THEN Idle ELSE At(t, "bridged")

\* LocalKernelBridge.activate.
BridgeActivateFrom(c, t) ==
  /\ UNCHANGED manager
  /\ IF bridgeActive THEN Goto(c, BridgeHasIt(t)) /\ UNCHANGED bridge
     ELSE EnsureReady(c, At(t, "ready"))

\* ExtensionManager.activate.
ActivateFrom(c, t) ==
  IF active \/ ~registered THEN Done(c) /\ UNCHANGED <<manager, bridge>>
  ELSE BridgeActivateFrom(c, t)

Adopt(c) ==
  /\ task[c].pc \in {"ready", "opened"} /\ task[c].rt # 0
  /\ records' = [records EXCEPT ![task[c].rec] =
                   [runtime |-> task[c].rt, recreate |-> FALSE]]
  /\ Goto(c, [task[c] EXCEPT !.rt = 0])
  /\ UNCHANGED <<manager, current, bridgeActive, runtimes, started, ghosts>>

\* The adapter's activate.
ActivateRuntime(c) ==
  LET t == task[c]
  IN  /\ Turn(c, "ready")
      /\ IF Runtime(t.rec).activated THEN Goto(c, At(t, "activated"))
         ELSE Send(c, t, t.rec, "activating")
      /\ UNCHANGED <<manager, bridge, started, ghosts>>

Activates(c) ==
  /\ task[c].pc = "activating" /\ Settled
  /\ runtimes' = [runtimes EXCEPT ![task[c].rt].activated = TRUE]
  /\ Goto(c, [task[c] EXCEPT !.pc = "activated", !.rt = 0])
  /\ UNCHANGED <<manager, current, records, bridgeActive, started, ghosts>>

BridgeActivated(c) ==
  /\ Turn(c, "activated")
  /\ bridgeActive' = TRUE
  /\ Goto(c, BridgeHasIt(task[c]))
  /\ UNCHANGED <<manager, current, records, runtimes, started, ghosts>>

ManagerActivated(c) ==
  /\ Turn(c, "bridged")
  /\ active' = TRUE
  /\ Goto(c, Activated(task[c]))
  /\ UNCHANGED <<registered, held, grant, bridge, started, ghosts>>

-----------------------------------------------------------------------------
(* The permission gate, invoke and openSession.                             *)

\* assertCapabilityPermission up to its await; a manager without a handler is one
\* whose user refuses.
GateFrom(c, t) ==
  /\ \/ (~registered \/ grant = "no") /\ Done(c)
     \/ registered /\ grant = "yes" /\ Goto(c, At(t, "call"))
     \/ registered /\ grant = "none" /\ Goto(c, [At(t, "asking") EXCEPT !.asked = epoch])
  /\ UNCHANGED <<manager, bridge>>

Gate(c) ==
  /\ Turn(c, "gate")
  /\ GateFrom(c, task[c])
  /\ UNCHANGED <<started, ghosts>>

UserDecides(c, decision) ==
  /\ task[c].pc = "asking" /\ Settled
  /\ grant' = decision
  /\ answers' = answers \cup {[asked |-> task[c].asked, given |-> epoch, decision |-> decision]}
  /\ IF decision = "yes" THEN Goto(c, At(task[c], "call")) ELSE Done(c)
  /\ UNCHANGED <<registered, held, active, bridge, started, epoch, used>>

\* LocalKernelBridge.invoke takes the record there is now.
CallFrom(c, t) ==
  /\ IF current = 0 THEN Done(c) ELSE Send(c, t, current, "invoking")
  /\ UNCHANGED <<manager, bridge>>

CallPlugin(c) ==
  /\ Turn(c, "call")
  /\ CallFrom(c, task[c])
  /\ UNCHANGED <<started, ghosts>>

OpenReady(c) ==
  /\ Turn(c, "opening")
  /\ EnsureReady(c, At(task[c], "opened"))
  /\ UNCHANGED <<manager, started, ghosts>>

OpenOnPlugin(c) ==
  /\ Turn(c, "opened")
  /\ Send(c, task[c], task[c].rec, "session")
  /\ UNCHANGED <<manager, bridge, started, ghosts>>

Returns(c) ==
  /\ task[c].pc \in {"invoking", "session"} /\ Settled
  /\ Done(c)
  /\ UNCHANGED <<manager, bridge, started, ghosts>>

-----------------------------------------------------------------------------
(* Deactivation, from the manager down.                                     *)

\* What is left of LocalKernelBridge.deactivate, and the adapter's.
StopFrom(c, t) ==
  /\ UNCHANGED bridge
  /\ IF current = 0 THEN Done(c)
     ELSE IF Runtime(current).activated
     THEN Send(c, [t EXCEPT !.rec = current], current, "deactivating")
     ELSE Goto(c, [t EXCEPT !.pc = "stopped", !.rec = current])

\* What a call does once the bridge has the extension inactive.
BridgeLostIt(t) ==
  CASE t.op = "clear" -> At(t, "cleared")
    [] t.op = "instanceDeactivate" -> Idle
    [] OTHER -> At(t, "unbridged")

\* LocalKernelBridge.deactivate.
BridgeDeactivateFrom(c, t) ==
  /\ UNCHANGED manager
  /\ IF bridgeActive THEN StopFrom(c, t) ELSE Goto(c, BridgeLostIt(t)) /\ UNCHANGED bridge

\* ExtensionManager.deactivate.
DeactivateFrom(c, t) ==
  IF ~active \/ ~registered THEN Done(c) /\ UNCHANGED <<manager, bridge>>
  ELSE BridgeDeactivateFrom(c, t)

\* Broken variant: pending requests are left to wait.
AbandonedNone(r, served) == {}

\* The requests of a process fail when it exits.
Abandoned(r, served) ==
  {c \in Calls \ served : task[c].pc \in OnPlugin /\ task[c].rt = r}

\* The process exits, having answered the deactivate of the calls in SERVED, which go
\* on in some order.
Exits(r, served) ==
  /\ runtimes[r].alive /\ Settled
  /\ served \subseteq {c \in Calls : task[c].pc = "deactivating" /\ task[c].rt = r}
  /\ runtimes' = [runtimes EXCEPT ![r] =
       IF served = {} THEN [@ EXCEPT !.alive = FALSE]
       ELSE [alive |-> FALSE, activated |-> FALSE, ended |-> TRUE]]
  /\ task' = [c \in Calls |->
       IF c \in served THEN [task[c] EXCEPT !.pc = "stopped", !.rt = 0]
       ELSE IF c \in Abandoned(r, served) THEN Idle ELSE task[c]]
  /\ queue' \in SetToSeqs(served)
  /\ UNCHANGED <<manager, current, records, bridgeActive, started, ghosts>>

\* Broken variant: the record keeps its process.
BridgeDeactivatedKeepsRuntime(c) ==
  /\ Turn(c, "stopped")
  /\ bridgeActive' = FALSE
  /\ Goto(c, BridgeLostIt(task[c]))
  /\ UNCHANGED <<manager, current, records, runtimes, started, ghosts>>

BridgeDeactivated(c) ==
  /\ Turn(c, "stopped")
  /\ bridgeActive' = FALSE
  /\ records' = [records EXCEPT ![task[c].rec].recreate = TRUE]
  /\ Goto(c, BridgeLostIt(task[c]))
  /\ UNCHANGED <<manager, current, runtimes, started, ghosts>>

\* What a call does once the extension is deactivated.
Deactivated(t) ==
  CASE t.op = "reinitialize" -> At(t, "reactivating")
    [] t.op = "dispose" -> At(t, "clearing")
    [] OTHER -> Idle

\* Broken variant: the grants stay.
ManagerDeactivatedKeepsGrant(c) ==
  /\ Turn(c, "unbridged")
  /\ active' = FALSE
  /\ epoch' = epoch + 1
  /\ Goto(c, Deactivated(task[c]))
  /\ UNCHANGED <<registered, held, grant, bridge, started, answers, used>>

ManagerDeactivated(c) ==
  /\ Turn(c, "unbridged")
  /\ active' = FALSE /\ grant' = "none"
  /\ epoch' = epoch + 1
  /\ Goto(c, Deactivated(task[c]))
  /\ UNCHANGED <<registered, held, bridge, started, answers, used>>

Reactivate(c) ==
  /\ Turn(c, "reactivating")
  /\ ActivateFrom(c, task[c])
  /\ UNCHANGED <<started, ghosts>>

\* ExtensionManager.dispose when nothing is left to deactivate, and LocalKernelBridge's.
ClearFrom(c, t) ==
  /\ active' = FALSE
  /\ UNCHANGED <<registered, held, grant>>
  /\ IF bridgeActive THEN StopFrom(c, [t EXCEPT !.op = "clear"])
     ELSE current' = 0 /\ Done(c) /\ UNCHANGED <<records, bridgeActive, runtimes>>

Clear(c) ==
  /\ Turn(c, "clearing")
  /\ ClearFrom(c, task[c])
  /\ UNCHANGED <<started, ghosts>>

BridgeCleared(c) ==
  /\ Turn(c, "cleared")
  /\ bridgeActive' = FALSE /\ current' = 0
  /\ Done(c)
  /\ UNCHANGED <<manager, records, runtimes, started, ghosts>>

\* A load is refused, or the plugin answers with an error or not in time.
Fails(c) ==
  /\ task[c].pc \in OnPlugin \cup {"loading"} /\ Settled
  /\ Done(c)
  /\ UNCHANGED <<manager, bridge, started, ghosts>>

-----------------------------------------------------------------------------
(* Calls of the host, up to their first await.                              *)

Start(c, op) ==
  LET t == [Idle EXCEPT !.op = op, !.since = epoch]
  IN  /\ task[c] = Idle /\ started < MaxCalls
      /\ op \in InstanceOps => held
      /\ started' = started + 1
      /\ used' = used \cup ({op} \cap OneSided)
      /\ UNCHANGED <<epoch, answers>>
      /\ CASE op = "load" -> Goto(c, At(t, "loading")) /\ UNCHANGED <<manager, bridge>>
           [] op = "deactivate" -> DeactivateFrom(c, t)
           [] op = "reinitialize" /\ active -> DeactivateFrom(c, t)
           [] op = "dispose" /\ active -> DeactivateFrom(c, t)
           [] op = "dispose" /\ ~active -> ClearFrom(c, t)
           [] op = "invoke" /\ active -> GateFrom(c, t)
           [] (op = "openSession" /\ active) \/ op = "instanceOpenSession" ->
                UNCHANGED manager /\ EnsureReady(c, At(t, "opened"))
           [] op = "instanceActivate" -> BridgeActivateFrom(c, t)
           [] op = "instanceDeactivate" -> BridgeDeactivateFrom(c, t)
           [] op = "instanceInvoke" -> CallFrom(c, t)
           [] OTHER -> ActivateFrom(c, t)

\* unregister; settings are left out.
Unregister ==
  /\ started < MaxCalls
  /\ started' = started + 1
  /\ registered' = FALSE
  /\ UNCHANGED <<held, active, grant, bridge, calls, ghosts>>

Next ==
  \/ \E c \in Calls :
       \/ \E op \in Ops : Start(c, op)
       \/ Loaded(c) \/ Register(c)
       \/ Adopt(c) \/ ActivateRuntime(c) \/ Activates(c)
       \/ BridgeActivated(c) \/ ManagerActivated(c)
       \/ Gate(c) \/ CallPlugin(c) \/ OpenReady(c) \/ OpenOnPlugin(c) \/ Returns(c)
       \/ BridgeDeactivated(c) \/ ManagerDeactivated(c) \/ Reactivate(c)
       \/ Clear(c) \/ BridgeCleared(c) \/ Fails(c)
       \/ \E decision \in {"yes", "no"} : UserDecides(c, decision)
  \/ \E r \in DOMAIN runtimes : \E served \in SUBSET Calls : Exits(r, served)
  \/ Unregister

Spec == Init /\ [][Next]_vars

-----------------------------------------------------------------------------
(* Properties.                                                              *)

\* Type correctness; a call waits only for a process that is alive, so that no
\* promise is left behind by one that has exited.
TypeOK ==
  /\ {registered, held, active, bridgeActive} \subseteq BOOLEAN
  /\ used \subseteq OneSided
  /\ grant \in {"none", "yes", "no"}
  /\ current \in 0..Len(records)
  /\ \A i \in DOMAIN records : records[i].runtime \in DOMAIN runtimes
  /\ \A r \in DOMAIN runtimes : runtimes[r].ended => ~runtimes[r].alive
  /\ \A c \in Calls :
       /\ task[c].pc \in Ready \cup Waiting \cup {"idle"}
       /\ task[c].pc \in OnPlugin => runtimes[task[c].rt].alive
       /\ task[c].pc \in {"ready", "opened"} => task[c].rec \in DOMAIN records

Given(decision, from) ==
  \E a \in answers : a.decision = decision /\ a.given >= from

\* A call of the manager's invoke that the permission gate has let through.
LetThrough(c) == task[c].op = "invoke" /\ task[c].pc \in {"call", "invoking"}

\* A deactivation that completes takes every decision with it that was given before,
\* and the gate lets an invoke through only on a yes given since the invoke was made,
\* whatever prompts, deactivations and activations are under way at once.  The prompt
\* may have been put before: see PromptedSinceDeactivation.
DecisionsEndWithDeactivation ==
  /\ grant # "none" => Given(grant, epoch)
  /\ \A c \in Calls : LetThrough(c) => Given("yes", task[c].since)

\* What the comments claim ("Prompt grants are session-scoped per activation cycle.",
\* ExtensionManager.ts:151; "a one-time grant per activation cycle", 174): an invoke of
\* a prompt capability is let through on a prompt that was put after the deactivation
\* that was the last one to complete when the invoke was made.
PromptedSinceDeactivation ==
  \A c \in Calls :
    LetThrough(c) => \E a \in answers : a.decision = "yes" /\ a.asked >= task[c].since

Quiet == \A c \in Calls : task[c] = Idle

\* Once every call has returned, whatever calls were under way at once: unless the host
\* disposed the manager, the bridge has the extension active if the manager has, but
\* for a deactivate of the instance, and the manager has if the bridge has, but for an
\* activate of the instance; and a bridge whose process has left on its deactivate is
\* ready to spawn another, so that the next activate can succeed.
LifecycleSound ==
  Quiet =>
    /\ used \cap {"dispose", "instanceDeactivate"} = {} => (active => bridgeActive)
    /\ used \cap {"dispose", "instanceActivate"} = {} => (bridgeActive => active)
    /\ current # 0 /\ Runtime(current).ended => records[current].recreate
=============================================================================
