----------------------- MODULE ExtensionManagerProofs -----------------------
(***************************************************************************)
(* Proofs about ExtensionManager, for any number of calls and processes.   *)
(***************************************************************************)
EXTENDS ExtensionManager, FiniteSetTheorems, TLAPS

-----------------------------------------------------------------------------
(* The inductive invariant, part by part.                                   *)

Places == Ready \cup Waiting \cup {"idle"}

Tasks ==
  [op : Ops \cup {"none", "clear"}, pc : Places, rec : Nat, rt : Nat, since : Nat,
   asked : Nat]

Records == [runtime : Nat \ {0}, recreate : BOOLEAN]
Processes == [alive : BOOLEAN, activated : BOOLEAN, ended : BOOLEAN]
Decisions == {"yes", "no"}

TypeInv ==
  /\ registered \in BOOLEAN /\ held \in BOOLEAN
  /\ active \in BOOLEAN /\ bridgeActive \in BOOLEAN
  /\ used \subseteq OneSided
  /\ grant \in {"none"} \cup Decisions
  /\ records \in Seq(Records) /\ runtimes \in Seq(Processes)
  /\ current \in 0..Len(records)
  /\ task \in [Calls -> Tasks]
  /\ queue \in Seq(Calls)
  /\ epoch \in Nat
  /\ answers \subseteq [asked : Nat, given : Nat, decision : Decisions]

\* A call that changes one flag only is among those the host has made; a bridge is
\* cleared for a dispose.
Declares(op, made) ==
  /\ op \in OneSided => op \in made
  /\ op = "clear" => "dispose" \in made

\* What a call may hold where it stands, when there are those processes and that many
\* records, after that many deactivations, when the host has made those calls.
Holds(t, processes, number, now, made) ==
  /\ t.pc \in OnPlugin => t.rt \in 1..Len(processes) /\ processes[t.rt].alive
  /\ t.pc \in {"ready", "opened"} => t.rt \in 0..Len(processes)
  /\ t.pc \notin OnPlugin \cup {"ready", "opened"} => t.rt = 0
  /\ t.pc \in {"ready", "opened", "deactivating", "stopped"} => t.rec \in 1..number
  /\ t.since <= now
  /\ Declares(t.op, made)
  /\ t.pc \in {"clearing", "cleared"} => "dispose" \in made

TaskInv == \A c \in Calls : Holds(task[c], runtimes, Len(records), epoch, used)

\* A call that has spawned a process and not adopted it.
Unadopted(c) == task[c].pc \in {"ready", "opened"} /\ task[c].rt # 0

\* A process is some record's, or some call's that will adopt it, and nobody else's;
\* a call that deactivates a process holds the record it belongs to, if any.
OwnedInv ==
  /\ \A i \in 1..Len(records) : records[i].runtime <= Len(runtimes)
  /\ \A i, j \in 1..Len(records) : records[i].runtime = records[j].runtime => i = j
  /\ \A c \in Calls : Unadopted(c) =>
       /\ ~runtimes[task[c].rt].ended
       /\ \A d \in Calls : task[d].rt = task[c].rt => d = c
       /\ \A i \in 1..Len(records) : records[i].runtime # task[c].rt
  /\ \A c \in Calls : task[c].pc = "deactivating" =>
       \A i \in 1..Len(records) : records[i].runtime = task[c].rt => i = task[c].rec

\* A record whose process ended on its deactivate will spawn another, or the call
\* that deactivated it is about to say so.
EndedInv ==
  /\ \A r \in 1..Len(runtimes) : runtimes[r].ended => ~runtimes[r].alive
  /\ \A i \in 1..Len(records) :
       runtimes[records[i].runtime].ended /\ ~records[i].recreate
         => \E c \in Calls : task[c].pc = "stopped" /\ task[c].rec = i

\* Whoever is in the queue is ready, and in it once.
QueueInv ==
  /\ \A k \in 1..Len(queue) : task[queue[k]].pc \in Ready /\ task[queue[k]].rt = 0
  /\ \A j, k \in 1..Len(queue) : queue[j] = queue[k] => j = k

\* The calls that are about to set the manager's flag; the last of them decides.
Switching == {"bridged", "unbridged"}
Switches(k) == task[queue[k]].pc \in Switching
Decides(k) ==
  /\ task[queue[k]].pc = IF bridgeActive THEN "bridged" ELSE "unbridged"
  /\ \A j \in 1..Len(queue) : j > k => ~Switches(j)

\* The calls that set the bridge's flag so without the manager's, or take the manager's
\* away.
Taints(on) == {"dispose", IF on THEN "instanceActivate" ELSE "instanceDeactivate"}

AgreeInv ==
  used \cap Taints(bridgeActive) = {} =>
    \/ \E k \in 1..Len(queue) : Decides(k)
    \/ (\A k \in 1..Len(queue) : ~Switches(k)) /\ active = bridgeActive

Inv ==
  /\ TypeInv /\ TaskInv /\ OwnedInv /\ EndedInv /\ QueueInv /\ AgreeInv
  /\ DecisionsEndWithDeactivation

-----------------------------------------------------------------------------
(* One call moves on.                                                       *)

LEMMA IdleFacts ==
  /\ Idle \in Tasks /\ Idle.pc = "idle" /\ Idle.op = "none"
  /\ Idle.rt = 0 /\ Idle.since = 0 /\ Idle.rec = 0
  /\ \A made : Declares(Idle.op, made)
  BY DEF Idle, Tasks, Places, Declares, OneSided

LEMMA DeclaresMore ==
  ASSUME NEW op, NEW made, NEW more, Declares(op, made), made \subseteq more
  PROVE  Declares(op, more)
  BY DEF Declares

LEMMA AtFacts ==
  ASSUME NEW t \in Tasks, NEW pc \in Places
  PROVE  /\ At(t, pc) \in Tasks
         /\ At(t, pc).pc = pc
         /\ At(t, pc).op = t.op /\ At(t, pc).rec = t.rec
         /\ At(t, pc).rt = t.rt /\ At(t, pc).since = t.since
  BY DEF At, Tasks

\* The call is not in the queue, or its turn has come.
Free(c) ==
  \/ task[c].pc \notin Ready \/ task[c].rt # 0
  \/ queue # <<>> /\ Head(queue) = c

\* The call leaves the queue, the others keep their order, and it joins them at the
\* end if it is ready.
Moved(c, t, left, kept) ==
  /\ kept + left = Len(queue)
  /\ left = 1 => queue[1] = c
  /\ \A k \in 1..kept : queue'[k] = queue[k + left] /\ queue'[k] \in Calls /\ queue'[k] # c
  /\ IF t.pc \in Ready /\ t.rt = 0
     THEN Len(queue') = kept + 1 /\ queue'[kept + 1] = c
     ELSE Len(queue') = kept

LEMMA GotoMoves ==
  ASSUME TypeInv, QueueInv, NEW c \in Calls, NEW t \in Tasks, Free(c), Goto(c, t)
  PROVE  /\ task' \in [Calls -> Tasks] /\ queue' \in Seq(Calls)
         /\ task'[c] = t
         /\ \A d \in Calls : d # c => task'[d] = task[d]
         /\ \E left \in {0, 1}, kept \in Nat : Moved(c, t, left, kept)
  <1> DEFINE others == IF queue # <<>> /\ Head(queue) = c THEN Tail(queue) ELSE queue
  <1>1. task' = [task EXCEPT ![c] = t]
    BY DEF Goto
  <1>2. queue' = IF t.pc \in Ready /\ t.rt = 0 THEN Append(others, c) ELSE others
    BY DEF Goto
  <1>3. /\ task' \in [Calls -> Tasks] /\ task'[c] = t
        /\ \A d \in Calls : d # c => task'[d] = task[d]
    BY <1>1 DEF TypeInv
  <1>4. queue \in Seq(Calls)
    BY DEF TypeInv
  <1>5. \A k \in 1..Len(queue) : queue[k] \in Calls
    BY <1>4
  <1>6. PICK left \in {0, 1}, kept \in Nat :
          /\ others \in Seq(Calls) /\ kept + left = Len(queue) /\ Len(others) = kept
          /\ left = 1 => queue[1] = c
          /\ \A k \in 1..kept : others[k] = queue[k + left] /\ others[k] # c
    <2>1. CASE queue # <<>> /\ Head(queue) = c
      <3>1. /\ others = Tail(queue) /\ others \in Seq(Calls)
            /\ Len(queue) - 1 \in Nat /\ Len(others) = Len(queue) - 1 /\ queue[1] = c
            /\ \A k \in 1..Len(queue) - 1 : others[k] = queue[k + 1]
        BY <2>1, <1>4
      <3>2. \A k \in 1..Len(queue) - 1 : queue[k + 1] # c
        BY <3>1, <1>4 DEF QueueInv
      <3> HIDE DEF others
      <3>3. PICK n \in Nat : n = Len(queue) - 1
        BY <3>1
      <3>4. n + 1 = Len(queue)
        BY <3>3, <1>4
      <3> QED
        BY <3>1, <3>2, <3>3, <3>4
    <2>2. CASE ~(queue # <<>> /\ Head(queue) = c)
      <3>1. others = queue
        BY <2>2
      <3>2. task[c].pc \notin Ready \/ task[c].rt # 0
        BY <2>2 DEF Free
      <3>3. \A k \in 1..Len(queue) : queue[k] # c
        BY <3>2 DEF QueueInv
      <3>4. Len(queue) \in Nat
        BY <1>4
      <3> HIDE DEF others
      <3> QED
        BY <3>1, <3>3, <3>4, <1>4
    <2> QED
      BY <2>1, <2>2
  <1> HIDE DEF others
  <1>7. queue' \in Seq(Calls) /\ Moved(c, t, left, kept)
    <2>1. CASE t.pc \in Ready /\ t.rt = 0
      <3>1. queue' = Append(others, c)
        BY <2>1, <1>2
      <3>2. /\ queue' \in Seq(Calls) /\ Len(queue') = kept + 1 /\ queue'[kept + 1] = c
            /\ \A k \in 1..kept : queue'[k] = others[k]
        BY <3>1, <1>6
      <3>3. \A k \in 1..kept : k + left \in 1..Len(queue)
        BY <1>6
      <3> QED
        BY <2>1, <3>2, <3>3, <1>5, <1>6 DEF Moved
    <2>2. CASE ~(t.pc \in Ready /\ t.rt = 0)
      <3>1. queue' = others
        BY <2>2, <1>2
      <3>3. \A k \in 1..kept : k + left \in 1..Len(queue)
        BY <1>6
      <3> QED
        BY <2>2, <3>1, <3>3, <1>5, <1>6 DEF Moved
    <2> QED
      BY <2>1, <2>2
  <1> QED
    BY <1>3, <1>7

\* Whoever is in the queue stays ready, and in it once.
LEMMA GotoQueue ==
  ASSUME TypeInv, QueueInv, NEW c \in Calls, NEW t \in Tasks, Free(c), Goto(c, t)
  PROVE  QueueInv'
  <1>1. PICK left \in {0, 1}, kept \in Nat : Moved(c, t, left, kept)
    BY GotoMoves
  <1>2. task'[c] = t /\ \A d \in Calls : d # c => task'[d] = task[d]
    BY GotoMoves
  <1>3. \A k \in 1..kept : k + left \in 1..Len(queue)
    BY <1>1 DEF Moved
  <1>4. ASSUME NEW k \in 1..kept
        PROVE  task'[queue'[k]].pc \in Ready /\ task'[queue'[k]].rt = 0
    <2>1. task'[queue'[k]] = task[queue[k + left]]
      BY <1>1, <1>2 DEF Moved
    <2> QED
      BY <2>1, <1>3 DEF QueueInv
  <1>5. ASSUME NEW j \in 1..kept, NEW k \in 1..kept, queue'[j] = queue'[k]
        PROVE  j = k
    <2>1. queue[j + left] = queue[k + left]
      BY <1>1, <1>5 DEF Moved
    <2>2. j + left = k + left
      BY <2>1, <1>3 DEF QueueInv
    <2> QED
      BY <2>2
  <1>6. \A k \in 1..kept : queue'[k] # c
    BY <1>1 DEF Moved
  <1>7. CASE t.pc \in Ready /\ t.rt = 0
    <2>1. Len(queue') = kept + 1 /\ queue'[kept + 1] = c
      BY <1>1, <1>7 DEF Moved
    <2> QED
      BY <2>1, <1>2, <1>4, <1>5, <1>6, <1>7 DEF QueueInv
  <1>8. CASE ~(t.pc \in Ready /\ t.rt = 0)
    <2>1. Len(queue') = kept
      BY <1>1, <1>8 DEF Moved
    <2> QED
      BY <2>1, <1>4, <1>5 DEF QueueInv
  <1> QED
    BY <1>7, <1>8
-----------------------------------------------------------------------------
(* The flags of the manager and the bridge.                                 *)

Flag(on) == IF on THEN "bridged" ELSE "unbridged"

\* A call that is not about to set the manager's flag goes on to something else.
LEMMA AgreeAside ==
  ASSUME TypeInv, QueueInv, AgreeInv, NEW c \in Calls, NEW t \in Tasks, Free(c), Goto(c, t),
         task[c].pc \notin Switching, t.pc \notin Switching,
         active' = active, bridgeActive' = bridgeActive, used \subseteq used'
  PROVE  AgreeInv'
  <1>1. PICK left \in {0, 1}, kept \in Nat : Moved(c, t, left, kept)
    BY GotoMoves
  <1>2. task'[c] = t /\ \A d \in Calls : d # c => task'[d] = task[d]
    BY GotoMoves
  <1>3. \A k \in 1..kept : /\ k + left \in 1..Len(queue)
                           /\ task'[queue'[k]] = task[queue[k + left]]
    BY <1>1, <1>2 DEF Moved
  <1>4. \A k \in 1..Len(queue') : k \notin 1..kept => k = kept + 1 /\ task'[queue'[k]] = t
    BY <1>1, <1>2 DEF Moved
  <1>5. 1..kept \subseteq 1..Len(queue') /\ Len(queue') \in Nat
    BY <1>1 DEF Moved
  <1> SUFFICES ASSUME (used \cap Taints(bridgeActive) = {})' PROVE AgreeInv'
    BY DEF AgreeInv
  <1>6. CASE \E k \in 1..Len(queue) : Decides(k)
    <2>1. PICK k \in 1..Len(queue) : Decides(k)
      BY <1>6
    <2>2. ~(left = 1 /\ k = 1)
      BY <2>1, <1>1 DEF Decides, Moved, Switching
    <2>3. k - left \in 1..kept /\ (k - left) + left = k
      BY <2>2, <1>1 DEF Moved
    <2>4. task'[queue'[k - left]].pc = IF bridgeActive' THEN "bridged" ELSE "unbridged"
      BY <2>1, <2>3, <1>3 DEF Decides
    <2>5. ASSUME NEW j \in 1..Len(queue'), j > k - left
          PROVE  task'[queue'[j]].pc \notin Switching
      <3>1. CASE j \in 1..kept
        <4>1. j + left \in 1..Len(queue) /\ task'[queue'[j]] = task[queue[j + left]]
          BY <3>1, <1>3
        <4>2. j + left > k
          <5>1. j \in Nat /\ k \in Nat /\ left \in Nat /\ kept \in Nat
            BY <3>1, <2>1
          <5> QED
            BY ONLY <5>1, <2>5, <2>3
        <4> QED
          BY <4>1, <4>2, <2>1 DEF Decides, Switches
      <3>2. CASE j \notin 1..kept
        BY <3>2, <1>4
      <3> QED
        BY <3>1, <3>2
    <2>6. k - left \in 1..Len(queue')
      BY <2>3, <1>5
    <2>7. Decides(k - left)'
      BY <2>4, <2>5, <2>6 DEF Decides, Switches
    <2> QED
      BY <2>6, <2>7 DEF AgreeInv
  <1>7. CASE (\A k \in 1..Len(queue) : ~Switches(k)) /\ active = bridgeActive
    <2>1. ASSUME NEW j \in 1..Len(queue')
          PROVE  task'[queue'[j]].pc \notin Switching
      <3>1. CASE j \in 1..kept
        BY <3>1, <1>3, <1>7 DEF Switches
      <3>2. CASE j \notin 1..kept
        BY <3>2, <1>4
      <3> QED
        BY <3>1, <3>2
    <2> QED
      BY <2>1, <1>7 DEF AgreeInv, Switches
  <1> QED
    BY <1>6, <1>7 DEF AgreeInv

\* A call comes to set the manager's flag as the bridge's is now.
LEMMA AgreeJoins ==
  ASSUME TypeInv, QueueInv, NEW c \in Calls, NEW t \in Tasks, Free(c), Goto(c, t),
         t.pc = Flag(bridgeActive'), t.rt = 0
  PROVE  AgreeInv'
  <1>1. PICK left \in {0, 1}, kept \in Nat : Moved(c, t, left, kept)
    BY GotoMoves
  <1>2. task'[c] = t
    BY GotoMoves
  <1>3. t.pc \in Ready
    BY DEF Ready, Flag
  <1>4. Len(queue') = kept + 1 /\ queue'[kept + 1] = c
    BY <1>1, <1>3 DEF Moved
  <1>5. kept + 1 \in 1..Len(queue') /\ \A j \in 1..Len(queue') : ~(j > kept + 1)
    BY <1>4
  <1>6. Decides(kept + 1)'
    BY <1>2, <1>4, <1>5 DEF Decides, Flag
  <1> QED
    BY <1>5, <1>6 DEF AgreeInv

\* A call sets the manager's flag.
LEMMA AgreeLeaves ==
  ASSUME TypeInv, QueueInv, AgreeInv, NEW c \in Calls, NEW t \in Tasks, Goto(c, t),
         NEW on \in BOOLEAN, Turn(c, Flag(on)), t.pc \notin Switching,
         active' = on, bridgeActive' = bridgeActive, used' = used
  PROVE  AgreeInv'
  <1>1. Free(c)
    BY DEF Turn, Free
  <1>2. PICK left \in {0, 1}, kept \in Nat : Moved(c, t, left, kept)
    BY <1>1, GotoMoves
  <1>3. task'[c] = t /\ \A d \in Calls : d # c => task'[d] = task[d]
    BY <1>1, GotoMoves
  <1>4. \A k \in 1..kept : /\ k + left \in 1..Len(queue)
                           /\ task'[queue'[k]] = task[queue[k + left]]
                           /\ queue[k + left] # c
    <2>1. \A k \in 1..kept : k + left \in 1..Len(queue)
      BY <1>2 DEF Moved
    <2>2. \A k \in 1..kept : /\ queue[k + left] = queue'[k]
                             /\ queue'[k] \in Calls /\ queue'[k] # c
      BY <1>2 DEF Moved
    <2> QED
      BY <2>1, <2>2, <1>3
  <1>5. \A k \in 1..Len(queue') : k \notin 1..kept => k = kept + 1 /\ task'[queue'[k]] = t
    BY <1>2, <1>3 DEF Moved
  <1>6. 1..kept \subseteq 1..Len(queue') /\ Len(queue') \in Nat
    BY <1>2 DEF Moved
  <1>7. queue \in Seq(Calls) /\ queue # <<>> /\ queue[1] = c
    BY DEF Turn, TypeInv
  <1>8. 1 \in 1..Len(queue) /\ Len(queue) \in Nat
    BY <1>7
  <1>9. left = 1
    <2>1. CASE left = 0
      BY <2>1, <1>2, <1>4, <1>7, <1>8 DEF Moved
    <2> QED
      BY <2>1
  <1>10. task[queue[1]].pc = Flag(on) /\ Flag(on) \in Switching
    BY <1>7 DEF Turn, Flag, Switching
  <1> SUFFICES ASSUME (used \cap Taints(bridgeActive) = {})' PROVE AgreeInv'
    BY DEF AgreeInv
  <1>11. PICK k \in 1..Len(queue) : Decides(k)
    BY <1>8, <1>10 DEF AgreeInv, Switches
  <1>12. CASE k = 1
    <2>1. \A j \in 1..Len(queue) : j > 1 => ~Switches(j)
      BY <1>11, <1>12 DEF Decides
    <2>2. ASSUME NEW j \in 1..Len(queue')
          PROVE  task'[queue'[j]].pc \notin Switching
      <3>1. CASE j \in 1..kept
        <4>1. j + 1 \in 1..Len(queue) /\ j + 1 > 1
          BY <3>1, <1>4, <1>9
        <4> QED
          BY <4>1, <3>1, <2>1, <1>4, <1>9 DEF Switches
      <3>2. CASE j \notin 1..kept
        BY <3>2, <1>5
      <3> QED
        BY <3>1, <3>2
    <2>3. bridgeActive = on
      BY <1>10, <1>11, <1>12 DEF Decides, Flag, TypeInv
    <2> QED
      BY <2>2, <2>3 DEF AgreeInv, Switches
  <1>13. CASE k # 1
    <2>1. k - 1 \in 1..kept /\ (k - 1) + 1 = k
      BY <1>2, <1>9, <1>13 DEF Moved
    <2>2. task'[queue'[k - 1]].pc = IF bridgeActive' THEN "bridged" ELSE "unbridged"
      BY <2>1, <1>4, <1>9, <1>11 DEF Decides
    <2>3. ASSUME NEW j \in 1..Len(queue'), j > k - 1
          PROVE  task'[queue'[j]].pc \notin Switching
      <3>1. CASE j \in 1..kept
        <4>1. j + 1 \in 1..Len(queue) /\ j + 1 > k
          BY <3>1, <2>1, <2>3, <1>4, <1>9
        <4> QED
          BY <4>1, <3>1, <1>4, <1>9, <1>11 DEF Decides, Switches
      <3>2. CASE j \notin 1..kept
        BY <3>2, <1>5
      <3> QED
        BY <3>1, <3>2
    <2>4. k - 1 \in 1..Len(queue')
      BY <2>1, <1>6
    <2>5. Decides(k - 1)'
      BY <2>2, <2>3, <2>4 DEF Decides, Switches
    <2> QED
      BY <2>4, <2>5 DEF AgreeInv
  <1> QED
    BY <1>12, <1>13

-----------------------------------------------------------------------------
(* What the other calls hold.                                               *)

Steps(c, t) == task'[c] = t /\ \A d \in Calls : d # c => task'[d] = task[d]

NoneDies == \A r \in 1..Len(runtimes) : runtimes[r].alive => runtimes'[r].alive

LEMMA TaskSteps ==
  ASSUME TypeInv, TaskInv, NEW c \in Calls, NEW t \in Tasks, Steps(c, t),
         Len(runtimes') \in Nat, Len(runtimes') >= Len(runtimes), NoneDies,
         Len(records') \in Nat, Len(records') >= Len(records),
         epoch' \in Nat, epoch' >= epoch, used \subseteq used',
         Holds(t, runtimes', Len(records'), epoch', used')
  PROVE  TaskInv'
  <1>1. ASSUME NEW d \in Calls, d # c
        PROVE  Holds(task[d], runtimes', Len(records'), epoch', used')
    <2>1. Holds(task[d], runtimes, Len(records), epoch, used)
      BY DEF TaskInv
    <2>2. task[d] \in Tasks
      BY DEF TypeInv
    <2>3. task[d].rec \in Nat /\ task[d].rt \in Nat /\ task[d].since \in Nat
      BY <2>2 DEF Tasks
    <2>4. Len(runtimes) \in Nat /\ Len(records) \in Nat /\ epoch \in Nat
      BY DEF TypeInv
    <2>5. task[d].pc \in OnPlugin =>
            task[d].rt \in 1..Len(runtimes') /\ runtimes'[task[d].rt].alive
      BY <2>1, <2>3, <2>4 DEF Holds, NoneDies
    <2>6. task[d].since <= epoch'
      BY <2>1, <2>3, <2>4 DEF Holds
    <2>7. task[d].pc \in {"ready", "opened"} => task[d].rt \in 0..Len(runtimes')
      BY <2>1, <2>3, <2>4 DEF Holds
    <2>8. task[d].pc \in {"ready", "opened", "deactivating", "stopped"} =>
            task[d].rec \in 1..Len(records')
      BY <2>1, <2>3, <2>4 DEF Holds
    <2>9. Declares(task[d].op, used')
      BY <2>1, DeclaresMore DEF Holds
    <2> QED
      BY <2>1, <2>5, <2>6, <2>7, <2>8, <2>9 DEF Holds
  <1> QED
    BY <1>1 DEF TaskInv, Steps

LEMMA TaskStep ==
  ASSUME TypeInv, TaskInv, NEW c \in Calls, NEW t \in Tasks,
         task'[c] = t, \A d \in Calls : d # c => task'[d] = task[d],
         Len(runtimes') \in Nat, Len(runtimes') >= Len(runtimes),
         \A r \in 1..Len(runtimes) : runtimes[r].alive => runtimes'[r].alive,
         Len(records') \in Nat, Len(records') >= Len(records),
         epoch' \in Nat, epoch' >= epoch, used \subseteq used',
         Holds(t, runtimes', Len(records'), epoch', used')
  PROVE  TaskInv'
  <1>1. Steps(c, t) /\ NoneDies
    BY DEF Steps, NoneDies
  <1> QED
    BY <1>1, TaskSteps

\* What a call may wait for or hold that has spawned no process of its own.
Owns(t) ==
  \/ t.rt = 0
  \/ /\ t.pc \in OnPlugin
     /\ \E i \in 1..Len(records) :
          records[i].runtime = t.rt /\ (t.pc = "deactivating" => t.rec = i)

LEMMA OwnedStep ==
  ASSUME TypeInv, OwnedInv, NEW c \in Calls, NEW t \in Tasks,
         task'[c] = t, \A d \in Calls : d # c => task'[d] = task[d],
         Len(records') = Len(records),
         \A i \in 1..Len(records) : records'[i].runtime = records[i].runtime,
         Len(runtimes') = Len(runtimes), TaskInv,
         \A r \in 1..Len(runtimes) : runtimes'[r].ended = runtimes[r].ended,
         Owns(t)
  PROVE  OwnedInv'
  <1>1. /\ \A i \in 1..Len(records') : records'[i].runtime <= Len(runtimes')
        /\ \A i, j \in 1..Len(records') : records'[i].runtime = records'[j].runtime => i = j
    BY DEF OwnedInv
  <1>2. \A i \in 1..Len(records) : records[i] \in Records
    BY DEF TypeInv
  <1>3. \A i \in 1..Len(records) : records[i].runtime # 0
    BY <1>2 DEF Records
  <1>4. ASSUME NEW d \in Calls, Unadopted(d)'
        PROVE  /\ ~runtimes'[task'[d].rt].ended
               /\ \A e \in Calls : task'[e].rt = task'[d].rt => e = d
               /\ \A i \in 1..Len(records') : records'[i].runtime # task'[d].rt
    <2>1. d # c /\ task'[d] = task[d]
      BY <1>4 DEF Unadopted, Owns, OnPlugin
    <2>2. Unadopted(d)
      BY <1>4, <2>1 DEF Unadopted
    <2>3. /\ ~runtimes[task[d].rt].ended
          /\ \A e \in Calls : task[e].rt = task[d].rt => e = d
          /\ \A i \in 1..Len(records) : records[i].runtime # task[d].rt
      BY <2>2 DEF OwnedInv
    <2>4. task[d].rt \in 1..Len(runtimes)
      <3>1. Holds(task[d], runtimes, Len(records), epoch, used)
        BY DEF TaskInv
      <3>2. task[d].rt \in 0..Len(runtimes) /\ Len(runtimes) \in Nat
        BY <3>1, <2>2 DEF Holds, Unadopted, TypeInv
      <3> QED
        BY <3>2, <2>2 DEF Unadopted
    <2>5. t.rt # task[d].rt
      BY <2>2, <2>3 DEF Owns, Unadopted
    <2> QED
      BY <2>1, <2>3, <2>4, <2>5
  <1>5. ASSUME NEW d \in Calls, task'[d].pc = "deactivating"
        PROVE  \A i \in 1..Len(records') : records'[i].runtime = task'[d].rt => i = task'[d].rec
    <2>1. CASE d = c
      BY <2>1, <1>3, <1>5 DEF Owns, OwnedInv
    <2>2. CASE d # c
      BY <2>2, <1>5 DEF OwnedInv
    <2> QED
      BY <2>1, <2>2
  <1> QED
    BY <1>1, <1>4, <1>5 DEF OwnedInv

LEMMA EndedStep ==
  ASSUME TypeInv, EndedInv, OwnedInv, NEW c \in Calls, NEW t \in Tasks,
  task[c].pc # "stopped",
         task'[c] = t, \A d \in Calls : d # c => task'[d] = task[d],
         records' = records, Len(runtimes') = Len(runtimes),
         \A r \in 1..Len(runtimes) : /\ runtimes'[r].ended = runtimes[r].ended
                                     /\ runtimes'[r].alive = runtimes[r].alive
  PROVE  EndedInv'
  <1>1. \A r \in 1..Len(runtimes') : runtimes'[r].ended => ~runtimes'[r].alive
    BY DEF EndedInv
  <1>2. \A i \in 1..Len(records) : records[i] \in Records
    BY DEF TypeInv
  <1>3. \A i \in 1..Len(records) : records[i].runtime \in 1..Len(runtimes)
    BY <1>2 DEF Records, OwnedInv, TypeInv
  <1>4. ASSUME NEW i \in 1..Len(records'), runtimes'[records'[i].runtime].ended,
               ~records'[i].recreate
        PROVE  \E d \in Calls : task'[d].pc = "stopped" /\ task'[d].rec = i
    <2>1. PICK d \in Calls : task[d].pc = "stopped" /\ task[d].rec = i
      BY <1>3, <1>4 DEF EndedInv
    <2> QED
      BY <2>1
  <1> QED
    BY <1>1, <1>4 DEF EndedInv

\* The decisions that a call relies on.
Consented(t) ==
  t.op = "invoke" /\ t.pc \in {"call", "invoking"} => Given("yes", t.since)

LEMMA PromptStep ==
  ASSUME TypeInv, DecisionsEndWithDeactivation, NEW c \in Calls, NEW t \in Tasks,
         task'[c] = t, \A d \in Calls : d # c => task'[d] = task[d],
         grant' = grant, epoch' = epoch, answers' = answers, Consented(t)
  PROVE  DecisionsEndWithDeactivation'
  BY DEF DecisionsEndWithDeactivation, LetThrough, Given, Consented

\* A grant in force was given since the last deactivation, and so since any call that
\* is under way began.
LEMMA GrantIsFresh ==
  ASSUME TypeInv, DecisionsEndWithDeactivation, NEW since \in Nat, since <= epoch,
         grant # "none"
  PROVE  Given(grant, since)
  <1>1. PICK a \in answers : a.decision = grant /\ a.given >= epoch
    BY DEF DecisionsEndWithDeactivation, LetThrough, Given
  <1>2. a.given \in Nat /\ epoch \in Nat
    BY DEF TypeInv
  <1> QED
    BY <1>1, <1>2 DEF Given

\* A call moves on, and the processes and their records stay as they are.
LEMMA MoveStep ==
  ASSUME Inv, NEW c \in Calls, NEW t \in Tasks, Free(c), Goto(c, t),
         grant' \in {"none"} \cup Decisions, epoch' \in Nat, epoch' >= epoch,
         answers' \subseteq [asked : Nat, given : Nat, decision : Decisions],
         records' = records, runtimes' = runtimes,
         registered' \in BOOLEAN, held' \in BOOLEAN, active' \in BOOLEAN,
         bridgeActive' \in BOOLEAN,
         used' \subseteq OneSided, used \subseteq used', current' \in 0..Len(records),
         task[c].pc # "stopped",
         Holds(t, runtimes, Len(records), epoch', used'), Owns(t)
  PROVE  TypeInv' /\ TaskInv' /\ OwnedInv' /\ EndedInv' /\ QueueInv'
  <1> USE DEF Inv
  <1>1. /\ task' \in [Calls -> Tasks] /\ queue' \in Seq(Calls) /\ task'[c] = t
        /\ \A d \in Calls : d # c => task'[d] = task[d]
    BY GotoMoves
  <1>2. TypeInv'
    BY <1>1 DEF TypeInv
  <1>3. TaskInv'
    <2>1. Len(runtimes) \in Nat /\ Len(records) \in Nat
      BY DEF TypeInv
    <2> QED
      BY <1>1, <2>1, TaskStep
  <1>4. OwnedInv'
    BY <1>1, OwnedStep
  <1>5. EndedInv'
    BY <1>1, EndedStep
  <1>6. QueueInv'
    BY GotoQueue
  <1> QED
    BY <1>2, <1>3, <1>4, <1>5, <1>6

\* A call moves on and changes at most the flags and the record in force.
LEMMA PlainStep ==
  ASSUME Inv, NEW c \in Calls, NEW t \in Tasks, Free(c), Goto(c, t),
         grant' = grant, epoch' = epoch, answers' = answers,
         records' = records, runtimes' = runtimes,
         registered' \in BOOLEAN, held' \in BOOLEAN, active' \in BOOLEAN,
         bridgeActive' \in BOOLEAN,
         used' \subseteq OneSided, used \subseteq used', current' \in 0..Len(records),
         task[c].pc # "stopped",
         Holds(t, runtimes, Len(records), epoch, used'), Owns(t), Consented(t)
  PROVE  AgreeInv' => Inv'
  <1>1. /\ task'[c] = t
        /\ \A d \in Calls : d # c => task'[d] = task[d]
    BY GotoMoves DEF Inv
  <1>2. /\ grant \in {"none"} \cup Decisions /\ epoch \in Nat
        /\ answers \subseteq [asked : Nat, given : Nat, decision : Decisions]
    BY DEF Inv, TypeInv
  <1>3. epoch >= epoch
    BY <1>2
  <1>4. TypeInv' /\ TaskInv' /\ OwnedInv' /\ EndedInv' /\ QueueInv'
    BY <1>2, <1>3, MoveStep
  <1>5. DecisionsEndWithDeactivation'
    BY <1>1, PromptStep DEF Inv
  <1> QED
    BY <1>4, <1>5 DEF Inv

\* The flags stay as they are, or the host has made a call after which they may differ.
FlagsKept ==
  \/ active' = active /\ bridgeActive' = bridgeActive
  \/ /\ used' \cap Taints(bridgeActive') # {}
     /\ active' \in BOOLEAN /\ bridgeActive' \in BOOLEAN

LEMMA FlagsStep ==
  ASSUME Inv, NEW c \in Calls, NEW t \in Tasks, Free(c), Goto(c, t),
         task[c].pc \notin Switching, t.pc \notin Switching, used \subseteq used',
         FlagsKept
  PROVE  AgreeInv' /\ active' \in BOOLEAN /\ bridgeActive' \in BOOLEAN
  <1>1. CASE active' = active /\ bridgeActive' = bridgeActive
    BY <1>1, AgreeAside DEF Inv, TypeInv
  <1>2. CASE /\ used' \cap Taints(bridgeActive') # {}
             /\ active' \in BOOLEAN /\ bridgeActive' \in BOOLEAN
    BY <1>2 DEF AgreeInv
  <1> QED
    BY <1>1, <1>2 DEF FlagsKept

\* A call that throws or returns.
LEMMA DoneStep ==
  ASSUME Inv, NEW c \in Calls, Free(c), Done(c),
         grant' = grant, epoch' = epoch, answers' = answers,
         records' = records, runtimes' = runtimes, registered' \in BOOLEAN,
         held' \in BOOLEAN, FlagsKept,
         used' \subseteq OneSided, used \subseteq used', current' \in 0..Len(records),
         task[c].pc # "stopped", task[c].pc \notin Switching
  PROVE  Inv'
  <1>1. Idle \in Tasks /\ Goto(c, Idle)
    BY IdleFacts DEF Done
  <1>2. Holds(Idle, runtimes, Len(records), epoch, used')
    BY IdleFacts DEF Holds, OnPlugin, Inv, TypeInv
  <1>3. Owns(Idle) /\ Consented(Idle)
    BY IdleFacts DEF Owns, Consented
  <1>4. AgreeInv' /\ active' \in BOOLEAN /\ bridgeActive' \in BOOLEAN
    BY <1>1, IdleFacts, FlagsStep DEF Switching
  <1> QED
    BY <1>1, <1>2, <1>3, <1>4, PlainStep

LEMMA ProcessesAreKnown ==
  ASSUME TypeInv, TaskInv, NEW d \in Calls
  PROVE  task[d].rt \in 0..Len(runtimes)
  <1>1. Holds(task[d], runtimes, Len(records), epoch, used)
    BY DEF TaskInv
  <1>2. Len(runtimes) \in Nat
    BY DEF TypeInv
  <1> QED
    BY <1>1, <1>2 DEF Holds

LEMMA SpawnFacts ==
  ASSUME TypeInv, runtimes' = Append(runtimes, Spawned)
  PROVE  /\ runtimes' \in Seq(Processes) /\ Len(runtimes) \in Nat
         /\ Len(runtimes') = Len(runtimes) + 1
         /\ runtimes'[Len(runtimes) + 1].alive /\ ~runtimes'[Len(runtimes) + 1].ended
         /\ \A r \in 1..Len(runtimes) : runtimes'[r] = runtimes[r]
  <1>1. Spawned \in Processes /\ Spawned.alive /\ ~Spawned.ended
    BY DEF Spawned, Processes
  <1> QED
    BY <1>1 DEF TypeInv

\* A call spawns a process that it has yet to adopt.
LEMMA SpawnStep ==
  ASSUME Inv, NEW c \in Calls, NEW t \in Tasks, Free(c), Goto(c, t),
         runtimes' = Append(runtimes, Spawned), t.rt = Len(runtimes) + 1,
         t.pc \in {"ready", "opened"}, t.rec \in 1..Len(records), t.since <= epoch,
         Declares(t.op, used'),
         UNCHANGED <<manager, current, records, bridgeActive, epoch, answers>>,
         used' \subseteq OneSided, used \subseteq used',
         task[c].pc # "stopped", task[c].pc \notin Switching
  PROVE  Inv'
  <1> USE DEF Inv
  <1>1. /\ task' \in [Calls -> Tasks] /\ queue' \in Seq(Calls) /\ task'[c] = t
        /\ \A d \in Calls : d # c => task'[d] = task[d]
    BY GotoMoves
  <1>2. /\ runtimes' \in Seq(Processes) /\ Len(runtimes) \in Nat
        /\ Len(runtimes') = Len(runtimes) + 1
        /\ runtimes'[Len(runtimes) + 1].alive /\ ~runtimes'[Len(runtimes) + 1].ended
        /\ \A r \in 1..Len(runtimes) : runtimes'[r] = runtimes[r]
    BY SpawnFacts
  <1>3. TypeInv'
    BY <1>1, <1>2 DEF TypeInv, manager
  <1>4. TaskInv'
    <2>1. Len(records) \in Nat /\ epoch \in Nat
      BY DEF TypeInv
    <2>2. Holds(t, runtimes', Len(records'), epoch', used')
      BY <1>2 DEF Holds, OnPlugin
    <2> QED
      BY <1>1, <1>2, <2>1, <2>2, TaskStep
  <1>5. \A i \in 1..Len(records) : records[i].runtime \in 1..Len(runtimes)
    <2>1. \A i \in 1..Len(records) : records[i] \in Records
      BY DEF TypeInv
    <2> QED
      BY <2>1, <1>2 DEF Records, OwnedInv
  <1>6. OwnedInv'
    <2>1. ASSUME NEW d \in Calls, Unadopted(d)'
          PROVE  /\ ~runtimes'[task'[d].rt].ended
                 /\ \A e \in Calls : task'[e].rt = task'[d].rt => e = d
                 /\ \A i \in 1..Len(records') : records'[i].runtime # task'[d].rt
      <3>0. /\ task'[c].rt = Len(runtimes) + 1
            /\ \A e \in Calls : e # c => /\ task'[e] = task[e]
                                      /\ task'[e].rt \in 0..Len(runtimes)
        BY <1>1, ProcessesAreKnown
      <3>1. CASE d = c
        <4>1. \A e \in Calls : e # c => task'[e].rt # Len(runtimes) + 1
          BY <3>0, <1>2
        <4>2. \A i \in 1..Len(records) : records[i].runtime # Len(runtimes) + 1
          BY <1>2, <1>5
        <4> QED
          BY <3>0, <3>1, <4>1, <4>2, <1>2
      <3>2. CASE d # c
        <4>1. task[d].rt \in 1..Len(runtimes) /\ Unadopted(d)
          BY <3>0, <3>2, <2>1, <1>2 DEF Unadopted
        <4>2. /\ ~runtimes[task[d].rt].ended
              /\ \A e \in Calls : task[e].rt = task[d].rt => e = d
              /\ \A i \in 1..Len(records) : records[i].runtime # task[d].rt
          BY <4>1 DEF OwnedInv
        <4>3. task'[c].rt # task[d].rt
          BY <3>0, <4>1, <1>2
        <4>4. task'[d] = task[d] /\ \A e \in Calls : e # c => task'[e] = task[e]
          BY <3>0, <3>2
        <4>5. \A e \in Calls : task'[e].rt = task'[d].rt => e = d
          BY ONLY <4>2, <4>3, <4>4
        <4>6. ~runtimes'[task'[d].rt].ended
          BY <4>1, <4>2, <4>4, <1>2
        <4> QED
          BY <4>2, <4>4, <4>5, <4>6, <1>2
      <3> QED
        BY <3>1, <3>2
    <2>2. \A i \in 1..Len(records') : records'[i].runtime <= Len(runtimes')
      BY <1>2, <1>5
    <2>3. ASSUME NEW d \in Calls, task'[d].pc = "deactivating"
          PROVE  \A i \in 1..Len(records') :
                   records'[i].runtime = task'[d].rt => i = task'[d].rec
      BY <2>3, <1>1 DEF OwnedInv
    <2> QED
      BY <2>1, <2>2, <2>3 DEF OwnedInv
  <1>7. EndedInv'
    <2>1. \A r \in 1..Len(runtimes') : runtimes'[r].ended => ~runtimes'[r].alive
      BY <1>2 DEF EndedInv
    <2>2. ASSUME NEW i \in 1..Len(records'), runtimes'[records'[i].runtime].ended,
                 ~records'[i].recreate
          PROVE  \E d \in Calls : task'[d].pc = "stopped" /\ task'[d].rec = i
      <3>1. PICK d \in Calls : task[d].pc = "stopped" /\ task[d].rec = i
        BY <1>2, <1>5, <2>2 DEF EndedInv
      <3> QED
        BY <3>1, <1>1
    <2> QED
      BY <2>1, <2>2 DEF EndedInv
  <1>8. QueueInv'
    BY GotoQueue
  <1>9. AgreeInv'
    BY AgreeAside DEF Switching, manager
  <1>10. DecisionsEndWithDeactivation'
    BY <1>1, PromptStep DEF Consented, manager
  <1> QED
    BY <1>3, <1>4, <1>6, <1>7, <1>8, <1>9, <1>10

\* ensureRuntimeReady, whatever it finds.
LEMMA EnsureReadyStep ==
  ASSUME Inv, NEW c \in Calls, NEW t \in Tasks, Free(c), EnsureReady(c, t),
         t.pc \in {"ready", "opened"}, t.rt = 0, t.since <= epoch,
         Declares(t.op, used'),
         UNCHANGED <<manager, epoch, answers>>,
         used' \subseteq OneSided, used \subseteq used',
         task[c].pc # "stopped", task[c].pc \notin Switching
  PROVE  Inv'
  <1>1. /\ registered' = registered /\ held' = held /\ active' = active /\ grant' = grant
        /\ epoch' = epoch /\ answers' = answers
        /\ current' = current /\ records' = records /\ bridgeActive' = bridgeActive
    BY DEF EnsureReady, manager
  <1>2. /\ current \in 0..Len(records) /\ Len(records) \in Nat /\ Len(runtimes) \in Nat
        /\ registered \in BOOLEAN /\ held \in BOOLEAN /\ active \in BOOLEAN
        /\ bridgeActive \in BOOLEAN
    BY DEF Inv, TypeInv
  <1>3. CASE Done(c) /\ UNCHANGED runtimes
    BY <1>1, <1>2, <1>3, DoneStep DEF FlagsKept
  <1>4. CASE /\ current # 0 /\ Goto(c, [t EXCEPT !.rec = current])
             /\ UNCHANGED runtimes
    <2>1. PICK u : u = [t EXCEPT !.rec = current]
      OBVIOUS
    <2>2. /\ u \in Tasks /\ u.pc = t.pc /\ u.op = t.op /\ u.rt = 0
          /\ u.since = t.since /\ u.rec = current
      BY <2>1, <1>2 DEF Tasks
    <2>3. Holds(u, runtimes, Len(records), epoch, used')
      BY <2>2, <1>2, <1>4 DEF Holds, OnPlugin
    <2>4. Owns(u) /\ Consented(u)
      BY <2>2 DEF Owns, Consented
    <2>5. Goto(c, u)
      BY <2>1, <1>4
    <2>6. AgreeInv'
      BY <2>2, <2>5, <1>1, AgreeAside DEF Inv, Switching
    <2> QED
      BY <2>2, <2>3, <2>4, <2>5, <2>6, <1>1, <1>2, <1>4, PlainStep
  <1>5. CASE /\ current # 0 /\ runtimes' = Append(runtimes, Spawned)
             /\ Goto(c, [t EXCEPT !.rec = current, !.rt = Len(runtimes) + 1])
    <2>0. PICK n \in Nat : n = Len(runtimes) + 1
      BY <1>2
    <2>1. PICK u : u = [t EXCEPT !.rec = current, !.rt = n]
      OBVIOUS
    <2>2. /\ u \in Tasks /\ u.pc = t.pc /\ u.op = t.op /\ u.rt = Len(runtimes) + 1
          /\ u.since = t.since /\ u.rec = current
      <3>1. current \in Nat
        BY <1>2
      <3>2. /\ u \in Tasks /\ u.pc = t.pc /\ u.op = t.op /\ u.rt = n
            /\ u.since = t.since /\ u.rec = current
        BY <2>1, <3>1 DEF Tasks
      <3> QED
        BY <2>0, <3>2
    <2>3. Goto(c, u)
      BY <2>0, <2>1, <1>5
    <2>4. current \in 1..Len(records)
      BY <1>2, <1>5
    <2> QED
      BY <2>2, <2>3, <2>4, <1>1, <1>5, SpawnStep
  <1> QED
    BY <1>3, <1>4, <1>5 DEF EnsureReady

\* A call that waits for no process starts, or goes on from its turn.
Enters(c, t) ==
  /\ Free(c) /\ task[c].pc # "stopped" /\ task[c].pc \notin Switching
  /\ t.rt = 0 /\ t.since <= epoch
  /\ Declares(t.op, used')
  /\ used' \subseteq OneSided /\ used \subseteq used'
  /\ epoch' = epoch /\ answers' = answers
  /\ records' = records /\ runtimes' = runtimes
  /\ current' \in 0..Len(records)
  /\ registered' \in BOOLEAN /\ held' \in BOOLEAN /\ grant' = grant

\* It goes on to where it waits for no process either.
LEMMA PlaceStep ==
  ASSUME Inv, NEW c \in Calls, NEW t \in Tasks, Enters(c, t), Goto(c, t), FlagsKept,
         t.pc \notin OnPlugin, t.pc \notin Switching,
         t.pc \in {"ready", "opened", "stopped"} => t.rec \in 1..Len(records),
         t.pc \in {"clearing", "cleared"} => "dispose" \in used',
         t.op = "invoke" /\ t.pc = "call" => Given("yes", t.since)
  PROVE  Inv'
  <1>1. AgreeInv' /\ active' \in BOOLEAN /\ bridgeActive' \in BOOLEAN
    BY FlagsStep DEF Enters
  <1>2. Len(runtimes) \in Nat /\ epoch \in Nat
    BY DEF Inv, TypeInv
  <1>3. Holds(t, runtimes, Len(records), epoch, used')
    BY <1>2 DEF Holds, Enters, OnPlugin
  <1>4. Owns(t) /\ Consented(t)
    BY DEF Enters, Owns, Consented, OnPlugin
  <1> QED
    BY <1>1, <1>3, <1>4, PlainStep DEF Enters

\* It comes to set the manager's flag.
LEMMA JoinStep ==
  ASSUME Inv, NEW c \in Calls, NEW t \in Tasks, Enters(c, t), Goto(c, t),
         t.pc = Flag(bridgeActive'), active' = active, bridgeActive' \in BOOLEAN
  PROVE  Inv'
  <1>1. AgreeInv'
    BY AgreeJoins DEF Inv, Enters
  <1>2. Len(runtimes) \in Nat /\ epoch \in Nat /\ active \in BOOLEAN
    BY DEF Inv, TypeInv
  <1>3. Holds(t, runtimes, Len(records), epoch, used')
    BY <1>2 DEF Holds, Enters, OnPlugin, Flag
  <1>4. Owns(t) /\ Consented(t)
    BY DEF Enters, Owns, Consented, Flag
  <1> QED
    BY <1>1, <1>2, <1>3, <1>4, PlainStep DEF Enters

\* It sends a request to the process of a record.
LEMMA SendStep ==
  ASSUME Inv, NEW c \in Calls, NEW t \in Tasks, Enters(c, t), FlagsKept,
         NEW rec \in 1..Len(records), NEW pc \in OnPlugin, Send(c, t, rec, pc),
         pc = "deactivating" => t.rec = rec,
         t.op = "invoke" /\ pc = "invoking" => Given("yes", t.since)
  PROVE  Inv'
  <1>1. Len(runtimes) \in Nat /\ epoch \in Nat /\ Len(records) \in Nat
    BY DEF Inv, TypeInv
  <1>2. records[rec].runtime \in 1..Len(runtimes)
    <2>1. records[rec] \in Records
      BY DEF Inv, TypeInv
    <2> QED
      BY <2>1, <1>1 DEF Records, Inv, OwnedInv
  <1>3. CASE Done(c)
    BY <1>3, DoneStep DEF Enters
  <1>4. CASE /\ Runtime(rec).alive
             /\ Goto(c, [t EXCEPT !.pc = pc, !.rt = records[rec].runtime])
    <2>1. PICK n \in Nat : n = records[rec].runtime
      BY <1>1, <1>2
    <2>2. PICK u : u = [t EXCEPT !.pc = pc, !.rt = n]
      OBVIOUS
    <2>3. pc \in Places
      BY DEF Places, Waiting
    <2>4. /\ u \in Tasks /\ u.pc = pc /\ u.op = t.op /\ u.rt = n
          /\ u.since = t.since /\ u.rec = t.rec
      BY <2>2, <2>3 DEF Tasks
    <2>5. Goto(c, u)
      BY <1>4, <2>1, <2>2
    <2>6. u.pc \notin Switching /\ u.pc \in OnPlugin
      BY <2>4 DEF Switching, OnPlugin
    <2>7. AgreeInv' /\ active' \in BOOLEAN /\ bridgeActive' \in BOOLEAN
      BY <2>4, <2>5, <2>6, FlagsStep DEF Enters
    <2>8. Holds(u, runtimes, Len(records), epoch, used')
      BY <1>1, <1>2, <1>4, <2>1, <2>4 DEF Holds, OnPlugin, Runtime, Enters
    <2>9. Owns(u)
      BY <2>1, <2>4, <2>6 DEF Owns
    <2>10. Consented(u)
      BY <2>4 DEF Consented, OnPlugin
    <2> QED
      BY <2>4, <2>5, <2>7, <2>8, <2>9, <2>10, PlainStep DEF Enters
  <1> QED
    BY <1>3, <1>4 DEF Send

-----------------------------------------------------------------------------
(* What a call does from a turn, layer by layer.                            *)

LEMMA GateFromStep ==
  ASSUME Inv, NEW c \in Calls, NEW t \in Tasks, Enters(c, t), GateFrom(c, t)
  PROVE  Inv'
  <1>1. FlagsKept
    BY DEF GateFrom, manager, bridge, FlagsKept
  <1>2. CASE Done(c)
    BY <1>1, <1>2, DoneStep DEF Enters
  <1>3. CASE grant = "yes" /\ Goto(c, At(t, "call"))
    <2>1. PICK u : u = At(t, "call")
      OBVIOUS
    <2>2. /\ u \in Tasks /\ u.pc = "call" /\ u.op = t.op /\ u.rt = t.rt
          /\ u.since = t.since
      BY <2>1, AtFacts DEF Places, Ready
    <2>3. Given("yes", u.since)
      <3>1. u.since \in Nat /\ u.since <= epoch
        BY <2>2 DEF Tasks, Enters
      <3> QED
        BY <1>3, <3>1, GrantIsFresh DEF Inv
    <2>4. Enters(c, u)
      BY <2>2 DEF Enters
    <2>5. Goto(c, u)
      BY <1>3, <2>1
    <2> QED
      BY <1>1, <2>2, <2>3, <2>4, <2>5, PlaceStep DEF OnPlugin, Switching
  <1>4. CASE Goto(c, [At(t, "asking") EXCEPT !.asked = epoch])
    <2>0. PICK v : v = At(t, "asking")
      OBVIOUS
    <2>1. PICK u : u = [v EXCEPT !.asked = epoch]
      OBVIOUS
    <2>2. /\ u \in Tasks /\ u.pc = "asking" /\ u.op = t.op /\ u.rt = t.rt
          /\ u.since = t.since
      <3>1. /\ v \in Tasks /\ v.pc = "asking" /\ v.op = t.op /\ v.rt = t.rt
            /\ v.since = t.since
        BY <2>0, AtFacts DEF Places, Waiting
      <3>2. epoch \in Nat
        BY DEF Inv, TypeInv
      <3> QED
        BY <2>1, <3>1, <3>2 DEF Tasks
    <2>3. Enters(c, u)
      BY <2>2 DEF Enters
    <2>4. Goto(c, u)
      BY <1>4, <2>0, <2>1
    <2> QED
      BY <1>1, <2>2, <2>3, <2>4, PlaceStep DEF OnPlugin, Switching
  <1> QED
    BY <1>2, <1>3, <1>4 DEF GateFrom

\* LocalKernelBridge.invoke, for a call that the gate has let through or the instance's.
LEMMA CallFromStep ==
  ASSUME Inv, NEW c \in Calls, NEW t \in Tasks, Enters(c, t), CallFrom(c, t),
         t.op = "invoke" => Given("yes", t.since)
  PROVE  Inv'
  <1>1. FlagsKept
    BY DEF CallFrom, FlagsKept, manager, bridge
  <1>2. current \in 0..Len(records)
    BY DEF Inv, TypeInv
  <1>3. CASE Done(c)
    BY <1>1, <1>3, DoneStep DEF Enters
  <1>4. CASE current # 0 /\ Send(c, t, current, "invoking")
    <2>1. current \in 1..Len(records) /\ "invoking" \in OnPlugin
      BY <1>2, <1>4 DEF OnPlugin
    <2> QED
      BY <2>1, <1>1, <1>4, SendStep
  <1> QED
    BY <1>3, <1>4 DEF CallFrom

\* An activate of the instance goes on to nothing, any other to set the manager's flag.
LEMMA HasItPlaces ==
  ASSUME NEW t \in Tasks
  PROVE  \/ BridgeHasIt(t) = Idle /\ t.op = "instanceActivate"
         \/ /\ BridgeHasIt(t) \in Tasks /\ BridgeHasIt(t).pc = "bridged"
            /\ BridgeHasIt(t).op = t.op /\ BridgeHasIt(t).rt = t.rt
            /\ BridgeHasIt(t).since = t.since
  <1>1. "bridged" \in Places
    BY DEF Places, Ready
  <1> QED
    BY <1>1, AtFacts DEF BridgeHasIt

\* The bridge has the extension active: the call sets the manager's flag next, or the
\* host has made a call after which the flags may differ.
LEMMA HasItStep ==
  ASSUME Inv, NEW c \in Calls, NEW t \in Tasks, Enters(c, t), Goto(c, BridgeHasIt(t)),
         active' = active, bridgeActive' = TRUE
  PROVE  Inv'
  <1>1. PICK u : u = BridgeHasIt(t)
    OBVIOUS
  <1>2. CASE u = Idle /\ t.op = "instanceActivate"
    <2>1. "instanceActivate" \in used' \cap Taints(bridgeActive')
      BY <1>2 DEF Enters, Declares, OneSided, Taints
    <2>2. active' \in BOOLEAN /\ bridgeActive' \in BOOLEAN
      BY DEF Inv, TypeInv
    <2>3. FlagsKept
      BY ONLY <2>1, <2>2 DEF FlagsKept
    <2>4. Done(c)
      BY <1>1, <1>2 DEF Done
    <2> QED
      BY <2>3, <2>4, DoneStep DEF Enters
  <1>3. CASE /\ u \in Tasks /\ u.pc = "bridged" /\ u.op = t.op /\ u.rt = t.rt
             /\ u.since = t.since
    <2>1. Enters(c, u)
      BY <1>3 DEF Enters
    <2>2. Goto(c, u) /\ u.pc = Flag(bridgeActive')
      BY <1>1, <1>3 DEF Flag
    <2> QED
      BY <1>3, <2>1, <2>2, JoinStep
  <1> QED
    BY <1>1, <1>2, <1>3, HasItPlaces

LEMMA BridgeActivateFromStep ==
  ASSUME Inv, NEW c \in Calls, NEW t \in Tasks, BridgeActivateFrom(c, t),
         Free(c), task[c].pc # "stopped", task[c].pc \notin Switching,
         t.rt = 0, t.since <= epoch, Declares(t.op, used'),
         used' \subseteq OneSided, used \subseteq used', epoch' = epoch, answers' = answers
  PROVE  Inv'
  <1>1. /\ registered' = registered /\ held' = held /\ active' = active /\ grant' = grant
    BY DEF BridgeActivateFrom, manager
  <1>2. /\ current \in 0..Len(records) /\ registered \in BOOLEAN /\ held \in BOOLEAN
    BY DEF Inv, TypeInv
  <1>3. CASE bridgeActive /\ Goto(c, BridgeHasIt(t)) /\ UNCHANGED bridge
    <2>1. bridgeActive' = TRUE
      BY <1>3 DEF bridge, Inv, TypeInv
    <2>2. Enters(c, t)
      BY <1>1, <1>2, <1>3 DEF Enters, bridge
    <2> QED
      BY <1>1, <1>3, <2>1, <2>2, HasItStep
  <1>4. CASE EnsureReady(c, At(t, "ready"))
    <2>1. PICK u : u = At(t, "ready")
      OBVIOUS
    <2>2. /\ u \in Tasks /\ u.pc = "ready" /\ u.op = t.op /\ u.rt = t.rt
          /\ u.since = t.since
      BY <2>1, AtFacts DEF Places, Ready
    <2>3. EnsureReady(c, u)
      BY <1>4, <2>1
    <2>4. UNCHANGED <<manager, epoch, answers>>
      BY DEF BridgeActivateFrom
    <2> QED
      BY <2>2, <2>3, <2>4, EnsureReadyStep
  <1> QED
    BY <1>3, <1>4 DEF BridgeActivateFrom

LEMMA ActivateFromStep ==
  ASSUME Inv, NEW c \in Calls, NEW t \in Tasks, ActivateFrom(c, t),
         Free(c), task[c].pc # "stopped", task[c].pc \notin Switching,
         t.rt = 0, t.since <= epoch, Declares(t.op, used'),
         used' \subseteq OneSided, used \subseteq used', epoch' = epoch, answers' = answers
  PROVE  Inv'
  <1>1. CASE Done(c) /\ UNCHANGED <<manager, bridge>>
    <2>1. /\ registered' = registered /\ held' = held /\ active' = active
          /\ grant' = grant /\ current' = current /\ records' = records
          /\ bridgeActive' = bridgeActive /\ runtimes' = runtimes
      BY <1>1 DEF manager, bridge
    <2>2. /\ current \in 0..Len(records) /\ registered \in BOOLEAN /\ held \in BOOLEAN
      BY DEF Inv, TypeInv
    <2> QED
      BY <1>1, <2>1, <2>2, DoneStep DEF FlagsKept
  <1>2. CASE BridgeActivateFrom(c, t)
    BY <1>2, BridgeActivateFromStep
  <1> QED
    BY <1>1, <1>2 DEF ActivateFrom

LEMMA StopFromStep ==
  ASSUME Inv, NEW c \in Calls, NEW t \in Tasks, Enters(c, t), StopFrom(c, t), FlagsKept
  PROVE  Inv'
  <1>1. current \in 0..Len(records)
    BY DEF Inv, TypeInv
  <1>2. CASE Done(c)
    BY <1>2, DoneStep DEF Enters
  <1>3. CASE current # 0 /\ Send(c, [t EXCEPT !.rec = current], current, "deactivating")
    <2>1. PICK u : u = [t EXCEPT !.rec = current]
      OBVIOUS
    <2>2. current \in Nat
      BY <1>1 DEF Inv, TypeInv
    <2>3. /\ u \in Tasks /\ u.op = t.op /\ u.rt = t.rt
          /\ u.since = t.since /\ u.rec = current
      BY <2>1, <2>2 DEF Tasks
    <2>4. Enters(c, u)
      BY <2>3 DEF Enters
    <2>5. Send(c, u, current, "deactivating")
      BY <1>3, <2>1
    <2>6. current \in 1..Len(records) /\ "deactivating" \in OnPlugin
      BY <1>1, <1>3 DEF OnPlugin
    <2> QED
      BY <2>3, <2>4, <2>5, <2>6, SendStep
  <1>4. CASE current # 0 /\ Goto(c, [t EXCEPT !.pc = "stopped", !.rec = current])
    <2>1. PICK u : u = [t EXCEPT !.pc = "stopped", !.rec = current]
      OBVIOUS
    <2>2. current \in Nat /\ "stopped" \in Places
      BY <1>1 DEF Inv, TypeInv, Places, Ready
    <2>3. /\ u \in Tasks /\ u.op = t.op /\ u.rt = t.rt /\ u.pc = "stopped"
          /\ u.since = t.since /\ u.rec = current
      BY <2>1, <2>2 DEF Tasks
    <2>4. Enters(c, u)
      BY <2>3 DEF Enters
    <2>5. Goto(c, u)
      BY <1>4, <2>1
    <2>6. current \in 1..Len(records)
      BY <1>1, <1>4
    <2> QED
      BY <2>3, <2>4, <2>5, <2>6, PlaceStep DEF OnPlugin, Switching
  <1> QED
    BY <1>2, <1>3, <1>4 DEF StopFrom

\* A deactivate of the instance goes on to nothing, dispose of the bridge to clear it,
\* any other to set the manager's flag.
LEMMA LostItPlaces ==
  ASSUME NEW t \in Tasks
  PROVE  \/ BridgeLostIt(t) = Idle /\ t.op = "instanceDeactivate"
         \/ /\ BridgeLostIt(t) \in Tasks /\ BridgeLostIt(t).pc = "cleared" /\ t.op = "clear"
            /\ BridgeLostIt(t).op = t.op /\ BridgeLostIt(t).rt = t.rt
            /\ BridgeLostIt(t).since = t.since
         \/ /\ BridgeLostIt(t) \in Tasks /\ BridgeLostIt(t).pc = "unbridged"
            /\ BridgeLostIt(t).op = t.op /\ BridgeLostIt(t).rt = t.rt
            /\ BridgeLostIt(t).since = t.since
  <1>1. {"cleared", "unbridged"} \subseteq Places
    BY DEF Places, Ready
  <1> QED
    BY <1>1, AtFacts DEF BridgeLostIt

LEMMA LostItFacts ==
  ASSUME NEW t \in Tasks, NEW made, t.rt = 0, Declares(t.op, made)
  PROVE  /\ BridgeLostIt(t) \in Tasks /\ BridgeLostIt(t).rt = 0
         /\ Declares(BridgeLostIt(t).op, made)
         /\ BridgeLostIt(t).since = t.since \/ BridgeLostIt(t).since = 0
         /\ BridgeLostIt(t).pc \in {"idle", "cleared", "unbridged"}
         /\ BridgeLostIt(t).pc = "cleared" => "dispose" \in made
         /\ \/ BridgeLostIt(t).pc = "unbridged"
            \/ made \cap Taints(FALSE) # {}
  <1>1. PICK u : u = BridgeLostIt(t)
    OBVIOUS
  <1>2. CASE u = Idle /\ t.op = "instanceDeactivate"
    <2>1. "instanceDeactivate" \in made \cap Taints(FALSE)
      BY <1>2 DEF Declares, OneSided, Taints
    <2> QED
      BY <1>1, <1>2, <2>1, IdleFacts
  <1>3. CASE /\ u \in Tasks /\ u.pc = "cleared" /\ t.op = "clear" /\ u.op = t.op
             /\ u.rt = t.rt /\ u.since = t.since
    <2>1. "dispose" \in made \cap Taints(FALSE)
      BY <1>3 DEF Declares, Taints
    <2> QED
      BY <1>1, <1>3, <2>1
  <1>4. CASE /\ u \in Tasks /\ u.pc = "unbridged" /\ u.op = t.op /\ u.rt = t.rt
             /\ u.since = t.since
    BY <1>1, <1>4
  <1> QED
    BY <1>1, <1>2, <1>3, <1>4, LostItPlaces

LEMMA BridgeDeactivateFromStep ==
  ASSUME Inv, NEW c \in Calls, NEW t \in Tasks, BridgeDeactivateFrom(c, t),
         Free(c), task[c].pc # "stopped", task[c].pc \notin Switching,
         t.rt = 0, t.since <= epoch, Declares(t.op, used'),
         used' \subseteq OneSided, used \subseteq used', epoch' = epoch, answers' = answers
  PROVE  Inv'
  <1>1. /\ registered' = registered /\ held' = held /\ active' = active /\ grant' = grant
    BY DEF BridgeDeactivateFrom, manager
  <1>2. /\ current \in 0..Len(records) /\ registered \in BOOLEAN /\ held \in BOOLEAN
        /\ active \in BOOLEAN /\ bridgeActive \in BOOLEAN /\ epoch \in Nat
    BY DEF Inv, TypeInv
  <1>3. UNCHANGED bridge
    BY DEF BridgeDeactivateFrom, StopFrom
  <1>4. /\ current' = current /\ records' = records /\ bridgeActive' = bridgeActive
        /\ runtimes' = runtimes
    BY <1>3 DEF bridge
  <1>5. FlagsKept /\ Enters(c, t)
    BY <1>1, <1>2, <1>4 DEF FlagsKept, Enters
  <1>6. CASE StopFrom(c, t)
    BY <1>5, <1>6, StopFromStep
  <1>7. CASE ~bridgeActive /\ Goto(c, BridgeLostIt(t))
    <2>1. PICK u : u = BridgeLostIt(t)
      OBVIOUS
    <2>2. /\ u \in Tasks /\ u.rt = 0 /\ Declares(u.op, used')
          /\ u.since = t.since \/ u.since = 0
          /\ u.pc \in {"idle", "cleared", "unbridged"}
          /\ u.pc = "cleared" => "dispose" \in used'
      BY <2>1, LostItFacts
    <2>3. u.since <= epoch
      BY <2>2, <1>2
    <2>4. Enters(c, u)
      BY <2>2, <2>3, <1>5 DEF Enters
    <2>5. Goto(c, u)
      BY <1>7, <2>1
    <2>6. CASE u.pc = "unbridged"
      <3>1. u.pc = Flag(bridgeActive')
        BY <2>6, <1>4, <1>7 DEF Flag
      <3> QED
        BY <3>1, <1>1, <1>2, <1>4, <2>2, <2>4, <2>5, JoinStep
    <2>7. CASE u.pc # "unbridged"
      BY <2>2, <2>4, <2>5, <2>7, <1>5, PlaceStep DEF OnPlugin, Switching
    <2> QED
      BY <2>6, <2>7
  <1> QED
    BY <1>6, <1>7 DEF BridgeDeactivateFrom

LEMMA DeactivateFromStep ==
  ASSUME Inv, NEW c \in Calls, NEW t \in Tasks, DeactivateFrom(c, t),
         Free(c), task[c].pc # "stopped", task[c].pc \notin Switching,
         t.rt = 0, t.since <= epoch, Declares(t.op, used'),
         used' \subseteq OneSided, used \subseteq used', epoch' = epoch, answers' = answers
  PROVE  Inv'
  <1>1. CASE Done(c) /\ UNCHANGED <<manager, bridge>>
    <2>1. /\ registered' = registered /\ held' = held /\ active' = active
          /\ grant' = grant /\ current' = current /\ records' = records
          /\ bridgeActive' = bridgeActive /\ runtimes' = runtimes
      BY <1>1 DEF manager, bridge
    <2>2. /\ current \in 0..Len(records) /\ registered \in BOOLEAN /\ held \in BOOLEAN
      BY DEF Inv, TypeInv
    <2> QED
      BY <1>1, <2>1, <2>2, DoneStep DEF FlagsKept
  <1>2. CASE BridgeDeactivateFrom(c, t)
    BY <1>2, BridgeDeactivateFromStep
  <1> QED
    BY <1>1, <1>2 DEF DeactivateFrom

LEMMA ClearFromStep ==
  ASSUME Inv, NEW c \in Calls, NEW t \in Tasks, ClearFrom(c, t),
         Free(c), task[c].pc # "stopped", task[c].pc \notin Switching,
         t.rt = 0, t.since <= epoch, "dispose" \in used', used' \subseteq OneSided,
         used \subseteq used',
         epoch' = epoch, answers' = answers
  PROVE  Inv'
  <1>1. registered' = registered /\ held' = held /\ active' = FALSE /\ grant' = grant
    BY DEF ClearFrom
  <1>2. /\ current \in 0..Len(records) /\ registered \in BOOLEAN /\ held \in BOOLEAN
        /\ active \in BOOLEAN /\ bridgeActive \in BOOLEAN /\ Len(records) \in Nat
    BY DEF Inv, TypeInv
  <1>3. CASE StopFrom(c, [t EXCEPT !.op = "clear"])
    <2>1. PICK u : u = [t EXCEPT !.op = "clear"]
      OBVIOUS
    <2>2. /\ u \in Tasks /\ u.rt = t.rt /\ u.since = t.since /\ u.op = "clear"
      BY <2>1 DEF Tasks
    <2>6. Declares(u.op, used')
      BY <2>2 DEF Declares, OneSided
    <2>3. StopFrom(c, u)
      BY <1>3, <2>1
    <2>4. /\ current' = current /\ records' = records /\ bridgeActive' = bridgeActive
          /\ runtimes' = runtimes
      BY <2>3 DEF StopFrom, bridge
    <2>5. Enters(c, u)
      BY <2>2, <2>4, <2>6, <1>1, <1>2 DEF Enters
    <2>7. active' \in BOOLEAN /\ bridgeActive' \in BOOLEAN
      BY <2>4, <1>1, <1>2
    <2>8. FlagsKept
      BY ONLY <2>7, "dispose" \in used' DEF FlagsKept, Taints
    <2> QED
      BY <2>2, <2>3, <2>5, <2>8, StopFromStep
  <1>4. CASE current' = 0 /\ Done(c) /\ UNCHANGED <<records, bridgeActive, runtimes>>
    <2>1. current' \in 0..Len(records)
      BY <1>2, <1>4
    <2>2. active' \in BOOLEAN /\ bridgeActive' \in BOOLEAN
      BY <1>1, <1>2, <1>4
    <2>3. FlagsKept
      BY ONLY <2>2, "dispose" \in used' DEF FlagsKept, Taints
    <2> QED
      BY <1>1, <1>2, <1>4, <2>1, <2>3, DoneStep
  <1> QED
    BY <1>3, <1>4 DEF ClearFrom

-----------------------------------------------------------------------------
(* One lemma for each action.                                               *)

LEMMA TurnFacts ==
  ASSUME Inv, NEW c \in Calls, NEW pc, Turn(c, pc)
  PROVE  /\ Free(c) /\ task[c] \in Tasks /\ task[c].pc = pc /\ task[c].rt = 0
         /\ task[c].since <= epoch
         /\ Holds(task[c], runtimes, Len(records), epoch, used)
  <1>1. queue \in Seq(Calls) /\ queue # <<>> /\ queue[1] = c
    BY DEF Turn, Inv, TypeInv
  <1>2. 1 \in 1..Len(queue)
    BY <1>1
  <1>3. task[c].rt = 0
    BY <1>1, <1>2 DEF Inv, QueueInv
  <1>4. Holds(task[c], runtimes, Len(records), epoch, used) /\ task[c] \in Tasks
    BY DEF Inv, TaskInv, TypeInv
  <1> QED
    BY <1>3, <1>4 DEF Turn, Free, Holds

\* A call whose turn it is enters its next place, when nothing else changes or only the
\* flags do.
LEMMA TurnEnters ==
  ASSUME Inv, NEW c \in Calls, NEW pc, Turn(c, pc), pc # "stopped", pc \notin Switching,
         UNCHANGED <<registered, held, grant, current, records, runtimes, ghosts>>
  PROVE  Enters(c, task[c])
  <1>1. /\ Free(c) /\ task[c].pc = pc /\ task[c].rt = 0 /\ task[c].since <= epoch
        /\ Holds(task[c], runtimes, Len(records), epoch, used)
    BY TurnFacts
  <1>2. /\ registered' = registered /\ held' = held /\ grant' = grant /\ current' = current
        /\ records' = records /\ runtimes' = runtimes
        /\ epoch' = epoch /\ answers' = answers /\ used' = used
    BY DEF ghosts
  <1>3. /\ registered \in BOOLEAN /\ held \in BOOLEAN /\ used \subseteq OneSided
        /\ current \in 0..Len(records)
    BY DEF Inv, TypeInv
  <1>4. Declares(task[c].op, used)
    BY <1>1 DEF Holds
  <1> QED
    BY <1>1, <1>2, <1>3, <1>4 DEF Enters

LEMMA StartPreserves ==
  ASSUME Inv, NEW c \in Calls, NEW op \in Ops, Start(c, op)
  PROVE  Inv'
  <1>1. PICK t : t = [Idle EXCEPT !.op = op, !.since = epoch]
    OBVIOUS
  <1>2. epoch \in Nat
    BY DEF Inv, TypeInv
  <1>3. /\ t \in Tasks /\ t.op = op /\ t.rt = 0 /\ t.since = epoch
    BY <1>1, <1>2 DEF Idle, Tasks, Places
  <1>4. /\ task[c] = Idle
        /\ used' = used \cup ({op} \cap OneSided)
        /\ epoch' = epoch /\ answers' = answers
    BY DEF Start
  <1>5. Free(c) /\ task[c].pc # "stopped" /\ task[c].pc \notin Switching
    BY <1>4, IdleFacts DEF Free, Ready, Switching
  <1>6. /\ used' \subseteq OneSided /\ used \subseteq used' /\ t.since <= epoch
        /\ (Declares(t.op, used'))
    <2>1. used \subseteq OneSided
      BY DEF Inv, TypeInv
    <2>2. t.op # "clear"
      BY <1>3 DEF Ops, ManagerOps, InstanceOps
    <2>3. used' \subseteq OneSided /\ used \subseteq used'
      BY ONLY <2>1, <1>4
    <2>4. Declares(t.op, used')
      BY ONLY <1>3, <1>4, <2>2 DEF Declares
    <2>5. t.since <= epoch
      BY <1>2, <1>3
    <2> QED
      BY <2>2, <2>3, <2>4, <2>5
  <1>7. \/ Goto(c, At(t, "loading")) /\ UNCHANGED <<manager, bridge>>
        \/ DeactivateFrom(c, t)
        \/ op = "dispose" /\ ClearFrom(c, t)
        \/ op = "invoke" /\ GateFrom(c, t)
        \/ UNCHANGED manager /\ EnsureReady(c, At(t, "opened"))
        \/ ActivateFrom(c, t)
        \/ BridgeActivateFrom(c, t)
        \/ BridgeDeactivateFrom(c, t)
        \/ op = "instanceInvoke" /\ CallFrom(c, t)
    BY <1>1, Zenon DEF Start
  <1>8. CASE Goto(c, At(t, "loading")) /\ UNCHANGED <<manager, bridge>>
    <2>1. PICK u : u = At(t, "loading")
      OBVIOUS
    <2>2. /\ u \in Tasks /\ u.pc = "loading" /\ u.op = t.op /\ u.rt = t.rt
          /\ u.since = t.since
      BY <2>1, <1>3, AtFacts DEF Places, Waiting
    <2>3. Enters(c, u) /\ FlagsKept
      BY <2>2, <1>3, <1>4, <1>5, <1>6, <1>8
         DEF Enters, FlagsKept, manager, bridge, Inv, TypeInv
    <2>4. Goto(c, u)
      BY <1>8, <2>1
    <2> QED
      BY <2>2, <2>3, <2>4, PlaceStep DEF OnPlugin, Switching
  <1>9. CASE DeactivateFrom(c, t)
    BY <1>3, <1>4, <1>5, <1>6, <1>9, DeactivateFromStep
  <1>10. CASE op = "dispose" /\ ClearFrom(c, t)
    <2>1. "dispose" \in used'
      BY ONLY <1>4, <1>10 DEF OneSided
    <2> QED
      BY <2>1, <1>3, <1>4, <1>5, <1>6, <1>10, ClearFromStep
  <1>11. CASE op = "invoke" /\ GateFrom(c, t)
    <2>1. Enters(c, t)
      BY <1>3, <1>4, <1>5, <1>6, <1>11 DEF Enters, GateFrom, manager, bridge, Inv, TypeInv
    <2> QED
      BY <2>1, <1>3, <1>11, GateFromStep
  <1>12. CASE UNCHANGED manager /\ EnsureReady(c, At(t, "opened"))
    <2>1. PICK u : u = At(t, "opened")
      OBVIOUS
    <2>2. /\ u \in Tasks /\ u.pc = "opened" /\ u.op = t.op /\ u.rt = t.rt
          /\ u.since = t.since
      BY <2>1, <1>3, AtFacts DEF Places, Ready
    <2>3. EnsureReady(c, u) /\ UNCHANGED <<manager, epoch, answers>>
      BY <1>4, <1>12, <2>1
    <2> QED
      BY <2>2, <2>3, <1>3, <1>5, <1>6, EnsureReadyStep
  <1>13. CASE ActivateFrom(c, t)
    BY <1>3, <1>4, <1>5, <1>6, <1>13, ActivateFromStep
  <1>14. CASE BridgeActivateFrom(c, t)
    BY <1>3, <1>4, <1>5, <1>6, <1>14, BridgeActivateFromStep
  <1>15. CASE BridgeDeactivateFrom(c, t)
    BY <1>3, <1>4, <1>5, <1>6, <1>15, BridgeDeactivateFromStep
  <1>16. CASE op = "instanceInvoke" /\ CallFrom(c, t)
    <2>1. Enters(c, t)
      BY <1>3, <1>4, <1>5, <1>6, <1>16 DEF Enters, CallFrom, manager, bridge, Inv, TypeInv
    <2> QED
      BY <2>1, <1>3, <1>16, CallFromStep
  <1> QED
    BY <1>7, <1>8, <1>9, <1>10, <1>11, <1>12, <1>13, <1>14, <1>15, <1>16

LEMMA RegisterPreserves ==
  ASSUME Inv, NEW c \in Calls, Register(c)
  PROVE  Inv'
  <1>1. Free(c) /\ task[c].pc = "registering"
    BY TurnFacts DEF Register
  <1>2. /\ current \in 0..Len(records) /\ used \subseteq OneSided
    BY DEF Inv, TypeInv
  <1> QED
    BY <1>1, <1>2, DoneStep DEF Register, FlagsKept, Switching, bridge, ghosts

LEMMA ActivateRuntimePreserves ==
  ASSUME Inv, NEW c \in Calls, ActivateRuntime(c)
  PROVE  Inv'
  <1>1. Turn(c, "ready") /\ UNCHANGED <<manager, bridge, started, ghosts>>
    BY DEF ActivateRuntime
  <1>2. /\ task[c] \in Tasks /\ task[c].pc = "ready" /\ task[c].rt = 0
        /\ Holds(task[c], runtimes, Len(records), epoch, used)
    BY <1>1, TurnFacts
  <1>3. Enters(c, task[c]) /\ FlagsKept
    BY <1>1, TurnEnters DEF manager, bridge, FlagsKept, Switching
  <1>4. task[c].rec \in 1..Len(records)
    BY <1>2 DEF Holds
  <1>5. CASE Goto(c, At(task[c], "activated"))
    <2>1. PICK u : u = At(task[c], "activated")
      OBVIOUS
    <2>2. /\ u \in Tasks /\ u.pc = "activated" /\ u.op = task[c].op /\ u.rt = task[c].rt
          /\ u.since = task[c].since
      BY <2>1, <1>2, AtFacts DEF Places, Ready
    <2>3. Enters(c, u)
      BY <2>2, <1>3 DEF Enters
    <2>4. Goto(c, u)
      BY <1>5, <2>1
    <2> QED
      BY <2>2, <2>3, <2>4, <1>3, PlaceStep DEF OnPlugin, Switching
  <1>6. CASE Send(c, task[c], task[c].rec, "activating")
    <2>1. "activating" \in OnPlugin
      BY DEF OnPlugin
    <2> QED
      BY <2>1, <1>2, <1>3, <1>4, <1>6, SendStep
  <1> QED
    BY <1>5, <1>6 DEF ActivateRuntime

LEMMA BridgeActivatedPreserves ==
  ASSUME Inv, NEW c \in Calls, BridgeActivated(c)
  PROVE  Inv'
  <1>1. /\ Turn(c, "activated")
        /\ UNCHANGED <<registered, held, grant, current, records, runtimes, ghosts>>
        /\ active' = active /\ bridgeActive' = TRUE
    BY DEF BridgeActivated, manager
  <1>2. Enters(c, task[c]) /\ task[c] \in Tasks
    BY <1>1, TurnEnters, TurnFacts DEF Switching
  <1>3. Goto(c, BridgeHasIt(task[c]))
    BY DEF BridgeActivated
  <1> QED
    BY <1>1, <1>2, <1>3, HasItStep

\* What a call goes on to once the extension is active, or is no longer.
LEMMA NextPlaces ==
  ASSUME NEW t \in Tasks
  PROVE  /\ Activated(t) \in Tasks
         /\ Activated(t).pc \in {"gate", "opening", "idle"}
         /\ Activated(t).rt = t.rt \/ Activated(t).rt = 0
         /\ Activated(t).op = t.op \/ Activated(t).op = "none"
         /\ Activated(t).since = t.since \/ Activated(t).since = 0
         /\ Deactivated(t) \in Tasks
         /\ Deactivated(t).pc \in {"reactivating", "clearing", "idle"}
         /\ Deactivated(t).rt = t.rt \/ Deactivated(t).rt = 0
         /\ Deactivated(t).op = t.op \/ Deactivated(t).op = "none"
         /\ Deactivated(t).since = t.since \/ Deactivated(t).since = 0
         /\ Deactivated(t).pc = "clearing" => t.op = "dispose"
  <1>1. /\ {"gate", "opening", "reactivating", "clearing"} \subseteq Places
    BY DEF Places, Ready
  <1>2. Activated(t) = Idle \/ \E pc \in {"gate", "opening"} : Activated(t) = At(t, pc)
    BY DEF Activated
  <1>3. \/ Deactivated(t) = Idle
        \/ Deactivated(t) = At(t, "reactivating")
        \/ Deactivated(t) = At(t, "clearing") /\ t.op = "dispose"
    BY DEF Deactivated
  <1>4. \A pc \in {"gate", "opening", "reactivating", "clearing"} :
          /\ At(t, pc) \in Tasks /\ At(t, pc).pc = pc /\ At(t, pc).op = t.op
          /\ At(t, pc).rt = t.rt /\ At(t, pc).since = t.since
    BY <1>1, AtFacts
  <1>5. /\ Activated(t) \in Tasks
        /\ Activated(t).pc \in {"gate", "opening", "idle"}
        /\ Activated(t).rt = t.rt \/ Activated(t).rt = 0
        /\ Activated(t).op = t.op \/ Activated(t).op = "none"
        /\ Activated(t).since = t.since \/ Activated(t).since = 0
    BY <1>2, <1>4, IdleFacts
  <1>6. /\ Deactivated(t) \in Tasks
        /\ Deactivated(t).pc \in {"reactivating", "clearing", "idle"}
        /\ Deactivated(t).rt = t.rt \/ Deactivated(t).rt = 0
        /\ Deactivated(t).op = t.op \/ Deactivated(t).op = "none"
        /\ Deactivated(t).since = t.since \/ Deactivated(t).since = 0
        /\ Deactivated(t).pc = "clearing" => t.op = "dispose"
    BY <1>3, <1>4, IdleFacts
  <1> QED
    BY <1>5, <1>6

LEMMA ManagerActivatedPreserves ==
  ASSUME Inv, NEW c \in Calls, ManagerActivated(c)
  PROVE  Inv'
  <1>1. /\ Turn(c, "bridged") /\ active' = TRUE
        /\ UNCHANGED <<registered, held, grant, bridge, started, ghosts>>
    BY DEF ManagerActivated
  <1>2. /\ task[c] \in Tasks /\ task[c].pc = "bridged" /\ task[c].rt = 0 /\ Free(c)
        /\ task[c].since <= epoch
        /\ Holds(task[c], runtimes, Len(records), epoch, used)
    BY <1>1, TurnFacts
  <1>3. PICK u : u = Activated(task[c])
    OBVIOUS
  <1>4. /\ u \in Tasks /\ u.pc \in {"gate", "opening", "idle"} /\ u.rt = 0
        /\ u.op = task[c].op \/ u.op = "none"
        /\ u.since = task[c].since \/ u.since = 0
    BY <1>2, <1>3, NextPlaces
  <1>5. Goto(c, u)
    BY <1>3 DEF ManagerActivated
  <1>6. /\ registered' = registered /\ held' = held /\ grant' = grant /\ current' = current
        /\ records' = records /\ runtimes' = runtimes /\ bridgeActive' = bridgeActive
        /\ epoch' = epoch /\ answers' = answers /\ used' = used
    BY <1>1 DEF bridge, ghosts
  <1>7. /\ registered \in BOOLEAN /\ held \in BOOLEAN /\ bridgeActive \in BOOLEAN
        /\ used \subseteq OneSided
        /\ current \in 0..Len(records) /\ epoch \in Nat
    BY DEF Inv, TypeInv
  <1>8. AgreeInv'
    <2>1. Turn(c, Flag(TRUE))
      BY <1>1 DEF Flag
    <2>2. u.pc \notin Switching
      BY <1>4 DEF Switching
    <2> QED
      BY <2>1, <2>2, <1>1, <1>4, <1>5, <1>6, AgreeLeaves DEF Inv
  <1>9. Holds(u, runtimes, Len(records), epoch, used')
    <2>1. Declares(u.op, used')
      BY <1>2, <1>4, <1>6, IdleFacts DEF Holds
    <2> QED
      BY <2>1, <1>2, <1>4, <1>7 DEF Holds, OnPlugin
  <1>10. Owns(u) /\ Consented(u)
    BY <1>4 DEF Owns, Consented
  <1> QED
    BY <1>1, <1>2, <1>4, <1>5, <1>6, <1>7, <1>8, <1>9, <1>10, PlainStep

LEMMA GatePreserves ==
  ASSUME Inv, NEW c \in Calls, Gate(c)
  PROVE  Inv'
  <1>1. /\ Turn(c, "gate")
        /\ UNCHANGED <<registered, held, grant, current, records, runtimes, ghosts>>
    BY DEF Gate, GateFrom, manager, bridge
  <1>2. Enters(c, task[c]) /\ task[c] \in Tasks
    BY <1>1, TurnEnters, TurnFacts DEF Switching
  <1> QED
    BY <1>2, GateFromStep DEF Gate

LEMMA CallPluginPreserves ==
  ASSUME Inv, NEW c \in Calls, CallPlugin(c)
  PROVE  Inv'
  <1>1. Turn(c, "call") /\ UNCHANGED <<manager, bridge, started, ghosts>>
    BY DEF CallPlugin, CallFrom
  <1>2. /\ Enters(c, task[c]) /\ task[c] \in Tasks /\ task[c].pc = "call"
    BY <1>1, TurnEnters, TurnFacts DEF Switching, manager, bridge
  <1>3. task[c].op = "invoke" => Given("yes", task[c].since)
    BY <1>2 DEF Inv, DecisionsEndWithDeactivation, LetThrough
  <1> QED
    BY <1>2, <1>3, CallFromStep DEF CallPlugin

LEMMA OpenReadyPreserves ==
  ASSUME Inv, NEW c \in Calls, OpenReady(c)
  PROVE  Inv'
  <1>1. /\ Turn(c, "opening") /\ EnsureReady(c, At(task[c], "opened"))
        /\ UNCHANGED <<manager, started, ghosts>>
    BY DEF OpenReady
  <1>2. /\ task[c] \in Tasks /\ task[c].pc = "opening" /\ task[c].rt = 0 /\ Free(c)
        /\ task[c].since <= epoch
        /\ Holds(task[c], runtimes, Len(records), epoch, used)
    BY <1>1, TurnFacts
  <1>3. PICK u : u = At(task[c], "opened")
    OBVIOUS
  <1>4. /\ u \in Tasks /\ u.pc = "opened" /\ u.op = task[c].op /\ u.rt = 0
        /\ u.since = task[c].since
    BY <1>2, <1>3, AtFacts DEF Places, Ready
  <1>5. EnsureReady(c, u)
    BY <1>1, <1>3
  <1>6. UNCHANGED <<manager, epoch, answers>> /\ used' = used
    BY <1>1 DEF ghosts
  <1>7. used \subseteq OneSided
    BY DEF Inv, TypeInv
  <1>8. Declares(u.op, used')
    BY <1>2, <1>4, <1>6 DEF Holds
  <1> QED
    BY <1>2, <1>4, <1>5, <1>6, <1>7, <1>8, EnsureReadyStep DEF Switching

LEMMA OpenOnPluginPreserves ==
  ASSUME Inv, NEW c \in Calls, OpenOnPlugin(c)
  PROVE  Inv'
  <1>1. Turn(c, "opened") /\ UNCHANGED <<manager, bridge, started, ghosts>>
    BY DEF OpenOnPlugin
  <1>2. /\ Enters(c, task[c]) /\ task[c] \in Tasks /\ task[c].pc = "opened"
        /\ Holds(task[c], runtimes, Len(records), epoch, used)
    BY <1>1, TurnEnters, TurnFacts DEF Switching, manager, bridge
  <1>3. FlagsKept
    BY <1>1 DEF FlagsKept, manager, bridge
  <1>4. task[c].rec \in 1..Len(records) /\ "session" \in OnPlugin
    BY <1>2 DEF Holds, OnPlugin
  <1> QED
    BY <1>2, <1>3, <1>4, SendStep DEF OpenOnPlugin

\* A call that waits returns or throws.
LEMMA WaitEnds ==
  ASSUME Inv, NEW c \in Calls, Done(c), task[c].pc \in OnPlugin \cup {"loading"},
         UNCHANGED <<manager, bridge, started, ghosts>>
  PROVE  Inv'
  <1>1. /\ task[c].pc \notin Ready /\ task[c].pc # "stopped"
        /\ task[c].pc \notin Switching
    BY DEF OnPlugin, Ready, Switching
  <1>2. Free(c)
    BY <1>1 DEF Free
  <1>3. /\ registered' = registered /\ held' = held /\ grant' = grant
        /\ active' = active /\ current' = current
        /\ records' = records /\ runtimes' = runtimes /\ bridgeActive' = bridgeActive
        /\ epoch' = epoch /\ answers' = answers /\ used' = used
    BY DEF manager, bridge, ghosts
  <1>4. /\ registered \in BOOLEAN /\ held \in BOOLEAN /\ used \subseteq OneSided
        /\ current \in 0..Len(records)
    BY DEF Inv, TypeInv
  <1> QED
    BY <1>1, <1>2, <1>3, <1>4, DoneStep DEF FlagsKept

LEMMA ReturnsPreserves ==
  ASSUME Inv, NEW c \in Calls, Returns(c)
  PROVE  Inv'
  BY WaitEnds DEF Returns, OnPlugin

LEMMA FailsPreserves ==
  ASSUME Inv, NEW c \in Calls, Fails(c)
  PROVE  Inv'
  BY WaitEnds DEF Fails

LEMMA ReactivatePreserves ==
  ASSUME Inv, NEW c \in Calls, Reactivate(c)
  PROVE  Inv'
  <1>1. Turn(c, "reactivating") /\ ActivateFrom(c, task[c]) /\ UNCHANGED ghosts
    BY DEF Reactivate
  <1>2. /\ task[c] \in Tasks /\ task[c].pc = "reactivating" /\ task[c].rt = 0 /\ Free(c)
        /\ task[c].since <= epoch
        /\ Holds(task[c], runtimes, Len(records), epoch, used)
    BY <1>1, TurnFacts
  <1>3. used' = used /\ epoch' = epoch /\ answers' = answers /\ used \subseteq OneSided
    BY <1>1 DEF ghosts, Inv, TypeInv
  <1>4. Declares(task[c].op, used')
    BY <1>2, <1>3 DEF Holds
  <1> QED
    BY <1>1, <1>2, <1>3, <1>4, ActivateFromStep DEF Switching

LEMMA ClearPreserves ==
  ASSUME Inv, NEW c \in Calls, Clear(c)
  PROVE  Inv'
  <1>1. Turn(c, "clearing") /\ ClearFrom(c, task[c]) /\ UNCHANGED ghosts
    BY DEF Clear
  <1>2. /\ task[c] \in Tasks /\ task[c].pc = "clearing" /\ task[c].rt = 0 /\ Free(c)
        /\ task[c].since <= epoch
        /\ Holds(task[c], runtimes, Len(records), epoch, used)
    BY <1>1, TurnFacts
  <1>3. epoch' = epoch /\ answers' = answers /\ used' = used
    BY <1>1 DEF ghosts
  <1>4. used \subseteq OneSided /\ "dispose" \in used
    BY <1>2 DEF Holds, Inv, TypeInv
  <1>5. "dispose" \in used'
    BY ONLY <1>3, <1>4
  <1> QED
    BY <1>1, <1>2, <1>3, <1>4, <1>5, ClearFromStep DEF Switching

LEMMA BridgeClearedPreserves ==
  ASSUME Inv, NEW c \in Calls, BridgeCleared(c)
  PROVE  Inv'
  <1>1. /\ Turn(c, "cleared") /\ bridgeActive' = FALSE /\ current' = 0 /\ Done(c)
        /\ UNCHANGED <<manager, records, runtimes, started, ghosts>>
    BY DEF BridgeCleared
  <1>2. /\ task[c] \in Tasks /\ task[c].pc = "cleared" /\ Free(c)
        /\ Holds(task[c], runtimes, Len(records), epoch, used)
    BY <1>1, TurnFacts
  <1>3. /\ registered' = registered /\ held' = held /\ grant' = grant /\ active' = active
        /\ records' = records /\ runtimes' = runtimes
        /\ epoch' = epoch /\ answers' = answers /\ used' = used
    BY <1>1 DEF manager, ghosts
  <1>4. /\ registered \in BOOLEAN /\ held \in BOOLEAN /\ used \subseteq OneSided
        /\ active \in BOOLEAN
        /\ Len(records) \in Nat
    BY DEF Inv, TypeInv
  <1>5. "dispose" \in used' /\ current' \in 0..Len(records)
    BY <1>1, <1>2, <1>3, <1>4 DEF Holds
  <1>6. active' \in BOOLEAN /\ bridgeActive' \in BOOLEAN
    BY <1>1, <1>3, <1>4
  <1>7. FlagsKept
    BY ONLY <1>5, <1>6 DEF FlagsKept, Taints
  <1> QED
    BY <1>1, <1>2, <1>3, <1>4, <1>5, <1>7, DoneStep DEF Switching

LEMMA UnregisterPreserves ==
  ASSUME Inv, Unregister
  PROVE  Inv'
  <1>1. UNCHANGED <<held, active, grant, bridge, calls, ghosts>> /\ registered' = FALSE
    BY DEF Unregister
  <1>2. /\ active' = active /\ grant' = grant /\ current' = current /\ records' = records
        /\ runtimes' = runtimes /\ bridgeActive' = bridgeActive /\ task' = task
        /\ queue' = queue /\ epoch' = epoch /\ answers' = answers /\ used' = used
    BY <1>1 DEF bridge, calls, ghosts
  <1>3. TypeInv'
    BY <1>1, <1>2 DEF Inv, TypeInv
  <1>4. TaskInv' /\ QueueInv'
    BY <1>2 DEF Inv, TaskInv, QueueInv
  <1>5. OwnedInv'
    BY <1>2 DEF Inv, OwnedInv, Unadopted
  <1>6. EndedInv'
    BY <1>2 DEF Inv, EndedInv
  <1>7. AgreeInv'
    BY <1>2 DEF Inv, AgreeInv, Decides, Switches
  <1>8. DecisionsEndWithDeactivation'
    BY <1>2 DEF Inv, DecisionsEndWithDeactivation, LetThrough, Given
  <1> QED
    BY <1>3, <1>4, <1>5, <1>6, <1>7, <1>8 DEF Inv

LEMMA UserDecidesPreserves ==
  ASSUME Inv, NEW c \in Calls, NEW decision \in Decisions, UserDecides(c, decision)
  PROVE  Inv'
  <1>1. /\ task[c].pc = "asking" /\ grant' = decision
        /\ answers' = answers \cup
             {[asked |-> task[c].asked, given |-> epoch, decision |-> decision]}
        /\ UNCHANGED <<registered, held, active, bridge, started, epoch, used>>
    BY DEF UserDecides
  <1>2. /\ registered' = registered /\ held' = held /\ active' = active
        /\ current' = current
        /\ records' = records /\ runtimes' = runtimes /\ bridgeActive' = bridgeActive
        /\ epoch' = epoch /\ used' = used
    BY <1>1 DEF bridge
  <1>3. /\ registered \in BOOLEAN /\ held \in BOOLEAN /\ active \in BOOLEAN
        /\ bridgeActive \in BOOLEAN
        /\ used \subseteq OneSided /\ current \in 0..Len(records) /\ epoch \in Nat
        /\ task[c] \in Tasks /\ Len(runtimes) \in Nat
        /\ answers \subseteq [asked : Nat, given : Nat, decision : Decisions]
    BY DEF Inv, TypeInv
  <1>4. /\ Holds(task[c], runtimes, Len(records), epoch, used)
        /\ task[c].since <= epoch /\ task[c].since \in Nat
    BY <1>3 DEF Inv, TaskInv, Holds, Tasks
  <1>5. task[c].rt = 0
    BY <1>1, <1>4 DEF Holds, OnPlugin
  <1>6. Free(c)
    BY <1>1 DEF Free, Ready
  <1>7. PICK a : a = [asked |-> task[c].asked, given |-> epoch, decision |-> decision]
    OBVIOUS
  <1>8. /\ a \in answers' /\ a.given = epoch /\ a.decision = decision
        /\ answers \subseteq answers'
        /\ answers' \subseteq [asked : Nat, given : Nat, decision : Decisions]
    BY <1>1, <1>3, <1>7 DEF Tasks
  <1>9. PICK u : u = IF decision = "yes" THEN At(task[c], "call") ELSE Idle
    OBVIOUS
  <1>10. /\ u \in Tasks /\ u.rt = 0 /\ u.pc \in {"call", "idle"}
         /\ u.op = task[c].op \/ u.op = "none"
         /\ u.since = task[c].since \/ u.since = 0
         /\ u.pc = "call" => decision = "yes" /\ u.since = task[c].since
    BY <1>3, <1>5, <1>9, AtFacts, IdleFacts DEF Places, Ready
  <1>11. Goto(c, u)
    BY <1>9 DEF UserDecides, Done
  <1>12. Holds(u, runtimes, Len(records), epoch, used)
    <2>1. Declares(u.op, used)
      BY <1>4, <1>10, IdleFacts DEF Holds
    <2> QED
      BY <2>1, <1>3, <1>4, <1>10 DEF Holds, OnPlugin
  <1>13. TypeInv' /\ TaskInv' /\ OwnedInv' /\ EndedInv' /\ QueueInv'
    <2>1. Owns(u) /\ epoch >= epoch /\ task[c].pc # "stopped"
      BY <1>1, <1>3, <1>10 DEF Owns
    <2>2. grant' \in {"none"} \cup Decisions
      BY <1>1
    <2> QED
      BY <2>1, <2>2, <1>2, <1>3, <1>6, <1>8, <1>10, <1>11, <1>12, MoveStep
  <1>14. AgreeInv'
    <2>1. task[c].pc \notin Switching /\ u.pc \notin Switching
      BY <1>1, <1>10 DEF Switching
    <2> QED
      BY <2>1, <1>2, <1>6, <1>10, <1>11, AgreeAside DEF Inv
  <1>15. DecisionsEndWithDeactivation'
    <2>1. task'[c] = u /\ \A d \in Calls : d # c => task'[d] = task[d]
      BY <1>6, <1>10, <1>11, GotoMoves DEF Inv
    <2>2. Given(grant, epoch)' /\ epoch >= epoch
      BY <1>1, <1>2, <1>3, <1>8 DEF Given
    <2>3. ASSUME NEW d \in Calls, task'[d].op = "invoke", task'[d].pc \in {"call",
    "invoking"}
          PROVE  Given("yes", task[d].since)' /\ task'[d].since = task[d].since
      <3>1. CASE d = c
        <4>1. a.decision = "yes" /\ a.given >= task[c].since /\ u.since = task[c].since
          BY <3>1, <2>1, <2>3, <1>3, <1>4, <1>8, <1>10
        <4> QED
          BY <3>1, <4>1, <2>1, <1>8 DEF Given
      <3>2. CASE d # c
        BY <3>2, <2>1, <2>3, <1>8 DEF Inv, DecisionsEndWithDeactivation, LetThrough, Given
      <3> QED
        BY <3>1, <3>2
    <2> QED
      BY <2>2, <2>3 DEF DecisionsEndWithDeactivation, LetThrough, Given
  <1> QED
    BY <1>13, <1>14, <1>15 DEF Inv

LEMMA ManagerDeactivatedPreserves ==
  ASSUME Inv, NEW c \in Calls, ManagerDeactivated(c)
  PROVE  Inv'
  <1>1. /\ Turn(c, "unbridged") /\ active' = FALSE /\ grant' = "none" /\ epoch' = epoch + 1
        /\ UNCHANGED <<registered, held, bridge, started, answers, used>>
    BY DEF ManagerDeactivated
  <1>2. /\ task[c] \in Tasks /\ task[c].pc = "unbridged" /\ task[c].rt = 0 /\ Free(c)
        /\ task[c].since <= epoch
        /\ Holds(task[c], runtimes, Len(records), epoch, used)
    BY <1>1, TurnFacts
  <1>3. PICK u : u = Deactivated(task[c])
    OBVIOUS
  <1>4. /\ u \in Tasks /\ u.pc \in {"reactivating", "clearing", "idle"} /\ u.rt = 0
        /\ u.op = task[c].op \/ u.op = "none"
        /\ u.since = task[c].since \/ u.since = 0
        /\ u.pc = "clearing" => task[c].op = "dispose"
    BY <1>2, <1>3, NextPlaces
  <1>5. Goto(c, u)
    BY <1>3 DEF ManagerDeactivated
  <1>6. /\ registered' = registered /\ held' = held /\ current' = current
        /\ records' = records /\ runtimes' = runtimes /\ bridgeActive' = bridgeActive
        /\ answers' = answers /\ used' = used
    BY <1>1 DEF bridge
  <1>7. /\ registered \in BOOLEAN /\ held \in BOOLEAN /\ bridgeActive \in BOOLEAN
        /\ used \subseteq OneSided
        /\ current \in 0..Len(records) /\ epoch \in Nat
        /\ answers \subseteq [asked : Nat, given : Nat, decision : Decisions]
    BY DEF Inv, TypeInv
  <1>8. AgreeInv'
    <2>1. Turn(c, Flag(FALSE))
      BY <1>1 DEF Flag
    <2>2. u.pc \notin Switching
      BY <1>4 DEF Switching
    <2> QED
      BY <2>1, <2>2, <1>1, <1>4, <1>5, <1>6, AgreeLeaves DEF Inv
  <1>9. Holds(u, runtimes, Len(records), epoch', used')
    <2>1. u.since <= epoch'
      BY <1>1, <1>2, <1>4, <1>7 DEF Tasks
    <2>2. Declares(u.op, used')
      BY <1>2, <1>4, <1>6, IdleFacts DEF Holds
    <2>3. u.pc = "clearing" => "dispose" \in used'
      BY <1>2, <1>4, <1>6 DEF Holds, Declares, OneSided
    <2> QED
      BY <2>1, <2>2, <2>3, <1>4 DEF Holds, OnPlugin
  <1>10. TypeInv' /\ TaskInv' /\ OwnedInv' /\ EndedInv' /\ QueueInv'
    <2>1. Owns(u)
      BY <1>4 DEF Owns
    <2>2. epoch' \in Nat /\ epoch' >= epoch
      BY <1>1, <1>7
    <2>3. /\ grant' \in {"none"} \cup Decisions /\ active' \in BOOLEAN
          /\ task[c].pc # "stopped"
      BY <1>1, <1>2
    <2>4. /\ registered' \in BOOLEAN /\ held' \in BOOLEAN /\ bridgeActive' \in BOOLEAN
          /\ used' \subseteq OneSided
          /\ used \subseteq used' /\ current' \in 0..Len(records)
          /\ answers' \subseteq [asked : Nat, given : Nat, decision : Decisions]
      BY <1>6, <1>7
    <2> QED
      BY <2>1, <2>2, <2>3, <2>4, <1>2, <1>4, <1>5, <1>6, <1>9, MoveStep
  <1>11. DecisionsEndWithDeactivation'
    <2>1. task'[c] = u /\ \A d \in Calls : d # c => task'[d] = task[d]
      BY <1>2, <1>4, <1>5, GotoMoves DEF Inv
    <2>2. \A d \in Calls :
            task'[d].op = "invoke" /\ task'[d].pc \in {"call", "invoking"}
              => d # c
      BY <2>1, <1>4
    <2> QED
      BY <2>1, <2>2, <1>1, <1>6 DEF Inv, DecisionsEndWithDeactivation, LetThrough, Given
  <1> QED
    BY <1>8, <1>10, <1>11 DEF Inv

LEMMA SetRecreateFacts ==
  ASSUME TypeInv, NEW n \in 1..Len(records),
         records' = [records EXCEPT ![n].recreate = TRUE]
  PROVE  /\ records' \in Seq(Records) /\ Len(records') = Len(records)
         /\ Len(records) \in Nat
         /\ \A i \in 1..Len(records) : /\ records'[i].runtime = records[i].runtime
                                       /\ i # n => records'[i] = records[i]
         /\ records'[n].recreate = TRUE
  <1>1. records \in Seq(Records) /\ records[n] \in Records
    BY DEF TypeInv
  <1>2. PICK r : r = [records[n] EXCEPT !.recreate = TRUE]
    OBVIOUS
  <1>3. r \in Records /\ r.runtime = records[n].runtime /\ r.recreate = TRUE
    BY <1>1, <1>2 DEF Records
  <1>4. records' = [records EXCEPT ![n] = r]
    BY <1>2
  <1>5. /\ records' \in Seq(Records) /\ Len(records') = Len(records) /\ Len(records) \in Nat
        /\ records'[n] = r
        /\ \A i \in 1..Len(records) : i # n => records'[i] = records[i]
    BY ONLY <1>1, <1>3, <1>4, n \in 1..Len(records)
  <1>6. records'[n].runtime = records[n].runtime
    BY <1>3, <1>5
  <1> QED
    BY <1>3, <1>5, <1>6

LEMMA BridgeDeactivatedPreserves ==
  ASSUME Inv, NEW c \in Calls, BridgeDeactivated(c)
  PROVE  Inv'
  <1>1. /\ Turn(c, "stopped") /\ bridgeActive' = FALSE
        /\ UNCHANGED <<manager, current, runtimes, started, ghosts>>
        /\ records' = [records EXCEPT ![task[c].rec].recreate = TRUE]
    BY DEF BridgeDeactivated
  <1>2. /\ task[c] \in Tasks /\ task[c].pc = "stopped" /\ task[c].rt = 0 /\ Free(c)
        /\ task[c].since <= epoch
        /\ Holds(task[c], runtimes, Len(records), epoch, used)
    BY <1>1, TurnFacts
  <1>3. PICK n : n = task[c].rec
    OBVIOUS
  <1>4. n \in 1..Len(records)
    BY <1>2, <1>3 DEF Holds
  <1>5. /\ records' \in Seq(Records) /\ Len(records') = Len(records) /\ Len(records) \in Nat
        /\ \A i \in 1..Len(records) : /\ records'[i].runtime = records[i].runtime
                                      /\ i # n => records'[i] = records[i]
        /\ records'[n].recreate = TRUE
    BY <1>1, <1>3, <1>4, SetRecreateFacts DEF Inv
  <1>6. /\ registered' = registered /\ held' = held /\ grant' = grant
        /\ active' = active /\ current' = current
        /\ runtimes' = runtimes
        /\ epoch' = epoch /\ answers' = answers /\ used' = used
    BY <1>1 DEF manager, ghosts
  <1>7. PICK u : u = BridgeLostIt(task[c])
    OBVIOUS
  <1>8. /\ u \in Tasks /\ u.rt = 0 /\ Declares(u.op, used)
        /\ u.since = task[c].since \/ u.since = 0
        /\ u.pc \in {"idle", "cleared", "unbridged"}
        /\ u.pc = "cleared" => "dispose" \in used
        /\ u.pc = "unbridged" \/ used \cap Taints(FALSE) # {}
    BY <1>2, <1>7, LostItFacts DEF Holds
  <1>9. Goto(c, u)
    BY <1>7 DEF BridgeDeactivated
  <1>10. /\ task' \in [Calls -> Tasks] /\ queue' \in Seq(Calls) /\ task'[c] = u
         /\ \A d \in Calls : d # c => task'[d] = task[d]
    BY <1>2, <1>8, <1>9, GotoMoves DEF Inv
  <1>11. TypeInv'
    BY <1>1, <1>5, <1>6, <1>10 DEF Inv, TypeInv
  <1>12. TaskInv'
    <2>1. Len(runtimes) \in Nat /\ epoch \in Nat
      BY DEF Inv, TypeInv
    <2>2. Holds(u, runtimes', Len(records'), epoch', used')
      BY <2>1, <1>2, <1>6, <1>8 DEF Holds, OnPlugin
    <2> QED
      BY <2>1, <2>2, <1>5, <1>6, <1>8, <1>10, TaskStep DEF Inv
  <1>13. OwnedInv'
    <2>1. Owns(u)
      BY <1>8 DEF Owns
    <2> QED
      BY <2>1, <1>5, <1>6, <1>8, <1>10, OwnedStep DEF Inv
  <1>14. EndedInv'
    <2>1. ASSUME NEW i \in 1..Len(records'), runtimes'[records'[i].runtime].ended,
                 ~records'[i].recreate
          PROVE  \E d \in Calls : task'[d].pc = "stopped" /\ task'[d].rec = i
      <3>1. i # n /\ i \in 1..Len(records) /\ records'[i] = records[i]
        BY <2>1, <1>5
      <3>2. PICK d \in Calls : task[d].pc = "stopped" /\ task[d].rec = i
        BY <3>1, <2>1, <1>6 DEF Inv, EndedInv
      <3>3. d # c
        BY <3>1, <3>2, <1>3
      <3> QED
        BY <3>2, <3>3, <1>10
    <2>2. \A r \in 1..Len(runtimes') : runtimes'[r].ended => ~runtimes'[r].alive
      BY <1>6 DEF Inv, EndedInv
    <2> QED
      BY <2>1, <2>2 DEF EndedInv
  <1>15. QueueInv'
    BY <1>2, <1>8, <1>9, GotoQueue DEF Inv
  <1>16. AgreeInv'
    <2>1. CASE used \cap Taints(FALSE) # {}
      BY <2>1, <1>1, <1>6 DEF AgreeInv
    <2>2. CASE u.pc = "unbridged"
      <3>1. u.pc = Flag(bridgeActive')
        BY <2>2, <1>1 DEF Flag
      <3> QED
        BY <3>1, <1>2, <1>8, <1>9, AgreeJoins DEF Inv
    <2> QED
      BY <2>1, <2>2, <1>8
  <1>17. DecisionsEndWithDeactivation'
    <2>1. Consented(u)
      BY <1>8 DEF Consented
    <2> QED
      BY <2>1, <1>6, <1>8, <1>10, PromptStep DEF Inv
  <1> QED
    BY <1>11, <1>12, <1>13, <1>14, <1>15, <1>16, <1>17 DEF Inv

LEMMA ActivatesPreserves ==
  ASSUME Inv, NEW c \in Calls, Activates(c)
  PROVE  Inv'
  <1>1. /\ task[c].pc = "activating"
        /\ UNCHANGED <<manager, current, records, bridgeActive, started, ghosts>>
        /\ runtimes' = [runtimes EXCEPT ![task[c].rt].activated = TRUE]
    BY DEF Activates
  <1>2. /\ task[c] \in Tasks /\ runtimes \in Seq(Processes) /\ Len(runtimes) \in Nat
        /\ Len(records) \in Nat /\ epoch \in Nat
    BY DEF Inv, TypeInv
  <1>3. /\ Holds(task[c], runtimes, Len(records), epoch, used)
        /\ task[c].since <= epoch
    BY DEF Inv, TaskInv, Holds
  <1>4. PICK n : n = task[c].rt
    OBVIOUS
  <1>5. n \in 1..Len(runtimes)
    BY <1>1, <1>3, <1>4 DEF Holds, OnPlugin
  <1>6. PICK p : p = [runtimes[n] EXCEPT !.activated = TRUE]
    OBVIOUS
  <1>7. p \in Processes /\ p.alive = runtimes[n].alive /\ p.ended = runtimes[n].ended
    <2>1. PICK q : q = runtimes[n]
      OBVIOUS
    <2>2. q \in Processes
      BY <1>2, <1>5, <2>1
    <2>3. p = [q EXCEPT !.activated = TRUE]
      BY <1>6, <2>1
    <2>4. p \in Processes
      BY <2>2, <2>3 DEF Processes
    <2>5. p.alive = q.alive /\ p.ended = q.ended
      BY <2>2, <2>3, Zenon DEF Processes
    <2> QED
      BY <2>1, <2>4, <2>5
  <1>8. runtimes' = [runtimes EXCEPT ![n] = p]
    BY <1>1, <1>4, <1>6
  <1>9. /\ runtimes' \in Seq(Processes) /\ Len(runtimes') = Len(runtimes)
        /\ \A r \in 1..Len(runtimes) : /\ runtimes'[r].ended = runtimes[r].ended
                                       /\ runtimes'[r].alive = runtimes[r].alive
    BY <1>2, <1>5, <1>7, <1>8
  <1>10. /\ registered' = registered /\ held' = held /\ grant' = grant /\ active' = active
         /\ current' = current /\ records' = records /\ bridgeActive' = bridgeActive
         /\ epoch' = epoch /\ answers' = answers /\ used' = used
    BY <1>1 DEF manager, ghosts
  <1>11. PICK u : u = [task[c] EXCEPT !.pc = "activated", !.rt = 0]
    OBVIOUS
  <1>12. /\ u \in Tasks /\ u.rt = 0 /\ u.op = task[c].op /\ u.since = task[c].since
         /\ u.pc = "activated"
    <2>1. "activated" \in Places
      BY DEF Places, Ready
    <2> QED
      BY <2>1, <1>2, <1>11 DEF Tasks
  <1>13. Goto(c, u)
    BY <1>11 DEF Activates
  <1>14. Free(c)
    BY <1>1 DEF Free, Ready
  <1>15. /\ task' \in [Calls -> Tasks] /\ queue' \in Seq(Calls) /\ task'[c] = u
         /\ \A d \in Calls : d # c => task'[d] = task[d]
    BY <1>12, <1>13, <1>14, GotoMoves DEF Inv
  <1>16. TypeInv'
    BY <1>9, <1>10, <1>15 DEF Inv, TypeInv
  <1>17. TaskInv'
    <2>1. Holds(u, runtimes', Len(records'), epoch', used')
      BY <1>3, <1>10, <1>12 DEF Holds, OnPlugin
    <2>2. TypeInv /\ TaskInv
      BY DEF Inv
    <2>3. Len(runtimes') \in Nat /\ Len(runtimes') >= Len(runtimes) /\ NoneDies
      BY <1>2, <1>9 DEF NoneDies
    <2>4. /\ Len(records') \in Nat /\ Len(records') >= Len(records)
          /\ epoch' \in Nat /\ epoch' >= epoch /\ used \subseteq used'
      BY <1>10 DEF Inv, TypeInv
    <2>5. Steps(c, u) /\ u \in Tasks
      BY <1>12, <1>15 DEF Steps
    <2> QED
      BY ONLY <2>1, <2>2, <2>3, <2>4, <2>5, c \in Calls, TaskSteps
  <1>18. OwnedInv'
    <2>1. Owns(u)
      BY <1>12 DEF Owns
    <2> QED
      BY <2>1, <1>9, <1>10, <1>12, <1>15, OwnedStep DEF Inv
  <1>19. EndedInv'
    BY <1>1, <1>9, <1>10, <1>12, <1>15, EndedStep DEF Inv
  <1>20. QueueInv'
    BY <1>12, <1>13, <1>14, GotoQueue DEF Inv
  <1>21. AgreeInv'
    BY <1>1, <1>10, <1>12, <1>13, <1>14, AgreeAside DEF Inv, Switching
  <1>22. DecisionsEndWithDeactivation'
    <2>1. Consented(u)
      BY <1>12 DEF Consented
    <2> QED
      BY <2>1, <1>10, <1>12, <1>15, PromptStep DEF Inv
  <1> QED
    BY <1>16, <1>17, <1>18, <1>19, <1>20, <1>21, <1>22 DEF Inv

LEMMA LoadedPreserves ==
  ASSUME Inv, NEW c \in Calls, Loaded(c)
  PROVE  Inv'
  <1>1. /\ task[c].pc = "loading" /\ runtimes' = Append(runtimes, Spawned)
        /\ current' = Len(records) + 1
        /\ UNCHANGED <<manager, bridgeActive, started, ghosts>>
    BY DEF Loaded
  <1>2. PICK n \in Nat : n = Len(runtimes) + 1
    BY DEF Inv, TypeInv
  <1>3. PICK r : r = [runtime |-> n, recreate |-> FALSE]
    OBVIOUS
  <1>4. r \in Records /\ r.runtime = n /\ r.recreate = FALSE
    BY <1>2, <1>3 DEF Records, Inv, TypeInv
  <1>5. records' = Append(records, r)
    BY <1>2, <1>3 DEF Loaded
  <1>6. /\ records' \in Seq(Records) /\ Len(records') = Len(records) + 1
        /\ Len(records) \in Nat /\ records'[Len(records) + 1] = r
        /\ \A i \in 1..Len(records) : records'[i] = records[i]
    BY <1>4, <1>5 DEF Inv, TypeInv
  <1>7. /\ runtimes' \in Seq(Processes) /\ Len(runtimes) \in Nat /\ Len(runtimes') = n
        /\ runtimes'[n].alive /\ ~runtimes'[n].ended
        /\ \A q \in 1..Len(runtimes) : runtimes'[q] = runtimes[q]
    BY <1>1, <1>2, SpawnFacts DEF Inv
  <1>8. /\ registered' = registered /\ held' = held /\ grant' = grant /\ active' = active
        /\ bridgeActive' = bridgeActive
        /\ epoch' = epoch /\ answers' = answers /\ used' = used
    BY <1>1 DEF manager, ghosts
  <1>9. /\ task[c] \in Tasks /\ epoch \in Nat
        /\ Holds(task[c], runtimes, Len(records), epoch, used)
    BY DEF Inv, TypeInv, TaskInv
  <1>10. PICK u : u = At(task[c], "registering")
    OBVIOUS
  <1>11. /\ u \in Tasks /\ u.pc = "registering" /\ u.op = task[c].op /\ u.rt = 0
         /\ u.since = task[c].since /\ u.since <= epoch
    BY <1>1, <1>9, <1>10, AtFacts DEF Places, Ready, Holds, OnPlugin
  <1>12. Goto(c, u)
    BY <1>10 DEF Loaded
  <1>13. Free(c)
    BY <1>1 DEF Free, Ready
  <1>14. /\ task' \in [Calls -> Tasks] /\ queue' \in Seq(Calls) /\ task'[c] = u
         /\ \A d \in Calls : d # c => task'[d] = task[d]
    BY <1>11, <1>12, <1>13, GotoMoves DEF Inv
  <1>15. TypeInv'
    <2>1. current' \in 0..Len(records')
      BY <1>1, <1>6
    <2> QED
      BY <2>1, <1>6, <1>7, <1>8, <1>14 DEF Inv, TypeInv
  <1>16. TaskInv'
    <2>1. Holds(u, runtimes', Len(records'), epoch', used')
      BY <1>8, <1>9, <1>11 DEF Holds, OnPlugin
    <2> QED
      BY <2>1, <1>2, <1>6, <1>7, <1>8, <1>9, <1>11, <1>14, TaskStep DEF Inv
  <1>17. \A i \in 1..Len(records) : records[i].runtime \in 1..Len(runtimes)
    <2>1. \A i \in 1..Len(records) : records[i] \in Records
      BY DEF Inv, TypeInv
    <2> QED
      BY <2>1, <1>7 DEF Records, Inv, OwnedInv
  <1>18. \A d \in Calls : task'[d].rt \in 0..Len(runtimes)
    <2>1. ASSUME NEW d \in Calls
          PROVE  task'[d].rt \in 0..Len(runtimes)
      <3>1. CASE d = c
        BY <3>1, <1>7, <1>11, <1>14
      <3>2. CASE d # c
        BY <3>2, <1>14, ProcessesAreKnown DEF Inv
      <3> QED
        BY <3>1, <3>2
    <2> QED
      BY <2>1
  <1>19. \A i \in 1..Len(records') :
           \/ i \in 1..Len(records) /\ records'[i] = records[i]
           \/ i = Len(records) + 1 /\ records'[i] = r
    BY <1>6
  <1>20. OwnedInv'
    <2>1. \A i \in 1..Len(records') : records'[i].runtime <= Len(runtimes')
      BY <1>2, <1>4, <1>7, <1>17, <1>19
    <2>2. ASSUME NEW i \in 1..Len(records'), NEW j \in 1..Len(records'),
                 records'[i].runtime = records'[j].runtime
          PROVE  i = j
      <3>1. \A k \in 1..Len(records) : records[k].runtime \in Nat /\ records[k].runtime # n
        BY <1>2, <1>7, <1>17
      <3>2. CASE i \in 1..Len(records) /\ records'[i] = records[i]
        BY <2>2, <3>1, <3>2, <1>4, <1>19 DEF Inv, OwnedInv
      <3>3. CASE i = Len(records) + 1 /\ records'[i] = r
        BY <2>2, <3>1, <3>3, <1>4, <1>19
      <3> QED
        BY <1>19, <3>2, <3>3
    <2>3. ASSUME NEW d \in Calls, Unadopted(d)'
          PROVE  /\ ~runtimes'[task'[d].rt].ended
                 /\ \A e \in Calls : task'[e].rt = task'[d].rt => e = d
                 /\ \A i \in 1..Len(records') : records'[i].runtime # task'[d].rt
      <3>1. d # c /\ task'[d] = task[d] /\ Unadopted(d)
        BY <2>3, <1>11, <1>14 DEF Unadopted
      <3>2. /\ ~runtimes[task[d].rt].ended
            /\ \A e \in Calls : task[e].rt = task[d].rt => e = d
            /\ \A i \in 1..Len(records) : records[i].runtime # task[d].rt
        BY <3>1 DEF Inv, OwnedInv
      <3>3. task[d].rt \in 1..Len(runtimes)
        BY <3>1, <1>7, <1>18 DEF Unadopted
      <3>4. \A e \in Calls : task'[e].rt = task'[d].rt => e = d
        BY <3>1, <3>2, <3>3, <1>11, <1>14
      <3>5. \A i \in 1..Len(records') : records'[i].runtime # task'[d].rt
        BY <3>1, <3>2, <3>3, <1>2, <1>4, <1>7, <1>19
      <3>6. ~runtimes'[task'[d].rt].ended
        BY <3>1, <3>2, <3>3, <1>7
      <3> QED
        BY <3>4, <3>5, <3>6
    <2>4. ASSUME NEW d \in Calls, task'[d].pc = "deactivating",
                 NEW i \in 1..Len(records'), records'[i].runtime = task'[d].rt
          PROVE  i = task'[d].rec
      <3>1. d # c /\ task'[d] = task[d]
        BY <2>4, <1>11, <1>14
      <3>2. i \in 1..Len(records) /\ records'[i] = records[i]
        BY <2>4, <1>2, <1>4, <1>7, <1>18, <1>19
      <3> QED
        BY <3>1, <3>2, <2>4 DEF Inv, OwnedInv
    <2> QED
      BY <2>1, <2>2, <2>3, <2>4 DEF OwnedInv
  <1>21. EndedInv'
    <2>1. \A q \in 1..Len(runtimes') : runtimes'[q].ended => ~runtimes'[q].alive
      BY <1>2, <1>7 DEF Inv, EndedInv
    <2>2. ASSUME NEW i \in 1..Len(records'), runtimes'[records'[i].runtime].ended,
                 ~records'[i].recreate
          PROVE  \E d \in Calls : task'[d].pc = "stopped" /\ task'[d].rec = i
      <3>1. i \in 1..Len(records) /\ records'[i] = records[i]
        BY <2>2, <1>4, <1>7, <1>19
      <3>2. PICK d \in Calls : task[d].pc = "stopped" /\ task[d].rec = i
        BY <3>1, <2>2, <1>7, <1>17 DEF Inv, EndedInv
      <3> QED
        BY <3>2, <1>1, <1>14
    <2> QED
      BY <2>1, <2>2 DEF EndedInv
  <1>22. QueueInv'
    BY <1>11, <1>12, <1>13, GotoQueue DEF Inv
  <1>23. AgreeInv'
    BY <1>1, <1>8, <1>11, <1>12, <1>13, AgreeAside DEF Inv, Switching
  <1>24. DecisionsEndWithDeactivation'
    <2>1. Consented(u)
      BY <1>11 DEF Consented
    <2> QED
      BY <2>1, <1>8, <1>11, <1>14, PromptStep DEF Inv
  <1> QED
    BY <1>15, <1>16, <1>20, <1>21, <1>22, <1>23, <1>24 DEF Inv

LEMMA AdoptPreserves ==
  ASSUME Inv, NEW c \in Calls, Adopt(c)
  PROVE  Inv'
  <1>1. /\ task[c].pc \in {"ready", "opened"} /\ task[c].rt # 0
        /\ UNCHANGED <<manager, current, bridgeActive, runtimes, started, ghosts>>
    BY DEF Adopt
  <1>2. /\ task[c] \in Tasks /\ epoch \in Nat /\ Len(runtimes) \in Nat
        /\ records \in Seq(Records) /\ Len(records) \in Nat
        /\ Holds(task[c], runtimes, Len(records), epoch, used)
    BY DEF Inv, TypeInv, TaskInv
  <1>3. PICK n : n = task[c].rec
    OBVIOUS
  <1>4. n \in 1..Len(records)
    BY <1>1, <1>2, <1>3 DEF Holds
  <1>5. PICK p : p = task[c].rt
    OBVIOUS
  <1>6. p \in 1..Len(runtimes)
    BY <1>1, <1>2, <1>5 DEF Holds
  <1>7. PICK r : r = [runtime |-> p, recreate |-> FALSE]
    OBVIOUS
  <1>8. r \in Records /\ r.runtime = p /\ r.recreate = FALSE
    BY <1>2, <1>6, <1>7 DEF Records
  <1>9. records' = [records EXCEPT ![n] = r]
    BY <1>3, <1>5, <1>7 DEF Adopt
  <1>10. /\ records' \in Seq(Records) /\ Len(records') = Len(records) /\ records'[n] = r
         /\ \A i \in 1..Len(records) : i # n => records'[i] = records[i]
    BY ONLY <1>2, <1>4, <1>8, <1>9
  <1>11. /\ registered' = registered /\ held' = held /\ grant' = grant /\ active' = active
         /\ current' = current /\ bridgeActive' = bridgeActive /\ runtimes' = runtimes
         /\ epoch' = epoch /\ answers' = answers /\ used' = used
    BY <1>1 DEF manager, ghosts
  <1>12. PICK u : u = [task[c] EXCEPT !.rt = 0]
    OBVIOUS
  <1>13. /\ u \in Tasks /\ u.rt = 0 /\ u.pc = task[c].pc /\ u.op = task[c].op
         /\ u.since = task[c].since /\ u.rec = n
    BY <1>2, <1>3, <1>12 DEF Tasks
  <1>14. Goto(c, u)
    BY <1>12 DEF Adopt
  <1>15. Free(c)
    BY <1>1 DEF Free
  <1>16. /\ task' \in [Calls -> Tasks] /\ queue' \in Seq(Calls) /\ task'[c] = u
         /\ \A d \in Calls : d # c => task'[d] = task[d]
    BY <1>13, <1>14, <1>15, GotoMoves DEF Inv
  <1>17. TypeInv'
    BY <1>10, <1>11, <1>16 DEF Inv, TypeInv
  <1>18. TaskInv'
    <2>1. Holds(u, runtimes', Len(records'), epoch', used')
      BY <1>1, <1>2, <1>4, <1>10, <1>11, <1>13 DEF Holds, OnPlugin
    <2> QED
      BY <2>1, <1>2, <1>10, <1>11, <1>13, <1>16, TaskStep DEF Inv
  <1>19. /\ Unadopted(c) /\ ~runtimes[p].ended
         /\ \A d \in Calls : task[d].rt = p => d = c
         /\ \A i \in 1..Len(records) : records[i].runtime # p
    BY <1>1, <1>5 DEF Unadopted, Inv, OwnedInv
  <1>20. OwnedInv'
    <2>1. \A i \in 1..Len(records') : records'[i].runtime <= Len(runtimes')
      BY <1>2, <1>6, <1>8, <1>10, <1>11 DEF Inv, OwnedInv
    <2>2. ASSUME NEW i \in 1..Len(records'), NEW j \in 1..Len(records'),
                 records'[i].runtime = records'[j].runtime
          PROVE  i = j
      BY <2>2, <1>8, <1>10, <1>19 DEF Inv, OwnedInv
    <2>3. ASSUME NEW d \in Calls, Unadopted(d)'
          PROVE  /\ ~runtimes'[task'[d].rt].ended
                 /\ \A e \in Calls : task'[e].rt = task'[d].rt => e = d
                 /\ \A i \in 1..Len(records') : records'[i].runtime # task'[d].rt
      <3>1. d # c /\ task'[d] = task[d] /\ Unadopted(d)
        BY <2>3, <1>13, <1>16 DEF Unadopted
      <3>2. /\ ~runtimes[task[d].rt].ended
            /\ \A e \in Calls : task[e].rt = task[d].rt => e = d
            /\ \A i \in 1..Len(records) : records[i].runtime # task[d].rt
        BY <3>1 DEF Inv, OwnedInv
      <3>3. task[d].rt # 0 /\ task[d].rt # p
        BY <3>1, <1>19 DEF Unadopted
      <3>4. \A e \in Calls : task'[e].rt = task'[d].rt => e = d
        BY <3>1, <3>2, <3>3, <1>13, <1>16
      <3>5. \A i \in 1..Len(records') : records'[i].runtime # task'[d].rt
        BY <3>1, <3>2, <3>3, <1>8, <1>10
      <3> QED
        BY <3>1, <3>2, <3>4, <3>5, <1>11
    <2>4. ASSUME NEW d \in Calls, task'[d].pc = "deactivating",
                 NEW i \in 1..Len(records'), records'[i].runtime = task'[d].rt
          PROVE  i = task'[d].rec
      <3>1. d # c /\ task'[d] = task[d]
        BY <2>4, <1>1, <1>13, <1>16
      <3>2. i # n
        BY <3>1, <2>4, <1>8, <1>10, <1>19
      <3> QED
        BY <3>1, <3>2, <2>4, <1>10 DEF Inv, OwnedInv
    <2> QED
      BY <2>1, <2>2, <2>3, <2>4 DEF OwnedInv
  <1>21. EndedInv'
    <2>1. \A q \in 1..Len(runtimes') : runtimes'[q].ended => ~runtimes'[q].alive
      BY <1>11 DEF Inv, EndedInv
    <2>2. ASSUME NEW i \in 1..Len(records'), runtimes'[records'[i].runtime].ended,
                 ~records'[i].recreate
          PROVE  \E d \in Calls : task'[d].pc = "stopped" /\ task'[d].rec = i
      <3>1. i # n
        BY <2>2, <1>8, <1>10, <1>11, <1>19
      <3>2. PICK d \in Calls : task[d].pc = "stopped" /\ task[d].rec = i
        BY <3>1, <2>2, <1>10, <1>11 DEF Inv, EndedInv
      <3> QED
        BY <3>2, <1>1, <1>16
    <2> QED
      BY <2>1, <2>2 DEF EndedInv
  <1>22. QueueInv'
    BY <1>13, <1>14, <1>15, GotoQueue DEF Inv
  <1>23. AgreeInv'
    BY <1>1, <1>11, <1>13, <1>14, <1>15, AgreeAside DEF Inv, Switching
  <1>24. DecisionsEndWithDeactivation'
    <2>1. Consented(u)
      BY <1>1, <1>13 DEF Consented
    <2> QED
      BY <2>1, <1>11, <1>13, <1>16, PromptStep DEF Inv
  <1> QED
    BY <1>17, <1>18, <1>20, <1>21, <1>22, <1>23, <1>24 DEF Inv

LEMMA OrdersAreSequences ==
  ASSUME NEW S \in SUBSET Calls, NEW q \in SetToSeqs(S)
  PROVE  /\ q \in Seq(Calls)
         /\ \A k \in 1..Len(q) : q[k] \in S
         /\ \A j, k \in 1..Len(q) : q[j] = q[k] => j = k
  <1>1. IsFiniteSet(S)
    BY ManagerAssumption, FS_Subset
  <1>2. PICK n \in Nat : n = Cardinality(S)
    BY <1>1, FS_CardinalityType
  <1>3. q \in [1..n -> S] /\ \A j, k \in 1..n : j # k => q[j] # q[k]
    BY <1>2 DEF SetToSeqs
  <1>4. q \in Seq(Calls) /\ Len(q) = n
    BY <1>3
  <1> QED
    BY <1>3, <1>4

LEMMA ExitsPreserves ==
  ASSUME Inv, NEW r \in DOMAIN runtimes, NEW served \in SUBSET Calls, Exits(r, served)
  PROVE  Inv'
  <1>1. /\ runtimes[r].alive /\ Settled
        /\ \A c \in served : task[c].pc = "deactivating" /\ task[c].rt = r
        /\ UNCHANGED <<manager, current, records, bridgeActive, started, ghosts>>
        /\ queue' \in SetToSeqs(served)
    BY DEF Exits
  <1>2. /\ runtimes \in Seq(Processes) /\ Len(runtimes) \in Nat /\ r \in 1..Len(runtimes)
        /\ Len(records) \in Nat /\ epoch \in Nat /\ queue \in Seq(Calls)
        /\ \A i \in 1..Len(records) : records[i] \in Records
        /\ \A c \in Calls : task[c] \in Tasks
    BY DEF Inv, TypeInv
  <1>3. /\ registered' = registered /\ held' = held /\ grant' = grant /\ active' = active
        /\ current' = current /\ records' = records /\ bridgeActive' = bridgeActive
        /\ epoch' = epoch /\ answers' = answers /\ used' = used
    BY <1>1 DEF manager, ghosts
  <1>4. PICK p : p = IF served = {} THEN [runtimes[r] EXCEPT !.alive = FALSE]
                     ELSE [alive |-> FALSE, activated |-> FALSE, ended |-> TRUE]
    OBVIOUS
  <1>5. p \in Processes /\ p.alive = FALSE /\ (served = {} => ~p.ended)
    <2>1. PICK q : q = runtimes[r]
      OBVIOUS
    <2>2. q \in Processes /\ q.alive
      BY <1>1, <1>2, <2>1
    <2>3. ~q.ended
      BY <1>1, <1>2, <2>1 DEF Inv, EndedInv
    <2>4. CASE served = {}
      <3>1. p = [q EXCEPT !.alive = FALSE]
        BY <1>4, <2>1, <2>4
      <3>2. p \in Processes
        BY <2>2, <3>1 DEF Processes
      <3>3. p.alive = FALSE /\ p.ended = q.ended
        BY <2>2, <3>1, Zenon DEF Processes
      <3> QED
        BY <2>3, <3>2, <3>3
    <2>5. CASE served # {}
      <3>1. p = [alive |-> FALSE, activated |-> FALSE, ended |-> TRUE]
        BY <1>4, <2>5
      <3> QED
        BY <2>5, <3>1 DEF Processes
    <2> QED
      BY <2>4, <2>5
  <1>6. runtimes' = [runtimes EXCEPT ![r] = p]
    BY <1>4 DEF Exits
  <1>7. /\ runtimes' \in Seq(Processes) /\ Len(runtimes') = Len(runtimes)
        /\ runtimes'[r] = p
        /\ \A q \in 1..Len(runtimes) : q # r => runtimes'[q] = runtimes[q]
    BY ONLY <1>2, <1>5, <1>6
  <1>8. /\ DOMAIN task' = Calls
        /\ \A c \in served : task'[c] = [task[c] EXCEPT !.pc = "stopped", !.rt = 0]
        /\ \A c \in Calls \ served :
             task'[c] = IF task[c].pc \in OnPlugin /\ task[c].rt = r THEN Idle ELSE task[c]
    BY DEF Exits, Abandoned
  <1>9. ASSUME NEW c \in served
        PROVE  /\ task'[c] \in Tasks /\ task'[c].pc = "stopped" /\ task'[c].rt = 0
               /\ task'[c].op = task[c].op /\ task'[c].rec = task[c].rec
               /\ task'[c].since = task[c].since
    <2>1. PICK t, u : t = task[c] /\ u = task'[c]
      OBVIOUS
    <2>2. t \in Tasks /\ u = [t EXCEPT !.pc = "stopped", !.rt = 0]
      BY <1>2, <1>8, <2>1
    <2>3. "stopped" \in Places
      BY DEF Places, Ready
    <2>4. /\ u \in Tasks /\ u.pc = "stopped" /\ u.rt = 0
          /\ u.op = t.op /\ u.rec = t.rec /\ u.since = t.since
      BY ONLY <2>2, <2>3 DEF Tasks
    <2> QED
      BY <2>1, <2>4
  <1>10. ASSUME NEW c \in Calls \ served
         PROVE  \/ task'[c] = Idle
                \/ task'[c] = task[c] /\ ~(task[c].pc \in OnPlugin /\ task[c].rt = r)
    BY <1>8
  <1>11. queue = <<>>
    <2>1. \A k \in 1..Len(queue) : queue[k] \in Calls /\ task[queue[k]].pc \in Ready
      BY <1>2 DEF Inv, QueueInv
    <2> QED
      BY <2>1, <1>1, <1>2 DEF Settled
  <1>12. /\ queue' \in Seq(Calls)
         /\ \A k \in 1..Len(queue') : queue'[k] \in served
         /\ \A j, k \in 1..Len(queue') : queue'[j] = queue'[k] => j = k
    BY <1>1, OrdersAreSequences
  <1>13. TypeInv'
    <2>1. \A c \in Calls : task'[c] \in Tasks
      BY <1>2, <1>9, <1>10, IdleFacts
    <2>2. task' = [c \in Calls |-> task'[c]]
      BY DEF Exits
    <2>3. task' \in [Calls -> Tasks]
      BY <2>1, <2>2
    <2> QED
      BY <2>3, <1>3, <1>7, <1>12 DEF Inv, TypeInv
  <1>14. TaskInv'
    <2>1. ASSUME NEW c \in Calls
          PROVE  Holds(task'[c], runtimes', Len(records'), epoch', used')
      <3>1. Holds(task[c], runtimes, Len(records), epoch, used)
        BY DEF Inv, TaskInv
      <3>2. CASE c \in served
        <4>1. task[c].pc = "deactivating"
          BY <1>1, <3>2
        <4> QED
          BY <3>1, <3>2, <4>1, <1>3, <1>9 DEF Holds, OnPlugin
      <3>3. CASE c \notin served /\ task'[c] = Idle
        BY <3>3, <1>2, <1>3, IdleFacts DEF Holds, OnPlugin
      <3>4. CASE /\ c \notin served /\ task'[c] = task[c]
                 /\ ~(task[c].pc \in OnPlugin /\ task[c].rt = r)
        <4>1. task[c].pc \in OnPlugin =>
                task[c].rt \in 1..Len(runtimes') /\ runtimes'[task[c].rt].alive
          BY <3>1, <3>4, <1>7 DEF Holds
        <4>2. Len(runtimes') = Len(runtimes)
          BY <1>7
        <4> QED
          BY <3>1, <3>4, <4>1, <4>2, <1>3 DEF Holds
      <3> QED
        BY <3>2, <3>3, <3>4, <1>10
    <2> QED
      BY <2>1 DEF TaskInv
  <1>15. \A c \in Calls : Unadopted(c)' => Unadopted(c) /\ task'[c] = task[c] /\ c \notin served
    <2>1. \A c \in served : ~Unadopted(c)'
      BY <1>9 DEF Unadopted
    <2>2. \A c \in Calls \ served : task'[c] = Idle => ~Unadopted(c)'
      BY IdleFacts DEF Unadopted
    <2> QED
      BY <2>1, <2>2, <1>10 DEF Unadopted
  <1>16. \A c \in Calls : task'[c].rt = 0 \/ task'[c].rt = task[c].rt
    BY <1>9, <1>10, IdleFacts
  <1>17. OwnedInv'
    <2>1. /\ \A i \in 1..Len(records') : records'[i].runtime <= Len(runtimes')
          /\ \A i, j \in 1..Len(records') :
               records'[i].runtime = records'[j].runtime => i = j
      BY <1>3, <1>7 DEF Inv, OwnedInv
    <2>2. ASSUME NEW d \in Calls, Unadopted(d)'
          PROVE  /\ ~runtimes'[task'[d].rt].ended
                 /\ \A e \in Calls : task'[e].rt = task'[d].rt => e = d
                 /\ \A i \in 1..Len(records') : records'[i].runtime # task'[d].rt
      <3>1. Unadopted(d) /\ task'[d] = task[d] /\ d \notin served
        BY <2>2, <1>15
      <3>2. /\ ~runtimes[task[d].rt].ended
            /\ \A e \in Calls : task[e].rt = task[d].rt => e = d
            /\ \A i \in 1..Len(records) : records[i].runtime # task[d].rt
        BY <3>1 DEF Inv, OwnedInv
      <3>3. task[d].rt \in 1..Len(runtimes)
        BY <3>1, <1>2, ProcessesAreKnown DEF Unadopted, Inv
      <3>4. ~runtimes'[task[d].rt].ended
        <4>1. CASE task[d].rt = r
          <5>1. served = {}
            BY <4>1, <3>1, <3>2, <1>1
          <5> QED
            BY <4>1, <5>1, <1>5, <1>7
        <4>2. CASE task[d].rt # r
          BY <4>2, <3>2, <3>3, <1>7
        <4> QED
          BY <4>1, <4>2
      <3>5. \A e \in Calls : task'[e].rt = task'[d].rt => e = d
        BY <3>1, <3>2, <3>3, <1>16
      <3> QED
        BY <3>1, <3>2, <3>4, <3>5, <1>3
    <2>3. ASSUME NEW d \in Calls, task'[d].pc = "deactivating"
          PROVE  \A i \in 1..Len(records') :
                   records'[i].runtime = task'[d].rt => i = task'[d].rec
      <3>1. d \notin served
        BY <2>3, <1>9
      <3>2. task'[d] = task[d]
        BY <2>3, <3>1, <1>10, IdleFacts
      <3> QED
        BY <2>3, <3>2, <1>3 DEF Inv, OwnedInv
    <2> QED
      BY <2>1, <2>2, <2>3 DEF OwnedInv
  <1>18. EndedInv'
    <2>1. \A q \in 1..Len(runtimes') : runtimes'[q].ended => ~runtimes'[q].alive
      BY <1>5, <1>7 DEF Inv, EndedInv
    <2>2. ASSUME NEW i \in 1..Len(records'), runtimes'[records'[i].runtime].ended,
                 ~records'[i].recreate
          PROVE  \E d \in Calls : task'[d].pc = "stopped" /\ task'[d].rec = i
      <3>1. records[i].runtime \in 1..Len(runtimes) /\ i \in 1..Len(records)
        BY <1>2, <1>3 DEF Records, Inv, OwnedInv
      <3>2. CASE records[i].runtime = r
        <4>1. PICK d \in served : TRUE
          BY <2>2, <3>2, <1>3, <1>5, <1>7
        <4>2. task[d].rec = i
          BY <3>1, <3>2, <4>1, <1>1 DEF Inv, OwnedInv
        <4> QED
          BY <4>1, <4>2, <1>9
      <3>3. CASE records[i].runtime # r
        <4>1. PICK d \in Calls : task[d].pc = "stopped" /\ task[d].rec = i
          BY <2>2, <3>1, <3>3, <1>3, <1>7 DEF Inv, EndedInv
        <4>2. d \notin served /\ task[d].pc \notin OnPlugin
          BY <4>1, <1>1 DEF OnPlugin
        <4>3. task'[d] = task[d]
          BY <4>1, <4>2, <1>8
        <4> QED
          BY <4>1, <4>3
      <3> QED
        BY <3>2, <3>3
    <2> QED
      BY <2>1, <2>2 DEF EndedInv
  <1>19. QueueInv'
    <2>1. "stopped" \in Ready
      BY DEF Ready
    <2> QED
      BY <2>1, <1>9, <1>12 DEF QueueInv
  <1>20. AgreeInv'
    <2>1. used \cap Taints(bridgeActive) = {} => active = bridgeActive
      BY <1>11 DEF Inv, AgreeInv
    <2>2. \A k \in 1..Len(queue') : ~Switches(k)'
      BY <1>9, <1>12 DEF Switches, Switching
    <2> QED
      BY <2>1, <2>2, <1>3 DEF AgreeInv
  <1>21. DecisionsEndWithDeactivation'
    <2>1. ASSUME NEW d \in Calls, task'[d].op = "invoke", task'[d].pc \in {"call",
    "invoking"}
          PROVE  task'[d] = task[d]
      BY <2>1, <1>9, <1>10, IdleFacts
    <2> QED
      BY <2>1, <1>3 DEF Inv, DecisionsEndWithDeactivation, LetThrough, Given
  <1> QED
    BY <1>13, <1>14, <1>17, <1>18, <1>19, <1>20, <1>21 DEF Inv

-----------------------------------------------------------------------------
(* Theorems.                                                                *)

LEMMA InitIsGood == Init => Inv
  <1> SUFFICES ASSUME Init PROVE Inv
    OBVIOUS
  <1>1. /\ task = [c \in Calls |-> Idle] /\ queue = <<>> /\ records = <<>>
        /\ runtimes = <<>> /\ current = 0 /\ epoch = 0 /\ answers = {}
        /\ grant = "none" /\ registered = FALSE /\ active = FALSE
        /\ bridgeActive = FALSE /\ used = {} /\ held = FALSE
    BY DEF Init
  <1>2. TypeInv
    <2>1. task \in [Calls -> Tasks] /\ queue \in Seq(Calls)
      BY <1>1, IdleFacts
    <2>2. records \in Seq(Records) /\ runtimes \in Seq(Processes) /\ current \in 0..Len(records)
      BY <1>1
    <2> QED
      BY <1>1, <2>1, <2>2 DEF TypeInv
  <1>3. TaskInv
    BY <1>1, IdleFacts DEF TaskInv, Holds, OnPlugin
  <1>4. OwnedInv /\ EndedInv
    <2>1. 1..Len(records) = {} /\ 1..Len(runtimes) = {}
      BY <1>1
    <2>2. \A c \in Calls : task[c].pc = "idle"
      BY <1>1, IdleFacts
    <2>3. OwnedInv
      BY <2>1, <2>2 DEF OwnedInv, Unadopted
    <2> QED
      BY <2>1, <2>3 DEF EndedInv
  <1>5. QueueInv /\ AgreeInv
    <2>1. 1..Len(queue) = {}
      BY <1>1
    <2>2. active = bridgeActive
      BY <1>1, Zenon
    <2> QED
      BY <2>1, <2>2 DEF QueueInv, AgreeInv
  <1>6. DecisionsEndWithDeactivation
    BY <1>1, IdleFacts DEF DecisionsEndWithDeactivation, LetThrough
  <1> QED
    BY <1>2, <1>3, <1>4, <1>5, <1>6 DEF Inv

LEMMA StutterIsGood == Inv /\ UNCHANGED vars => Inv'
  <1> SUFFICES ASSUME Inv, UNCHANGED vars PROVE Inv'
    OBVIOUS
  <1>1. /\ registered' = registered /\ held' = held /\ active' = active /\ grant' = grant
        /\ current' = current /\ records' = records
        /\ runtimes' = runtimes /\ bridgeActive' = bridgeActive /\ task' = task
        /\ queue' = queue /\ epoch' = epoch /\ answers' = answers /\ used' = used
    BY DEF vars, manager, bridge, calls, ghosts
  <1>2. TypeInv' /\ TaskInv' /\ QueueInv'
    BY <1>1 DEF Inv, TypeInv, TaskInv, QueueInv
  <1>3. OwnedInv' /\ EndedInv'
    BY <1>1 DEF Inv, OwnedInv, Unadopted, EndedInv
  <1>4. AgreeInv' /\ DecisionsEndWithDeactivation'
    BY <1>1 DEF Inv, AgreeInv, Decides, Switches, DecisionsEndWithDeactivation,
       LetThrough, Given
  <1> QED
    BY <1>2, <1>3, <1>4 DEF Inv

\* No call of the host, answer of a plugin or of the user, and no exit of a process
\* breaks the invariant.
THEOREM ManagerInductive == Spec => []Inv
  <1>1. Inv /\ [Next]_vars => Inv'
    <2> SUFFICES ASSUME Inv, [Next]_vars PROVE Inv'
      OBVIOUS
    <2>1. CASE \E c \in Calls, op \in Ops : Start(c, op)
      BY <2>1, StartPreserves
    <2>2. CASE \E c \in Calls : Loaded(c) \/ Register(c) \/ Adopt(c)
      BY <2>2, LoadedPreserves, RegisterPreserves, AdoptPreserves
    <2>3. CASE \E c \in Calls : ActivateRuntime(c) \/ Activates(c)
      BY <2>3, ActivateRuntimePreserves, ActivatesPreserves
    <2>4. CASE \E c \in Calls : BridgeActivated(c) \/ ManagerActivated(c)
      BY <2>4, BridgeActivatedPreserves, ManagerActivatedPreserves
    <2>5. CASE \E c \in Calls : Gate(c) \/ CallPlugin(c) \/ Returns(c) \/ Fails(c)
      BY <2>5, GatePreserves, CallPluginPreserves, ReturnsPreserves, FailsPreserves
    <2>6. CASE \E c \in Calls : OpenReady(c) \/ OpenOnPlugin(c) \/ Reactivate(c)
      BY <2>6, OpenReadyPreserves, OpenOnPluginPreserves, ReactivatePreserves
    <2>7. CASE \E c \in Calls : BridgeDeactivated(c) \/ ManagerDeactivated(c)
      BY <2>7, BridgeDeactivatedPreserves, ManagerDeactivatedPreserves
    <2>8. CASE \E c \in Calls : Clear(c) \/ BridgeCleared(c)
      BY <2>8, ClearPreserves, BridgeClearedPreserves
    <2>9. CASE \E c \in Calls : \E decision \in {"yes", "no"} : UserDecides(c, decision)
      BY <2>9, UserDecidesPreserves DEF Decisions
    <2>10. CASE \E r \in DOMAIN runtimes : \E served \in SUBSET Calls : Exits(r, served)
      BY <2>10, ExitsPreserves
    <2>11. CASE Unregister
      BY <2>11, UnregisterPreserves
    <2>12. CASE UNCHANGED vars
      BY <2>12, StutterIsGood
    <2> QED
      BY <2>1, <2>2, <2>3, <2>4, <2>5, <2>6, <2>7, <2>8, <2>9, <2>10, <2>11, <2>12 DEF Next
  <1> QED
    BY <1>1, InitIsGood, PTL DEF Spec

\* The flags and tables of the three layers keep their types, and a call waits only for
\* a process that is alive (a request to one that has exited is refused, and those that
\* are pending fail when it exits): no promise is left behind, for any number of calls.
THEOREM ManagerTypeOK == Spec => []TypeOK
  <1>1. Inv => TypeOK
    <2> SUFFICES ASSUME Inv PROVE TypeOK
      OBVIOUS
    <2>1. /\ {registered, held, active, bridgeActive} \subseteq BOOLEAN
          /\ used \subseteq OneSided
          /\ grant \in {"none", "yes", "no"}
          /\ current \in 0..Len(records)
      BY DEF Inv, TypeInv, Decisions
    <2>2. \A i \in DOMAIN records : records[i].runtime \in DOMAIN runtimes
      <3>1. /\ DOMAIN records = 1..Len(records) /\ DOMAIN runtimes = 1..Len(runtimes)
            /\ \A i \in 1..Len(records) : records[i] \in Records
            /\ Len(runtimes) \in Nat
        BY DEF Inv, TypeInv
      <3> QED
        BY <3>1 DEF Records, Inv, OwnedInv
    <2>3. \A r \in DOMAIN runtimes : runtimes[r].ended => ~runtimes[r].alive
      BY DEF Inv, TypeInv, EndedInv
    <2>4. ASSUME NEW c \in Calls
          PROVE  /\ task[c].pc \in Ready \cup Waiting \cup {"idle"}
                 /\ task[c].pc \in OnPlugin => runtimes[task[c].rt].alive
                 /\ task[c].pc \in {"ready", "opened"} => task[c].rec \in DOMAIN records
      <3>1. task[c] \in Tasks /\ Holds(task[c], runtimes, Len(records), epoch, used)
            /\ DOMAIN records = 1..Len(records)
        BY DEF Inv, TypeInv, TaskInv
      <3> QED
        BY <3>1 DEF Tasks, Places, Holds
    <2> QED
      BY <2>1, <2>2, <2>3, <2>4 DEF TypeOK
  <1> QED
    BY <1>1, ManagerInductive, PTL

\* deactivate leaves no decision in force that the host's user gave before it, and
\* assertCapabilityPermission lets an invoke through only on a yes given since the invoke
\* was made, however many prompts, deactivations and activations are under way.  The
\* prompt may have been put before the deactivation; the instance's own invoke does not
\* come past the gate.
THEOREM PromptsHold == Spec => []DecisionsEndWithDeactivation
  <1>1. Inv => DecisionsEndWithDeactivation
    BY DEF Inv
  <1> QED
    BY <1>1, ManagerInductive, PTL

\* When every call of the host has returned, the bridge has the extension active if the
\* manager has (unless the manager was disposed or the instance deactivated), the manager
\* has if the bridge has (unless it was disposed or the instance activated), and a
\* process that left on its deactivate will be replaced by the next activate: by AgreeInv
\* the last call in the queue that is about to set the manager's flag saw the bridge's as
\* it is, and by EndedInv whoever saw the process leave marks its record.
THEOREM LifecycleIsSound == Spec => []LifecycleSound
  <1>1. Inv => LifecycleSound
    <2> SUFFICES ASSUME Inv, Quiet
                 PROVE  /\ used \cap {"dispose", "instanceDeactivate"} = {} =>
                             (active => bridgeActive)
                        /\ used \cap {"dispose", "instanceActivate"} = {} =>
                             (bridgeActive => active)
                        /\ (current # 0 /\ Runtime(current).ended)
                             => records[current].recreate
      BY DEF LifecycleSound
    <2>1. \A c \in Calls : task[c].pc = "idle"
      BY IdleFacts DEF Quiet
    <2>2. queue \in Seq(Calls) /\ current \in 0..Len(records) /\ Len(records) \in Nat
      BY DEF Inv, TypeInv
    <2>3. \A k \in 1..Len(queue) : task[queue[k]].pc = "idle"
      BY <2>1, <2>2
    <2>4. used \cap Taints(bridgeActive) = {} => active = bridgeActive
      BY <2>3 DEF Inv, AgreeInv, Decides
    <2>5. active \in BOOLEAN /\ bridgeActive \in BOOLEAN
      BY DEF Inv, TypeInv
    <2>6. used \cap {"dispose", "instanceDeactivate"} = {} => (active => bridgeActive)
      <3>1. CASE bridgeActive = FALSE
        BY <3>1, <2>4 DEF Taints
      <3> QED
        BY <3>1, <2>5
    <2>7. used \cap {"dispose", "instanceActivate"} = {} => (bridgeActive => active)
      <3>1. CASE bridgeActive = TRUE
        BY <3>1, <2>4 DEF Taints
      <3> QED
        BY <3>1, <2>5
    <2>8. ASSUME current # 0, Runtime(current).ended
          PROVE  records[current].recreate
      <3>1. current \in 1..Len(records)
        BY <2>2, <2>8
      <3> QED
        BY <3>1, <2>1, <2>8 DEF Inv, EndedInv, Runtime
    <2>9. (current # 0 /\ Runtime(current).ended) => records[current].recreate
      BY <2>8
    <2> QED
      BY ONLY <2>6, <2>7, <2>9
  <1> QED
    BY <1>1, ManagerInductive, PTL

=============================================================================
