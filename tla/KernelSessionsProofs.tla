------------------------- MODULE KernelSessionsProofs -------------------------
(***************************************************************************)
(* Proofs about KernelSessions, for any number of extensions, sessions and *)
(* instances, any event quota and any tombstone capacity.                  *)
(***************************************************************************)
EXTENDS KernelSessions, DataInduction, FiniteSetTheorems

-----------------------------------------------------------------------------
(* append_session_events, by induction over the batch.                      *)

Queues == [events : Seq(Events), closed : BOOLEAN, breached : BOOLEAN, over : BOOLEAN]

LEMMA BatchFacts ==
  ASSUME NEW b \in Batches
  PROVE  b \in Seq(Events) /\ Len(b) \in Nat /\ \A i \in 1..Len(b) : b[i] \in Events
  <1>1. PICK n \in 0..MaxBatch : b \in [1..n -> Events]
    BY DEF Batches
  <1>2. n \in Nat
    BY SessionsAssumption
  <1> QED
    BY <1>1, <1>2

LEMMA AppendEventType ==
  ASSUME NEW q \in Queues, NEW event \in Events
  PROVE  AppendEvent(q, event) \in Queues
  <1>1. ASSUME NEW p \in Queues, NEW x \in Events PROVE Push(p, x) \in Queues
    BY DEF Push, Breach, Queue, Queues
  <1>2. ASSUME NEW p \in Queues PROVE Ends(p) \in Queues
    BY DEF Ends, Queues
  <1>3. "end" \in Events
    BY DEF Events
  <1>4. /\ Push(q, event) \in Queues /\ Ends(Push(q, event)) \in Queues
        /\ Ends(Push(Push(q, event), "end")) \in Queues
    BY <1>1, <1>2, <1>3
  <1> QED
    BY <1>4 DEF AppendEvent, Events

\* The loop's queue after each event of the batch.
LEMMA AppendUnfolds ==
  ASSUME NEW b \in Batches
  PROVE  \E g \in [0..Len(b) -> Queues] :
           /\ g[0] = Queue(<<>>)
           /\ \A n \in 1..Len(b) : g[n] = AppendEvent(g[n - 1], b[n])
           /\ AppendSessionEvents(b) = g[Len(b)]
  <1> DEFINE L == Len(b)
             Loop(f) == [n \in 0..L |-> IF n = 0 THEN Queue(<<>>) ELSE AppendEvent(f[n - 1], b[n])]
             next == [n \in 1..L |-> [q \in Queues |-> AppendEvent(q, b[n])]]
             queue == CHOOSE f : f = Loop(f)
  <1>1. L \in Nat /\ \A n \in 1..L : b[n] \in Events
    BY BatchFacts
  <1>2. Queue(<<>>) \in Queues
    BY DEF Queue, Queues
  <1>3. next \in [1..L -> [Queues -> Queues]]
    BY <1>1, AppendEventType
  <1>4. PICK g \in [0..L -> Queues] : Unfolds(g, L, Queue(<<>>), next)
    <2> HIDE DEF next, L
    <2> QED
      BY <1>1, <1>2, <1>3, PrefixRecursion
  <1>5. \A n \in 1..L : n - 1 \in 0..L
    BY <1>1
  <1>6. g[0] = Queue(<<>>) /\ \A n \in 1..L : g[n] = AppendEvent(g[n - 1], b[n])
    BY <1>4, <1>5 DEF Unfolds
  <1>7. g = Loop(g)
    <2>1. \A n \in 0..L : g[n] = IF n = 0 THEN Queue(<<>>) ELSE AppendEvent(g[n - 1], b[n])
      BY <1>1, <1>6
    <2> QED
      BY <1>4, <2>1
  <1>8. queue = Loop(queue)
    BY <1>7
  <1>9. queue = g
    <2> DEFINE S == {n \in 0..L : queue[n] = g[n]}
    <2>0. 0 \in 0..L /\ \A n \in 1..L : n \in 0..L /\ n # 0
      BY <1>1
    <2>1. queue[0] = Queue(<<>>) /\ \A n \in 1..L : queue[n] = AppendEvent(queue[n - 1], b[n])
      <3> HIDE DEF queue
      <3> QED
        BY <1>8, <2>0
    <2> HIDE DEF queue, L
    <2>2. 0 \in S
      BY <1>6, <2>0, <2>1
    <2>3. ASSUME NEW n \in 1..L, n - 1 \in S PROVE n \in S
      BY <1>6, <2>0, <2>1, <2>3
    <2>4. 0..L \subseteq S
      <3> HIDE DEF S
      <3> QED
        BY <1>1, <2>2, <2>3, PrefixInduction
    <2> QED
      BY <1>4, <1>8, <2>4
  <1>10. AppendSessionEvents(b) = queue[L]
    BY DEF AppendSessionEvents
  <1> QED
    <2>1. g \in [0..Len(b) -> Queues]
      BY <1>4
    <2> HIDE DEF queue
    <2> QED
      BY <1>4, <1>6, <1>9, <1>10

\* The batch up to its first end, an error counting as an end that follows it.
Cut(b, i) == IF b[i] = "end" THEN SubSeq(b, 1, i) ELSE Append(SubSeq(b, 1, i), "end")

\* What the loop leaves of events w: all, or nothing beyond the quota.
Kept(w, closed) ==
  IF Len(w) > Quota THEN Breach
  ELSE [events |-> w, closed |-> closed, breached |-> FALSE, over |-> closed]

\* The queue after the first n events of the batch.
Described(q, b, n) ==
  \/ /\ \A i \in 1..n : b[i] = "data"
     /\ q = Kept(SubSeq(b, 1, n), FALSE)
  \/ \E i \in 1..n : /\ b[i] # "data" /\ \A j \in 1..i - 1 : b[j] = "data"
                     /\ q = Kept(Cut(b, i), TRUE)

LEMMA SubSeqFacts ==
  ASSUME NEW S, NEW b \in Seq(S), NEW n \in 0..Len(b)
  PROVE  /\ SubSeq(b, 1, n) \in Seq(S) /\ Len(SubSeq(b, 1, n)) = n
         /\ \A i \in 1..n : SubSeq(b, 1, n)[i] = b[i]
         /\ n # 0 => SubSeq(b, 1, n) = Append(SubSeq(b, 1, n - 1), b[n])
         /\ SubSeq(b, 1, 0) = <<>>
         /\ SubSeq(b, 1, Len(b)) = b
  <1>1. SubSeq(b, 1, n) \in Seq(S) /\ Len(SubSeq(b, 1, n)) = n
    OBVIOUS
  <1>2. \A i \in 1..n : SubSeq(b, 1, n)[i] = b[i]
    OBVIOUS
  <1>3. n # 0 => SubSeq(b, 1, n) = Append(SubSeq(b, 1, n - 1), b[n])
    OBVIOUS
  <1>4. SubSeq(b, 1, 0) = <<>>
    OBVIOUS
  <1>5. SubSeq(b, 1, Len(b)) = b
    OBVIOUS
  <1> QED
    BY <1>1, <1>2, <1>3, <1>4, <1>5

LEMMA DescribedOpen ==
  ASSUME NEW q, NEW b, NEW n, \A i \in 1..n : b[i] = "data", q = Kept(SubSeq(b, 1, n), FALSE)
  PROVE  Described(q, b, n)
  BY DEF Described

LEMMA DescribedEnded ==
  ASSUME NEW q, NEW b, NEW n, NEW i \in 1..n, b[i] # "data", \A j \in 1..i - 1 : b[j] = "data",
         q = Kept(Cut(b, i), TRUE)
  PROVE  Described(q, b, n)
  BY DEF Described

LEMMA KeptFacts ==
  ASSUME NEW w, NEW closed
  PROVE  /\ Len(w) > Quota => Kept(w, closed) = Breach
         /\ ~(Len(w) > Quota) => Kept(w, closed) = [events |-> w, closed |-> closed,
                                                   breached |-> FALSE, over |-> closed]
         /\ Kept(w, TRUE).over = TRUE
         /\ Breach.over = TRUE
  BY DEF Kept, Breach

LEMMA KeptFields ==
  ASSUME NEW w, NEW closed \in BOOLEAN, NEW q, q = Kept(w, closed)
  PROVE  /\ Len(w) > Quota => q.events = <<>> /\ q.closed = TRUE /\ q.breached = TRUE /\ q = Breach
         /\ ~(Len(w) > Quota) => q.events = w /\ q.closed = closed /\ q.breached = FALSE
  <1>1. CASE Len(w) > Quota
    <2>1. q = Breach
      BY <1>1, KeptFacts
    <2> QED
      BY <1>1, <2>1 DEF Breach
  <1>2. CASE ~(Len(w) > Quota)
    <2>1. q = [events |-> w, closed |-> closed, breached |-> FALSE, over |-> closed]
      BY <1>2, KeptFacts
    <2> QED
      BY <1>2, <2>1
  <1> QED
    BY <1>1, <1>2

LEMMA TurnFacts ==
  ASSUME NEW q, NEW event
  PROVE  /\ q.over = TRUE => AppendEvent(q, event) = q
         /\ q.over = FALSE /\ event = "data" => AppendEvent(q, event) = Push(q, event)
         /\ q.over = FALSE /\ event = "end" => AppendEvent(q, event) = Ends(Push(q, event))
         /\ q.over = FALSE /\ event = "error" /\ Push(q, event).breached = TRUE
              => AppendEvent(q, event) = Push(q, event)
         /\ q.over = FALSE /\ event = "error" /\ Push(q, event).breached = FALSE
              => AppendEvent(q, event) = Ends(Push(Push(q, event), "end"))
  <1>1. q.over = TRUE => AppendEvent(q, event) = q
    BY DEF AppendEvent
  <1>2. q.over = FALSE /\ event = "data" => AppendEvent(q, event) = Push(q, event)
    BY DEF AppendEvent
  <1>3. q.over = FALSE /\ event = "end" => AppendEvent(q, event) = Ends(Push(q, event))
    BY DEF AppendEvent
  <1>4. q.over = FALSE /\ event = "error" /\ Push(q, event).breached = TRUE
          => AppendEvent(q, event) = Push(q, event)
    BY DEF AppendEvent
  <1>5. q.over = FALSE /\ event = "error" /\ Push(q, event).breached = FALSE
          => AppendEvent(q, event) = Ends(Push(Push(q, event), "end"))
    BY DEF AppendEvent
  <1> QED
    BY <1>1, <1>2, <1>3, <1>4, <1>5

LEMMA EndsFacts ==
  /\ Ends(Breach) = Breach
  /\ \A w : Ends(Queue(w)) = [events |-> w, closed |-> TRUE, breached |-> FALSE, over |-> TRUE]
  /\ \A w : Queue(w).over = FALSE /\ Queue(w).breached = FALSE /\ Queue(w).events = w
  /\ Breach.breached = TRUE
  BY DEF Ends, Breach, Queue

LEMMA EndsKept ==
  ASSUME NEW w, ~(Len(w) > Quota)
  PROVE  Ends(Queue(w)) = Kept(w, TRUE)
  BY EndsFacts, KeptFacts

\* One turn of the loop keeps the description.
LEMMA AppendEventDescribed ==
  ASSUME NEW b \in Batches, NEW n \in 1..Len(b), NEW q, Described(q, b, n - 1)
  PROVE  Described(AppendEvent(q, b[n]), b, n)
  <1>1. b \in Seq(Events) /\ Len(b) \in Nat /\ b[n] \in Events /\ Quota \in Nat
    BY BatchFacts, SessionsAssumption
  <1>2. ASSUME NEW i \in 1..n - 1, b[i] # "data", \A j \in 1..i - 1 : b[j] = "data",
               q = Kept(Cut(b, i), TRUE)
        PROVE  Described(AppendEvent(q, b[n]), b, n)
    <2>1. AppendEvent(q, b[n]) = q
      <3>1. q.over = TRUE
        BY <1>2, KeptFacts
      <3> QED
        BY ONLY <3>1, TurnFacts
    <2>2. i \in 1..n
      BY <1>2
    <2> QED
      BY <1>2, <2>1, <2>2, DescribedEnded
  <1>3. ASSUME \A i \in 1..n - 1 : b[i] = "data", q = Kept(SubSeq(b, 1, n - 1), FALSE)
        PROVE  Described(AppendEvent(q, b[n]), b, n)
    <2> DEFINE w == SubSeq(b, 1, n - 1)
               v == SubSeq(b, 1, n)
               p == AppendEvent(q, b[n])
    <2>1. /\ Len(w) = n - 1 /\ Len(v) = n /\ v = Append(w, b[n])
          /\ w \in Seq(Events) /\ v \in Seq(Events)
      BY <1>1, SubSeqFacts
    <2>2. Len(Append(v, "end")) = n + 1
      BY <2>1
    <2>3. SUFFICES IF b[n] = "data" THEN p = Kept(v, FALSE) ELSE p = Kept(Cut(b, n), TRUE)
      <3>1. CASE b[n] = "data"
        <4>1. \A i \in 1..n : b[i] = "data"
          BY <1>3, <3>1
        <4> QED
          BY <2>3, <3>1, <4>1, DescribedOpen
      <3>2. CASE b[n] # "data"
        <4>1. n \in 1..n
          OBVIOUS
        <4> QED
          BY <1>3, <2>3, <3>2, <4>1, DescribedEnded
      <3> QED
        BY <3>1, <3>2
    <2>4. Cut(b, n) = IF b[n] = "end" THEN v ELSE Append(v, "end")
      BY DEF Cut
    <2> HIDE DEF w, v
    <2>5. CASE n - 1 > Quota
      <3>1. q = Breach
        BY <1>3, <2>1, <2>5, KeptFacts DEF w
      <3>2. p = Breach
        BY <3>1, KeptFacts, TurnFacts
      <3>3. Len(v) > Quota /\ Len(Cut(b, n)) > Quota
        BY <1>1, <2>1, <2>2, <2>4, <2>5
      <3> QED
        BY <3>2, <3>3, KeptFacts
    <2>6. CASE n - 1 <= Quota
      <3>1. q = Queue(w)
        <4>1. ~(Len(w) > Quota) /\ q = Kept(w, FALSE)
          BY <1>1, <1>3, <2>1, <2>6 DEF w
        <4> QED
          BY <4>1, KeptFacts DEF Queue
      <3>2. Push(q, b[n]) = IF n > Quota THEN Breach ELSE Queue(v)
        BY <1>1, <2>1, <2>6, <3>1, EndsFacts DEF Push
      <3>3. q.over = FALSE
        BY <3>1, EndsFacts
      <3>4. CASE b[n] = "data"
        <4>1. p = Push(q, b[n])
          BY <3>3, <3>4, TurnFacts
        <4> QED
          BY <2>1, <3>2, <3>4, <4>1, KeptFacts DEF Queue
      <3>5. CASE b[n] = "end"
        <4>1. p = Ends(Push(q, b[n]))
          BY <3>3, <3>5, TurnFacts
        <4> QED
          <5>1. CASE n > Quota
            BY <2>1, <2>4, <3>2, <3>5, <4>1, <5>1, KeptFacts, EndsFacts
          <5>2. CASE ~(n > Quota)
            <6>1. Ends(Queue(v)) = Kept(v, TRUE)
              BY <2>1, <5>2, EndsKept
            <6> QED
              BY <2>4, <3>2, <3>5, <4>1, <5>2, <6>1
          <5> QED
            BY <5>1, <5>2
      <3>6. CASE b[n] = "error" /\ n > Quota
        <4>1. p = Breach
          BY <3>2, <3>3, <3>6, TurnFacts, EndsFacts
        <4>2. Len(Append(v, "end")) > Quota
          BY <1>1, <2>2, <3>6
        <4> QED
          BY <2>4, <3>6, <4>1, <4>2, KeptFacts
      <3>7. CASE b[n] = "error" /\ ~(n > Quota)
        <4>1. p = Ends(Push(Queue(v), "end"))
          <5>1. Push(q, b[n]) = Queue(v)
            BY <3>2, <3>7
          <5>2. Push(q, b[n]).breached = FALSE
            BY <5>1, EndsFacts
          <5>3. q.over = FALSE /\ b[n] = "error"
            BY <3>3, <3>7
          <5>4. p = Ends(Push(Push(q, b[n]), "end"))
            BY ONLY <5>2, <5>3, TurnFacts DEF p
          <5> QED
            BY ONLY <5>1, <5>4
        <4>2. Push(Queue(v), "end") = IF n >= Quota THEN Breach ELSE Queue(Append(v, "end"))
          BY <2>1, EndsFacts DEF Push
        <4>3. CASE n >= Quota
          <5>1. Len(Append(v, "end")) > Quota
            BY <1>1, <2>2, <4>3
          <5> QED
            BY <2>4, <3>7, <4>1, <4>2, <4>3, <5>1, KeptFacts, EndsFacts
        <4>4. CASE ~(n >= Quota)
          <5>1. ~(Len(Append(v, "end")) > Quota)
            BY <1>1, <2>2, <4>4
          <5> QED
            BY <2>4, <3>7, <4>1, <4>2, <4>4, <5>1, EndsKept
        <4> QED
          BY <4>3, <4>4
      <3> QED
        BY <1>1, <3>4, <3>5, <3>6, <3>7 DEF Events
    <2>7. n - 1 > Quota \/ n - 1 <= Quota
      BY <1>1
    <2> QED
      BY <2>5, <2>6, <2>7
  <1> QED
    BY <1>2, <1>3 DEF Described

\* append_session_events leaves a batch cut after its first end, within the quota.
LEMMA AppendSessionEventsDescribed ==
  ASSUME NEW b \in Batches
  PROVE  Described(AppendSessionEvents(b), b, Len(b))
  <1>1. PICK g \in [0..Len(b) -> Queues] :
          /\ g[0] = Queue(<<>>)
          /\ \A n \in 1..Len(b) : g[n] = AppendEvent(g[n - 1], b[n])
          /\ AppendSessionEvents(b) = g[Len(b)]
    BY AppendUnfolds
  <1> DEFINE S == {n \in 0..Len(b) : Described(g[n], b, n)}
  <1>2. b \in Seq(Events) /\ Len(b) \in Nat
    BY BatchFacts
  <1>3. 0 \in S
    <2>1. SubSeq(b, 1, 0) = <<>>
      BY <1>2, SubSeqFacts
    <2>2. Kept(<<>>, FALSE) = Queue(<<>>)
      BY SessionsAssumption DEF Kept, Queue
    <2> QED
      <3>1. Described(Queue(<<>>), b, 0)
        BY <2>1, <2>2, DescribedOpen
      <3> QED
        BY <1>1, <1>2, <3>1
  <1>4. ASSUME NEW n \in 1..Len(b), n - 1 \in S PROVE n \in S
    <2>1. Described(AppendEvent(g[n - 1], b[n]), b, n)
      BY <1>4, AppendEventDescribed
    <2> QED
      BY <1>1, <1>2, <2>1
  <1>5. Len(b) \in S
    <2> HIDE DEF S
    <2>1. 0..Len(b) \subseteq S
      BY <1>2, <1>3, <1>4, PrefixInduction
    <2> QED
      BY <1>2, <2>1
  <1> QED
    BY <1>1, <1>5

LEMMA CutFacts ==
  ASSUME NEW b \in Batches, NEW i \in 1..Len(b), b[i] # "data", \A j \in 1..i - 1 : b[j] = "data"
  PROVE  /\ Cut(b, i) \in Seq(Events) /\ Len(Cut(b, i)) \in Nat \ {0}
         /\ Cut(b, i)[Len(Cut(b, i))] = "end"
         /\ \A j \in 1..Len(Cut(b, i)) - 1 : Cut(b, i)[j] # "end"
  <1> DEFINE v == SubSeq(b, 1, i)
  <1>1. /\ v \in Seq(Events) /\ Len(v) = i /\ i \in Nat \ {0}
        /\ \A j \in 1..i : v[j] = b[j] /\ j \in Nat
    <2>1. b \in Seq(Events) /\ Len(b) \in Nat /\ i \in 0..Len(b)
      BY BatchFacts
    <2> QED
      BY <2>1, SubSeqFacts
  <1>2. b[i] \in {"end", "error"} /\ "end" \in Events
    BY BatchFacts DEF Events
  <1> HIDE DEF v
  <1>3. CASE b[i] = "end"
    <2>1. Cut(b, i) = v
      BY <1>3 DEF Cut, v
    <2> QED
      BY <1>1, <1>3, <2>1
  <1>4. CASE b[i] = "error"
    <2>1. Cut(b, i) = Append(v, "end")
      BY <1>4 DEF Cut, v
    <2>2. /\ Append(v, "end") \in Seq(Events) /\ Len(Append(v, "end")) = i + 1
          /\ Append(v, "end")[i + 1] = "end"
          /\ \A j \in 1..i : Append(v, "end")[j] = v[j]
      BY <1>1, <1>2
    <2>3. \A j \in 1..i : v[j] # "end"
      <3>1. \A j \in 1..i : j = i \/ j \in 1..i - 1
        BY <1>1
      <3> QED
        BY <1>1, <1>4, <3>1
    <2>4. (i + 1) - 1 = i /\ i + 1 \in Nat \ {0}
      BY <1>1
    <2> QED
      BY <2>1, <2>2, <2>3, <2>4
  <1> QED
    BY <1>2, <1>3, <1>4

\* What handlers rely on: a session that stays open has seen no end, one that is closed
\* within the quota has the end last, and beyond the quota nothing is left.
LEMMA AppendedFacts ==
  ASSUME NEW b \in Batches, NEW q, q = AppendSessionEvents(b)
  PROVE  /\ q.closed \in BOOLEAN /\ q.breached \in BOOLEAN /\ q.events \in Seq(Events)
         /\ q.breached => q.closed
         /\ ~q.breached =>
              /\ \A i \in 1..Len(q.events) - 1 : q.events[i] # "end"
              /\ q.closed <=> q.events # <<>> /\ q.events[Len(q.events)] = "end"
  <1>1. b \in Seq(Events) /\ Len(b) \in Nat /\ Len(b) \in 0..Len(b)
    BY BatchFacts
  <1>2. Described(q, b, Len(b))
    BY AppendSessionEventsDescribed
  <1>3. CASE q = Breach
    BY <1>3 DEF Breach
  <1>4. ASSUME NEW w \in Seq(Events), NEW closed \in BOOLEAN, q = Kept(w, closed), q # Breach
        PROVE  q.events = w /\ q.closed = closed /\ q.breached = FALSE
    BY <1>4, KeptFields
  <1>5. CASE q # Breach /\ q = Kept(SubSeq(b, 1, Len(b)), FALSE) /\ \A i \in 1..Len(b) : b[i] = "data"
    <2>1. SubSeq(b, 1, Len(b)) = b
      BY <1>1, SubSeqFacts
    <2>2. q.events = b /\ q.closed = FALSE /\ q.breached = FALSE
      BY <1>1, <1>4, <1>5, <2>1
    <2>3. b # <<>> => Len(b) \in 1..Len(b)
      BY <1>1
    <2>4. \A i \in 1..Len(b) - 1 : i \in 1..Len(b)
      BY <1>1
    <2> QED
      BY <1>1, <1>5, <2>2, <2>3, <2>4
  <1>6. ASSUME q # Breach, NEW i \in 1..Len(b), b[i] # "data", \A j \in 1..i - 1 : b[j] = "data",
               q = Kept(Cut(b, i), TRUE)
        PROVE  /\ q.closed = TRUE /\ q.breached = FALSE /\ q.events \in Seq(Events)
               /\ \A j \in 1..Len(q.events) - 1 : q.events[j] # "end"
               /\ q.events # <<>> /\ q.events[Len(q.events)] = "end"
    <2> DEFINE w == Cut(b, i)
    <2>1. /\ w \in Seq(Events) /\ Len(w) \in Nat \ {0} /\ w[Len(w)] = "end"
          /\ \A j \in 1..Len(w) - 1 : w[j] # "end"
      BY <1>6, CutFacts
    <2> HIDE DEF w
    <2>2. q.events = w /\ q.closed = TRUE /\ q.breached = FALSE
      BY <1>4, <1>6, <2>1 DEF w
    <2> QED
      BY <2>1, <2>2
  <1> QED
    BY <1>2, <1>3, <1>5, <1>6 DEF Described

\* push_event_capped and append_session_events do with every batch what their
\* description says: an error brings its end, the first end ends the batch, and beyond
\* SESSION_EVENT_QUOTA nothing is kept and the session is closed.
THEOREM BatchesAreAppended == Spec => []AppendedAsDescribed
  <1>1. AppendedAsDescribed
    <2> SUFFICES ASSUME NEW b \in Batches
                 PROVE
                   LET ends == {i \in DOMAIN b : b[i] # "data"}
                       whole == IF ends = {} THEN b
                                ELSE LET i == CHOOSE i \in ends : \A j \in ends : i <= j
                                     IN  IF b[i] = "end" THEN SubSeq(b, 1, i)
                                         ELSE Append(SubSeq(b, 1, i), "end")
                       q == AppendSessionEvents(b)
                   IN  /\ q.breached = (Len(whole) > Quota)
                       /\ q.events = (IF Len(whole) > Quota THEN <<>> ELSE whole)
                       /\ q.closed = (ends # {} \/ Len(whole) > Quota)
      BY DEF AppendedAsDescribed
    <2> DEFINE ends == {i \in DOMAIN b : b[i] # "data"}
               first == CHOOSE i \in ends : \A j \in ends : i <= j
               whole == IF ends = {} THEN b ELSE Cut(b, first)
               q == AppendSessionEvents(b)
    <2>1. b \in Seq(Events) /\ Len(b) \in Nat /\ DOMAIN b = 1..Len(b)
      BY BatchFacts
    <2>2. q = Kept(whole, ends # {})
      <3>1. Described(q, b, Len(b))
        BY AppendSessionEventsDescribed
      <3>2. CASE (\A i \in 1..Len(b) : b[i] = "data") /\ q = Kept(SubSeq(b, 1, Len(b)), FALSE)
        <4>1. ends = {} /\ SubSeq(b, 1, Len(b)) = b
          BY <2>1, <3>2, SubSeqFacts
        <4> QED
          BY <3>2, <4>1
      <3>3. ASSUME NEW i \in 1..Len(b), b[i] # "data", \A j \in 1..i - 1 : b[j] = "data",
                   q = Kept(Cut(b, i), TRUE)
            PROVE  q = Kept(whole, ends # {})
        <4>1. i \in ends /\ \A j \in ends : i <= j
          BY <2>1, <3>3
        <4>2. first = i
          <5>1. \A j \in ends : j \in Nat
            BY <2>1
          <5> HIDE DEF ends
          <5>2. first \in ends /\ \A j \in ends : first <= j
            BY <4>1
          <5> HIDE DEF first
          <5> QED
            BY <4>1, <5>1, <5>2
        <4>3. whole = Cut(b, i) /\ (ends # {}) = TRUE
          BY <4>1, <4>2
        <4> QED
          BY <3>3, <4>3
      <3> QED
        BY <3>1, <3>2, <3>3 DEF Described
    <2>3. /\ q.breached = (Len(whole) > Quota)
          /\ q.events = (IF Len(whole) > Quota THEN <<>> ELSE whole)
          /\ q.closed = (ends # {} \/ Len(whole) > Quota)
      <3> DEFINE ended == ends # {}
      <3>1. ended \in BOOLEAN /\ q = Kept(whole, ended)
        BY <2>2
      <3> HIDE DEF whole, q, ended
      <3>2. CASE Len(whole) > Quota
        <4>1. q.events = <<>> /\ q.closed = TRUE /\ q.breached = TRUE
          BY <3>1, <3>2, KeptFields
        <4> QED
          BY <3>2, <4>1
      <3>3. CASE ~(Len(whole) > Quota)
        <4>1. q.events = whole /\ q.closed = ended /\ q.breached = FALSE
          BY <3>1, <3>3, KeptFields
        <4>2. q.breached = (Len(whole) > Quota)
          <5>1. (Len(whole) > Quota) = FALSE
            BY <3>3
          <5> QED
            BY <4>1, <5>1
        <4>3. q.closed = (ends # {} \/ Len(whole) > Quota)
          BY <3>3, <4>1 DEF ended
        <4> QED
          BY <3>3, <4>1, <4>2, <4>3
      <3> QED
        BY <3>2, <3>3
    <2> QED
      BY <2>3 DEF Cut
  <1> QED
    BY <1>1, PTL

-----------------------------------------------------------------------------
(* Types, and instances that are not shared.                                *)

\* Instances are numbered as they start; no two extensions have the same one, and what
\* is kept for sessions is kept by instances that were started.
InstancesFresh ==
  /\ alive \subseteq 1..started
  /\ \A e \in Extensions : handle[e] <= started
  /\ \A e, f \in Extensions : handle[e] = handle[f] /\ handle[e] # NoInstance => e = f
  /\ \A t \in serving : t[1] <= started
  /\ \A i \in Instances : numbered[i] <= issued

PluginTypes ==
  /\ contract \in [Extensions -> Contracts \cup {"unloaded"}]
  /\ handle \in [Extensions -> Instances \cup {NoInstance}]
  /\ started \in 0..MaxInstances
  /\ alive \subseteq Instances
  /\ serving \subseteq Instances \X SessionIds
  /\ numbered \in [Instances -> 0..MaxSessions]

TableTypes ==
  /\ issued \in 0..MaxSessions
  /\ DOMAIN sessions \subseteq 1..issued
  /\ \A s \in DOMAIN sessions :
       sessions[s] \in [extension : Extensions, runtime : SessionIds,
                        opened_at : Instances, is_closed : BOOLEAN]

TombstoneTypes == ring \in Seq(SessionIds) /\ set \subseteq SessionIds

StreamTypes == /\ stream \in [SessionIds -> {"none", "open", "ended", "broken"}]
               /\ early \subseteq SessionIds

AnswerTypes ==
  /\ reply \in {"ok", "error"}
  /\ fatal \in {"none", "extension not loaded", "session not found",
                "send not allowed", "plugin"}

TypeParts == PluginTypes /\ TableTypes /\ TombstoneTypes /\ StreamTypes /\ AnswerTypes

TypeInv == TypeParts /\ InstancesFresh

LEMMA PartsAreTypes == TypeOK <=> TypeParts
  BY DEF TypeOK, TypeParts, PluginTypes, TableTypes, TombstoneTypes, StreamTypes, AnswerTypes

LEMMA NumberFacts ==
  ASSUME TypeInv
  PROVE  /\ started \in Nat /\ started <= MaxInstances /\ issued \in Nat /\ issued <= MaxSessions
         /\ MaxInstances \in Nat /\ MaxSessions \in Nat
         /\ \A e \in Extensions : handle[e] \in Nat /\ handle[e] <= started
         /\ \A t \in serving : t[1] \in Nat /\ t[1] <= started
         /\ \A i \in Instances : i \in Nat /\ numbered[i] \in Nat /\ numbered[i] <= issued
         /\ \A s \in SessionIds : s \in Nat /\ s <= MaxSessions /\ s # 0
  <1>1. /\ started \in Nat /\ started <= MaxInstances /\ issued \in Nat /\ issued <= MaxSessions
        /\ MaxInstances \in Nat /\ MaxSessions \in Nat
    BY SessionsAssumption DEF TypeInv, TypeParts, PluginTypes, TableTypes
  <1>2. \A i \in Instances : i \in Nat
    BY <1>1 DEF Instances
  <1>3. \A e \in Extensions : handle[e] \in Nat /\ handle[e] <= started
    <2>1. \A e \in Extensions : handle[e] \in Instances \/ handle[e] = 0
      BY DEF TypeInv, TypeParts, PluginTypes, NoInstance
    <2>2. \A e \in Extensions : handle[e] <= started
      BY DEF TypeInv, InstancesFresh
    <2> QED
      BY <1>2, <2>1, <2>2
  <1>4. \A t \in serving : t[1] \in Nat /\ t[1] <= started
    BY <1>1, <1>2 DEF TypeInv, TypeParts, PluginTypes, InstancesFresh
  <1>5. \A i \in Instances : numbered[i] \in Nat /\ numbered[i] <= issued
    BY <1>1 DEF TypeInv, TypeParts, PluginTypes, InstancesFresh
  <1>6. \A s \in SessionIds : s \in Nat /\ s <= MaxSessions /\ s # 0
    BY <1>1 DEF SessionIds
  <1> QED
    BY <1>1, <1>2, <1>3, <1>4, <1>5, <1>6

Errors == {"extension not loaded", "session not found", "send not allowed", "plugin"}

LEMMA AnsweredTypes ==
  ASSUME AnswerTypes,
         \/ \E result \in {"ok", "error"} : Answer(result)
         \/ \E why \in Errors : Die(why)
  PROVE  AnswerTypes'
  <1>1. ASSUME NEW result \in {"ok", "error"}, Answer(result) PROVE AnswerTypes'
    BY <1>1 DEF Answer, AnswerTypes
  <1>2. ASSUME NEW why \in Errors, Die(why) PROVE AnswerTypes'
    BY <1>2 DEF Die, AnswerTypes, Errors
  <1> QED
    BY <1>1, <1>2

LEMMA CallFailsTypes ==
  ASSUME AnswerTypes, NEW i, CallFails(i)
  PROVE  AnswerTypes'
  BY AnsweredTypes DEF CallFails, Errors

LEMMA FollowType ==
  ASSUME NEW st \in {"none", "open", "ended", "broken"}, NEW events
  PROVE  Follow(st, events) \in {"none", "open", "ended", "broken"}
  BY DEF Follow

\* On an open stream a batch leaves an open stream or a stream that has ended, as it
\* leaves the session.
LEMMA BatchOnStream ==
  ASSUME NEW b \in Batches, NEW q, q = AppendSessionEvents(b)
  PROVE  (IF q.breached THEN "ended" ELSE Follow("open", q.events))
           = IF q.closed THEN "ended" ELSE "open"
  <1>1. CASE q.breached
    BY <1>1, AppendedFacts
  <1>2. CASE ~q.breached
    <2>1. /\ q.events \in Seq(Events) /\ \A i \in 1..Len(q.events) - 1 : q.events[i] # "end"
          /\ q.closed <=> q.events # <<>> /\ q.events[Len(q.events)] = "end"
      BY <1>2, AppendedFacts
    <2> QED
      BY <1>2, <2>1 DEF Follow, Last
  <1> QED
    BY <1>1, <1>2

LEMMA ReportTypes ==
  ASSUME StreamTypes, early' = early, NEW op, NEW s \in SessionIds, NEW q, Report(op, s, q)
  PROVE  /\ StreamTypes'
         /\ reply' \in {"ok", "error"} /\ fatal' = fatal
  <1>1. (IF q.breached THEN "ended" ELSE Follow(IF op = "open" THEN "open" ELSE stream[s], q.events))
          \in {"none", "open", "ended", "broken"}
    BY FollowType DEF StreamTypes
  <1> QED
    BY <1>1 DEF Report, Answer, StreamTypes

\* The session an id names.
LEMMA CallableFacts ==
  ASSUME TypeInv, NEW op, NEW s \in SessionIds, Callable(op, s)
  PROVE  /\ s \in DOMAIN sessions /\ s \in 1..issued /\ s \notin set
         /\ ~sessions[s].is_closed
  BY DEF Callable, Usable, TypeInv, TypeParts, TableTypes

LEMMA InitTypes == Init => TypeInv
  <1> SUFFICES ASSUME Init PROVE TypeInv
    OBVIOUS
  <1> USE SessionsAssumption DEF Init
  <1>1. PluginTypes
    BY DEF PluginTypes, NoInstance
  <1>2. TableTypes /\ TombstoneTypes /\ StreamTypes /\ AnswerTypes
    BY DEF TableTypes, TombstoneTypes, StreamTypes, AnswerTypes
  <1>3. InstancesFresh
    BY DEF InstancesFresh, NoInstance
  <1> QED
    BY <1>1, <1>2, <1>3 DEF TypeInv, TypeParts

LEMMA LoadTypes ==
  ASSUME TypeInv, NEW e \in Extensions, NEW c \in Contracts, Load(e, c)
  PROVE  TypeInv'
  <1> USE DEF TypeInv, TypeParts, Load
  <1>1. PluginTypes'
    BY DEF PluginTypes
  <1>2. TableTypes' /\ TombstoneTypes' /\ StreamTypes'
    BY DEF sessionVars, TableTypes, TombstoneTypes, StreamTypes
  <1>3. AnswerTypes'
    BY DEF AnswerTypes, Answer
  <1>4. \A f \in Extensions : handle'[f] = handle[f] \/ handle'[f] = NoInstance
    BY DEF PluginTypes
  <1>5. 0 <= started
    BY NumberFacts
  <1>6. InstancesFresh'
    BY <1>4, <1>5 DEF InstancesFresh, sessionVars, NoInstance
  <1> QED
    BY <1>1, <1>2, <1>3, <1>6

LEMMA ActivateTypes ==
  ASSUME TypeInv, NEW e \in Extensions, Activate(e)
  PROVE  TypeInv'
  <1> USE DEF TypeInv, TypeParts
  <1>1. TableTypes' /\ TombstoneTypes' /\ StreamTypes'
    BY DEF Activate, sessionVars, TableTypes, TombstoneTypes, StreamTypes
  <1>2. AnswerTypes'
    BY AnsweredTypes DEF Activate, Errors
  <1>3. CASE UNCHANGED <<handle, started, alive>>
    <2>1. PluginTypes' /\ InstancesFresh'
      BY <1>3 DEF Activate, PluginTypes, InstancesFresh, sessionVars
    <2> QED
      BY <1>1, <1>2, <2>1
  <1>4. CASE /\ started < MaxInstances /\ started' = started + 1
             /\ alive' = alive \cup {started + 1}
             /\ handle' = [handle EXCEPT ![e] = started + 1]
    <2>1. started + 1 \in Instances /\ started + 1 # NoInstance /\ started + 1 \in 0..MaxInstances
      BY <1>4, NumberFacts DEF Instances, NoInstance
    <2>2. PluginTypes'
      BY <1>4, <2>1 DEF Activate, PluginTypes
    <2>3. handle'[e] = started + 1 /\ \A f \in Extensions \ {e} : handle'[f] = handle[f]
      BY <1>4 DEF PluginTypes
    <2>4. \A f \in Extensions : handle[f] \in Nat /\ handle[f] <= started /\ handle[f] # started + 1
      BY NumberFacts
    <2>5. \A f \in Extensions : handle'[f] <= started'
      BY <1>4, <2>3, <2>4, NumberFacts
    <2>6. ASSUME NEW f \in Extensions, NEW g \in Extensions,
                 handle'[f] = handle'[g], handle'[f] # NoInstance
          PROVE  f = g
      <3>1. CASE f # e /\ g # e
        BY <2>3, <2>6, <3>1 DEF InstancesFresh
      <3>2. CASE f = e \/ g = e
        BY <2>3, <2>4, <2>6, <3>2
      <3> QED
        BY <3>1, <3>2
    <2>7. alive' \subseteq 1..started'
      <3>1. started \in Nat /\ started' = started + 1 /\ alive' = alive \cup {started + 1}
        BY <1>4, NumberFacts
      <3>2. \A i \in alive : i \in 1..started
        BY DEF InstancesFresh
      <3>3. \A i \in alive' : i \in 1..started'
        BY <3>1, <3>2
      <3> QED
        BY <3>3
    <2>8. \A t \in serving' : t[1] <= started'
      <3>1. serving' = serving /\ started \in Nat /\ started' = started + 1
        BY <1>4, NumberFacts DEF Activate
      <3>2. \A t \in serving : t[1] \in Nat /\ t[1] <= started
        BY NumberFacts
      <3> HIDE DEF TypeInv
      <3> QED
        BY <3>1, <3>2
    <2>9. InstancesFresh'
      BY <2>5, <2>6, <2>7, <2>8 DEF Activate, InstancesFresh, sessionVars
    <2> QED
      BY <1>1, <1>2, <2>2, <2>9
  <1> QED
    BY <1>3, <1>4 DEF Activate

LEMMA DeactivateTypes ==
  ASSUME TypeInv, NEW e \in Extensions, Deactivate(e)
  PROVE  TypeInv'
  <1> USE DEF TypeInv, TypeParts, Deactivate
  <1>1. alive' \subseteq alive /\ UNCHANGED <<contract, handle, started, serving, numbered, sessionVars>>
    OBVIOUS
  <1>2. AnswerTypes'
    BY AnsweredTypes DEF Errors
  <1> QED
    BY <1>1, <1>2 DEF PluginTypes, TableTypes, TombstoneTypes, StreamTypes, InstancesFresh,
       sessionVars

LEMMA OpenTypes ==
  ASSUME TypeInv, NEW e \in Extensions, NEW b \in Batches, Open(e, b)
  PROVE  TypeInv'
  <1> DEFINE s == issued + 1
             i == handle[e]
             q == AppendSessionEvents(b)
             n == numbered[i] + 1
  <1> USE DEF TypeInv, TypeParts
  <1>1. i \in Instances /\ i \in 1..started
    BY DEF Open, PluginTypes, InstancesFresh
  <1>2. issued < MaxSessions /\ issued' = s
    BY DEF Open
  <1>3. s \in SessionIds /\ s \in 0..MaxSessions /\ s \in 1..s /\ 1..issued \subseteq 1..s
    BY <1>2, NumberFacts DEF SessionIds
  <1>4. n \in SessionIds /\ n \in 0..MaxSessions /\ n <= s
    BY <1>1, <1>2, NumberFacts DEF SessionIds
  <1>5. q.closed \in BOOLEAN
    BY AppendedFacts
  <1>6. Report("open", s, q)
    BY DEF Open, NextId
  <1>7. /\ sessions' = [x \in DOMAIN sessions \cup {s} |->
                         IF x = s THEN [extension |-> e, runtime |-> n,
                                        opened_at |-> i, is_closed |-> q.closed]
                         ELSE sessions[x]]
        /\ numbered' = [numbered EXCEPT ![i] = n]
        /\ serving' = serving \cup {<<i, n>>}
        /\ UNCHANGED <<contract, handle, started, alive, ring, set, early>>
    BY DEF Open, NextId
  <1> HIDE DEF q, s, i, n
  <1>8. StreamTypes' /\ AnswerTypes'
    BY <1>3, <1>6, <1>7, ReportTypes DEF AnswerTypes
  <1>9. TableTypes'
    BY <1>1, <1>2, <1>3, <1>4, <1>5, <1>7 DEF TableTypes
  <1>10. PluginTypes' /\ TombstoneTypes'
    BY <1>1, <1>4, <1>7 DEF PluginTypes, TombstoneTypes
  <1>11. \A j \in Instances : numbered'[j] <= issued'
    <2> TAKE j \in Instances
    <2>1. numbered'[j] = n \/ numbered'[j] = numbered[j]
      BY <1>7 DEF PluginTypes
    <2>2. numbered[j] <= s
      BY NumberFacts DEF s
    <2> QED
      BY <1>2, <1>4, <2>1, <2>2
  <1>12. \A t \in serving' : t[1] <= started'
    BY <1>1, <1>7, NumberFacts
  <1>13. InstancesFresh'
    BY <1>7, <1>11, <1>12 DEF InstancesFresh
  <1> QED
    BY <1>8, <1>9, <1>10, <1>13

LEMMA UseTypes ==
  ASSUME TypeInv, NEW op \in SessionOp, NEW s \in SessionIds, NEW b \in Batches, Use(op, s, b)
  PROVE  TypeInv'
  <1> DEFINE q == AppendSessionEvents(b)
  <1> USE DEF TypeInv, TypeParts
  <1>1. s \in DOMAIN sessions
    BY CallableFacts DEF Use
  <1>2. q.closed \in BOOLEAN
    BY AppendedFacts
  <1>3. /\ Report(op, s, q) /\ sessions' = [sessions EXCEPT ![s].is_closed = q.closed]
        /\ UNCHANGED <<contract, pluginVars, issued, ring, set, early>>
    BY DEF Use
  <1> HIDE DEF q
  <1>4. StreamTypes' /\ AnswerTypes'
    BY <1>3, ReportTypes DEF AnswerTypes
  <1>5. TableTypes'
    BY <1>1, <1>2, <1>3 DEF TableTypes
  <1> QED
    BY <1>3, <1>4, <1>5 DEF PluginTypes, TombstoneTypes, InstancesFresh, pluginVars

\* Refusals and failures change no more than the last answer.
Refusal(e) == OpenRefused(e) \/ OpenFails(e)
RefusalOf(op, s) == UseRefused(op, s) \/ UseFails(op, s)

LEMMA RefusalTypes ==
  ASSUME TypeInv,
         \/ \E e \in Extensions : Refusal(e)
         \/ \E s \in SessionIds, op \in SessionOp : RefusalOf(op, s)
  PROVE  TypeInv' /\ UNCHANGED <<contract, pluginVars, sessionVars>>
  <1> USE DEF TypeInv, TypeParts
  <1>1. UNCHANGED <<contract, pluginVars, sessionVars>>
    BY DEF Refusal, RefusalOf, OpenRefused, OpenFails, UseRefused, UseFails
  <1>2. AnswerTypes'
    <2>1. ASSUME NEW e \in Extensions, OpenRefused(e) PROVE AnswerTypes'
      BY <2>1, AnsweredTypes DEF OpenRefused, Errors
    <2>2. ASSUME NEW e \in Extensions, OpenFails(e) PROVE AnswerTypes'
      BY <2>2, CallFailsTypes DEF OpenFails
    <2>3. ASSUME NEW s \in SessionIds, NEW op \in SessionOp, UseRefused(op, s) PROVE AnswerTypes'
      BY <2>3, AnsweredTypes DEF UseRefused, Errors
    <2>4. ASSUME NEW s \in SessionIds, NEW op \in SessionOp, UseFails(op, s) PROVE AnswerTypes'
      BY <2>4, CallFailsTypes DEF UseFails
    <2> QED
      BY <2>1, <2>2, <2>3, <2>4 DEF Refusal, RefusalOf
  <1> QED
    BY <1>1, <1>2 DEF PluginTypes, TableTypes, TombstoneTypes, StreamTypes, InstancesFresh,
       pluginVars, sessionVars

\* What the tombstones are after a close of a session that had none.
LEMMA TombstoneFacts ==
  ASSUME ring \in Seq(SessionIds), NEW s \in SessionIds, s \notin set, Tombstone(s)
  PROVE  /\ Len(ring) + 1 > Capacity =>
              ring' = Tail(Append(ring, s)) /\ set' = (set \cup {s}) \ {Head(Append(ring, s))}
         /\ ~(Len(ring) + 1 > Capacity) => ring' = Append(ring, s) /\ set' = set \cup {s}
  BY DEF Tombstone

LEMMA CloseTypes ==
  ASSUME TypeInv, NEW s \in SessionIds, Close(s)
  PROVE  TypeInv'
  <1> USE DEF TypeInv, TypeParts
  <1>1. AnswerTypes'
    BY DEF Close, Answer, AnswerTypes
  <1>2. UNCHANGED <<contract, handle, started, alive, numbered, issued>> /\ serving' \subseteq serving
    BY DEF Close
  <1>3. PluginTypes' /\ InstancesFresh'
    BY <1>2 DEF PluginTypes, InstancesFresh
  <1>4. StreamTypes'
    BY DEF Close, StreamTypes
  <1>5. CASE s \in set
    <2>1. UNCHANGED <<sessions, ring, set, serving>>
      BY <1>5 DEF Close
    <2> QED
      BY <1>1, <1>2, <1>3, <1>4, <2>1 DEF TableTypes, TombstoneTypes
  <1>6. CASE s \notin set
    <2>1. TombstoneTypes'
      <3> DEFINE r == Append(ring, s)
      <3>1. ring \in Seq(SessionIds) /\ r \in Seq(SessionIds) /\ Tail(r) \in Seq(SessionIds)
        BY DEF TombstoneTypes
      <3>2. Tombstone(s)
        BY <1>6 DEF Close
      <3> HIDE DEF r
      <3> QED
        BY <1>6, <3>1, <3>2, TombstoneFacts DEF TombstoneTypes, r
    <2>3. sessions' = [x \in DOMAIN sessions \ {s} |-> sessions[x]]
      BY <1>6 DEF Close
    <2>4. TableTypes'
      BY <1>2, <2>3 DEF TableTypes
    <2> QED
      BY <1>1, <1>3, <1>4, <2>1, <2>4
  <1> QED
    BY <1>5, <1>6

\* Types hold, and no two extensions share an instance.
THEOREM SessionTypes == Spec => []TypeInv
  <1>1. TypeInv /\ [Next]_vars => TypeInv'
    <2>1. ASSUME TypeInv, UNCHANGED vars PROVE TypeInv'
      BY <2>1 DEF TypeInv, TypeParts, PluginTypes, TableTypes, TombstoneTypes, StreamTypes,
         AnswerTypes, InstancesFresh, vars, pluginVars, sessionVars
    <2>2. ASSUME TypeInv, NEW e \in Extensions, ExtensionStep(e) PROVE TypeInv'
      BY <2>2, LoadTypes, ActivateTypes, DeactivateTypes, OpenTypes, RefusalTypes
         DEF ExtensionStep, Refusal
    <2>3. ASSUME TypeInv, NEW s \in SessionIds, SessionStep(s) PROVE TypeInv'
      BY <2>3, UseTypes, CloseTypes, RefusalTypes DEF SessionStep, RefusalOf
    <2>4. ASSUME TypeInv, NEW i \in Instances, PluginDies(i) PROVE TypeInv'
      BY <2>4 DEF PluginDies, TypeInv, TypeParts, PluginTypes, TableTypes, TombstoneTypes,
         StreamTypes, AnswerTypes, InstancesFresh, sessionVars
    <2> QED
      BY <2>1, <2>2, <2>3, <2>4 DEF Next, Terminated
  <1> QED
    BY InitTypes, <1>1, PTL DEF Spec

\* The type invariant of the daemon's session state.
THEOREM SessionTypeOK == Spec => []TypeOK
  <1>1. TypeInv => TypeOK
    BY PartsAreTypes DEF TypeInv
  <1> QED
    BY <1>1, SessionTypes, PTL

-----------------------------------------------------------------------------
(* Tombstones.                                                              *)

RingIsSet ==
  /\ \A i, j \in 1..Len(ring) : ring[i] = ring[j] => i = j
  /\ \A s \in set : \E i \in 1..Len(ring) : ring[i] = s
  /\ \A i \in 1..Len(ring) : ring[i] \in set
  /\ Len(ring) <= Capacity

LEMMA TombstoneKeepsRing ==
  ASSUME TombstoneTypes, RingIsSet, NEW s \in SessionIds, s \notin set, Tombstone(s)
  PROVE  RingIsSet'
  <1> DEFINE r == Append(ring, s)
             n == Len(ring)
             old == Head(r)
  <1>1. ring \in Seq(SessionIds) /\ n \in Nat /\ Capacity \in Nat /\ n <= Capacity
    BY SessionsAssumption DEF TombstoneTypes, RingIsSet
  <1>2. /\ r \in Seq(SessionIds) /\ Len(r) = n + 1 /\ r[n + 1] = s
        /\ \A i \in 1..n : r[i] = ring[i]
    BY <1>1
  <1>3. \A i, j \in 1..n + 1 : r[i] = r[j] => i = j
    <2>1. \A i \in 1..n : r[i] # s
      BY <1>2 DEF RingIsSet
    <2>2. \A i \in 1..n + 1 : i \in 1..n \/ i = n + 1
      BY <1>1
    <2>3. \A i, j \in 1..n : r[i] = r[j] => i = j
      BY <1>2 DEF RingIsSet
    <2> HIDE DEF r, n
    <2> QED
      BY <1>2, <2>1, <2>2, <2>3
  <1>4. \A x \in set \cup {s} : \E i \in 1..n + 1 : r[i] = x
    <2>1. ASSUME NEW x \in set PROVE \E i \in 1..n + 1 : r[i] = x
      <3>1. PICK i \in 1..n : ring[i] = x
        BY DEF RingIsSet
      <3>2. i \in 1..n + 1 /\ r[i] = x
        BY <1>1, <1>2, <3>1
      <3> QED
        BY <3>2
    <2>2. n + 1 \in 1..n + 1
      BY <1>1
    <2> QED
      BY <1>2, <2>1, <2>2
  <1>5. \A i \in 1..n + 1 : r[i] \in set \cup {s}
    <2>1. \A i \in 1..n + 1 : i \in 1..n \/ i = n + 1
      BY <1>1
    <2> QED
      BY <1>2, <2>1 DEF RingIsSet
  <1>6. CASE ~(n + 1 > Capacity)
    <2>1. ring' = r /\ set' = set \cup {s}
      BY <1>1, <1>6, TombstoneFacts
    <2>2. Len(ring') = n + 1 /\ n + 1 <= Capacity
      BY <1>1, <1>2, <1>6, <2>1
    <2> HIDE DEF r, n
    <2> QED
      BY <1>3, <1>4, <1>5, <2>1, <2>2 DEF RingIsSet
  <1>7. CASE n + 1 > Capacity
    <2>1. ring' = Tail(r) /\ set' = (set \cup {s}) \ {old}
      BY <1>1, <1>7, TombstoneFacts
    <2>2. r # <<>> /\ old = r[1] /\ 1 \in 1..n + 1
      BY <1>1, <1>2
    <2> HIDE DEF r, old
    <2>3. Len(ring') = n /\ \A i \in 1..n : i + 1 \in 1..n + 1 /\ ring'[i] = r[i + 1]
      BY <1>1, <1>2, <2>1, <2>2
    <2> HIDE DEF n
    <2>4. ASSUME NEW i \in 1..n, NEW j \in 1..n, ring'[i] = ring'[j] PROVE i = j
      <3>1. i + 1 = j + 1
        BY <1>3, <2>3, <2>4
      <3> QED
        BY <1>1, <3>1
    <2>5. \A i \in 1..n : ring'[i] # old
      <3> SUFFICES ASSUME NEW i \in 1..n PROVE ring'[i] # old
        OBVIOUS
      <3>1. ring'[i] = r[i + 1] /\ i + 1 \in 1..n + 1 /\ i + 1 # 1
        BY <1>1, <2>3
      <3> QED
        BY ONLY <1>3, <2>2, <3>1
    <2>6. \A i \in 1..n : ring'[i] \in set'
      BY <1>5, <2>1, <2>3, <2>5
    <2>7. ASSUME NEW x \in set' PROVE \E i \in 1..n : ring'[i] = x
      <3>1. PICK j \in 1..n + 1 : r[j] = x
        BY <1>4, <2>1, <2>7
      <3>2. j # 1
        BY <2>1, <2>2, <2>7, <3>1
      <3>3. j - 1 \in 1..n /\ (j - 1) + 1 = j
        BY <1>1, <3>2
      <3>4. ring'[j - 1] = x
        BY <2>3, <3>1, <3>3
      <3> QED
        BY <3>3, <3>4
    <2> QED
      BY <1>1, <2>3, <2>4, <2>6, <2>7 DEF RingIsSet
  <1> QED
    BY <1>6, <1>7

\* A step other than the close of an id that has no tombstone leaves them alone.
LEMMA StepOnTombstones ==
  ASSUME TypeInv, [Next]_vars
  PROVE  \/ UNCHANGED <<ring, set>>
         \/ \E s \in SessionIds : s \notin set /\ Tombstone(s)
  <1>1. ASSUME UNCHANGED vars PROVE UNCHANGED <<ring, set>>
    BY <1>1 DEF vars, sessionVars
  <1>2. ASSUME NEW e \in Extensions, ExtensionStep(e) PROVE UNCHANGED <<ring, set>>
    BY <1>2 DEF ExtensionStep, Load, Activate, Deactivate, OpenRefused, OpenFails, Open,
       sessionVars
  <1>3. ASSUME NEW s \in SessionIds, SessionStep(s)
        PROVE  UNCHANGED <<ring, set>> \/ (s \notin set /\ Tombstone(s))
    BY <1>3 DEF SessionStep, UseRefused, UseFails, Use, Close, sessionVars
  <1>4. ASSUME NEW i \in Instances, PluginDies(i) PROVE UNCHANGED <<ring, set>>
    BY <1>4 DEF PluginDies, sessionVars
  <1> QED
    BY <1>1, <1>2, <1>3, <1>4 DEF Next, Terminated

\* ClosedSessionTombstones.insert keeps the ring and the lookup set in step and within
\* CLOSED_SESSION_TOMBSTONE_CAPACITY, whatever ids the host closes and however often.
THEOREM TombstonesAreBounded == Spec => []TombstonesBounded
  <1>1. Init => RingIsSet
    BY SessionsAssumption DEF Init, RingIsSet
  <1>2. TypeInv /\ RingIsSet /\ [Next]_vars => RingIsSet'
    <2> SUFFICES ASSUME TypeInv, RingIsSet, [Next]_vars PROVE RingIsSet'
      OBVIOUS
    <2>1. CASE UNCHANGED <<ring, set>>
      BY <2>1 DEF RingIsSet
    <2>2. ASSUME NEW s \in SessionIds, s \notin set, Tombstone(s) PROVE RingIsSet'
      BY <2>2, TombstoneKeepsRing DEF TypeInv, TypeParts
    <2> QED
      BY <2>1, <2>2, StepOnTombstones
  <1>3. TypeInv /\ RingIsSet => TombstonesBounded
    <2> SUFFICES ASSUME TypeInv, RingIsSet PROVE TombstonesBounded
      OBVIOUS
    <2>1. ring \in Seq(SessionIds) /\ Len(ring) \in Nat /\ DOMAIN ring = 1..Len(ring)
      BY DEF TypeInv, TypeParts, TombstoneTypes
    <2>2. set = {ring[i] : i \in DOMAIN ring}
      BY <2>1 DEF RingIsSet
    <2>3. ring \in Bijection(1..Len(ring), set)
      <3>1. ring \in [1..Len(ring) -> set]
        BY <2>1 DEF RingIsSet
      <3> QED
        BY <3>1 DEF RingIsSet, Bijection, Injection, IsInjective, Surjection
    <2>4. Cardinality(set) = Len(ring)
      BY <2>1, <2>3, FS_CountingElements DEF ExistsBijection
    <2> QED
      BY <2>2, <2>4 DEF TombstonesBounded, RingIsSet
  <1> QED
    BY <1>1, <1>2, <1>3, SessionTypes, PTL DEF Spec

-----------------------------------------------------------------------------
(* What the host has seen of a stream and what the session table says.      *)

StreamInv ==
  /\ \A s \in SessionIds \ early : stream[s] # "broken"
  /\ \A s \in SessionIds \ early : stream[s] = "open" => s \in DOMAIN sessions
  /\ \A s \in DOMAIN sessions \ early : stream[s] = "open" <=> ~sessions[s].is_closed
  /\ \A s \in set \ early : s \in 1..issued /\ s \notin DOMAIN sessions

LEMMA OpenStream ==
  ASSUME TypeInv, StreamInv, NEW e \in Extensions, NEW b \in Batches, Open(e, b)
  PROVE  StreamInv'
  <1> DEFINE s == issued + 1
             q == AppendSessionEvents(b)
             seen == IF q.closed THEN "ended" ELSE "open"
  <1>1. s \in SessionIds /\ s \notin DOMAIN sessions /\ 1..issued \subseteq 1..s /\ s \notin 1..issued
    BY NumberFacts DEF Open, SessionIds, TypeInv, TypeParts, TableTypes
  <1>2. stream' = [stream EXCEPT ![s] = seen]
    BY BatchOnStream DEF Open, NextId, Report
  <1>3. /\ DOMAIN sessions' = DOMAIN sessions \cup {s}
        /\ sessions'[s].is_closed = q.closed
        /\ \A x \in DOMAIN sessions : sessions'[x] = sessions[x]
        /\ issued' = s /\ UNCHANGED <<set, early>>
    BY <1>1 DEF Open, NextId
  <1>4. q.closed \in BOOLEAN
    BY AppendedFacts
  <1>5. stream \in [SessionIds -> {"none", "open", "ended", "broken"}]
    BY DEF TypeInv, TypeParts, StreamTypes
  <1> HIDE DEF s, q
  <1>6. stream'[s] # "broken" /\ (stream'[s] = "open" <=> ~q.closed)
    BY <1>1, <1>2, <1>4, <1>5
  <1>7. \A x \in SessionIds \ {s} : stream'[x] = stream[x]
    BY <1>2, <1>5
  <1>8. DOMAIN sessions \subseteq SessionIds \ {s}
    BY <1>1, NumberFacts DEF TypeInv, TypeParts, TableTypes, SessionIds
  <1>9. \A x \in set \ early : x \in 1..s /\ x \notin DOMAIN sessions'
    BY <1>1, <1>3 DEF StreamInv
  <1> QED
    BY <1>1, <1>3, <1>6, <1>7, <1>8, <1>9 DEF StreamInv

LEMMA UseStream ==
  ASSUME TypeInv, StreamInv, NEW op \in SessionOp, NEW s \in SessionIds, NEW b \in Batches,
         Use(op, s, b)
  PROVE  StreamInv'
  <1> DEFINE q == AppendSessionEvents(b)
             seen == IF q.closed THEN "ended" ELSE "open"
  <1>1. s \in DOMAIN sessions /\ ~sessions[s].is_closed
    BY CallableFacts DEF Use
  <1>2. s \in early \/ stream[s] = "open"
    BY <1>1 DEF StreamInv
  <1>3. s \notin early => stream' = [stream EXCEPT ![s] = seen]
    BY <1>2, BatchOnStream DEF Use, Report
  <1>4. /\ sessions' = [sessions EXCEPT ![s].is_closed = q.closed]
        /\ UNCHANGED <<issued, set, early>>
    BY DEF Use
  <1>5. q.closed \in BOOLEAN
    BY AppendedFacts
  <1>6. /\ stream \in [SessionIds -> {"none", "open", "ended", "broken"}]
        /\ DOMAIN sessions \subseteq SessionIds
        /\ sessions[s] \in [extension : Extensions, runtime : SessionIds,
                            opened_at : Instances, is_closed : BOOLEAN]
    BY <1>1, NumberFacts DEF TypeInv, TypeParts, StreamTypes, TableTypes, SessionIds
  <1>7. \A x \in SessionIds \ {s} : stream'[x] = stream[x]
    BY <1>6 DEF Use, Report
  <1> HIDE DEF q
  <1>8. s \notin early => stream'[s] # "broken" /\ (stream'[s] = "open" <=> ~q.closed)
    BY <1>3, <1>5, <1>6
  <1>9. /\ DOMAIN sessions' = DOMAIN sessions /\ sessions'[s].is_closed = q.closed
        /\ \A x \in DOMAIN sessions \ {s} : sessions'[x] = sessions[x]
    BY <1>1, <1>4, <1>6
  <1> QED
    BY <1>1, <1>4, <1>6, <1>7, <1>8, <1>9 DEF StreamInv

LEMMA TombstonesKept ==
  ASSUME NEW s, Tombstone(s)
  PROVE  set' \subseteq set \cup {s}
  BY DEF Tombstone

\* The close of an id with a tombstone that was closed once it was issued meets a stream
\* that has ended; the first close of an issued id ends it.
LEMMA CloseStream ==
  ASSUME TypeInv, StreamInv, NEW s \in SessionIds, Close(s)
  PROVE  StreamInv'
  <1>1. /\ stream' = [stream EXCEPT ![s] = IF @ = "broken" THEN @ ELSE "ended"]
        /\ early' = early \cup ({s} \ 1..issued) /\ issued' = issued
    BY DEF Close
  <1>2. DOMAIN sessions \subseteq SessionIds /\ set \subseteq SessionIds
    BY NumberFacts DEF TypeInv, TypeParts, TableTypes, TombstoneTypes, SessionIds
  <1>3. /\ \A x \in SessionIds \ {s} : stream'[x] = stream[x]
        /\ s \notin early => stream'[s] = "ended"
    BY <1>1 DEF StreamInv, TypeInv, TypeParts, StreamTypes
  <1>4. CASE s \in set
    <2>1. UNCHANGED <<sessions, set>>
      BY <1>4 DEF Close
    <2>2. s \notin early => s \notin DOMAIN sessions
      BY <1>4 DEF StreamInv
    <2> QED
      BY <1>1, <1>2, <1>3, <2>1, <2>2 DEF StreamInv
  <1>5. CASE s \notin set
    <2>1. sessions' = [x \in DOMAIN sessions \ {s} |-> sessions[x]] /\ set' \subseteq set \cup {s}
      BY <1>5, TombstonesKept DEF Close
    <2>2. DOMAIN sessions' = DOMAIN sessions \ {s} /\ \A x \in DOMAIN sessions' : sessions'[x] = sessions[x]
      BY <2>1
    <2>3. \A x \in set' \ early' : x \in 1..issued' /\ x \notin DOMAIN sessions'
      BY <1>1, <2>1, <2>2 DEF StreamInv
    <2>4. \A x \in SessionIds \ early' : stream'[x] # "broken"
      BY <1>1, <1>3 DEF StreamInv
    <2>5. \A x \in SessionIds \ early' : stream'[x] = "open" => x \in DOMAIN sessions'
      BY <1>1, <1>3, <2>2 DEF StreamInv
    <2>6. \A x \in DOMAIN sessions' \ early' : stream'[x] = "open" <=> ~sessions'[x].is_closed
      BY <1>1, <1>2, <1>3, <2>2 DEF StreamInv
    <2> QED
      BY <2>3, <2>4, <2>5, <2>6 DEF StreamInv
  <1> QED
    BY <1>4, <1>5

\* The steps that touch neither the sessions nor what is kept for them.
LEMMA StepOnSessions ==
  ASSUME TypeInv, [Next]_vars
  PROVE  \/ UNCHANGED <<issued, sessions, serving, stream, set, early>>
         \/ \E e \in Extensions, b \in Batches : Open(e, b)
         \/ \E op \in SessionOp, s \in SessionIds, b \in Batches : Use(op, s, b)
         \/ \E s \in SessionIds : Close(s)
  <1> DEFINE Same == UNCHANGED <<issued, sessions, serving, stream, set, early>>
  <1>1. ASSUME UNCHANGED vars PROVE Same
    BY <1>1 DEF vars, sessionVars, pluginVars
  <1>2. ASSUME NEW e \in Extensions, ExtensionStep(e)
        PROVE  Same \/ \E b \in Batches : Open(e, b)
    BY <1>2 DEF ExtensionStep, Load, Activate, Deactivate, OpenRefused, OpenFails,
       sessionVars, pluginVars
  <1>3. ASSUME NEW s \in SessionIds, SessionStep(s)
        PROVE  Same \/ Close(s) \/ \E op \in SessionOp, b \in Batches : Use(op, s, b)
    BY <1>3 DEF SessionStep, UseRefused, UseFails, sessionVars, pluginVars
  <1>4. ASSUME NEW i \in Instances, PluginDies(i) PROVE Same
    BY <1>4 DEF PluginDies, sessionVars
  <1> QED
    BY <1>1, <1>2, <1>3, <1>4 DEF Next, Terminated

THEOREM StreamsFollowSessions == Spec => []StreamInv
  <1>1. Init => StreamInv
    BY DEF Init, StreamInv
  <1>2. TypeInv /\ StreamInv /\ [Next]_vars => StreamInv'
    <2> SUFFICES ASSUME TypeInv, StreamInv, [Next]_vars PROVE StreamInv'
      OBVIOUS
    <2>1. CASE UNCHANGED <<issued, sessions, serving, stream, set, early>>
      BY <2>1 DEF StreamInv
    <2> QED
      BY <2>1, OpenStream, UseStream, CloseStream, StepOnSessions
  <1> QED
    BY <1>1, <1>2, SessionTypes, PTL DEF Spec

\* Whatever a plugin reports and whenever it dies or is replaced, flush_session_events
\* writes nothing for a session the host has seen end, by a close it was answered, an end
\* or a quota error; for every id but those the host closed before they were issued.
THEOREM NothingFollowsTheEnd == Spec => []NothingAfterEnd
  <1>1. StreamInv => NothingAfterEnd
    BY DEF StreamInv, NothingAfterEnd
  <1> QED
    BY <1>1, StreamsFollowSessions, PTL

\* require_session_mut and the is_closed check refuse exactly the sessions the host has
\* seen end, also after the eviction of their tombstones; for every id but those the host
\* closed before they were issued.
THEOREM HostAndKernelAgree == Spec => []HostAgrees
  <1>1. TypeInv /\ StreamInv => HostAgrees
    <2> SUFFICES ASSUME TypeInv, StreamInv, NEW s \in 1..issued \ early
                 PROVE  Usable(s) <=> stream[s] = "open"
      BY DEF HostAgrees
    <2>1. s \in SessionIds
      BY NumberFacts DEF SessionIds
    <2> QED
      BY <2>1 DEF StreamInv, Usable
  <1> QED
    BY <1>1, SessionTypes, StreamsFollowSessions, PTL

-----------------------------------------------------------------------------
(* What running plugins keep for sessions.                                  *)

\* The session under which the host can close what is kept as t.
Held(t, e) ==
  \E s \in DOMAIN sessions :
    ExtensionOf(s) = e /\ sessions[s].opened_at = t[1] /\ sessions[s].runtime = t[2]

HeldInv ==
  \A e \in Extensions : \A t \in serving : t[1] = handle[e] /\ t[1] \in alive => Held(t, e)

LEMMA HeldMeansHeld == TypeInv => (PluginSessionsHeld <=> HeldInv)
  <1> SUFFICES ASSUME TypeInv PROVE PluginSessionsHeld <=> HeldInv
    OBVIOUS
  <1>1. ASSUME NEW t \in serving, NEW e \in Extensions
        PROVE  Held(t, e) <=> \E s \in DOMAIN sessions :
                                /\ ExtensionOf(s) = e
                                /\ <<sessions[s].opened_at, sessions[s].runtime>> = t
    <2>1. t = <<t[1], t[2]>>
      BY DEF TypeInv, TypeParts, PluginTypes
    <2> QED
      BY <2>1 DEF Held
  <1> QED
    BY <1>1 DEF PluginSessionsHeld, HeldInv

\* A step that adds nothing to serving and gives no extension an instance that runs
\* keeps the sessions held, as long as it keeps the sessions.
LEMMA FewerInstances ==
  ASSUME HeldInv, UNCHANGED <<sessions, serving>>, alive' \cap {t[1] : t \in serving} \subseteq alive,
         \A e \in Extensions : handle'[e] = handle[e] \/ handle'[e] \notin {t[1] : t \in serving}
  PROVE  HeldInv'
  BY DEF HeldInv, Held, ExtensionOf

LEMMA OpenHeld ==
  ASSUME TypeInv, HeldInv, NEW e \in Extensions, NEW b \in Batches, Open(e, b)
  PROVE  HeldInv'
  <1> DEFINE s == issued + 1
             i == handle[e]
             n == numbered[i] + 1
             closed == AppendSessionEvents(b).closed
  <1>1. s \notin DOMAIN sessions
    BY NumberFacts DEF TypeInv, TypeParts, TableTypes
  <1>2. /\ i \in alive /\ serving' = serving \cup {<<i, n>>} /\ UNCHANGED <<handle, alive>>
        /\ sessions' = [x \in DOMAIN sessions \cup {s} |->
                          IF x = s THEN [extension |-> e, runtime |-> n,
                                         opened_at |-> i, is_closed |-> closed]
                          ELSE sessions[x]]
    BY DEF Open, NextId
  <1>3. i # NoInstance
    BY <1>2 DEF TypeInv, TypeParts, PluginTypes, Instances, NoInstance
  <1> HIDE DEF s, i, n, closed
  <1>4. /\ s \in DOMAIN sessions' /\ sessions'[s].extension = e
        /\ sessions'[s].opened_at = i /\ sessions'[s].runtime = n
        /\ \A x \in DOMAIN sessions : x \in DOMAIN sessions' /\ sessions'[x] = sessions[x]
    BY <1>1, <1>2
  <1>5. ASSUME NEW f \in Extensions, NEW t \in serving, t[1] = handle[f], t[1] \in alive
        PROVE  Held(t, f)'
    BY <1>4, <1>5 DEF HeldInv, Held, ExtensionOf
  <1>6. ASSUME NEW f \in Extensions, NEW t, t = <<i, n>>, t[1] = handle[f]
        PROVE  Held(t, f)'
    <2>1. f = e
      BY <1>3, <1>6 DEF i, TypeInv, InstancesFresh
    <2>2. t[1] = i /\ t[2] = n
      BY <1>6
    <2> QED
      BY <1>4, <2>1, <2>2 DEF Held, ExtensionOf
  <1> QED
    BY <1>2, <1>5, <1>6 DEF HeldInv

LEMMA UseHeld ==
  ASSUME TypeInv, HeldInv, NEW op \in SessionOp, NEW s \in SessionIds, NEW b \in Batches,
         Use(op, s, b)
  PROVE  HeldInv'
  <1> DEFINE closed == AppendSessionEvents(b).closed
  <1>1. s \in DOMAIN sessions /\ sessions' = [sessions EXCEPT ![s].is_closed = closed]
    BY CallableFacts DEF Use
  <1>2. sessions[s] \in [extension : Extensions, runtime : SessionIds,
                         opened_at : Instances, is_closed : BOOLEAN]
    BY <1>1 DEF TypeInv, TypeParts, TableTypes
  <1> HIDE DEF closed
  <1>3. /\ DOMAIN sessions' = DOMAIN sessions
        /\ \A x \in DOMAIN sessions : /\ sessions'[x].extension = sessions[x].extension
                                      /\ sessions'[x].opened_at = sessions[x].opened_at
                                      /\ sessions'[x].runtime = sessions[x].runtime
    BY <1>1, <1>2
  <1> QED
    BY <1>3 DEF Use, pluginVars, HeldInv, Held, ExtensionOf

LEMMA CloseHeld ==
  ASSUME TypeInv, HeldInv, NEW s \in SessionIds, Close(s)
  PROVE  HeldInv'
  <1>1. UNCHANGED <<handle, alive>>
    BY DEF Close
  <1>2. CASE s \in set
    BY <1>1, <1>2 DEF Close, HeldInv, Held, ExtensionOf
  <1>3. CASE s \notin set
    <2>1. sessions' = [x \in DOMAIN sessions \ {s} |-> sessions[x]] /\ serving' = serving \ Target(s)
      BY <1>3 DEF Close
    <2> SUFFICES ASSUME NEW e \in Extensions, NEW t \in serving',
                        t[1] = handle[e], t[1] \in alive
                 PROVE  Held(t, e)'
      BY <1>1 DEF HeldInv
    <2>2. PICK x \in DOMAIN sessions : /\ ExtensionOf(x) = e /\ sessions[x].opened_at = t[1]
                                       /\ sessions[x].runtime = t[2]
      BY <2>1 DEF HeldInv, Held
    <2>3. x # s
      <3>1. t = <<t[1], t[2]>>
        BY <2>1 DEF TypeInv, TypeParts, PluginTypes
      <3>2. handle[e] # NoInstance
        BY <2>1 DEF TypeInv, TypeParts, PluginTypes, Instances, NoInstance
      <3>3. x = s => t \in Target(s)
        BY <2>2, <3>1, <3>2 DEF Target
      <3> QED
        BY <2>1, <3>3
    <2>4. x \in DOMAIN sessions' /\ sessions'[x] = sessions[x]
      BY <2>1, <2>2, <2>3
    <2> QED
      BY <2>2, <2>4 DEF Held, ExtensionOf
  <1> QED
    BY <1>2, <1>3

LEMMA LifecycleHeld ==
  ASSUME TypeInv, HeldInv, NEW e \in Extensions,
         Activate(e) \/ Deactivate(e) \/ \E c \in Contracts : Load(e, c)
  PROVE  HeldInv'
  <1>1. \A t \in serving : t[1] # NoInstance /\ t[1] # started + 1
    <2>1. \A t \in serving : t[1] \in Nat /\ t[1] <= started
      BY NumberFacts
    <2>2. \A t \in serving : t[1] \in Instances
      BY DEF TypeInv, TypeParts, PluginTypes
    <2>3. NoInstance \notin Instances /\ started \in Nat
      BY NumberFacts DEF NoInstance, Instances
    <2> QED
      BY <2>1, <2>2, <2>3
  <1>2. DOMAIN handle = Extensions
    BY DEF TypeInv, TypeParts, PluginTypes
  <1>3. ASSUME NEW c \in Contracts, Load(e, c) PROVE HeldInv'
    <2>1. \A f \in Extensions : handle'[f] = handle[f] \/ handle'[f] = NoInstance
      BY <1>2, <1>3 DEF Load
    <2>2. UNCHANGED <<sessions, serving, alive>>
      BY <1>3 DEF Load, sessionVars
    <2> QED
      BY <1>1, <2>1, <2>2, FewerInstances
  <1>4. ASSUME Activate(e) PROVE HeldInv'
    <2>1. \A f \in Extensions : handle'[f] = handle[f] \/ handle'[f] = started + 1
      BY <1>2, <1>4 DEF Activate
    <2>2. UNCHANGED <<sessions, serving>> /\ alive' \subseteq alive \cup {started + 1}
      BY <1>4 DEF Activate, sessionVars
    <2> QED
      BY <1>1, <2>1, <2>2, FewerInstances
  <1>5. ASSUME Deactivate(e) PROVE HeldInv'
    <2>1. UNCHANGED <<sessions, serving, handle>> /\ alive' \subseteq alive
      BY <1>5 DEF Deactivate, sessionVars
    <2> QED
      BY <2>1, FewerInstances
  <1> QED
    BY <1>3, <1>4, <1>5

\* For every runtime session that a running plugin was never asked to close the kernel
\* has the session under which the host can close it, across reloads, restarts, quota
\* errors and deaths, and whether or not plugins obey the closes they are sent.
THEOREM NothingIsOrphaned == Spec => []PluginSessionsHeld
  <1>1. Init => HeldInv
    BY DEF Init, HeldInv
  <1>2. TypeInv /\ HeldInv /\ [Next]_vars => HeldInv'
    <2> SUFFICES ASSUME TypeInv, HeldInv, [Next]_vars PROVE HeldInv'
      OBVIOUS
    <2>1. ASSUME UNCHANGED vars PROVE HeldInv'
      BY <2>1 DEF vars, sessionVars, pluginVars, HeldInv, Held, ExtensionOf
    <2>2. ASSUME NEW e \in Extensions, ExtensionStep(e) PROVE HeldInv'
      <3>1. ASSUME OpenRefused(e) \/ OpenFails(e) PROVE HeldInv'
        <4>1. UNCHANGED <<sessions, serving, handle, alive>>
          BY <3>1 DEF OpenRefused, OpenFails, sessionVars, pluginVars
        <4> QED
          BY <4>1, FewerInstances
      <3> QED
        BY <2>2, <3>1, OpenHeld, LifecycleHeld DEF ExtensionStep
    <2>3. ASSUME NEW s \in SessionIds, SessionStep(s) PROVE HeldInv'
      <3>1. ASSUME NEW op, UseRefused(op, s) \/ UseFails(op, s) PROVE HeldInv'
        <4>1. UNCHANGED <<sessions, serving, handle, alive>>
          BY <3>1 DEF UseRefused, UseFails, sessionVars, pluginVars
        <4> QED
          BY <4>1, FewerInstances
      <3> QED
        BY <2>3, <3>1, UseHeld, CloseHeld DEF SessionStep
    <2>4. ASSUME NEW i \in Instances, PluginDies(i) PROVE HeldInv'
      <3>1. UNCHANGED <<sessions, serving, handle>> /\ alive' \subseteq alive
        BY <2>4 DEF PluginDies, sessionVars
      <3> QED
        BY <3>1, FewerInstances
    <2> QED
      BY <2>1, <2>2, <2>3, <2>4 DEF Next, Terminated
  <1>3. TypeInv /\ HeldInv => PluginSessionsHeld
    BY HeldMeansHeld
  <1> QED
    BY <1>1, <1>2, <1>3, SessionTypes, PTL DEF Spec

=============================================================================
