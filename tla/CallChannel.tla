----------------------------- MODULE CallChannel -----------------------------
(***************************************************************************)
(* What the channel to a plugin process promises the kernel's threads,     *)
(* with the pipe, the reader thread, the table of pending calls and the    *)
(* staging queue of rust/extensions-kernel left out.  Calls are served one *)
(* at a time.  Each ends once, with a failure or with an answer the plugin *)
(* gave to that very call.  A session operation the plugin has granted     *)
(* does not give up its turn before it has handed on the session's events: *)
(* the first ones printed, in order, each once, and at least those that    *)
(* were printed before the answer.                                         *)
(*                                                                         *)
(* ProcessChannel implements this specification; that the death of the     *)
(* plugin releases its callers is a liveness property stated there.        *)
(***************************************************************************)
EXTENDS Naturals, Sequences

CONSTANTS Callers, NoCaller, Sessions, Ops,
          MaxEvents     \* bound: events of a session

VARIABLES turn,      \* the caller being served, or NoCaller
          made,      \* the number of calls made
          call,      \* the number of each caller's latest call
          op,        \* what that call asks for
          result,    \* what it returned
          answered,  \* the calls the plugin has answered
          emitted,   \* the number of events printed for each session
          handed     \* the events handed on for each session

vars == <<turn, made, call, op, result, answered, emitted, handed>>

None == [state |-> "absent"]
Failed == [state |-> "failed"]

\* Numbers of events that were printed at some time.
Printed == {n \in [Sessions -> 0..MaxEvents] : \A s \in Sessions : n[s] <= emitted[s]}

\* What call i can return.
Results(i) ==
  {Failed} \cup [state : {"answered"}, of : {i} \cap answered, ok : BOOLEAN, seen : Printed]

\* Does operation o have events to hand on when it returns x?
Hands(o, x) == o.kind \in {"session", "close"} /\ x.state = "answered" /\ x.ok

Init == /\ turn = NoCaller
        /\ made = 0
        /\ call = [c \in Callers |-> 0]
        /\ op \in [Callers -> Ops]
        /\ result = [c \in Callers |-> None]
        /\ answered = {}
        /\ emitted = [s \in Sessions |-> 0]
        /\ handed = [s \in Sessions |-> <<>>]

Open(c, o) == /\ turn = NoCaller
              /\ turn' = c
              /\ made' = made + 1
              /\ call' = [call EXCEPT ![c] = made + 1]
              /\ op' = [op EXCEPT ![c] = o]
              /\ result' = [result EXCEPT ![c] = None]
              /\ UNCHANGED <<answered, emitted, handed>>

\* The plugin answers a call, in time or not.
Answer(i) == /\ i \in 1..made
             /\ answered' = answered \cup {i}
             /\ UNCHANGED <<turn, made, call, op, result, emitted, handed>>

Emit(s) == /\ emitted' = [emitted EXCEPT ![s] = @ + 1]
           /\ UNCHANGED <<turn, made, call, op, result, answered, handed>>

Settle(c, x) == /\ turn = c
                /\ result[c] = None
                /\ result' = [result EXCEPT ![c] = x]
                /\ turn' \in IF Hands(op[c], x) THEN {c} ELSE {c, NoCaller}
                /\ UNCHANGED <<made, call, op, answered, emitted, handed>>

\* The first n events of its session are handed on: those that were, and the next ones.
HandOn(c, n) ==
  LET s == op[c].session
  IN  /\ turn = c
      /\ Hands(op[c], result[c])
      /\ n \in result[c].seen[s] .. emitted[s]
      /\ Len(handed[s]) <= n
      /\ handed' = [handed EXCEPT ![s] = [k \in 1..n |-> k]]
      /\ turn' = NoCaller
      /\ UNCHANGED <<made, call, op, result, answered, emitted>>

Release(c) == /\ turn = c
              /\ result[c] # None
              /\ ~Hands(op[c], result[c])
              /\ turn' = NoCaller
              /\ UNCHANGED <<made, call, op, result, answered, emitted, handed>>

Next == \/ \E c \in Callers : \/ \E o \in Ops : Open(c, o)
                              \/ \E x \in Results(call[c]) : Settle(c, x)
                              \/ \E n \in 0..MaxEvents : HandOn(c, n)
                              \/ Release(c)
        \/ \E i \in 1..made : Answer(i)
        \/ \E s \in Sessions : Emit(s)

Spec == Init /\ [][Next]_vars
=============================================================================
