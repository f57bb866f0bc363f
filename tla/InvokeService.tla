---------------------------- MODULE InvokeService ----------------------------
(***************************************************************************)
(* What the kernel's asynchronous scheduler promises its host, with the    *)
(* threads, queues and locks of rust/extensions-kernel left out.  A host   *)
(* sends each invoke once; the service answers it on the spot, or accepts  *)
(* it while fewer than cap accepted invokes are still executing, executes  *)
(* it, and then answers it exactly once.  The service may stop for good.   *)
(*                                                                         *)
(* KernelScheduler implements this specification; that an accepted invoke  *)
(* is answered in the end is a liveness property stated there.             *)
(***************************************************************************)
EXTENDS Naturals, FiniteSets

CONSTANTS Requests,     \* the invokes a host may send
          Caps          \* the queueCap values a host may configure

VARIABLES status,       \* "idle", "executing", "finished" or "answered"
          cap,          \* the queueCap in force
          up            \* FALSE once the service has stopped

vars == <<status, cap, up>>

Executing == {r \in Requests : status[r] = "executing"}

Init == /\ status = [r \in Requests |-> "idle"]
        /\ cap \in Caps
        /\ up = TRUE

Move(r, from, to) == /\ up
                     /\ status[r] = from
                     /\ status' = [status EXCEPT ![r] = to]
                     /\ UNCHANGED <<cap, up>>

\* The backpressure promise: a slot is taken only while one is free.
Accept(r) == Cardinality(Executing) < cap /\ Move(r, "idle", "executing")

Finish(r) == Move(r, "executing", "finished")

Deliver(r) == Move(r, "finished", "answered")

\* A refusal (KERNEL_BUSY, not active) or a synchronous answer.
AnswerAtOnce(r) == Move(r, "idle", "answered")

Reconfigure == /\ up
               /\ cap' \in Caps
               /\ UNCHANGED <<status, up>>

Stop == up /\ up' = FALSE /\ UNCHANGED <<status, cap>>

Stopped == ~up /\ UNCHANGED vars

Next == \/ \E r \in Requests : \/ Accept(r)
                               \/ Finish(r)
                               \/ Deliver(r)
                               \/ AnswerAtOnce(r)
        \/ Reconfigure
        \/ Stop
        \/ Stopped

Spec == Init /\ [][Next]_vars
=============================================================================
