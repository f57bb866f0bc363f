----------------------------- MODULE AuditStream -----------------------------
(***************************************************************************)
(* What the audit log promises the host of an embedded kernel, with the    *)
(* ring, its rows, the loop of a query and the plugins left out.  Entries  *)
(* are numbered from one.  A subscriber is sent every entry recorded       *)
(* since it subscribed, in order and once, whoever reads or restarts.  A   *)
(* reader that goes on from the last entry it read gets the next entries,  *)
(* and loses some only when it is more than Kept entries behind; then it   *)
(* goes on with the oldest that is kept.                                   *)
(***************************************************************************)
EXTENDS Naturals, Sequences

CONSTANT Kept      \* entries that can be read back

VARIABLES recorded,    \* the number of entries recorded
          streaming,   \* is there a subscriber?
          waiting,     \* the entries sent to it
          delivered,   \* and those it has taken
          cursor,      \* the last entry the reader read
          read         \* the entries it read

vars == <<recorded, streaming, waiting, delivered, cursor, read>>

Numbers(first, last) == [i \in 1..last - first + 1 |-> first + i - 1]

\* The first entry that a reader can still get.
NextKept == IF cursor + Kept < recorded THEN recorded - Kept + 1 ELSE cursor + 1

Init == /\ recorded = 0
        /\ streaming = FALSE
        /\ waiting = <<>> /\ delivered = <<>>
        /\ cursor = 0 /\ read = <<>>

Write == /\ recorded' \in Nat /\ recorded' > recorded
         /\ waiting' = IF streaming THEN waiting \o Numbers(recorded + 1, recorded') ELSE waiting
         /\ UNCHANGED <<streaming, delivered, cursor, read>>

Subscribe == /\ streaming' = TRUE
             /\ waiting' = <<>> /\ delivered' = <<>>
             /\ UNCHANGED <<recorded, cursor, read>>

Deliver == /\ waiting # <<>>
           /\ delivered' = delivered \o waiting
           /\ waiting' = <<>>
           /\ UNCHANGED <<recorded, streaming, cursor, read>>

Read == /\ cursor' \in NextKept .. recorded
        /\ read' = read \o Numbers(NextKept, cursor')
        /\ UNCHANGED <<recorded, streaming, waiting, delivered>>

\* The log starts again without a subscriber; what was sent can still be taken.
Restart == /\ recorded' = 0
           /\ streaming' = FALSE
           /\ cursor' = 0 /\ read' = <<>>
           /\ UNCHANGED <<waiting, delivered>>

Next == Write \/ Subscribe \/ Deliver \/ Read \/ Restart

Spec == Init /\ [][Next]_vars
=============================================================================
