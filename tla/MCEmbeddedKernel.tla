-------------------------- MODULE MCEmbeddedKernel --------------------------
(***************************************************************************)
(* EmbeddedKernel on small instances.                                      *)
(***************************************************************************)
EXTENDS EmbeddedKernel

LoadOf(exports, soft, hard, slice) ==
  [exports |-> exports, soft |-> soft, hard |-> hard, initial |-> 1, slice |-> slice,
   fuel |-> 3]

\* A resident with every export and a slice of one unit of fuel, and a plugin that
\* can be called with JSON only and starts at its limit.
MCLoads == {LoadOf({"ext_call", "ext_tick", "lifecycle"}, 1, 3, {1}),
            LoadOf({"numeric"}, 1, 1, {})}

Guest(burn, grow, answer) == [burn |-> burn, grow |-> grow, answer |-> answer]

\* Within the slice; above it, with growth; beyond the fuel, after a growth that is
\* denied; and a request that cannot be written.
MCGuests == {Guest(1, 0, "ok"), Guest(2, 1, "ok"), Guest(4, 3, "ok"), Guest(0, 0, "bad")}

Symmetry == Permutations(Extensions)
=============================================================================
