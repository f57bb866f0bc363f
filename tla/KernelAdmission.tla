--------------------------- MODULE KernelAdmission ---------------------------
(***************************************************************************)
(* Admission and resource policy in the kernel: kernel.policy.set, the     *)
(* policy part of kernel.load, and what kernel.activate gives an instance  *)
(* (rust/extensions-kernel/src/lib.rs).                                    *)
(*                                                                         *)
(* One thread runs all of it, so a handler is one action.  Sizes are in    *)
(* MiB: the kernel multiplies them into wasm pages.  SecurityCore judges   *)
(* the manifest in the security context the host sends with each load.  A  *)
(* load that fails after its admission ends the daemon, while a host that  *)
(* embeds the kernel goes on with what the failed handler left behind.     *)
(***************************************************************************)
EXTENDS Naturals, Sequences, FiniteSets, FiniteSetsExt, SequencesExt, SecurityCore

CONSTANTS
  Extensions,
  Embedded,      \* does the host embed the kernel (C ABI), or run the daemon?
  Requests,      \* what a load may ask for
  Contexts,      \* the security contexts a load may carry, and the time it is sent
  Policies,      \* the policies the host may set
  Calibrations,  \* what calibrate_ns_per_fuel may measure
  Modulus,       \* 2^64: sums of memory sizes wrap (a debug build panics instead)
  DefaultCap,    \* MEMORY_LIMIT_PAGES, in MiB
  DefaultFuel,   \* DEFAULT_CALL_FUEL
  MaxOverrides   \* bound: loads admitted by override

ASSUME AdmissionAssumption ==
  /\ Embedded \in BOOLEAN
  /\ Modulus \in Nat \ {0}
  /\ DefaultCap \in Nat /\ DefaultFuel \in Nat /\ MaxOverrides \in Nat

Classes == <<"batch", "interactive", "realtime">>
Tiers == {Classes[i] : i \in DOMAIN Classes}
TierLists == UNION {[1..n -> Tiers] : n \in 0..3}

\* A field that may be left out is a set of at most one element.
IsOptional(option) == option \subseteq Nat /\ \A x, y \in option : x = y
Default(option, d) == CHOOSE x \in (IF option = {} THEN {d} ELSE option) : TRUE

\* What admission reads of a load: the manifest with its extension class, the
\* realtime classes of its capabilities, and the largest memory peak and per-tick
\* fuel they declare (0: none).
ASSUME RequestsAssumption ==
  \A r \in Requests :
    /\ r.manifest.class \in {"standard", "resident"}
    /\ r.capabilities \in Seq(Tiers)
    /\ r.memory \in Nat /\ r.slice \in Nat
    /\ \A t \in r.manifest.trust : t.expires \subseteq Nat

\* A trust bundle is a list of issuers.
ASSUME ContextsAssumption ==
  \A c \in Contexts : c.now \in Nat /\ \A bundle \in c.bundle : bundle \in Seq(Range(bundle))

\* A policy as the host sends it; budget is the frame budget in nanoseconds.
ASSUME PoliciesAssumption ==
  /\ \A p \in Policies :
       /\ p.caps \in [Tiers -> Nat]
       /\ \A option \in {p.total, p.override, p.budget, p.share} : IsOptional(option)
  /\ Calibrations \subseteq Nat \ {0}

VARIABLES
  policy,        \* the policy in force, NoPolicy before the first policy.set
  loaded,        \* request, memory cap and security status of each loaded extension
  reservations,  \* KernelDaemon.reservations
  instance,      \* memory cap and fuel of each extension's runtime handle
  overrides,     \* number of policy.consent_override records
  reply,         \* the last answer; of a successful load also the extension and the
                 \* security context that came with it
  exited

vars == <<policy, loaded, reservations, instance, overrides, reply, exited>>

NoPolicy == [total |-> {}, caps |-> [t \in Tiers |-> DefaultCap], fuel |-> {}]

Init ==
  /\ policy = NoPolicy
  /\ loaded = <<>>
  /\ reservations = <<>>
  /\ instance = <<>>
  /\ overrides = 0
  /\ reply = [op |-> "none"]
  /\ exited = FALSE

Without(f, x) == [y \in DOMAIN f \ {x} |-> f[y]]
With(f, x, v) == [y \in DOMAIN f \cup {x} |-> IF y = x THEN v ELSE f[y]]

-----------------------------------------------------------------------------
(* kernel.policy.set: replaces the policy.  What is loaded, reserved or running
   keeps what it was given.                                                 *)

\* Fuel per call: the override, or the plugin's share (by default 5 percent) of the
\* frame budget at the measured speed.
DeriveFuel(p, nsPerFuel) ==
  IF p.override # {} THEN p.override
  ELSE {Max({1, (budget * Default(p.share, 5)) \div (100 * nsPerFuel)}) : budget \in p.budget}

SetPolicy(p, nsPerFuel) ==
  /\ ~exited
  /\ policy' = [total |-> p.total, caps |-> p.caps, fuel |-> DeriveFuel(p, nsPerFuel)]
  /\ reply' = [op |-> "policy"]
  /\ UNCHANGED <<loaded, reservations, instance, overrides, exited>>

-----------------------------------------------------------------------------
(* kernel.load.                                                             *)

\* Broken variant: the last capability decides.
StricterLast(tier, class) == class

\* One turn of the loop over capabilities in policy_memory_limits.
Stricter(tier, class) ==
  IF class = "realtime" \/ (class = "interactive" /\ tier # "realtime") THEN class ELSE tier

StrictestTier(classes) ==
  LET tier[n \in 0..Len(classes)] ==
        IF n = 0 THEN "batch" ELSE Stricter(tier[n - 1], classes[n])
  IN  tier[Len(classes)]

TierCap(r) == policy.caps[StrictestTier(r.capabilities)]

\* Broken variant: reservations of residents that are not active do not count.
OtherReservedActive(e) ==
  MapThenSumSet(LAMBDA x : reservations[x].memory,
                (DOMAIN reservations \cap DOMAIN instance) \ {e})

OtherReserved(e) ==
  MapThenSumSet(LAMBDA x : reservations[x].memory, DOMAIN reservations \ {e})

\* A resident is refused without a total budget or a declared peak.
NotAdmissible(r) ==
  r.manifest.class = "resident" /\ (policy.total = {} \/ r.memory = 0)

\* What the host may consent to: a peak beyond the tier's cap, or reservations
\* beyond the total.  Without a policy a declared peak is not looked at.
NeedsConsent(e, r) ==
  IF r.manifest.class = "resident"
  THEN \A total \in policy.total : (r.memory + OtherReserved(e)) % Modulus > total
  ELSE policy # NoPolicy /\ r.memory > TierCap(r)

\* The hard memory cap of an admitted extension.
CapOf(e, r) == IF r.manifest.class = "resident" \/ NeedsConsent(e, r) THEN r.memory
               ELSE TierCap(r)

\* evaluate_security accepts the manifest.
Trusted(r, c) == Verdict(r.manifest, c) # "refused"

LoadRejected(e, r, c) ==
  /\ ~exited
  /\ ~Trusted(r, c) \/ NotAdmissible(r)
  /\ reply' = [op |-> "rejected"]
  /\ UNCHANGED <<policy, loaded, reservations, instance, overrides, exited>>

LoadNeedsConsent(e, r, c) ==
  /\ ~exited
  /\ Trusted(r, c) /\ ~NotAdmissible(r)
  /\ NeedsConsent(e, r)
  /\ reply' = [op |-> "consent"]
  /\ UNCHANGED <<policy, loaded, reservations, instance, overrides, exited>>

Admitted(e, r, c, consent) ==
  /\ ~exited
  /\ Trusted(r, c) /\ ~NotAdmissible(r)
  /\ NeedsConsent(e, r) => consent /\ overrides < MaxOverrides
  /\ overrides' = IF NeedsConsent(e, r) THEN overrides + 1 ELSE overrides

Reservation(r) == [memory |-> r.memory, slice |-> r.slice]

\* Broken variant: the old reservation stays when the new load reserves nothing.
ReserveOverOld(e, r) ==
  IF r.manifest.class = "resident" THEN With(reservations, e, Reservation(r))
  ELSE reservations

\* The old reservation is released, and a resident's new one taken.
Reserve(e, r) ==
  IF r.manifest.class = "resident" THEN With(reservations, e, Reservation(r))
  ELSE Without(reservations, e)

\* A load that succeeds; the runtime handle is dropped.
Load(e, r, c, consent) ==
  /\ Admitted(e, r, c, consent)
  /\ reservations' = Reserve(e, r)
  /\ loaded' = With(loaded, e, [request |-> r, cap |-> CapOf(e, r),
                               status |-> Verdict(r.manifest, c)])
  /\ instance' = Without(instance, e)
  /\ reply' = [op |-> "load", extension |-> e, context |-> c]
  /\ UNCHANGED <<policy, exited>>

\* Broken variant: the failed load unloads what was loaded before.
LoadFailsUnloads(e, r, c, consent) ==
  /\ Admitted(e, r, c, consent)
  /\ reservations' = Without(reservations, e)
  /\ loaded' = Without(loaded, e)
  /\ exited' = ~Embedded
  /\ reply' = [op |-> "error"]
  /\ UNCHANGED <<policy, instance>>

\* validate_runtime_load_contract fails (a remote endpoint does not answer), after
\* the old reservation was released and before anything else was replaced.
LoadFails(e, r, c, consent) ==
  /\ Admitted(e, r, c, consent)
  /\ reservations' = Without(reservations, e)
  /\ exited' = ~Embedded
  /\ reply' = [op |-> "error"]
  /\ UNCHANGED <<policy, loaded, instance>>

-----------------------------------------------------------------------------
(* kernel.activate.                                                         *)

\* Broken variant: a frame policy overrides the resident's floor.
CallFuelPolicyFirst(e) ==
  IF e \in DOMAIN reservations /\ policy.fuel = {}
  THEN Max({reservations[e].slice, DefaultFuel})
  ELSE Default(policy.fuel, DefaultFuel)

\* Fuel per call: at least the reserved slice, else what the policy derives, else
\* the default.
CallFuel(e) ==
  LET derived == Default(policy.fuel, DefaultFuel)
  IN  IF e \in DOMAIN reservations THEN Max({reservations[e].slice, derived})
      ELSE derived

\* An extension with a handle keeps its instance and what it was given.
Activate(e) ==
  /\ ~exited
  /\ e \in DOMAIN loaded
  /\ instance' = IF e \in DOMAIN instance THEN instance
                 ELSE With(instance, e, [cap |-> loaded[e].cap, fuel |-> CallFuel(e)])
  /\ reply' = [op |-> "activate"]
  /\ UNCHANGED <<policy, loaded, reservations, overrides, exited>>

-----------------------------------------------------------------------------

LoadStep(e, r, c) ==
  \/ LoadRejected(e, r, c)
  \/ LoadNeedsConsent(e, r, c)
  \/ \E consent \in BOOLEAN : Load(e, r, c, consent)
  \/ \E consent \in BOOLEAN : LoadFails(e, r, c, consent)

Next ==
  \/ \E p \in Policies, nsPerFuel \in Calibrations : SetPolicy(p, nsPerFuel)
  \/ \E e \in Extensions, r \in Requests, c \in Contexts : LoadStep(e, r, c)
  \/ \E e \in Extensions : Activate(e)
  \/ exited /\ UNCHANGED vars

Spec == Init /\ [][Next]_vars

-----------------------------------------------------------------------------
(* Properties.                                                              *)

\* Type correctness.
TypeOK ==
  /\ IsOptional(policy.total) /\ IsOptional(policy.fuel)
  /\ policy.caps \in [Tiers -> Nat]
  /\ DOMAIN loaded \subseteq Extensions
  /\ DOMAIN reservations \subseteq DOMAIN loaded
  /\ DOMAIN instance \subseteq DOMAIN loaded
  /\ \A e \in DOMAIN loaded :
       loaded[e] \in [request : Requests, cap : Nat,
                     status : {"unsigned", "third-party-untrusted", "authorized-safe"}]
  /\ \A e \in DOMAIN reservations : reservations[e] \in [memory : Nat, slice : Nat]
  /\ \A e \in DOMAIN instance : instance[e] \in [cap : Nat, fuel : Nat]
  /\ overrides \in Nat
  /\ exited \in BOOLEAN

\* The policy in force gives a manifest the cap of the strictest class it declares,
\* in whatever order its capabilities are declared.
TierIsStrictest ==
  \A classes \in TierLists :
    policy.caps[StrictestTier(classes)] =
      policy.caps[Classes[Max({1} \cup {i \in DOMAIN Classes :
                                          Contains(classes, Classes[i])})]]

Reserved == MapThenSumSet(LAMBDA e : reservations[e].memory, DOMAIN reservations)

\* The extension whose load this step answers with ok.
LoadedNow(e) == reply'.op = "load" /\ reply'.extension = e

\* A load may take the reserved memory beyond the host's total, or an extension's cap
\* beyond its tier, only as a recorded exception.
ExceptionsAreRecorded ==
  [][\A e \in DOMAIN loaded' :
       LoadedNow(e) =>
         LET r == loaded'[e].request
         IN  \/ overrides' > overrides
             \/ r.manifest.class = "resident" /\ \A total \in policy.total : Reserved' <= total
             \/ r.manifest.class = "standard" /\ loaded'[e].cap <= TierCap(r)]_vars

\* Names the manifest m, its signer or its declared origin in the revocation list r.
Names(r, m) ==
  \/ \E s \in m.signature : s.complete /\ s.keyId \in r.keys
  \/ \E t \in m.trust : t.publisher \in r.publishers \/ t.issuer \in r.issuers

\* What the context c says for a manifest m loaded with this status: its revocation
\* lists do not name it; above unsigned, one of the host's keys signed that very
\* manifest; as authorized, an authorized issuer of the bundle vouches for it now.
VouchedFor(m, status, c) ==
  LET Keys == {c.keys[id] : id \in DOMAIN c.keys}
                \cup {c.directory[id] : id \in DOMAIN c.directory}
  IN  /\ \A r \in c.revoked : ~Names(r, m)
      /\ status # "unsigned" => \E s \in m.signature : s.by \in Keys /\ s.of = Unsigned(m)
      /\ status = "unsigned" =>
           \/ c.policy = {"allow-unsigned"}
           \/ c.development /\ c.policy \subseteq {"require-signature-except-development"}
      /\ status = "authorized-safe" =>
           \E t \in m.trust, b \in c.bundle : \E i \in DOMAIN b :
             /\ b[i].authorized /\ b[i].id = t.issuer /\ b[i].domain = t.domain
             /\ \A at \in t.expires : c.now < at

\* Nothing is loaded that the host's revocation list names, signed or not; what has a
\* status above unsigned carries a signature that one of the host's keys made over
\* that very manifest; and what is called authorized is vouched for, at that time, by
\* an authorized issuer of the host's bundle.
LoadedIsVouched ==
  [][\A e \in DOMAIN loaded' :
       LoadedNow(e) =>
         VouchedFor(loaded'[e].request.manifest, loaded'[e].status, reply'.context)]_vars

\* Every loaded resident holds the memory and fuel it declares, for as long as it is
\* loaded, and nobody else holds any.
ReservedForTheLoad ==
  ~exited =>
    /\ DOMAIN reservations =
         {e \in DOMAIN loaded : loaded[e].request.manifest.class = "resident"}
    /\ \A e \in DOMAIN reservations :
         reservations[e] = [memory |-> loaded[e].cap, slice |-> loaded[e].request.slice]

\* An instance runs under the limits of the load that is in force: its memory cap is
\* the admitted one, and a resident gets at least its reserved slice on every call,
\* however often the policy and the load changed.  (Only the floor: handle_activate takes
\* the larger of slice and frame share, though its comment says at most the latter.)
InstanceAsAdmitted ==
  \A e \in DOMAIN instance :
    /\ instance[e].cap = loaded[e].cap
    /\ e \in DOMAIN reservations => instance[e].fuel >= reservations[e].slice
=============================================================================
