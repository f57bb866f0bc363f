------------------------ MODULE KernelAdmissionProofs ------------------------
(***************************************************************************)
(* Proofs about KernelAdmission, for any extensions, requests, security    *)
(* contexts and policies, and for sums of memory sizes that wrap anywhere. *)
(***************************************************************************)
EXTENDS KernelAdmission, DataInduction

-----------------------------------------------------------------------------
(* Operators.                                                               *)

LEMMA ClassFacts ==
  /\ DOMAIN Classes = {1, 2, 3}
  /\ Classes[1] = "batch" /\ Classes[2] = "interactive" /\ Classes[3] = "realtime"
  /\ Tiers = {"batch", "interactive", "realtime"}
  <1>1. DOMAIN Classes = 1..3
    BY DEF Classes
  <1>2. 1..3 = {1, 2, 3}
    OBVIOUS
  <1>3. Classes[1] = "batch" /\ Classes[2] = "interactive" /\ Classes[3] = "realtime"
    BY DEF Classes
  <1> QED
    BY <1>1, <1>2, <1>3 DEF Tiers

LEMMA StricterType ==
  ASSUME NEW tier \in Tiers, NEW class \in Tiers
  PROVE  /\ Stricter(tier, class) \in Tiers
         /\ Stricter(tier, class) = "realtime" <=> tier = "realtime" \/ class = "realtime"
         /\ Stricter(tier, class) = "batch" <=> tier = "batch" /\ class = "batch"
  BY ClassFacts DEF Stricter

\* The loop's values exist and are tiers.
LEMMA TierUnfolds ==
  ASSUME NEW classes \in Seq(Tiers)
  PROVE  \E g \in [0..Len(classes) -> Tiers] :
           /\ g[0] = "batch"
           /\ \A n \in 1..Len(classes) : g[n] = Stricter(g[n - 1], classes[n])
           /\ StrictestTier(classes) = g[Len(classes)]
  <1> DEFINE L == Len(classes)
             Loop(f) == [n \in 0..L |-> IF n = 0 THEN "batch" ELSE Stricter(f[n - 1], classes[n])]
             next == [n \in 1..L |-> [t \in Tiers |-> Stricter(t, classes[n])]]
             tier == CHOOSE f : f = Loop(f)
  <1>1. L \in Nat /\ L \in 0..L /\ \A n \in 1..L : classes[n] \in Tiers /\ n \in 0..L /\ n # 0 /\ n - 1 \in 0..L
    OBVIOUS
  <1>2. "batch" \in Tiers
    BY ClassFacts
  <1>3. next \in [1..L -> [Tiers -> Tiers]]
    BY <1>1, StricterType
  <1>4. PICK g \in [0..L -> Tiers] : Unfolds(g, L, "batch", next)
    <2> HIDE DEF next, L
    <2> QED
      BY <1>1, <1>2, <1>3, PrefixRecursion
  <1>5. g[0] = "batch" /\ \A n \in 1..L : g[n] = Stricter(g[n - 1], classes[n])
    BY <1>1, <1>4 DEF Unfolds
  <1>6. g = Loop(g)
    <2>1. \A n \in 0..L : g[n] = IF n = 0 THEN "batch" ELSE Stricter(g[n - 1], classes[n])
      BY <1>1, <1>5
    <2> QED
      BY <1>4, <2>1
  <1>7. tier = Loop(tier)
    BY <1>6
  <1>8. tier[L] = g[L]
    <2> DEFINE S == {n \in 0..L : tier[n] = g[n]}
    <2>0. 0 \in 0..L
      BY <1>1
    <2>1. tier[0] = "batch" /\ \A n \in 1..L : tier[n] = Stricter(tier[n - 1], classes[n])
      <3> HIDE DEF tier
      <3> QED
        BY <1>1, <1>7, <2>0
    <2> HIDE DEF tier, L
    <2>2. 0 \in S
      BY <1>5, <2>0, <2>1
    <2>3. ASSUME NEW n \in 1..L, n - 1 \in S PROVE n \in S
      BY <1>1, <1>5, <2>1, <2>3
    <2>4. 0..L \subseteq S
      <3> HIDE DEF S
      <3> QED
        BY <1>1, <2>2, <2>3, PrefixInduction
    <2> QED
      BY <1>1, <2>4
  <1>9. StrictestTier(classes) = tier[L]
    BY DEF StrictestTier
  <1> QED
    BY <1>4, <1>5, <1>8, <1>9

\* By induction over the capabilities.
LEMMA StrictestFacts ==
  ASSUME NEW classes \in Seq(Tiers)
  PROVE  /\ StrictestTier(classes) \in Tiers
         /\ StrictestTier(classes) = "realtime" <=>
              \E i \in 1..Len(classes) : classes[i] = "realtime"
         /\ StrictestTier(classes) = "batch" <=>
              \A i \in 1..Len(classes) : classes[i] = "batch"
  <1> DEFINE L == Len(classes)
  <1>1. PICK g \in [0..L -> Tiers] :
           /\ g[0] = "batch"
           /\ \A n \in 1..L : g[n] = Stricter(g[n - 1], classes[n])
           /\ StrictestTier(classes) = g[L]
    BY TierUnfolds
  <1> DEFINE S == {n \in 0..L : /\ g[n] = "realtime" <=> \E i \in 1..n : classes[i] = "realtime"
                                /\ g[n] = "batch" <=> \A i \in 1..n : classes[i] = "batch"}
  <1>2. L \in Nat /\ L \in 0..L /\ 0 \in 0..L /\ \A n \in 1..L : classes[n] \in Tiers /\ n \in 0..L /\ n - 1 \in 0..L
    OBVIOUS
  <1>3. 0 \in S
    BY <1>1, <1>2
  <1>4. ASSUME NEW n \in 1..L, n - 1 \in S PROVE n \in S
    <2>1. \A i : i \in 1..n <=> i \in 1..n - 1 \/ i = n
      BY <1>2
    <2>2. g[n - 1] \in Tiers /\ classes[n] \in Tiers /\ g[n] = Stricter(g[n - 1], classes[n])
      BY <1>1, <1>2
    <2>3. /\ g[n] = "realtime" <=> g[n - 1] = "realtime" \/ classes[n] = "realtime"
          /\ g[n] = "batch" <=> g[n - 1] = "batch" /\ classes[n] = "batch"
      BY <2>2, StricterType
    <2> QED
      BY <1>2, <1>4, <2>1, <2>3
  <1> HIDE DEF S
  <1>5. 0..L \subseteq S
    <2> HIDE DEF L
    <2> QED
      BY <1>2, <1>3, <1>4, PrefixInduction
  <1>6. L \in S
    BY <1>2, <1>5
  <1> QED
    BY <1>1, <1>6 DEF S

\* In whatever order the capabilities of an extension are declared, and however many
\* there are, policy_memory_limits takes the cap of the strictest class among them.
THEOREM StrictestTierIsTaken == Spec => []TierIsStrictest
  <1>1. ASSUME NEW classes \in Seq(Tiers)
        PROVE  StrictestTier(classes) =
                 Classes[Max({1} \cup {i \in DOMAIN Classes : Contains(classes, Classes[i])})]
    <2> DEFINE I == {1} \cup {i \in DOMAIN Classes : Contains(classes, Classes[i])}
               Has(class) == \E j \in 1..Len(classes) : classes[j] = class
    <2>1. /\ 1 \in I /\ I \subseteq {1, 2, 3}
          /\ 2 \in I <=> Has("interactive")
          /\ 3 \in I <=> Has("realtime")
      BY ClassFacts DEF Contains
    <2>2. \A i \in I : i \in Nat /\ i <= 3
      BY <2>1
    <2>3. \A j \in 1..Len(classes) : classes[j] \in {"batch", "interactive", "realtime"}
      BY ClassFacts
    <2> HIDE DEF I
    <2>4. CASE Has("realtime")
      <3>1. Max(I) = 3
        BY <2>1, <2>2, <2>4, MaxFact
      <3> QED
        BY <2>4, <3>1, StrictestFacts, ClassFacts DEF I
    <2>5. CASE ~Has("realtime") /\ Has("interactive")
      <3>1. 2 \in I /\ \A i \in I : i \in Nat /\ i <= 2
        BY <2>1, <2>5
      <3>2. Max(I) = 2
        BY <3>1, MaxFact
      <3>3. StrictestTier(classes) = "interactive"
        BY <2>5, StrictestFacts, ClassFacts
      <3> QED
        BY <3>2, <3>3, ClassFacts DEF I
    <2>6. CASE ~Has("realtime") /\ ~Has("interactive")
      <3>1. 1 \in I /\ \A i \in I : i \in Nat /\ i <= 1
        BY <2>1, <2>6
      <3>2. Max(I) = 1
        BY <3>1, MaxFact
      <3>3. StrictestTier(classes) = "batch"
        BY <2>3, <2>6, StrictestFacts
      <3> QED
        BY <3>2, <3>3, ClassFacts DEF I
    <2> QED
      BY <2>4, <2>5, <2>6
  <1>2. TierIsStrictest
    <2> SUFFICES ASSUME NEW classes \in TierLists
                 PROVE  policy.caps[StrictestTier(classes)] =
                          policy.caps[Classes[Max({1} \cup {i \in DOMAIN Classes :
                                                     Contains(classes, Classes[i])})]]
      BY DEF TierIsStrictest
    <2>1. classes \in Seq(Tiers)
      <3>1. PICK n \in 0..3 : classes \in [1..n -> Tiers]
        BY DEF TierLists
      <3>2. n \in Nat
        OBVIOUS
      <3> QED
        BY <3>1, <3>2
    <2> QED
      BY <1>1, <2>1
  <1> QED
    BY <1>2, PTL

LEMMA DefaultType ==
  ASSUME NEW option, IsOptional(option), NEW d \in Nat
  PROVE  Default(option, d) \in Nat
  <1>1. \E x \in (IF option = {} THEN {d} ELSE option) : TRUE
    OBVIOUS
  <1>2. Default(option, d) \in (IF option = {} THEN {d} ELSE option)
    BY <1>1 DEF Default
  <1> QED
    BY <1>2 DEF IsOptional

LEMMA QuotientType ==
  ASSUME NEW a \in Nat, NEW b \in Nat, b > 0
  PROVE  a \div b \in Nat
  OBVIOUS

LEMMA ProductType ==
  ASSUME NEW a \in Nat, NEW b \in Nat
  PROVE  a * b \in Nat
  OBVIOUS

LEMMA DeriveFuelType ==
  ASSUME NEW p \in Policies, NEW nsPerFuel \in Calibrations
  PROVE  IsOptional(DeriveFuel(p, nsPerFuel))
  <1>1. IsOptional(p.override) /\ IsOptional(p.budget) /\ IsOptional(p.share)
    BY PoliciesAssumption
  <1>2. nsPerFuel \in Nat /\ nsPerFuel # 0
    BY PoliciesAssumption
  <1>3. 100 * nsPerFuel \in Nat /\ 100 * nsPerFuel > 0
    BY <1>2
  <1>4. Default(p.share, 5) \in Nat
    BY <1>1, DefaultType
  <1>5. ASSUME NEW budget \in p.budget
        PROVE  Max({1, (budget * Default(p.share, 5)) \div (100 * nsPerFuel)}) \in Nat
    <2>1. budget \in Nat
      BY <1>1 DEF IsOptional
    <2>2. budget * Default(p.share, 5) \in Nat
      BY <1>4, <2>1, ProductType
    <2>3. (budget * Default(p.share, 5)) \div (100 * nsPerFuel) \in Nat
      BY <1>3, <2>2, QuotientType
    <2> QED
      BY <2>3, MaxOfTwo
  <1> QED
    BY <1>1, <1>5 DEF DeriveFuel, IsOptional

LEMMA WithFacts ==
  ASSUME NEW f, NEW x, NEW v
  PROVE  /\ DOMAIN With(f, x, v) = DOMAIN f \cup {x}
         /\ With(f, x, v)[x] = v
         /\ \A y \in DOMAIN f \ {x} : With(f, x, v)[y] = f[y]
  BY DEF With

LEMMA WithoutFacts ==
  ASSUME NEW f, NEW x
  PROVE  /\ DOMAIN Without(f, x) = DOMAIN f \ {x}
         /\ \A y \in DOMAIN f \ {x} : Without(f, x)[y] = f[y]
  BY DEF Without

-----------------------------------------------------------------------------
(* The verdict of the security core.                                        *)

Statuses == {"unsigned", "third-party-untrusted", "authorized-safe"}

\* A bundle vouches for t at the time now.
Vouches(bundle, t, now) ==
  \E i \in DOMAIN bundle :
    /\ bundle[i].authorized /\ bundle[i].id = t.issuer /\ bundle[i].domain = t.domain
    /\ \A at \in t.expires : now < at

LEMMA TrustVerdictFacts ==
  ASSUME NEW t, NEW bundle, bundle \in Seq(Range(bundle)), NEW now \in Nat,
         t.expires \subseteq Nat
  PROVE  /\ TrustVerdict(t, bundle, now) \in
              {"refused", "third-party-untrusted", "authorized-safe"}
         /\ TrustVerdict(t, bundle, now) = "authorized-safe" => Vouches(bundle, t, now)
  <1> DEFINE I == {i \in 1..Len(bundle) : bundle[i].id = t.issuer}
             i == SelectInSeq(bundle, LAMBDA x : x.id = t.issuer)
  <1>1. i = IF I # {} THEN Min(I) ELSE 0
    BY DEF SelectInSeq
  <1>2. DOMAIN bundle = 1..Len(bundle) /\ Len(bundle) \in Nat
    OBVIOUS
  <1>3. i # 0 => i \in DOMAIN bundle /\ bundle[i].id = t.issuer
    <2>1. I \in SUBSET Nat
      BY <1>2
    <2>2. I # {} => Min(I) \in I
      <3> HIDE DEF I
      <3> QED
        BY <2>1, MinFact
    <2> QED
      BY <1>1, <1>2, <2>2
  <1>4. TrustVerdict(t, bundle, now) =
          IF i = 0 THEN "third-party-untrusted"
          ELSE IF \/ bundle[i].domain # t.domain
                  \/ \E allowed \in bundle[i].publishers : t.publisher \notin allowed
                  \/ \E at \in t.expires : at <= now
               THEN "refused"
          ELSE IF bundle[i].authorized THEN "authorized-safe" ELSE "third-party-untrusted"
    BY DEF TrustVerdict
  <1> HIDE DEF i
  <1>5. TrustVerdict(t, bundle, now) = "authorized-safe" =>
          /\ i # 0 /\ bundle[i].domain = t.domain /\ bundle[i].authorized
          /\ \A at \in t.expires : ~(at <= now)
    BY <1>4
  <1>6. \A at \in t.expires : ~(at <= now) => now < at
    OBVIOUS
  <1> QED
    BY <1>3, <1>4, <1>5, <1>6 DEF Vouches

LEMMA VerdictFacts ==
  ASSUME NEW r \in Requests, NEW c \in Contexts, NEW m, m = r.manifest
  PROVE  /\ Verdict(m, c) \in Statuses \cup {"refused"}
         /\ Verdict(m, c) # "refused" =>
              /\ ~Refused(m, c) /\ ~Revoked(m, c)
              /\ \A s \in SignatureOf(m) : Verifies(m, s, c)
         /\ Verdict(m, c) = "unsigned" => SignatureOf(m) = {}
         /\ Verdict(m, c) \in Statuses \ {"unsigned"} => SignatureOf(m) # {}
         /\ Verdict(m, c) = "authorized-safe" =>
              \E t \in m.trust, b \in c.bundle : Vouches(b, t, c.now)
  <1> DEFINE V == {TrustVerdict(t, b, c.now) : t \in m.trust, b \in c.bundle}
             Bad == \/ Refused(m, c)
                    \/ \E s \in SignatureOf(m) : ~Verifies(m, s, c)
                    \/ Revoked(m, c)
  <1>1. Verdict(m, c) = IF Bad THEN "refused"
                        ELSE IF SignatureOf(m) = {} THEN "unsigned" ELSE SignedVerdict(m, c)
    BY DEF Verdict
  <1>2. \A v \in V : /\ v \in {"refused", "third-party-untrusted", "authorized-safe"}
                     /\ v = "authorized-safe" =>
                          \E t \in m.trust, b \in c.bundle : Vouches(b, t, c.now)
    <2> SUFFICES ASSUME NEW t \in m.trust, NEW b \in c.bundle
                 PROVE  /\ TrustVerdict(t, b, c.now) \in
                             {"refused", "third-party-untrusted", "authorized-safe"}
                        /\ TrustVerdict(t, b, c.now) = "authorized-safe" => Vouches(b, t, c.now)
      OBVIOUS
    <2>1. t.expires \subseteq Nat
      BY RequestsAssumption
    <2>2. c.now \in Nat /\ b \in Seq(Range(b))
      BY ContextsAssumption
    <2> QED
      BY <2>1, <2>2, TrustVerdictFacts
  <1>3. SignedVerdict(m, c) \in V \cup {"refused", "third-party-untrusted"}
    <2>1. SignedVerdict(m, c) = IF c.bundle = {} \/ m.trust = {} THEN "third-party-untrusted"
                                ELSE IF TrustMalformed(m) THEN "refused"
                                ELSE CHOOSE v \in V : TRUE
      BY DEF SignedVerdict
    <2>2. CASE c.bundle = {} \/ m.trust = {}
      BY <2>1, <2>2
    <2>3. CASE ~(c.bundle = {} \/ m.trust = {})
      <3>1. \E v \in V : TRUE
        <4>1. PICK t \in m.trust, b \in c.bundle : TRUE
          BY <2>3
        <4>2. TrustVerdict(t, b, c.now) \in V
          OBVIOUS
        <4> QED
          BY <4>2
      <3>2. (CHOOSE v \in V : TRUE) \in V
        <4> HIDE DEF V
        <4> QED
          BY <3>1
      <3> HIDE DEF V
      <3> QED
        BY <2>1, <2>3, <3>2
    <2> QED
      BY <2>2, <2>3
  <1>4. /\ SignedVerdict(m, c) \in {"refused", "third-party-untrusted", "authorized-safe"}
        /\ SignedVerdict(m, c) = "authorized-safe" =>
             \E t \in m.trust, b \in c.bundle : Vouches(b, t, c.now)
    <2> HIDE DEF V
    <2> QED
      BY <1>2, <1>3
  <1> HIDE DEF Bad
  <1>5. ~Bad => /\ ~Refused(m, c) /\ ~Revoked(m, c)
                /\ \A s \in SignatureOf(m) : Verifies(m, s, c)
    BY DEF Bad
  <1>6. CASE Bad
    BY <1>1, <1>6 DEF Statuses
  <1>7. CASE ~Bad /\ SignatureOf(m) = {}
    BY <1>1, <1>5, <1>7 DEF Statuses
  <1>8. CASE ~Bad /\ SignatureOf(m) # {}
    BY <1>1, <1>4, <1>5, <1>8 DEF Statuses
  <1> QED
    BY <1>6, <1>7, <1>8

\* Nothing is loaded that the security core did not accept in the context of that very
\* load: not revoked, signed by a key of the host unless the policy lets unsigned
\* manifests pass, and called authorized only on the word of an authorized issuer.
THEOREM LoadsAreVouched == Spec => LoadedIsVouched
  <1> DEFINE HostKeys(c) == {c.keys[id] : id \in DOMAIN c.keys}
                              \cup {c.directory[id] : id \in DOMAIN c.directory}
             Sound(e) ==
               VouchedFor(loaded'[e].request.manifest, loaded'[e].status, reply'.context)
  <1>1. ASSUME NEW e \in Extensions, NEW r \in Requests, NEW c \in Contexts,
               NEW consent \in BOOLEAN, Load(e, r, c, consent), NEW x, LoadedNow(x)
        PROVE  Sound(x)
    <2> DEFINE m == r.manifest
               v == Verdict(m, c)
    <2>1. x = e /\ reply'.context = c
      BY <1>1 DEF Load, LoadedNow
    <2>2. loaded' = With(loaded, e, [request |-> r, cap |-> CapOf(e, r), status |-> v])
      BY <1>1 DEF Load
    <2>3. loaded'[e].request.manifest = m /\ loaded'[e].status = v
      <3>1. loaded'[e] = [request |-> r, cap |-> CapOf(e, r), status |-> v]
        BY <2>2 DEF With
      <3> QED
        BY <3>1
    <2>4. v # "refused"
      BY <1>1 DEF Load, Admitted, Trusted
    <2> HIDE DEF v
    <2>5. \A q \in c.revoked : ~Names(q, m)
      <3>1. ~Revoked(m, c)
        BY <2>4, VerdictFacts DEF v
      <3> QED
        BY <3>1 DEF Revoked, Names, SignatureOf
    <2>6. v # "unsigned" => \E s \in m.signature : s.by \in HostKeys(c) /\ s.of = Unsigned(m)
      <3> SUFFICES ASSUME v # "unsigned"
                   PROVE  \E s \in m.signature : s.by \in HostKeys(c) /\ s.of = Unsigned(m)
        OBVIOUS
      <3>1. SignatureOf(m) # {} /\ \A s \in SignatureOf(m) : Verifies(m, s, c)
        BY <2>4, VerdictFacts DEF v, Statuses
      <3>2. PICK s \in SignatureOf(m) : Verifies(m, s, c)
        BY <3>1
      <3>3. s \in m.signature
        BY DEF SignatureOf
      <3>4. PublicKeys(c, s.keyId) \subseteq HostKeys(c)
        BY DEF PublicKeys
      <3>5. s.by \in HostKeys(c) /\ s.of = Unsigned(m)
        BY <3>2, <3>4 DEF Verifies
      <3> QED
        BY <3>3, <3>5
    <2>7. v = "unsigned" =>
            \/ c.policy = {"allow-unsigned"}
            \/ c.development /\ c.policy \subseteq {"require-signature-except-development"}
      <3> SUFFICES ASSUME v = "unsigned"
                   PROVE  \/ c.policy = {"allow-unsigned"}
                          \/ /\ c.development
                             /\ c.policy \subseteq {"require-signature-except-development"}
        OBVIOUS
      <3>1. ~RequiresSignature(c)
        <4>1. ~Refused(m, c) /\ SignatureOf(m) = {}
          BY <2>4, VerdictFacts DEF v
        <4> QED
          BY <4>1 DEF Refused
      <3> QED
        BY <3>1 DEF RequiresSignature
    <2>8. v = "authorized-safe" => \E t \in m.trust, b \in c.bundle : Vouches(b, t, c.now)
      BY VerdictFacts DEF v
    <2> QED
      BY <2>1, <2>3, <2>5, <2>6, <2>7, <2>8 DEF Vouches, VouchedFor
  <1>2. ASSUME NEW e \in Extensions, NEW r \in Requests, NEW c \in Contexts, NEW x,
               LoadRejected(e, r, c) \/ LoadNeedsConsent(e, r, c)
                 \/ \E consent \in BOOLEAN : LoadFails(e, r, c, consent)
        PROVE  ~LoadedNow(x)
    BY <1>2 DEF LoadRejected, LoadNeedsConsent, LoadFails, LoadedNow
  <1>3. ASSUME NEW x, \/ \E p \in Policies, nsPerFuel \in Calibrations : SetPolicy(p, nsPerFuel)
                      \/ \E e \in Extensions : Activate(e)
        PROVE  ~LoadedNow(x)
    <2>1. reply' = [op |-> "policy"] \/ reply' = [op |-> "activate"]
      BY <1>3 DEF SetPolicy, Activate
    <2> QED
      BY <2>1 DEF LoadedNow
  <1> HIDE DEF Sound
  <1>4. Next => UNCHANGED vars \/ \A x \in DOMAIN loaded' : LoadedNow(x) => Sound(x)
    <2> SUFFICES ASSUME Next, ~UNCHANGED vars, NEW x \in DOMAIN loaded', LoadedNow(x)
                 PROVE  Sound(x)
      OBVIOUS
    <2> QED
      BY <1>1, <1>2, <1>3 DEF Next, LoadStep
  <1>5. [Next]_vars =>
          [\A e \in DOMAIN loaded' :
             LoadedNow(e) =>
               VouchedFor(loaded'[e].request.manifest, loaded'[e].status, reply'.context)]_vars
    BY <1>4 DEF Sound
  <1> QED
    BY <1>5, PTL DEF Spec, LoadedIsVouched

-----------------------------------------------------------------------------
(* Types.                                                                   *)

PolicyTypes ==
  IsOptional(policy.total) /\ IsOptional(policy.fuel) /\ policy.caps \in [Tiers -> Nat]

LoadedTypes ==
  /\ DOMAIN loaded \subseteq Extensions
  /\ \A e \in DOMAIN loaded : loaded[e] \in [request : Requests, cap : Nat, status : Statuses]

ReservationTypes ==
  /\ DOMAIN reservations \subseteq DOMAIN loaded
  /\ \A e \in DOMAIN reservations : reservations[e] \in [memory : Nat, slice : Nat]

InstanceTypes ==
  /\ DOMAIN instance \subseteq DOMAIN loaded
  /\ \A e \in DOMAIN instance : instance[e] \in [cap : Nat, fuel : Nat]

CounterTypes == overrides \in Nat /\ exited \in BOOLEAN

TypeParts ==
  PolicyTypes /\ LoadedTypes /\ ReservationTypes /\ InstanceTypes /\ CounterTypes

LEMMA PartsAreTypes == TypeOK <=> TypeParts
  BY DEF TypeOK, TypeParts, PolicyTypes, LoadedTypes, ReservationTypes, InstanceTypes,
     CounterTypes, Statuses

LEMMA RequestFacts ==
  ASSUME NEW r \in Requests
  PROVE  /\ r.manifest.class \in {"standard", "resident"} /\ r.capabilities \in Seq(Tiers)
         /\ r.memory \in Nat /\ r.slice \in Nat
  BY RequestsAssumption

LEMMA CapType ==
  ASSUME PolicyTypes, NEW e, NEW r \in Requests
  PROVE  CapOf(e, r) \in Nat
  <1>1. TierCap(r) \in Nat
    BY RequestFacts, StrictestFacts DEF TierCap, PolicyTypes
  <1> QED
    BY <1>1, RequestFacts DEF CapOf

LEMMA CallFuelFacts ==
  ASSUME PolicyTypes, ReservationTypes, NEW e
  PROVE  /\ CallFuel(e) \in Nat
         /\ e \in DOMAIN reservations => CallFuel(e) >= reservations[e].slice
  <1>1. Default(policy.fuel, DefaultFuel) \in Nat
    BY AdmissionAssumption, DefaultType DEF PolicyTypes
  <1>2. e \in DOMAIN reservations => reservations[e].slice \in Nat
    BY DEF ReservationTypes
  <1> QED
    BY <1>1, <1>2, MaxOfTwo DEF CallFuel

\* The record a load leaves.
Entry(e, r, c) == [request |-> r, cap |-> CapOf(e, r), status |-> Verdict(r.manifest, c)]

LEMMA EntryFacts ==
  ASSUME PolicyTypes, NEW e, NEW r \in Requests, NEW c \in Contexts, Trusted(r, c)
  PROVE  /\ Entry(e, r, c) \in [request : Requests, cap : Nat, status : Statuses]
         /\ Entry(e, r, c).request = r /\ Entry(e, r, c).cap = CapOf(e, r)
  <1>1. Verdict(r.manifest, c) \in Statuses
    BY VerdictFacts DEF Trusted
  <1> QED
    BY <1>1, CapType DEF Entry

\* What a load changes, for the extension and for the others.
LEMMA LoadFacts ==
  ASSUME NEW e, NEW r \in Requests, NEW c, NEW consent, Load(e, r, c, consent)
  PROVE  /\ DOMAIN loaded' = DOMAIN loaded \cup {e}
         /\ \A x \in DOMAIN loaded \ {e} : loaded'[x] = loaded[x]
         /\ DOMAIN instance' = DOMAIN instance \ {e}
         /\ \A x \in DOMAIN instance \ {e} : instance'[x] = instance[x]
         /\ r.manifest.class = "resident" =>
              /\ DOMAIN reservations' = DOMAIN reservations \cup {e}
              /\ reservations'[e] = [memory |-> r.memory, slice |-> r.slice]
         /\ r.manifest.class # "resident" => DOMAIN reservations' = DOMAIN reservations \ {e}
         /\ \A x \in DOMAIN reservations \ {e} : reservations'[x] = reservations[x]
         /\ Trusted(r, c) /\ UNCHANGED <<policy, exited>>
  <1>1. loaded' = With(loaded, e, Entry(e, r, c)) /\ instance' = Without(instance, e)
    BY DEF Load, Entry
  <1>2. reservations' = IF r.manifest.class = "resident"
                        THEN With(reservations, e, [memory |-> r.memory, slice |-> r.slice])
                        ELSE Without(reservations, e)
    BY DEF Load, Reserve, Reservation
  <1>3. /\ DOMAIN loaded' = DOMAIN loaded \cup {e}
        /\ \A x \in DOMAIN loaded \ {e} : loaded'[x] = loaded[x]
    BY <1>1 DEF With
  <1>4. /\ DOMAIN instance' = DOMAIN instance \ {e}
        /\ \A x \in DOMAIN instance \ {e} : instance'[x] = instance[x]
    BY <1>1, WithoutFacts
  <1>5. Trusted(r, c) /\ UNCHANGED <<policy, exited>>
    BY DEF Load, Admitted
  <1>6. CASE r.manifest.class = "resident"
    <2>1. reservations' = With(reservations, e, [memory |-> r.memory, slice |-> r.slice])
      BY <1>2, <1>6
    <2>2. /\ DOMAIN reservations' = DOMAIN reservations \cup {e}
          /\ reservations'[e] = [memory |-> r.memory, slice |-> r.slice]
          /\ \A x \in DOMAIN reservations \ {e} : reservations'[x] = reservations[x]
      BY <2>1 DEF With
    <2> QED
      BY <1>3, <1>4, <1>6, <1>5, <2>2
  <1>7. CASE r.manifest.class # "resident"
    <2>1. reservations' = Without(reservations, e)
      BY <1>2, <1>7
    <2>2. /\ DOMAIN reservations' = DOMAIN reservations \ {e}
          /\ \A x \in DOMAIN reservations \ {e} : reservations'[x] = reservations[x]
      BY <2>1 DEF Without
    <2> QED
      BY <1>3, <1>4, <1>7, <1>5, <2>2
  <1> QED
    BY <1>6, <1>7

\* The steps, told apart by what they change.
LEMMA Steps ==
  ASSUME [Next]_vars
  PROVE  \/ UNCHANGED <<policy, loaded, reservations, instance, overrides, exited>>
         \/ \E p \in Policies, nsPerFuel \in Calibrations : SetPolicy(p, nsPerFuel)
         \/ \E e \in Extensions, r \in Requests, c \in Contexts, consent \in BOOLEAN :
              Load(e, r, c, consent) \/ LoadFails(e, r, c, consent)
         \/ \E e \in Extensions : Activate(e)
  <1>1. ASSUME NEW e \in Extensions, NEW r \in Requests, NEW c \in Contexts,
               LoadRejected(e, r, c) \/ LoadNeedsConsent(e, r, c)
        PROVE  UNCHANGED <<policy, loaded, reservations, instance, overrides, exited>>
    BY <1>1 DEF LoadRejected, LoadNeedsConsent
  <1> QED
    BY <1>1 DEF Next, LoadStep, vars

LEMMA SetPolicyTypes ==
  ASSUME NEW p \in Policies, NEW nsPerFuel \in Calibrations, SetPolicy(p, nsPerFuel)
  PROVE  PolicyTypes'
  <1> DEFINE fuel == DeriveFuel(p, nsPerFuel)
  <1>1. policy' = [total |-> p.total, caps |-> p.caps, fuel |-> fuel]
    BY DEF SetPolicy
  <1>2. IsOptional(p.total) /\ p.caps \in [Tiers -> Nat]
    BY PoliciesAssumption
  <1>3. IsOptional(fuel)
    BY DeriveFuelType
  <1> HIDE DEF fuel
  <1>4. policy'.total = p.total /\ policy'.caps = p.caps /\ policy'.fuel = fuel
    BY <1>1
  <1> QED
    BY <1>2, <1>3, <1>4 DEF PolicyTypes

LEMMA OverridesTypes ==
  ASSUME CounterTypes, NEW e, NEW r, NEW c, NEW consent, Admitted(e, r, c, consent)
  PROVE  overrides' \in Nat
  <1>1. overrides' = overrides \/ overrides' = overrides + 1
    BY DEF Admitted
  <1> QED
    BY <1>1 DEF CounterTypes

LEMMA ActivateFacts ==
  ASSUME NEW e, Activate(e)
  PROVE  /\ e \in DOMAIN loaded /\ DOMAIN instance' = DOMAIN instance \cup {e}
         /\ \A x \in DOMAIN instance : instance'[x] = instance[x]
         /\ e \notin DOMAIN instance =>
              instance'[e] = [cap |-> loaded[e].cap, fuel |-> CallFuel(e)]
         /\ UNCHANGED <<policy, loaded, reservations, overrides, exited>>
  <1>1. CASE e \in DOMAIN instance
    BY <1>1 DEF Activate
  <1>2. CASE e \notin DOMAIN instance
    <2>1. instance' = With(instance, e, [cap |-> loaded[e].cap, fuel |-> CallFuel(e)])
      BY <1>2 DEF Activate
    <2>2. /\ DOMAIN instance' = DOMAIN instance \cup {e}
          /\ instance'[e] = [cap |-> loaded[e].cap, fuel |-> CallFuel(e)]
          /\ \A x \in DOMAIN instance \ {e} : instance'[x] = instance[x]
      BY <2>1 DEF With
    <2> QED
      BY <1>2, <2>2 DEF Activate
  <1> QED
    BY <1>1, <1>2

LEMMA NextTypes == TypeParts /\ [Next]_vars => TypeParts'
  <1> SUFFICES ASSUME TypeParts, [Next]_vars PROVE TypeParts'
    OBVIOUS
  <1> USE DEF TypeParts
  <1>1. CASE UNCHANGED <<policy, loaded, reservations, instance, overrides, exited>>
    BY <1>1 DEF PolicyTypes, LoadedTypes, ReservationTypes, InstanceTypes, CounterTypes
  <1>2. ASSUME NEW p \in Policies, NEW nsPerFuel \in Calibrations, SetPolicy(p, nsPerFuel)
        PROVE  TypeParts'
    <2>1. UNCHANGED <<loaded, reservations, instance, overrides, exited>>
      BY <1>2 DEF SetPolicy
    <2> QED
      BY <1>2, <2>1, SetPolicyTypes DEF LoadedTypes, ReservationTypes, InstanceTypes, CounterTypes
  <1>3. ASSUME NEW e \in Extensions, NEW r \in Requests, NEW c \in Contexts,
               NEW consent \in BOOLEAN, Load(e, r, c, consent)
        PROVE  TypeParts'
    <2>1. Trusted(r, c) /\ UNCHANGED <<policy, exited>>
      BY <1>3, LoadFacts
    <2>2. PolicyTypes' /\ CounterTypes'
      <3>1. overrides' \in Nat
        BY <1>3, OverridesTypes DEF Load
      <3> QED
        BY <2>1, <3>1 DEF PolicyTypes, CounterTypes
    <2>3. LoadedTypes'
      <3>1. Entry(e, r, c) \in [request : Requests, cap : Nat, status : Statuses]
        BY <2>1, EntryFacts
      <3>2. /\ DOMAIN loaded' = DOMAIN loaded \cup {e} /\ loaded'[e] = Entry(e, r, c)
            /\ \A x \in DOMAIN loaded \ {e} : loaded'[x] = loaded[x]
        <4>1. loaded' = With(loaded, e, Entry(e, r, c))
          BY <1>3 DEF Load, Entry
        <4> QED
          BY <4>1 DEF With
      <3> QED
        BY <3>1, <3>2 DEF LoadedTypes
    <2>4. ReservationTypes'
      <3>1. /\ DOMAIN reservations' \subseteq DOMAIN reservations \cup {e}
            /\ e \in DOMAIN reservations' =>
                 reservations'[e] = [memory |-> r.memory, slice |-> r.slice]
            /\ \A x \in DOMAIN reservations \ {e} : reservations'[x] = reservations[x]
        BY <1>3, LoadFacts
      <3>2. [memory |-> r.memory, slice |-> r.slice] \in [memory : Nat, slice : Nat]
        BY RequestFacts
      <3>3. DOMAIN loaded' = DOMAIN loaded \cup {e}
        BY <1>3, LoadFacts
      <3> QED
        BY <3>1, <3>2, <3>3 DEF ReservationTypes
    <2>5. InstanceTypes'
      <3>1. /\ DOMAIN instance' = DOMAIN instance \ {e}
            /\ \A x \in DOMAIN instance \ {e} : instance'[x] = instance[x]
            /\ DOMAIN loaded' = DOMAIN loaded \cup {e}
        BY <1>3, LoadFacts
      <3> QED
        BY <3>1 DEF InstanceTypes
    <2> QED
      BY <2>2, <2>3, <2>4, <2>5
  <1>4. ASSUME NEW e \in Extensions, NEW r \in Requests, NEW c \in Contexts,
               NEW consent \in BOOLEAN, LoadFails(e, r, c, consent)
        PROVE  TypeParts'
    <2>1. /\ overrides' \in Nat /\ exited' \in BOOLEAN
          /\ UNCHANGED <<policy, loaded, instance>>
      BY <1>4, OverridesTypes DEF LoadFails
    <2>2. /\ DOMAIN reservations' = DOMAIN reservations \ {e}
          /\ \A x \in DOMAIN reservations \ {e} : reservations'[x] = reservations[x]
      BY <1>4, WithoutFacts DEF LoadFails
    <2> QED
      BY <2>1, <2>2 DEF PolicyTypes, LoadedTypes, ReservationTypes, InstanceTypes, CounterTypes
  <1>5. ASSUME NEW e \in Extensions, Activate(e) PROVE TypeParts'
    <2>1. /\ e \in DOMAIN loaded /\ DOMAIN instance' = DOMAIN instance \cup {e}
          /\ \A x \in DOMAIN instance : instance'[x] = instance[x]
          /\ e \notin DOMAIN instance =>
               instance'[e] = [cap |-> loaded[e].cap, fuel |-> CallFuel(e)]
          /\ UNCHANGED <<policy, loaded, reservations, overrides, exited>>
      BY <1>5, ActivateFacts
    <2>2. loaded[e].cap \in Nat /\ CallFuel(e) \in Nat
      BY <2>1, CallFuelFacts DEF LoadedTypes
    <2>3. InstanceTypes'
      BY <2>1, <2>2 DEF InstanceTypes
    <2> QED
      BY <2>1, <2>3 DEF PolicyTypes, LoadedTypes, ReservationTypes, CounterTypes
  <1> QED
    BY <1>1, <1>2, <1>3, <1>4, <1>5, Steps

LEMMA InitTypes == Init => TypeParts
  <1> SUFFICES ASSUME Init PROVE TypeParts
    OBVIOUS
  <1>1. policy.total = {} /\ policy.fuel = {} /\ policy.caps = [t \in Tiers |-> DefaultCap]
    BY DEF Init, NoPolicy
  <1>2. PolicyTypes
    BY <1>1, AdmissionAssumption DEF PolicyTypes, IsOptional
  <1>3. DOMAIN loaded = {} /\ DOMAIN reservations = {} /\ DOMAIN instance = {}
    BY DEF Init
  <1>4. LoadedTypes /\ ReservationTypes /\ InstanceTypes
    BY <1>3 DEF LoadedTypes, ReservationTypes, InstanceTypes
  <1>5. CounterTypes
    BY DEF Init, CounterTypes
  <1> QED
    BY <1>2, <1>4, <1>5 DEF TypeParts

THEOREM AdmissionTypes == Spec => []TypeParts
  BY InitTypes, NextTypes, PTL DEF Spec

\* The type invariant: caps and fuel are always numbers, policies well formed, and
\* nothing is reserved for or run as an extension that is not loaded.
THEOREM AdmissionTypeOK == Spec => []TypeOK
  <1>1. TypeParts => TypeOK
    BY PartsAreTypes
  <1> QED
    BY <1>1, AdmissionTypes, PTL

-----------------------------------------------------------------------------
(* Reservations and instances.                                              *)

\* A reload under any policy, with or without consent, leaves a resident exactly the
\* reservation of the load in force and everybody else none.  The daemon exits when a
\* load fails after it released the old reservation; a host that embeds the kernel
\* goes on, and for it this does not hold.
THEOREM DaemonReservations ==
  ASSUME Embedded = FALSE
  PROVE  Spec => []ReservedForTheLoad
  <1> DEFINE Residents == {e \in DOMAIN loaded : loaded[e].request.manifest.class = "resident"}
  <1>1. Init => ReservedForTheLoad
    BY DEF Init, ReservedForTheLoad
  <1>2. TypeParts /\ ReservedForTheLoad /\ [Next]_vars => ReservedForTheLoad'
    <2> SUFFICES ASSUME TypeParts, ReservedForTheLoad, [Next]_vars PROVE ReservedForTheLoad'
      OBVIOUS
    <2>1. CASE UNCHANGED <<loaded, reservations, exited>>
      BY <2>1 DEF ReservedForTheLoad
    <2>2. ASSUME NEW e \in Extensions, NEW r \in Requests, NEW c \in Contexts,
                 NEW consent \in BOOLEAN, Load(e, r, c, consent)
          PROVE  ReservedForTheLoad'
      <3>1. /\ DOMAIN reservations = Residents
            /\ \A x \in DOMAIN reservations :
                 reservations[x] = [memory |-> loaded[x].cap, slice |-> loaded[x].request.slice]
        BY <2>2 DEF Load, Admitted, ReservedForTheLoad
      <3>2. loaded'[e].request = r /\ loaded'[e].cap = CapOf(e, r)
        <4>1. Trusted(r, c) /\ loaded' = With(loaded, e, Entry(e, r, c))
          BY <2>2 DEF Load, Admitted, Entry
        <4>2. loaded'[e] = Entry(e, r, c)
          BY <4>1 DEF With
        <4> QED
          BY <4>1, <4>2, EntryFacts DEF TypeParts
      <3>3. /\ DOMAIN loaded' = DOMAIN loaded \cup {e}
            /\ \A x \in DOMAIN loaded \ {e} : loaded'[x] = loaded[x]
            /\ \A x \in DOMAIN reservations \ {e} : reservations'[x] = reservations[x]
        BY <2>2, LoadFacts
      <3>4. CASE r.manifest.class = "resident"
        <4>1. /\ DOMAIN reservations' = DOMAIN reservations \cup {e}
              /\ reservations'[e] = [memory |-> r.memory, slice |-> r.slice]
          BY <2>2, <3>4, LoadFacts
        <4>2. loaded'[e].cap = r.memory
          BY <3>2, <3>4 DEF CapOf
        <4>3. DOMAIN reservations' = Residents'
          BY <3>1, <3>2, <3>3, <3>4, <4>1
        <4>4. ASSUME NEW x \in DOMAIN reservations'
              PROVE  reservations'[x] = [memory |-> loaded'[x].cap,
                                         slice |-> loaded'[x].request.slice]
          <5>1. CASE x = e
            BY <3>2, <4>1, <4>2, <5>1
          <5>2. CASE x # e
            BY <3>1, <3>3, <4>1, <5>2
          <5> QED
            BY <5>1, <5>2
        <4> QED
          BY <4>3, <4>4 DEF ReservedForTheLoad
      <3>5. CASE r.manifest.class # "resident"
        <4>1. DOMAIN reservations' = DOMAIN reservations \ {e}
          BY <2>2, <3>5, LoadFacts
        <4>2. DOMAIN reservations' = Residents'
          BY <3>1, <3>2, <3>3, <3>5, <4>1
        <4>3. ASSUME NEW x \in DOMAIN reservations'
              PROVE  reservations'[x] = [memory |-> loaded'[x].cap,
                                         slice |-> loaded'[x].request.slice]
          BY <3>1, <3>3, <4>1
        <4> QED
          BY <4>2, <4>3 DEF ReservedForTheLoad
      <3> QED
        BY <3>4, <3>5
    <2>3. ASSUME NEW e \in Extensions, NEW r \in Requests, NEW c \in Contexts,
                 NEW consent \in BOOLEAN, LoadFails(e, r, c, consent)
          PROVE  ReservedForTheLoad'
      <3>1. exited'
        BY <2>3 DEF LoadFails
      <3> QED
        BY <3>1 DEF ReservedForTheLoad
    <2> QED
      BY <2>1, <2>2, <2>3, Steps DEF SetPolicy, Activate
  <1> QED
    BY <1>1, <1>2, AdmissionTypes, PTL DEF Spec

\* kernel.activate gives an instance what the load in force was admitted with, and a
\* policy set or an extension loaded later never leaves it with less than the slice
\* that is reserved for it, in the daemon and in a host that embeds the kernel.
THEOREM InstancesAreAsAdmitted == Spec => []InstanceAsAdmitted
  <1>1. Init => InstanceAsAdmitted
    BY DEF Init, InstanceAsAdmitted
  <1>2. TypeParts /\ InstanceAsAdmitted /\ [Next]_vars => InstanceAsAdmitted'
    <2> SUFFICES ASSUME TypeParts, InstanceAsAdmitted, [Next]_vars PROVE InstanceAsAdmitted'
      OBVIOUS
    <2> USE DEF TypeParts
    <2>1. CASE UNCHANGED <<loaded, reservations, instance>>
      BY <2>1 DEF InstanceAsAdmitted
    <2>2. ASSUME NEW e \in Extensions, NEW r \in Requests, NEW c \in Contexts,
                 NEW consent \in BOOLEAN, Load(e, r, c, consent)
          PROVE  InstanceAsAdmitted'
      <3>1. /\ DOMAIN instance' = DOMAIN instance \ {e}
            /\ \A x \in DOMAIN instance \ {e} : instance'[x] = instance[x]
            /\ \A x \in DOMAIN loaded \ {e} : loaded'[x] = loaded[x]
            /\ DOMAIN reservations' \subseteq DOMAIN reservations \cup {e}
            /\ \A x \in DOMAIN reservations \ {e} : reservations'[x] = reservations[x]
        BY <2>2, LoadFacts
      <3>2. DOMAIN instance \subseteq DOMAIN loaded
        BY DEF InstanceTypes
      <3> QED
        BY <3>1, <3>2 DEF InstanceAsAdmitted
    <2>3. ASSUME NEW e \in Extensions, NEW r \in Requests, NEW c \in Contexts,
                 NEW consent \in BOOLEAN, LoadFails(e, r, c, consent)
          PROVE  InstanceAsAdmitted'
      <3>1. /\ DOMAIN reservations' = DOMAIN reservations \ {e}
            /\ \A x \in DOMAIN reservations \ {e} : reservations'[x] = reservations[x]
            /\ UNCHANGED <<loaded, instance>>
        BY <2>3, WithoutFacts DEF LoadFails
      <3> QED
        BY <3>1 DEF InstanceAsAdmitted
    <2>4. ASSUME NEW e \in Extensions, Activate(e) PROVE InstanceAsAdmitted'
      <3>1. /\ DOMAIN instance' = DOMAIN instance \cup {e}
            /\ \A x \in DOMAIN instance : instance'[x] = instance[x]
            /\ e \notin DOMAIN instance =>
                 instance'[e] = [cap |-> loaded[e].cap, fuel |-> CallFuel(e)]
            /\ UNCHANGED <<loaded, reservations>>
        BY <2>4, ActivateFacts
      <3>2. e \in DOMAIN reservations => CallFuel(e) >= reservations[e].slice
        BY CallFuelFacts
      <3>3. e \notin DOMAIN instance =>
              instance'[e].cap = loaded[e].cap /\ instance'[e].fuel = CallFuel(e)
        BY <3>1
      <3> QED
        BY <3>1, <3>2, <3>3 DEF InstanceAsAdmitted
    <2> QED
      BY <2>1, <2>2, <2>3, <2>4, Steps DEF SetPolicy
  <1> QED
    BY <1>1, <1>2, AdmissionTypes, PTL DEF Spec

-----------------------------------------------------------------------------
(* The exceptions.                                                          *)

\* The memory that reservations like h hold for the extensions of S.
TotalOf(h, S) == MapThenSumSet(LAMBDA x : h[x].memory, S)

\* The library's fold is the sum of DataInduction, for every part of a finite set.
LEMMA TotalIsSum ==
  ASSUME NEW S, IsFiniteSet(S), NEW h, NEW f \in [S -> Nat], NEW g, Sums(g, S, f),
         \A x \in S : h[x].memory = f[x], NEW T \in SUBSET S
  PROVE  TotalOf(h, T) = g[T]
  <1> DEFINE Loop(u) ==
               [s \in SUBSET T |->
                  IF s = {} THEN 0 ELSE h[Taken(s)].memory + u[s \ {Taken(s)}]]
             iter == CHOOSE u : u = Loop(u)
             k == [x \in T |-> h[x].memory]
  <1>1. TotalOf(h, T) = iter[T]
    BY DEF TotalOf, MapThenSumSet, MapThenFoldSet, Taken
  <1>2. k \in [T -> Nat] /\ \A x \in T : k[x] = f[x]
    OBVIOUS
  <1>3. IsFiniteSet(T)
    BY FS_Subset
  <1>4. PICK q \in [SUBSET T -> Nat] : Sums(q, T, k)
    <2> HIDE DEF k
    <2> QED
      BY <1>2, <1>3, SumExists
  <1>5. ASSUME NEW u, u = Loop(u) PROVE Sums(u, T, k)
    <2>1. \A s \in SUBSET T : s # {} => k[Taken(s)] = h[Taken(s)].memory
      BY TakenFact
    <2>2. \A s \in SUBSET T :
            u[s] = IF s = {} THEN 0 ELSE k[Taken(s)] + u[s \ {Taken(s)}]
      <3> HIDE DEF k
      <3> QED
        BY <1>5, <2>1
    <2>3. u = [s \in SUBSET T |-> u[s]]
      BY <1>5
    <2> HIDE DEF k, Loop
    <2> QED
      BY <2>2, <2>3 DEF Sums
  <1>6. q = Loop(q)
    <2>1. \A s \in SUBSET T : s # {} => k[Taken(s)] = h[Taken(s)].memory
      BY TakenFact
    <2>2. \A s \in SUBSET T :
            q[s] = IF s = {} THEN 0 ELSE h[Taken(s)].memory + q[s \ {Taken(s)}]
      <3>1. \A s \in SUBSET T :
              q[s] = IF s = {} THEN 0 ELSE k[Taken(s)] + q[s \ {Taken(s)}]
        <4> HIDE DEF k
        <4> QED
          BY <1>4 DEF Sums
      <3> HIDE DEF k
      <3> QED
        BY <3>1, <2>1
    <2> QED
      BY <1>4, <2>2
  <1>7. iter = Loop(iter)
    <2> HIDE DEF Loop
    <2> QED
      BY <1>6
  <1>8. Sums(iter, T, k)
    <2> HIDE DEF Loop, iter, k
    <2> QED
      BY <1>5, <1>7
  <1>9. iter[T] = g[T]
    <2> HIDE DEF Loop, iter, k
    <2>1. \A s \in SUBSET T : iter[s] = g[s]
      BY <1>2, <1>8, SumsAgree
    <2> QED
      BY <2>1
  <1> QED
    BY <1>1, <1>9

\* What the admission of residents needs of that sum.
LEMMA TotalFacts ==
  ASSUME NEW S, IsFiniteSet(S), NEW h, \A x \in S : h[x].memory \in Nat
  PROVE  /\ \A e \in S : /\ TotalOf(h, S \ {e}) \in Nat
                         /\ TotalOf(h, S) = h[e].memory + TotalOf(h, S \ {e})
         /\ \A limit \in Nat : (\A x \in S : h[x].memory <= limit) =>
                                 TotalOf(h, S) <= Cardinality(S) * limit
         /\ \A k : (\A x \in S : k[x] = h[x]) => TotalOf(k, S) = TotalOf(h, S)
  <1> DEFINE f == [x \in S |-> h[x].memory]
  <1>1. f \in [S -> Nat] /\ \A x \in S : h[x].memory = f[x]
    OBVIOUS
  <1> HIDE DEF f
  <1>2. PICK g \in [SUBSET S -> Nat] : Sums(g, S, f)
    BY <1>1, SumExists
  <1>3. \A T \in SUBSET S : TotalOf(h, T) = g[T]
    BY <1>1, <1>2, TotalIsSum
  <1>4. ASSUME NEW e \in S
        PROVE  /\ TotalOf(h, S \ {e}) \in Nat
               /\ TotalOf(h, S) = h[e].memory + TotalOf(h, S \ {e})
    <2>1. S \in SUBSET S /\ S \ {e} \in SUBSET S
      OBVIOUS
    <2>2. g[S] = f[e] + g[S \ {e}] /\ g[S \ {e}] \in Nat
      BY <1>1, <1>2, <2>1, SumSplits
    <2> QED
      BY <1>1, <1>3, <2>1, <2>2
  <1>5. ASSUME NEW limit \in Nat, \A x \in S : h[x].memory <= limit
        PROVE  TotalOf(h, S) <= Cardinality(S) * limit
    <2>1. \A x \in S : f[x] <= limit
      BY <1>1, <1>5
    <2>2. g[S] <= Cardinality(S) * limit
      BY <1>1, <1>2, <2>1, SumBound
    <2> QED
      BY <1>3, <2>2
  <1>6. ASSUME NEW k, \A x \in S : k[x] = h[x]
        PROVE  TotalOf(k, S) = TotalOf(h, S)
    <2>1. \A x \in S : k[x].memory = f[x]
      BY <1>1, <1>6
    <2>2. TotalOf(k, S) = g[S]
      BY <1>1, <1>2, <2>1, TotalIsSum
    <2> QED
      BY <1>3, <2>2
  <1> QED
    BY <1>4, <1>5, <1>6

\* No reservation is greater than limit.
ReservedAtMost(limit) == \A e \in DOMAIN reservations : reservations[e].memory <= limit

LEMMA ReservationsAreDeclared ==
  ASSUME NEW limit \in Nat, \A r \in Requests : r.memory <= limit
  PROVE  Spec => []ReservedAtMost(limit)
  <1>1. Init => ReservedAtMost(limit)
    BY DEF Init, ReservedAtMost
  <1>2. ReservedAtMost(limit) /\ [Next]_vars => ReservedAtMost(limit)'
    <2> SUFFICES ASSUME ReservedAtMost(limit), [Next]_vars PROVE ReservedAtMost(limit)'
      OBVIOUS
    <2>1. CASE UNCHANGED reservations
      BY <2>1 DEF ReservedAtMost
    <2>2. ASSUME NEW e \in Extensions, NEW r \in Requests, NEW c \in Contexts,
                 NEW consent \in BOOLEAN, Load(e, r, c, consent)
          PROVE  ReservedAtMost(limit)'
      <3>1. /\ DOMAIN reservations' \subseteq DOMAIN reservations \cup {e}
            /\ e \in DOMAIN reservations' =>
                 reservations'[e] = [memory |-> r.memory, slice |-> r.slice]
            /\ \A x \in DOMAIN reservations \ {e} : reservations'[x] = reservations[x]
        BY <2>2, LoadFacts
      <3>2. r.memory <= limit /\ [memory |-> r.memory, slice |-> r.slice].memory = r.memory
        OBVIOUS
      <3> QED
        BY <3>1, <3>2 DEF ReservedAtMost
    <2>3. ASSUME NEW e \in Extensions, NEW r \in Requests, NEW c \in Contexts,
                 NEW consent \in BOOLEAN, LoadFails(e, r, c, consent)
          PROVE  ReservedAtMost(limit)'
      <3>1. /\ DOMAIN reservations' = DOMAIN reservations \ {e}
            /\ \A x \in DOMAIN reservations \ {e} : reservations'[x] = reservations[x]
        BY <2>3, WithoutFacts DEF LoadFails
      <3> QED
        BY <3>1 DEF ReservedAtMost
    <2> QED
      BY <2>1, <2>2, <2>3, Steps DEF SetPolicy, Activate
  <1> QED
    BY <1>1, <1>2, PTL DEF Spec

\* What residents hold after a load of one is what it declares and what the others hold,
\* and the kernel's sum of the two does not wrap.
LEMMA ReservedAfterLoad ==
  ASSUME TypeParts, NEW limit \in Nat, ReservedAtMost(limit),
         \A r \in Requests : r.memory <= limit,
         IsFiniteSet(Extensions), Cardinality(Extensions) * limit < Modulus,
         NEW e \in Extensions, NEW r \in Requests, NEW c \in Contexts, NEW consent \in BOOLEAN,
         Load(e, r, c, consent), r.manifest.class = "resident"
  PROVE  /\ Reserved' = r.memory + OtherReserved(e)
         /\ Reserved' \in Nat
         /\ (r.memory + OtherReserved(e)) % Modulus = r.memory + OtherReserved(e)
  <1>1. PICK h, k, D, E : /\ h = reservations /\ k = reservations'
                          /\ D = DOMAIN reservations /\ E = DOMAIN reservations'
    OBVIOUS
  <1>2. /\ E = D \cup {e} /\ k[e] = [memory |-> r.memory, slice |-> r.slice]
        /\ \A x \in D \ {e} : k[x] = h[x]
    BY <1>1, LoadFacts
  <1>3. k[e].memory = r.memory /\ r.memory \in Nat /\ r.memory <= limit
    <2>1. [memory |-> r.memory, slice |-> r.slice].memory = r.memory
      OBVIOUS
    <2> QED
      BY <1>2, <2>1, RequestFacts
  <1>4. \A x \in D : h[x].memory \in Nat /\ h[x].memory <= limit
    BY <1>1 DEF TypeParts, ReservationTypes, ReservedAtMost
  <1>5. \A x \in E : k[x].memory \in Nat /\ k[x].memory <= limit
    BY ONLY <1>2, <1>3, <1>4
  <1>6. D \in SUBSET Extensions /\ E \in SUBSET Extensions
    <2>1. D \in SUBSET Extensions
      BY <1>1 DEF TypeParts, ReservationTypes, LoadedTypes
    <2> QED
      BY <2>1, <1>2
  <1>7. IsFiniteSet(E) /\ IsFiniteSet(E \ {e}) /\ Cardinality(E) <= Cardinality(Extensions)
        /\ Cardinality(E) \in Nat /\ Cardinality(Extensions) \in Nat
    <2>1. IsFiniteSet(E) /\ Cardinality(E) <= Cardinality(Extensions)
      BY <1>6, FS_Subset
    <2>2. E \ {e} \in SUBSET E
      OBVIOUS
    <2>3. IsFiniteSet(E \ {e})
      BY <2>1, <2>2, FS_Subset
    <2> QED
      BY <2>1, <2>3, FS_CardinalityType
  <1>8. E \ {e} = D \ {e} /\ e \in E
    BY <1>2
  <1>9. /\ TotalOf(k, E \ {e}) \in Nat
        /\ TotalOf(k, E) = k[e].memory + TotalOf(k, E \ {e})
        /\ TotalOf(k, E) <= Cardinality(E) * limit
    BY ONLY <1>5, <1>7, <1>8, limit \in Nat, TotalFacts
  <1>10. TotalOf(k, E \ {e}) = TotalOf(h, D \ {e})
    <2>1. \A x \in E \ {e} : h[x].memory \in Nat
      BY <1>4, <1>8
    <2>2. \A x \in E \ {e} : k[x] = h[x]
      BY <1>2, <1>8
    <2>3. TotalOf(k, E \ {e}) = TotalOf(h, E \ {e})
      BY ONLY <1>7, <2>1, <2>2, TotalFacts
    <2> QED
      BY <2>3, <1>8
  <1>11. OtherReserved(e) = TotalOf(h, D \ {e})
    BY <1>1 DEF OtherReserved, TotalOf
  <1>12. Reserved' = TotalOf(k, E)
    BY <1>1 DEF Reserved, TotalOf, MapThenSumSet, MapThenFoldSet
  <1>13. PICK a, b, m, n, N : /\ a = Reserved' /\ b = OtherReserved(e) /\ m = r.memory
                              /\ n = Cardinality(E) /\ N = Cardinality(Extensions)
    OBVIOUS
  <1>14. /\ a = m + b /\ b \in Nat /\ m \in Nat /\ a <= n * limit
         /\ n \in Nat /\ N \in Nat /\ n <= N /\ N * limit < Modulus
    BY <1>3, <1>7, <1>9, <1>10, <1>11, <1>12, <1>13
  <1>15. a \in Nat /\ a < Modulus
    <2>1. n * limit <= N * limit /\ n * limit \in Nat /\ N * limit \in Nat
      BY <1>14, ProductGrows, ProductType
    <2> QED
      BY <1>14, <2>1, AdmissionAssumption
  <1>16. a % Modulus = a
    BY ONLY <1>15, AdmissionAssumption
  <1> QED
    BY <1>13, <1>14, <1>15, <1>16

\* A load never takes the reserved memory beyond the host's total, nor the cap of an
\* extension beyond its tier, without a record that the user overrode the policy, as
\* long as the residents' declarations cannot add up to a sum that wraps in the
\* kernel's 64 bits (policy_memory_limits adds them unchecked).
THEOREM LoadsKeepThePolicy ==
  ASSUME IsFiniteSet(Extensions), NEW limit \in Nat, \A r \in Requests : r.memory <= limit,
         Cardinality(Extensions) * limit < Modulus
  PROVE  Spec => ExceptionsAreRecorded
  <1> DEFINE Kept(e) ==
        LET r == loaded'[e].request
        IN  \/ overrides' > overrides
            \/ r.manifest.class = "resident" /\ \A total \in policy.total : Reserved' <= total
            \/ r.manifest.class = "standard" /\ loaded'[e].cap <= TierCap(r)
  <1>1. ASSUME TypeParts, ReservedAtMost(limit),
               NEW e \in Extensions, NEW r \in Requests, NEW c \in Contexts,
               NEW consent \in BOOLEAN, Load(e, r, c, consent), NEW x, LoadedNow(x)
        PROVE  Kept(x)
    <2>1. x = e
      BY <1>1 DEF Load, LoadedNow
    <2>2. loaded'[e].request = r /\ loaded'[e].cap = CapOf(e, r)
      <3>1. Trusted(r, c) /\ loaded' = With(loaded, e, Entry(e, r, c))
        BY <1>1 DEF Load, Admitted, Entry
      <3>2. loaded'[e] = Entry(e, r, c)
        BY <3>1 DEF With
      <3> QED
        BY <1>1, <3>1, <3>2, EntryFacts DEF TypeParts
    <2>3. Admitted(e, r, c, consent)
      BY <1>1 DEF Load
    <2>4. CASE NeedsConsent(e, r)
      <3>1. overrides' = overrides + 1 /\ overrides \in Nat
        BY <1>1, <2>3, <2>4 DEF Admitted, TypeParts, CounterTypes
      <3>2. overrides' > overrides
        BY <3>1
      <3> QED
        BY <2>1, <3>2
    <2>5. CASE ~NeedsConsent(e, r) /\ r.manifest.class = "resident"
      <3>1. PICK sum : sum = r.memory + OtherReserved(e)
        OBVIOUS
      <3>2. Reserved' = sum /\ sum \in Nat /\ sum % Modulus = sum
        BY <1>1, <2>5, <3>1, ReservedAfterLoad
      <3>3. PICK total \in policy.total : ~(sum > total)
        BY <2>5, <3>1, <3>2 DEF NeedsConsent
      <3>4. \A t \in policy.total : t = total /\ t \in Nat
        BY <1>1, <3>3 DEF TypeParts, PolicyTypes, IsOptional
      <3>5. \A t \in policy.total : Reserved' <= t
        BY <3>2, <3>3, <3>4
      <3> QED
        BY <2>1, <2>2, <2>5, <3>5
    <2>6. CASE ~NeedsConsent(e, r) /\ r.manifest.class = "standard"
      <3>1. loaded'[e].cap = TierCap(r)
        BY <2>2, <2>6 DEF CapOf
      <3>2. TierCap(r) \in Nat
        BY <1>1, RequestFacts, StrictestFacts DEF TypeParts, PolicyTypes, TierCap
      <3>3. loaded'[e].cap <= TierCap(r)
        BY <3>1, <3>2
      <3> QED
        BY <2>1, <2>2, <2>6, <3>3
    <2> QED
      BY <2>4, <2>5, <2>6, RequestFacts
  <1>2. ASSUME NEW e \in Extensions, NEW r \in Requests, NEW c \in Contexts, NEW x,
               LoadRejected(e, r, c) \/ LoadNeedsConsent(e, r, c)
                 \/ \E consent \in BOOLEAN : LoadFails(e, r, c, consent)
        PROVE  ~LoadedNow(x)
    BY <1>2 DEF LoadRejected, LoadNeedsConsent, LoadFails, LoadedNow
  <1>3. ASSUME NEW x, \/ \E p \in Policies, nsPerFuel \in Calibrations : SetPolicy(p, nsPerFuel)
                      \/ \E e \in Extensions : Activate(e)
        PROVE  ~LoadedNow(x)
    <2>1. reply' = [op |-> "policy"] \/ reply' = [op |-> "activate"]
      BY <1>3 DEF SetPolicy, Activate
    <2> QED
      BY <2>1 DEF LoadedNow
  <1> HIDE DEF Kept
  <1>4. TypeParts /\ ReservedAtMost(limit) /\ Next =>
          UNCHANGED vars \/ \A x \in DOMAIN loaded' : LoadedNow(x) => Kept(x)
    <2> SUFFICES ASSUME TypeParts, ReservedAtMost(limit), Next, ~UNCHANGED vars,
                        NEW x \in DOMAIN loaded', LoadedNow(x)
                 PROVE  Kept(x)
      OBVIOUS
    <2> QED
      BY <1>1, <1>2, <1>3 DEF Next, LoadStep
  <1>5. TypeParts /\ ReservedAtMost(limit) /\ [Next]_vars =>
          [\A e \in DOMAIN loaded' :
             LoadedNow(e) =>
               LET r == loaded'[e].request
               IN  \/ overrides' > overrides
                   \/ r.manifest.class = "resident" /\ \A total \in policy.total : Reserved' <= total
                   \/ r.manifest.class = "standard" /\ loaded'[e].cap <= TierCap(r)]_vars
    BY <1>4 DEF Kept
  <1>6. Spec => []ReservedAtMost(limit)
    BY ReservationsAreDeclared
  <1> QED
    BY <1>5, <1>6, AdmissionTypes, PTL DEF Spec, ExceptionsAreRecorded

=============================================================================
