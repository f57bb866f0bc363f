-------------------------- MODULE MCKernelAdmission --------------------------
(***************************************************************************)
(* KernelAdmission on small instances: requests on both sides of every cap *)
(* of the policies, and manifests on both sides of every check of the      *)
(* security core.                                                          *)
(***************************************************************************)
EXTENDS KernelAdmission

Key == [kind |-> "ed25519", pair |-> 1]
Other == [kind |-> "rsa-sha256", pair |-> 2]

Trust(publisher, expires) ==
  {[complete |-> TRUE, publisher |-> publisher, domain |-> "d", issuer |-> "i",
    expires |-> expires]}

Bare(class, trust) == [class |-> class, trust |-> trust, signature |-> {}]

\* The manifest m signed with a key the host knows as k.
Signed(m, key) ==
  [m EXCEPT !.signature = {[complete |-> TRUE, algorithm |-> key.kind, keyId |-> "k",
                            by |-> key, of |-> Unsigned(m)]}]

Plain == Bare("standard", {})
Resident == Bare("resident", {})
Vouched == Signed(Bare("standard", Trust("p", {2})), Key)
Tampered == [Vouched EXCEPT !.trust = Trust("p", {})]
Incomplete == [Signed(Bare("standard", Trust("q", {1})), Key) EXCEPT !.signature = {[s EXCEPT !.complete = FALSE] : s \in @}]
MalformedTrust ==
  Bare("resident", {[t EXCEPT !.complete = FALSE] : t \in Trust("p", {})})

Request(m, capabilities, memory, slice) ==
  [manifest |-> m, capabilities |-> capabilities, memory |-> memory, slice |-> slice]

MCRequests == {Request(Plain, <<"batch">>, 2, 0),
               Request(Vouched, <<"realtime", "batch">>, 2, 0),
               Request(Tampered, <<"realtime", "batch">>, 2, 0),
               Request(Incomplete, <<"batch">>, 2, 0),
               Request(Signed(Resident, Key), <<"batch">>, 2, 3),
               Request(Signed(Resident, Other), <<"interactive">>, 1, 0),
               Request(MalformedTrust, <<>>, 1, 0),
               Request(Signed(Resident, Key), <<>>, 0, 0)}

Issuer(domain, publishers, authorized) ==
  [id |-> "i", domain |-> domain, publishers |-> publishers, authorized |-> authorized]

Context(required, development, key, revoked, bundle, now) ==
  [policy |-> required, development |-> development, keys |-> [k \in {"k"} |-> key],
   directory |-> [k \in {"k"} |-> Key], revoked |-> revoked, bundle |-> bundle, now |-> now]

Revocations(keys, publishers) ==
  {[keys |-> keys, issuers |-> {}, publishers |-> publishers]}

\* A development host, one that requires signatures and trusts an issuer, one with
\* another key and a revocation list, a host whose clock moved on and whose issuer is
\* not authorized, and a host with a misspelt policy.
MCContexts == {Context({}, TRUE, Key, Revocations({}, {"q"}), {}, 1),
               Context({"require-signature"}, TRUE, Key, {},
                       {<<Issuer("d", {{"p"}}, TRUE)>>}, 1),
               Context({"allow-unsigned"}, FALSE, Other, Revocations({}, {}), {<<>>}, 1),
               Context({"allow-unsigned"}, FALSE, Key, Revocations({"z"}, {}),
                       {<<Issuer("d", {}, FALSE), Issuer("x", {}, TRUE)>>}, 2),
               Context({"no-signature"}, TRUE, Key, Revocations({"k"}, {}), {}, 1)}

Policy(total, realtime, other, override, budget) ==
  [total |-> total, override |-> override, budget |-> budget, share |-> {},
   caps |-> [t \in Tiers |-> IF t = "realtime" THEN realtime ELSE other]]

MCPolicies == {Policy({3}, 1, 2, {}, {}), Policy({4}, 2, 1, {}, {80}),
               Policy({}, 1, 1, {0}, {})}
=============================================================================
