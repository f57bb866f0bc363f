---------------------------- MODULE SecurityCore ----------------------------
(***************************************************************************)
(* The verdict of rust/extensions-security-core on a manifest: signature   *)
(* policy, signature, revocations, trust bundle, in that order.            *)
(*                                                                         *)
(* An optional field of the code is a set of at most one element.  A key   *)
(* is [kind, pair]; a signature value is what the private half of a key    *)
(* (by) makes of a manifest without its signature (of), so it verifies     *)
(* under exactly that key and that content.                                *)
(*                                                                         *)
(*   manifest   any record with the fields signature and trust             *)
(*   signature  [complete, algorithm, keyId, by, of]                       *)
(*   trust      [complete, publisher, domain, issuer, expires]; an expiry  *)
(*              that cannot be parsed is time 0, which is refused as well  *)
(*   context    [policy, development, keys, directory, revoked, bundle,    *)
(*              now], with keys and directory functions from key ids       *)
(***************************************************************************)
EXTENDS Naturals, Sequences, SequencesExt

Algorithms == {"ed25519", "rsa-sha256"}

\* signature(): an incomplete signature counts as none.
SignatureOf(m) == {s \in m.signature : s.complete}

\* canonicalize_manifest: everything but the signature, in an order of its own.
Unsigned(m) == [m EXCEPT !.signature = {}]

\* should_require_signature: an unknown policy requires one.
RequiresSignature(c) ==
  /\ c.policy # {"allow-unsigned"}
  /\ c.policy \in {{}, {"require-signature-except-development"}} => ~c.development

\* resolve_public_key: the given keys first, then the directory.
PublicKeys(c, id) ==
  IF id \in DOMAIN c.keys THEN {c.keys[id]}
  ELSE {c.directory[x] : x \in DOMAIN c.directory \cap {id}}

\* verify_signature; a key of another kind than the algorithm is not accepted.
Verifies(m, s, c) ==
  \E key \in PublicKeys(c, s.keyId) :
    /\ s.algorithm \in Algorithms
    /\ key.kind = s.algorithm
    /\ s.by = key /\ s.of = Unsigned(m)

\* trust_metadata: an error unless all three identifiers are there.
TrustMalformed(m) == \E t \in m.trust : ~t.complete

\* Broken variant: only a signed manifest is looked up in the revocation list.
RevokedSigned(m, c) ==
  \E r \in c.revoked, s \in SignatureOf(m) :
    \/ s.keyId \in r.keys
    \/ TrustMalformed(m)
    \/ \E t \in m.trust : t.issuer \in r.issuers \/ t.publisher \in r.publishers

\* enforce_revocations, which looks at unsigned manifests too.
Revoked(m, c) ==
  \E r \in c.revoked :
    \/ \E s \in SignatureOf(m) : s.keyId \in r.keys
    \/ TrustMalformed(m)
    \/ \E t \in m.trust : t.issuer \in r.issuers \/ t.publisher \in r.publishers

\* enforce_trust_bundle on complete trust metadata: the first issuer of that name
\* counts.
TrustVerdict(t, bundle, now) ==
  LET i == SelectInSeq(bundle, LAMBDA x : x.id = t.issuer)
  IN  IF i = 0 THEN "third-party-untrusted"
      ELSE IF \/ bundle[i].domain # t.domain
              \/ \E allowed \in bundle[i].publishers : t.publisher \notin allowed
              \/ \E at \in t.expires : at <= now
           THEN "refused"
      ELSE IF bundle[i].authorized THEN "authorized-safe" ELSE "third-party-untrusted"

\* The status of a signed manifest that is not revoked.
SignedVerdict(m, c) ==
  IF c.bundle = {} \/ m.trust = {} THEN "third-party-untrusted"
  ELSE IF TrustMalformed(m) THEN "refused"
  ELSE CHOOSE v \in {TrustVerdict(t, b, c.now) : t \in m.trust, b \in c.bundle} : TRUE

\* enforce_signature_policy.
Refused(m, c) == RequiresSignature(c) /\ SignatureOf(m) = {}

\* evaluate_manifest: the status the extension is loaded with, or "refused".
Verdict(m, c) ==
  IF \/ Refused(m, c)
     \/ \E s \in SignatureOf(m) : ~Verifies(m, s, c)
     \/ Revoked(m, c)
  THEN "refused"
  ELSE IF SignatureOf(m) = {} THEN "unsigned"
  ELSE SignedVerdict(m, c)
=============================================================================
