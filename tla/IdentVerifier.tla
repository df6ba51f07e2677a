---------------------------- MODULE IdentVerifier ----------------------------
(***************************************************************************)
(* The six steps by which a node verifies an IdentFrame (nps-nip/src/      *)
(* verifier.rs), with the revocation policy of step 4                      *)
(* (revocation_policy.rs) and the Phase-3 checks of step 3 (phase3.rs).    *)
(*                                                                         *)
(* Signatures and certificate chains are external: a frame says whether    *)
(* its own verify.  A text is a sequence of characters, an absent Option   *)
(* is <<>>, a present one <<value>>.                                       *)
(***************************************************************************)
EXTENDS Naturals, Sequences, SequencesExt

Fail(step, code) == [valid |-> FALSE, step_failed |-> step, code |-> code]
Valid == [valid |-> TRUE, step_failed |-> 0, code |-> "none"]

\* The results of checks made in order: the first failure is the answer.
FirstFailure(results) ==
    LET failed == {i \in DOMAIN results : ~results[i].valid}
    IN  IF failed = {} THEN Valid
        ELSE results[CHOOSE i \in failed : \A j \in failed : i <= j]

Check(ok, step, code) == IF ok THEN Valid ELSE Fail(step, code)

-----------------------------------------------------------------------------
\* Step 1: a frame without an expiry passes.
CheckExpiry(f, now) ==
    Check(\A i \in DOMAIN f.expires_at : f.expires_at[i] > now, 1, "cert_expired")

\* Step 2: the declared issuer, if any, is the expected one, which is trusted.
CheckIssuer(f, o, issuer) ==
    Check((\A i \in DOMAIN f.issued_by : f.issued_by[i] = issuer) /\ issuer \in o.trusted,
          2, "cert_untrusted_issuer")

\* phase3::enforce: what is claimed must be attested where the leaf attests
\* anything, and the staple must be there and fresh.
Enforce(f, now) ==
    FirstFailure(<<
        Check(\A i \in DOMAIN f.leaf_roles : f.node_roles \subseteq f.leaf_roles[i],
              3, "cert_node_roles_mismatch"),
        Check(\A i \in DOMAIN f.leaf_caps : f.capabilities \subseteq f.leaf_caps[i],
              3, "cert_capabilities_exceeded"),
        Check(f.staple # <<>> /\ \A i \in DOMAIN f.staple : f.staple[i] > now,
              3, "ocsp_staple_expired") >>)

\* verify_signature: whatever is wrong with the signature or the issuer's key,
\* its presence, prefix, encoding, size or the bytes it covers, is one failure.
VerifySignature(f) == Check(f.signature_valid, 3, "cert_signature_invalid")

\* Step 3: signature, assurance, and for v2 frames the chain, when there are
\* trusted roots, and then Phase 3, when it is enforced.
CheckSignature(f, o, now) ==
    FirstFailure(<<
        VerifySignature(f),
        Check(f.assurance >= o.min_assurance, 3, "assurance_mismatch"),
        IF o.x509_roots /\ f.v2
        THEN IF ~f.chain_valid THEN Fail(3, "cert_format_invalid")
             ELSE IF o.phase3_enforcement THEN Enforce(f, now) ELSE Valid
        ELSE Valid >>)

-----------------------------------------------------------------------------
(* Step 4.  The answer of the OCSP endpoint is "good", one of the error     *)
(* codes of the CA, "other", or what became of the request.                 *)

OcspAnswers == {"good", "cert_revoked", "cert_expired", "ocsp_unavailable", "no_code", "other",
                "http_error", "transport_error"}

\* ocsp_check, and the outcome check_revocation makes of its code.
OcspOutcome(answer) ==
    CASE answer = "good" -> "good"
      [] answer \in {"cert_revoked", "no_code", "other"} -> "revoked"
      [] OTHER -> "unavailable"

\* observe, with the fail-open exception applied to every outcome.
Observe_Faulty(o, source, outcome) ==
    CASE outcome = "good" \/ (source = "ocsp" /\ o.ocsp_fail_open) -> Valid
      [] outcome = "revoked" /\ ~(source = "ocsp" /\ o.ocsp_fail_open) -> Fail(4, "cert_revoked")
      [] OTHER -> Fail(4, "ocsp_unavailable")

\* NipRevocationPolicy::observe
Observe(o, source, outcome) ==
    CASE outcome = "good" -> Valid
      [] outcome = "revoked" -> Fail(4, "cert_revoked")
      [] outcome = "unavailable" ->
           Check(source = "ocsp" /\ o.ocsp_fail_open, 4, "ocsp_unavailable")

\* What the configured sources say, in the order they are consulted.  A frame
\* without a serial is on no list; the callback gives a result of its own.
Consulted(f, o) ==
    LET Lookup(source, S) ==
            <<Observe(o, source, IF f.serial # <<>> /\ f.serial[1] \in S THEN "revoked" ELSE "good")>>
    IN  (IF o.local_crl_configured \/ o.local_revoked # {}
         THEN Lookup("local_crl", o.local_revoked) ELSE <<>>)
        \o o.revocation_check
        \o (IF o.revocation_store = <<>> THEN <<>> ELSE Lookup("ca_store", o.revocation_store[1]))
        \o (IF o.ocsp_url = <<>> THEN <<>> ELSE <<Observe(o, "ocsp", OcspOutcome(o.ocsp_url[1]))>>)

\* NipRevocationPolicy::complete
Complete(o, consulted) ==
    Check(~(o.revocation_required /\ consulted = <<>>), 4, "ocsp_unavailable")

\* check_revocation
CheckRevocation(f, o) ==
    FirstFailure(Append(Consulted(f, o), Complete(o, Consulted(f, o))))

-----------------------------------------------------------------------------
Lower(text) == [i \in DOMAIN text |-> IF text[i] = "A" THEN "a" ELSE text[i]]

\* nwp_path_matches: "*", a prefix and what is under it, or the path itself;
\* upper and lower case are the same.
NwpPathMatches(pattern, path) ==
    LET prefix == SubSeq(pattern, 1, Len(pattern) - 2)
        below == IsSuffix(<<"/", "*">>, pattern)
    IN  \/ pattern = <<"*">>
        \/ /\ below /\ IsPrefix(Lower(prefix), Lower(path))
           /\ Len(path) = Len(prefix) \/ path[Len(prefix) + 1] = "/"
        \/ ~below /\ Lower(pattern) = Lower(path)

\* Steps 5 and 6.
CheckCapabilities(f, c) ==
    Check(c.required_capabilities \subseteq f.capabilities, 5, "cert_capability_missing")

CheckScope(f, c) ==
    Check(\A i \in DOMAIN c.target :
              \E p \in UNION ToSet(f.scope_nodes) : NwpPathMatches(p, c.target[i]),
          6, "cert_scope_violation")

\* NipIdentVerifier::verify
Verify(f, o, c) ==
    FirstFailure(<<CheckExpiry(f, c.now), CheckIssuer(f, o, c.issuer),
                   CheckSignature(f, o, c.now), CheckRevocation(f, o),
                   CheckCapabilities(f, c), CheckScope(f, c)>>)

-----------------------------------------------------------------------------
(* What verification must find, each step taken alone and said without the  *)
(* order or the functions of the code.                                      *)

\* One character, whatever its case.
Same(x, y) == x = y \/ {x, y} = {"a", "A"}

\* A pattern covers a path: it is "*", the path itself, or what the path or
\* one of its parents becomes when "/*" is written after it.
Covers(pattern, path) ==
    LET Alike(s, t) == Len(s) = Len(t) /\ \A i \in DOMAIN s : Same(s[i], t[i])
        parents == {SubSeq(path, 1, k - 1) : k \in {i \in DOMAIN path : path[i] = "/"}} \cup {path}
        ending == Len(pattern) >= 2 /\ pattern[Len(pattern)] = "*" /\ pattern[Len(pattern) - 1] = "/"
    IN  \/ pattern = <<"*">>
        \/ Alike(pattern, path) /\ ~ending
        \/ \E q \in parents : Alike(pattern, q \o <<"/", "*">>)

\* Some source that is configured knows the certificate to be bad.
KnownRevoked(f, o) ==
    \/ \E n \in ToSet(f.serial) : n \in o.local_revoked \cup UNION ToSet(o.revocation_store)
    \/ \E r \in ToSet(o.revocation_check) : ~r.valid
    \/ \E a \in ToSet(o.ocsp_url) : a \in {"cert_revoked", "no_code", "other"}

\* OCSP gave no verdict on revocation.
OcspSilent(o) == \E a \in ToSet(o.ocsp_url) :
                    a \in {"cert_expired", "ocsp_unavailable", "http_error", "transport_error"}

NoSource(o) == /\ ~o.local_crl_configured /\ o.local_revoked = {} /\ o.revocation_check = <<>>
               /\ o.revocation_store = <<>> /\ o.ocsp_url = <<>>

\* The steps of verification that the frame does not pass, each taken alone.
Failing(f, o, c) ==
    {n \in 1..6 :
        CASE n = 1 -> \E x \in ToSet(f.expires_at) : x <= c.now
          [] n = 2 -> c.issuer \notin o.trusted \/ \E i \in ToSet(f.issued_by) : i # c.issuer
          [] n = 3 -> \/ ~f.signature_valid \/ f.assurance < o.min_assurance
                      \/ /\ f.v2 /\ o.x509_roots
                         /\ \/ ~f.chain_valid
                            \/ /\ o.phase3_enforcement
                               /\ \/ \E r \in ToSet(f.leaf_roles) : f.node_roles \ r # {}
                                  \/ \E s \in ToSet(f.leaf_caps) : f.capabilities \ s # {}
                                  \/ \A s \in ToSet(f.staple) : s <= c.now
          [] n = 4 -> \/ KnownRevoked(f, o)
                      \/ OcspSilent(o) /\ ~o.ocsp_fail_open
                      \/ o.revocation_required /\ NoSource(o)
          [] n = 5 -> c.required_capabilities \ f.capabilities # {}
          [] n = 6 -> \E t \in ToSet(c.target) : \A p \in UNION ToSet(f.scope_nodes) : ~Covers(p, t)}

\* A result is right: valid when no step fails, otherwise the first that does.
VerdictExact(f, o, c, result) ==
    LET failing == Failing(f, o, c)
    IN  /\ result.valid <=> failing = {}
        /\ ~result.valid => /\ result.step_failed \in failing
                           /\ \A n \in failing : result.step_failed <= n
=============================================================================
