----------------------------- MODULE UrlIdentity -----------------------------
(***************************************************************************)
(* Canonical URL V1.  Three programs decide it with code of their own: the *)
(* seed importer canonicalizes (url_identity.py), the backlinks processor  *)
(* and the digest verifier recognize what is canonical already             *)
(* (url_validation.py, crawl_jobs_v2_url.py).  The ids of the catalog, the *)
(* queue and the index join only if the three agree.                       *)
(*                                                                         *)
(* A URL is a record of its parts; each part is one of the kinds that one  *)
(* of the three tells apart, a path or a query a sequence of characters of *)
(* such kinds.  They do not tell A-labels apart alike: the importer and    *)
(* the backlinks processor ask the Python package idna (IDNA 2008), the    *)
(* verifier follows the spider's Go profile (UTS 46, no ContextO, hyphens  *)
(* counted in bytes).  The host's kind says who takes the label:           *)
(*   aLabel          all three                                             *)
(*   badALabel       none                                                  *)
(*   symbolALabel    the verifier only (a symbol, a middle dot)            *)
(*   hyphenALabel    the two with idna only (hyphens in bytes 3 and 4,     *)
(*                   characters 2 and 3; a name not stream-safe)           *)
(***************************************************************************)
EXTENDS Integers, Sequences, SequencesExt, Folds

CONSTANTS
    Raw,            \* the URLs that come in
    MaxBytes        \* MAX_URL_BYTES less what the fixed parts take

VARIABLES url, rounds       \* the URL, and how often it was canonicalized

vars == <<url, rounds>>

\* A component that is not there, unlike one that is empty.
Absent == <<"absent">>
Chars(c) == IF c = Absent THEN <<>> ELSE c
All(u) == Chars(u.path) \o Chars(u.query)
Some(u, kinds) == \E k \in 1..Len(All(u)) : All(u)[k] \in kinds

\* Bytes of a character: as it is, or once quote() has escaped it.
Width == [plain |-> 1, space |-> 1, control |-> 1, backslash |-> 1, wide |-> 2,
          upper |-> 3, lower |-> 3, escControl |-> 3, escC1 |-> 6, malformed |-> 1]
Bytes(s) == FoldLeft(LAMBDA n, c : n + Width[c], 0, s)

Encoded(c) ==
    IF c = "lower" \/ c = "space" THEN <<"upper">>
    ELSE IF c = "wide" THEN <<"upper", "upper">> ELSE <<c>>

\* _encode_component: escapes in upper case, what is not safe escaped.
EncodeComponent(s) == FlattenSeq([k \in 1..Len(s) |-> Encoded(s[k])])

-----------------------------------------------------------------------------
(* url_identity.py *)

IpHosts == {"ipv4", "ipv6", "IPV6"}

FoldHost(h) == CASE h = "NAME" -> "name" [] h = "IPV6" -> "ipv6" [] OTHER -> h
FoldScheme(s) == IF s = "HTTPS" THEN "https" ELSE s

\* _validated_host, with _validate_domain_host.
HostError(h) ==
    CASE h = "wide" -> "non_ascii_host_v1"
      [] h \in {"none", "zone", "numeric", "badLabel", "trailingDot", "badALabel", "symbolALabel"}
                -> "invalid_host"
      [] OTHER -> "none"

\* _explicit_port: its text is decimal and in range.
PortError(p) == IF p \in {"empty", "zero", "big", "text"} THEN "invalid_port" ELSE "none"

\* The port that the canonical authority shows: no default port, no zeros ahead.
PortIn(scheme, p) ==
    CASE p \in {"default", "paddedDefault"} -> "none"
      [] p = "padded" -> "other"
      [] OTHER -> p

FirstError(u) ==
    CASE Bytes(All(u)) > MaxBytes             -> "url_too_long"
      [] u.edge \/ Some(u, {"control"})       -> "whitespace_or_control"
      [] Some(u, {"backslash"})               -> "backslash_forbidden"
      [] Some(u, {"malformed"})               -> "malformed_escape"
      [] Some(u, {"escControl", "escC1"})     -> "encoded_control"
      [] u.scheme = "none"                    -> "absolute_url_required"
      [] u.scheme = "ftp"                     -> "scheme_not_allowed"
      [] u.host = "none" /\ u.port = "none" /\ ~u.user -> "absolute_url_required"
      [] u.user                               -> "userinfo_forbidden"
      [] HostError(u.host) # "none"           -> HostError(u.host)
      [] PortError(u.port) # "none"           -> PortError(u.port)
      [] OTHER                                -> "none"

Rewritten(u) ==
    [u EXCEPT !.scheme = FoldScheme(@), !.host = FoldHost(@), !.fragment = FALSE,
              !.port = PortIn(FoldScheme(u.scheme), @),
              !.path = EncodeComponent(Chars(@)),
              !.query = IF @ = Absent THEN Absent ELSE EncodeComponent(@)]

\* canonicalize_url: the first error, or the canonical URL, which may be too
\* long although the raw one was not.
Canonicalize(u) ==
    IF FirstError(u) # "none" THEN [error |-> FirstError(u), url |-> u]
    ELSE IF Bytes(All(Rewritten(u))) > MaxBytes THEN [error |-> "url_too_long", url |-> u]
    ELSE [error |-> "none", url |-> Rewritten(u)]

IsCanonical(u) == Canonicalize(u) = [error |-> "none", url |-> u]

\* static_crawl_eligibility.
Eligible(u) ==
    /\ u.host \notin IpHosts
    /\ u.host \notin {"bare", "local"}
    /\ u.port \in {"none", "default", "paddedDefault"}

-----------------------------------------------------------------------------
(* url_validation.py *)

FaultyRecognizedByBacklinks(u) ==
    /\ Bytes(All(u)) <= MaxBytes
    /\ ~u.edge /\ ~u.fragment /\ ~u.user
    /\ ~Some(u, {"wide", "backslash", "control", "malformed", "lower", "escControl", "escC1"})
    /\ u.scheme \in {"http", "https"}
    /\ u.host \in {"name", "bare", "local", "aLabel", "hyphenALabel", "ipv4", "ipv6"}
    /\ u.port \in {"none", "other"}
    /\ ~Some(u, {"space"})

\* validate_canonical_url: the authority must be the one it would write, and
\* the path must be there.
RecognizedByBacklinks(u) ==
    /\ Bytes(All(u)) <= MaxBytes
    /\ u.host # "wide" /\ ~Some(u, {"wide"}) /\ ~u.edge /\ ~Some(u, {"backslash"})
    /\ ~Some(u, {"control"})
    /\ ~Some(u, {"malformed", "lower"})
    /\ ~Some(u, {"escControl", "escC1"}) /\ ~u.fragment
    /\ u.port \notin {"text", "big"}
    /\ u.scheme \in {"http", "https"}
    /\ ~u.user
    /\ u.host \notin {"none", "zone", "NAME", "IPV6"}
    /\ u.host \notin {"numeric", "trailingDot", "badLabel", "badALabel", "symbolALabel"}
    /\ u.port \notin {"zero", "default", "paddedDefault"}
    /\ u.port \notin {"padded", "empty"} /\ u.path # Absent
    /\ ~Some(u, {"space"})

-----------------------------------------------------------------------------
(* crawl_jobs_v2_url.py *)

\* validate_identity.
RecognizedByVerifier(u) ==
    /\ u.host # "wide" /\ ~Some(u, {"wide"})
    /\ Bytes(All(u)) <= MaxBytes
    /\ ~u.edge /\ ~Some(u, {"space", "control", "backslash"})
    /\ ~u.fragment
    /\ u.scheme \in {"http", "https"}
    /\ u.host # "none" /\ u.path # Absent
    /\ ~u.user
    /\ u.host \in {"name", "bare", "local", "aLabel", "symbolALabel", "ipv4", "ipv6"}
    /\ u.port = "none" \/ u.port = "other"
    /\ ~Some(u, {"malformed", "lower", "escControl", "escC1"})

\* derive_origin: no IP literal, any port.
HasOrigin(u) == RecognizedByVerifier(u) /\ u.host \notin IpHosts

-----------------------------------------------------------------------------
Init == url \in Raw /\ rounds = 0

\* A program canonicalizes what another one canonicalized or not.
Canonical ==
    /\ rounds < 2
    /\ Canonicalize(url).error = "none"
    /\ url' = Canonicalize(url).url
    /\ rounds' = rounds + 1

Next == Canonical

Spec == Init /\ [][Next]_vars

-----------------------------------------------------------------------------
(* Properties. *)

\* What was canonicalized once is accepted, and stays as it is: an id computed
\* from a stored URL is the id it was stored under.
Idempotent == rounds > 0 => IsCanonical(url)

\* The backlinks processor takes exactly the URLs that canonicalization leaves
\* alone: no member the spider wrote is refused, no other one is stored.
BacklinksAgree == RecognizedByBacklinks(url) <=> IsCanonical(url)

\* The same URL with an A-label that idna takes where the verifier's rule takes
\* the one it has, and one that idna refuses where the verifier's refuses.
LabelOfVerifier(u) ==
    [u EXCEPT !.host = CASE @ = "symbolALabel" -> "aLabel"
                         [] @ = "hyphenALabel" -> "badALabel"
                         [] OTHER              -> @]

\* The verifier takes exactly the same but for the rule of the A-labels: the two
\* rules disagree both ways (lua_url_test.go:287 has labels of both kinds), and
\* where they agree, and in every other part of the URL, so do the programs.
VerifierAgrees == RecognizedByVerifier(url) <=> IsCanonical(LabelOfVerifier(url))

\* A URL that may be crawled is at the default port, once canonicalized, and it
\* names a host with an origin, so that every rule that goes by origin applies to
\* it; the verifier has no origin for a label that only idna takes.
EligibleHasOrigin ==
    rounds > 0 /\ Eligible(url) =>
        /\ url.port = "none"
        /\ HasOrigin(url) \/ url.host = "hyphenALabel"
=============================================================================
