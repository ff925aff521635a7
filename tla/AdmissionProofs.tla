-------------------------- MODULE AdmissionProofs --------------------------
(***************************************************************************)
(* Lemmas about what handleForward decides: facts about paths that hold    *)
(* for every path and every number of decodings, and that the message      *)
(* built for a request that passed every check is one the policy permits.  *)
(***************************************************************************)
EXTENDS Admission, SequenceTheorems, TLAPS

(* Paths                                                                   *)

\* n rounds of url.PathUnescape give a path of the same number of marks.
LEMMA UnescapedType ==
    ASSUME NEW p \in Seq(Mark), NEW n \in Nat
    PROVE  /\ Unescaped(p, n) \in Seq(Mark)
           /\ Len(Unescaped(p, n)) = Len(p)
           /\ \A k \in 1..Len(p) : /\ p[k] \in Mark
                                   /\ Unescaped(p, n)[k].c = p[k].c
                                   /\ Unescaped(p, n)[k].d =
                                        IF p[k].d > n THEN p[k].d - n ELSE 0
                                   /\ Unescaped(p, n)[k] =
                                        [c |-> Unescaped(p, n)[k].c, d |-> Unescaped(p, n)[k].d]
  <1>1. \A k \in 1..Len(p) : p[k] \in Mark
    OBVIOUS
  <1>2. \A k \in 1..Len(p) :
           [c |-> p[k].c, d |-> IF p[k].d > n THEN p[k].d - n ELSE 0] \in Mark
    BY <1>1 DEF Mark
  <1>3. Len(p) \in Nat
    OBVIOUS
  <1>4. Unescaped(p, n) \in Seq(Mark)
    BY <1>2, <1>3 DEF Unescaped
  <1>5. Len(Unescaped(p, n)) = Len(p)
    BY <1>3, <1>4 DEF Unescaped
  <1> QED
    BY <1>1, <1>4, <1>5 DEF Unescaped

\* No round of decoding changes nothing.
LEMMA UnescapedZero ==
    ASSUME NEW p \in Seq(Mark)
    PROVE  Unescaped(p, 0) = p
  <1>1. ASSUME NEW k \in 1..Len(p)
        PROVE  [c |-> p[k].c, d |-> IF p[k].d > 0 THEN p[k].d - 0 ELSE 0] = p[k]
    <2>1. p[k] \in Mark
      OBVIOUS
    <2> QED
      BY <2>1 DEF Mark
  <1>2. p = [k \in 1..Len(p) |-> p[k]]
    OBVIOUS
  <1> QED
    BY <1>1, <1>2 DEF Unescaped

\* Rounds of decoding add up.
LEMMA UnescapedTwice ==
    ASSUME NEW p \in Seq(Mark), NEW m \in Nat, NEW n \in Nat
    PROVE  Unescaped(Unescaped(p, m), n) = Unescaped(p, m + n)
  <1> DEFINE q == Unescaped(p, m)
  <1>1. /\ q \in Seq(Mark)
        /\ Len(q) = Len(p)
        /\ \A k \in 1..Len(p) : /\ p[k] \in Mark
                                /\ q[k].c = p[k].c
                                /\ q[k].d = IF p[k].d > m THEN p[k].d - m ELSE 0
    BY UnescapedType
  <1>2. ASSUME NEW k \in 1..Len(p)
        PROVE  (IF q[k].d > n THEN q[k].d - n ELSE 0)
                 = (IF p[k].d > m + n THEN p[k].d - (m + n) ELSE 0)
    BY <1>1, <1>2 DEF Mark
  <1> HIDE DEF q
  <1>3. Unescaped(q, n) = Unescaped(p, m + n)
    BY <1>1, <1>2 DEF Unescaped
  <1> QED
    BY <1>3 DEF q

\* A text that one round leaves alone is left alone by any number of rounds.
LEMMA StableForever ==
    ASSUME NEW p \in Seq(Mark), Unescaped(p, 1) = p, NEW n \in Nat
    PROVE  Unescaped(p, n) = p
  <1>1. ASSUME NEW k \in 1..Len(p)
        PROVE  p[k].d = 0
    <2>1. /\ p[k] \in Mark
          /\ Unescaped(p, 1)[k].d = IF p[k].d > 1 THEN p[k].d - 1 ELSE 0
      BY DEF Unescaped
    <2> QED
      BY <2>1 DEF Mark
  <1>2. ASSUME NEW k \in 1..Len(p)
        PROVE  [c |-> p[k].c, d |-> IF p[k].d > n THEN p[k].d - n ELSE 0] = p[k]
    <2>1. p[k] \in Mark
      OBVIOUS
    <2> QED
      BY <1>1, <2>1 DEF Mark
  <1> QED
    BY <1>2 DEF Unescaped

\* Decoding never hides a dot segment: a "." or ".." between two literal
\* slashes stays one.
LEMMA DottedForever ==
    ASSUME NEW p \in Seq(Mark), NEW n \in Nat, Dotted(p)
    PROVE  Dotted(Unescaped(p, n))
  <1> DEFINE q == Unescaped(p, n)
  <1>1. /\ q \in Seq(Mark)
        /\ Len(q) = Len(p)
    BY UnescapedType
  <1>2. ASSUME NEW k \in 1..Len(p), NEW ch, p[k] = Literal(ch)
        PROVE  q[k] = Literal(ch)
    BY <1>2 DEF Literal, Unescaped
  <1>3. PICK a \in Cuts(p), b \in Cuts(p) :
           /\ b - a \in {2, 3}
           /\ \A k \in 1..Len(p) : a < k /\ k < b => p[k] = Dot
    BY DEF Dotted
  <1>4. Cuts(p) \subseteq Cuts(q)
    BY <1>1, <1>2 DEF Cuts, Slash
  <1>5. \A k \in 1..Len(q) : a < k /\ k < b => q[k] = Dot
    BY <1>1, <1>2, <1>3 DEF Dot
  <1> QED
    BY <1>3, <1>4, <1>5 DEF Dotted

\* The prefix match survives decoding both sides equally often.
LEMMA UnderPrefixForever ==
    ASSUME NEW p \in Seq(Mark), NEW q \in Seq(Mark), NEW n \in Nat, UnderPrefix(p, q)
    PROVE  UnderPrefix(Unescaped(p, n), Unescaped(q, n))
  <1> DEFINE up == Unescaped(p, n)
             uq == Unescaped(q, n)
  <1>1. /\ up \in Seq(Mark)
        /\ uq \in Seq(Mark)
        /\ Len(up) = Len(p)
        /\ Len(uq) = Len(q)
    BY UnescapedType
  <1>2. ASSUME NEW k \in 1..Len(p), p[k] = Slash
        PROVE  up[k] = Slash
    BY <1>2 DEF Literal, Slash, Unescaped
  <1>3. ASSUME NEW k \in 1..Len(p), k \in 1..Len(q), p[k] = q[k]
        PROVE  up[k] = uq[k]
    BY <1>3 DEF Unescaped
  <1>4. CASE p = q
    BY <1>4 DEF UnderPrefix
  <1>5. CASE HasPrefix(p, q) /\ HasSuffixSlash(q)
    <2>1. HasPrefix(up, uq)
      BY <1>1, <1>3, <1>5 DEF HasPrefix
    <2>2. HasSuffixSlash(uq)
      <3>1. Len(q) \in 1..Len(p) /\ q[Len(q)] = Slash /\ p[Len(q)] = q[Len(q)]
        BY <1>5 DEF HasPrefix, HasSuffixSlash
      <3> QED
        BY <1>1, <1>2, <1>3, <3>1 DEF HasSuffixSlash
    <2> QED
      BY <2>1, <2>2 DEF UnderPrefix
  <1>6. CASE HasPrefix(p, Append(q, Slash))
    <2>1. /\ Len(q) + 1 <= Len(p)
          /\ \A k \in 1..Len(q) : k \in 1..Len(p) /\ p[k] = q[k]
          /\ p[Len(q) + 1] = Slash
      <3> DEFINE r == Append(q, Slash)
      <3>1. /\ Len(r) = Len(q) + 1
            /\ \A k \in 1..Len(q) : r[k] = q[k]
            /\ r[Len(q) + 1] = Slash
        OBVIOUS
      <3>2. Len(r) <= Len(p) /\ \A k \in 1..Len(r) : p[k] = r[k]
        BY <1>6 DEF HasPrefix
      <3> HIDE DEF r
      <3> QED
        BY <3>1, <3>2
    <2>2. \A k \in 1..Len(uq) : up[k] = uq[k]
      BY <1>1, <1>3, <2>1
    <2>3. up[Len(q) + 1] = Slash
      BY <1>2, <2>1
    <2> HIDE DEF up, uq
    <2>4. HasPrefix(up, uq)
      BY <1>1, <2>1, <2>2 DEF HasPrefix
    <2>5. HasPrefix(up, Append(uq, Slash))
      BY <1>1, <2>1, <2>2, <2>3 DEF HasPrefix
    <2> QED
      BY <2>4, <2>5 DEF UnderPrefix, up, uq
  <1> QED
    BY <1>4, <1>5, <1>6 DEF UnderPrefix

\* A path that refuseDotSegments clears has no dot segment after any number
\* of decodings, although at most maxDecodes + 1 forms were looked at.
LEMMA ClearForever ==
    ASSUME NEW p \in Seq(Mark), NEW m \in Nat, DotSegmentsClear(p, m), NEW n \in Nat
    PROVE  ~ Dotted(Unescaped(p, n))
  <1>1. PICK k \in 0..m : /\ Unescaped(p, k + 1) = Unescaped(p, k)
                          /\ \A j \in 0..k : ~ Dotted(Unescaped(p, j))
    BY DEF DotSegmentsClear
  <1>2. CASE n <= k
    BY <1>1, <1>2
  <1>3. CASE n > k
    <2> DEFINE q == Unescaped(p, k)
    <2>1. k \in Nat /\ n - k \in Nat /\ k + (n - k) = n
      BY <1>3
    <2>2. q \in Seq(Mark)
      BY <2>1, UnescapedType
    <2>3. Unescaped(q, 1) = q
      BY <1>1, <2>1, UnescapedTwice
    <2>4. Unescaped(q, n - k) = q
      <3> HIDE DEF q
      <3> QED
        BY <2>1, <2>2, <2>3, StableForever
    <2>5. Unescaped(q, n - k) = Unescaped(p, n)
      <3>1. Unescaped(q, n - k) = Unescaped(p, k + (n - k))
        BY <2>1, UnescapedTwice
      <3> QED
        BY <2>1, <3>1
    <2> QED
      BY <1>1, <2>1, <2>4, <2>5
  <1> QED
    BY <1>2, <1>3

\* So has the wire path that url.Parse decoded it from.
LEMMA ClearOnTheWire ==
    ASSUME NEW w \in Seq(Mark), NEW m \in Nat, DotSegmentsClear(PathUnescape(w), m), NEW n \in Nat
    PROVE  ~ Dotted(Unescaped(w, n))
  <1>1. SUFFICES ASSUME Dotted(Unescaped(w, n)) PROVE FALSE
    OBVIOUS
  <1>2. Unescaped(w, n) \in Seq(Mark) /\ Unescaped(w, 1) \in Seq(Mark)
    BY UnescapedType
  <1>3. Dotted(Unescaped(Unescaped(w, n), 1))
    BY <1>1, <1>2, DottedForever
  <1>4. Unescaped(Unescaped(w, n), 1) = Unescaped(Unescaped(w, 1), n)
    <2>1. Unescaped(Unescaped(w, n), 1) = Unescaped(w, n + 1)
      BY UnescapedTwice
    <2>2. Unescaped(Unescaped(w, 1), n) = Unescaped(w, 1 + n)
      BY UnescapedTwice
    <2>3. n + 1 = 1 + n
      OBVIOUS
    <2> QED
      BY <2>1, <2>2, <2>3
  <1> QED
    BY <1>2, <1>3, <1>4, ClearForever DEF PathUnescape

----------------------------------------------------------------------------
(* Requests and messages                                                   *)

USE MaxDecodesAssumption

\* The parts of a configuration and a request the proofs look into.
WellFormed(s, q) ==
    /\ s.key # NoKey
    /\ q.url.wire \in Seq(Mark)
    /\ q.seals \in Seq({q.seals[n] : n \in DOMAIN q.seals})

----------------------------------------------------------------------------
(* What admission guarantees                                               *)

\* Each early return of handleForward was not taken.
LEMMA AdmittedPasses ==
    ASSUME NEW s, NEW q, Admitted(s, q), ~ Passthrough(s, q)
    PROVE  /\ ~ FailsCheck(s, q, "many_seals")
           /\ ~ FailsCheck(s, q, "sealed_header")
           /\ ~ FailsCheck(s, q, "seal_open")
           /\ ~ FailsCheck(s, q, "auth")
           /\ ~ FailsCheck(s, q, "override")
           /\ ~ FailsCheck(s, q, "port")
           /\ ~ FailsCheck(s, q, "host")
           /\ ~ FailsCheck(s, q, "path")
           /\ ~ FailsCheck(s, q, "method")
  <1>1. ASSUME NEW k \in 5..13
        PROVE  ~ FailsCheck(s, q, Checks[k])
    <2>1. Len(Checks) = 13
      BY DEF Checks
    <2> QED
      BY <2>1, <1>1 DEF Admitted, Fails
  <1>2. /\ Checks[5] = "many_seals" /\ Checks[6] = "sealed_header" /\ Checks[7] = "seal_open"
        /\ Checks[8] = "auth" /\ Checks[9] = "override" /\ Checks[10] = "port"
        /\ Checks[11] = "host" /\ Checks[12] = "path" /\ Checks[13] = "method"
    BY DEF Checks
  <1>3. /\ 5 \in 5..13 /\ 6 \in 5..13 /\ 7 \in 5..13 /\ 8 \in 5..13 /\ 9 \in 5..13
        /\ 10 \in 5..13 /\ 11 \in 5..13 /\ 12 \in 5..13 /\ 13 \in 5..13
    OBVIOUS
  <1> QED
    BY <1>1, <1>2, <1>3

\* The cases of FailsCheck, one by one.
LEMMA CheckMeans ==
    ASSUME NEW s, NEW q
    PROVE  /\ FailsCheck(s, q, "many_seals") <=> Len(q.seals) > 1
           /\ FailsCheck(s, q, "sealed_header") <=>
                \/ MissingSecret(q) /\ ~ s.passthrough
                \/ ~ MissingSecret(q) /\ BadOverride(q)
           /\ FailsCheck(s, q, "seal_open") <=> ~ OpenOK(SealHeader(q).blob, s.key, s.previous)
           /\ FailsCheck(s, q, "auth") <=> ~ AuthOK(s, q)
           /\ FailsCheck(s, q, "override") <=> OverrideRefused(Secret(q), Override(q))
           /\ FailsCheck(s, q, "port") <=> rejectNonStandardPort(q.url.host)
           /\ FailsCheck(s, q, "host") <=> ~ HostValid(q.url.host, Secret(q))
           /\ FailsCheck(s, q, "path") <=>
                ~ PathValid(URLPath(q), [prefixes |-> Secret(q).prefixes,
                                         pattern  |-> Secret(q).pathPattern], MaxDecodes)
           /\ FailsCheck(s, q, "method") <=> ~ MethodValid(q.method, Secret(q))
  BY DEF FailsCheck

\* A sequence that is neither empty nor longer than one has one element.
LEMMA OneElement ==
    ASSUME NEW S, NEW t \in Seq(S), t # <<>>, ~ (Len(t) > 1)
    PROVE  Len(t) = 1 /\ Head(t) = t[1]
  <1> DEFINE n == Len(t)
  <1>1. n \in Nat \ {0} /\ ~ (n > 1)
    BY EmptySeq, Zenon
  <1>2. n = 1
    <2> HIDE DEF n
    <2> QED
      BY <1>1
  <1>3. Head(t) = t[1]
    BY SMT
  <1> QED
    BY <1>2, <1>3, Zenon

\* A message with a credential is built from the one seal the request carries.
LEMMA InjectFromSeal ==
    ASSUME NEW s, NEW q, WellFormed(s, q), Admitted(s, q),
           Outbound(s, q).inject # NoInject
    PROVE  /\ ~ Passthrough(s, q)
           /\ Outbound(s, q).inject = Injected(s, q)
           /\ Injected(s, q).name \notin ReverseProxyHop \cup TransportOwned
           /\ Len(q.seals) = 1
           /\ SealHeader(q) = q.seals[1]
  <1>1. /\ ~ Passthrough(s, q)
        /\ Outbound(s, q).inject = Injected(s, q)
        /\ Injected(s, q).name \notin ReverseProxyHop \cup TransportOwned
    BY DEF Outbound, Injected
  <1>2. /\ ~ (Len(q.seals) > 1)
        /\ ~ MissingSecret(q)
    BY <1>1, AdmittedPasses, CheckMeans DEF Passthrough
  <1>3. q.seals # <<>>
    BY <1>2 DEF MissingSecret, SealHeader, NoSealHeader, NoBlob
  <1>4. PICK S : q.seals \in Seq(S)
    BY DEF WellFormed
  <1>5. Len(q.seals) = 1 /\ Head(q.seals) = q.seals[1]
    BY <1>2, <1>3, <1>4, OneElement
  <1> QED
    BY <1>1, <1>3, <1>5 DEF SealHeader

----------------------------------------------------------------------------

\* The message built for an admitted request is within the bounds of its seal.
LEMMA MessageScoped ==
    ASSUME NEW v, NEW q, WellFormed(v, q), Admitted(v, q)
    PROVE  Scoped(v, q, Outbound(v, q))
  <1> DEFINE m == Outbound(v, q)
  <1> SUFFICES ASSUME m.inject # NoInject PROVE Scoped(v, q, m)
    BY DEF Scoped
  <1> DEFINE b == SealHeader(q).blob
             s == Secret(q)
             o == Override(q)
             h == q.url.host
             listed == [prefixes |-> s.prefixes, pattern |-> s.pathPattern]
  <1>2. /\ ~ Passthrough(v, q)
        /\ m.inject = Injected(v, q)
        /\ Len(q.seals) = 1
        /\ SealHeader(q) = q.seals[1]
    BY InjectFromSeal
  <1>3. /\ OpenOK(b, v.key, v.previous)
        /\ AuthOK(v, q)
        /\ ~ OverrideRefused(s, o)
        /\ ~ rejectNonStandardPort(h)
        /\ HostValid(h, s)
        /\ PathValid(URLPath(q), listed, MaxDecodes)
        /\ MethodValid(q.method, s)
    BY <1>2, AdmittedPasses, CheckMeans
  <1>4. b \in {q.seals[n].blob : n \in 1..Len(q.seals)}
    BY <1>2
  <1>5. /\ b.kind = "sealed"
        /\ b.key \in {v.key, v.previous}
        /\ Validate(s)
        /\ b.body = s
    BY <1>3 DEF OpenOK, OpensWith, tryOpen, Secret
  <1>6. /\ m.inject.token = s.token
        /\ m.inject.name = HeaderName(s, o)
        /\ m.inject.format = Format(s, o)
    BY <1>2 DEF Injected
  <1>7. \/ /\ s.auth = {"bearer_auth"}
           /\ \E t \in {q.bearer.token, TrimSpace(q.bearer.token)} : s.digest = HashBearer(t)
        \/ v.noAuth /\ s.auth = {"no_auth"}
    BY <1>3, <1>5 DEF AuthOK, Validate, AuthTags, extractBearer, VerifyBearer
  <1>8. \E g \in (IF s.hosts # {} THEN s.hosts ELSE s.hostPattern) :
           g.name = m.host /\ g.port \in {"", "443"}
    <2>1. h.port \in {"", "443"} /\ m.host = h.name
      BY <1>3 DEF rejectNonStandardPort, Outbound
    <2>2. \A g : Lower(g) = Lower(h) => g.name = h.name /\ g.port = h.port
      BY DEF Lower
    <2>3. Lower(h).name = h.name /\ Lower(h).port = h.port
      BY DEF Lower
    <2> QED
      BY <1>3, <2>1, <2>2, <2>3 DEF HostValid
  <1>9. /\ \A n \in 0..(MaxDecodes + 2) : ~ Dotted(Unescaped(m.wire, n))
        /\ PathListed(PathUnescape(m.wire), listed)
    <2>1. m.wire = q.url.wire /\ q.url.wire \in Seq(Mark)
      BY DEF WellFormed, Outbound
    <2>2. /\ DotSegmentsClear(PathUnescape(q.url.wire), MaxDecodes)
          /\ PathListed(PathUnescape(q.url.wire), listed)
      BY <1>3 DEF PathValid, URLPath
    <2> QED
      BY <2>1, <2>2, ClearOnTheWire
  <1>10. s.methods = {} \/ m.method \in s.methods
    BY <1>3 DEF MethodValid, Outbound
  <1>11. m.inject.name \in (IF s.headerName # "" THEN {s.headerName}
                            ELSE s.allowedHeaderNames \cup {"Authorization"})
    BY <1>3, <1>6 DEF OverrideRefused, HeaderName, FirstSet
  <1>12. m.inject.format \in (IF s.format # "" THEN {s.format}
                              ELSE s.allowedFormats \cup {"Bearer %s"})
    BY <1>3, <1>6 DEF OverrideRefused, Format, FirstSet
  <1>13. b.key # NoKey
    BY <1>3 DEF WellFormed, OpenOK, OpensWith, tryOpen
  <1> HIDE DEF b, s, o, h, m
  <1> QED
    BY <1>2, <1>4, <1>5, <1>6, <1>7, <1>8, <1>9, <1>10, <1>11, <1>12, <1>13 DEF Scoped

\* Next to its credential it has no identity of the client's choice.
LEMMA MessageSingle ==
    ASSUME NEW v, NEW q, WellFormed(v, q), Admitted(v, q)
    PROVE  Single(Outbound(v, q))
  <1> SUFFICES ASSUME Outbound(v, q).inject # NoInject
               PROVE  Outbound(v, q).headers
                        \cap (AuthHeaders \cup {Outbound(v, q).inject.name}) = {}
    BY DEF Single
  <1>1. /\ Outbound(v, q).inject = Injected(v, q)
        /\ Injected(v, q) # NoInject
        /\ Injected(v, q).name \notin ReverseProxyHop
    BY InjectFromSeal
  <1>2. Outbound(v, q).headers = ReverseProxyHeaders(q, Director(v, q)) \ TransportOwned
    BY DEF Outbound
  <1>3. Director(v, q) \cap (AuthHeaders \cup {Injected(v, q).name}) = {}
    BY <1>1 DEF Director
  <1> QED
    BY <1>1, <1>2, <1>3 DEF ReverseProxyHeaders, ReverseProxyHop, AuthHeaders

\* It carries the client's headers that should travel on, and no others.
LEMMA MessageStripped ==
    ASSUME NEW v, NEW q
    PROVE  Stripped(v, q, Outbound(v, q))
  <1> DEFINE m == Outbound(v, q)
             inj == Injected(v, q)
             d == Director(v, q)
  <1>1. m.headers = ((d \ ReverseProxyHop) \cup (q.headers \cap {"Te"})) \ TransportOwned
    <2>1. "Connection" \notin d
      BY DEF Director, hopByHopHeaders
    <2> QED
      BY <2>1 DEF Outbound, ReverseProxyHeaders, Nominated
  <1>2. m.inject = IF inj.name \in ReverseProxyHop \cup TransportOwned THEN NoInject ELSE inj
    BY DEF Outbound
  <1>3. m.addsPeer = (~ v.noXFF \/ inj.name = "X-Forwarded-For")
    BY Zenon DEF Outbound
  <1>4. d = q.headers \ ( hopByHopHeaders
                          \cup (IF v.cloudflare THEN CloudflareTrustHeaders ELSE {})
                          \cup v.filtered
                          \cup (IF v.noXFF THEN {"X-Forwarded-For"} ELSE {})
                          \cup (IF inj = NoInject THEN {} ELSE AuthHeaders \cup {inj.name}) )
    BY DEF Director
  <1> HIDE DEF m, inj, d
  <1>5. ASSUME v.noXFF, m.addsPeer
        PROVE  m.inject.name = "X-Forwarded-For"
    <2>1. inj.name = "X-Forwarded-For"
      BY <1>3, <1>5, Zenon
    <2>2. inj.name \notin ReverseProxyHop \cup TransportOwned
      BY <2>1 DEF ReverseProxyHop, TransportOwned
    <2> QED
      BY <1>2, <2>1, <2>2, Zenon
  <1>6. m.headers \subseteq q.headers
    BY <1>1, <1>4
  <1>7. m.headers \cap Unwanted(v) = q.headers \cap {"Te"}
    <2>1. d \cap Unwanted(v) \subseteq ReverseProxyHop \cup TransportOwned
      BY <1>4 DEF Unwanted, hopByHopHeaders, ControlHeaders, ReverseProxyHop
    <2>2. "Te" \in ReverseProxyHop /\ "Te" \notin TransportOwned
      BY DEF ReverseProxyHop, TransportOwned
    <2>3. "Te" \in Unwanted(v)
      BY <2>2 DEF Unwanted
    <2> QED
      BY <1>1, <2>1, <2>2, <2>3
  <1>8. q.headers \ (Unwanted(v) \cup AuthHeaders \cup {m.inject.name}) \subseteq m.headers
    <2> SUFFICES ASSUME NEW x \in q.headers, x \notin Unwanted(v), x \notin AuthHeaders,
                        x # m.inject.name
                 PROVE  x \in m.headers
      OBVIOUS
    <2>1. x \notin ReverseProxyHop /\ x \notin TransportOwned /\ x \notin hopByHopHeaders
      BY DEF Unwanted, hopByHopHeaders, ControlHeaders, ReverseProxyHop
    <2>2. x # inj.name
      BY <1>2, <2>1
    <2>3. x \in d
      BY <1>4, <2>1, <2>2 DEF Unwanted
    <2> QED
      BY <1>1, <2>1, <2>3
  <1>9. Stripped(v, q, m)
    BY <1>5, <1>6, <1>7, <1>8, Zenon DEF Stripped
  <1> QED
    BY <1>9 DEF m

\* The policy permits the message built for an admitted request.
LEMMA MessagePermitted ==
    ASSUME NEW v, NEW q, WellFormed(v, q), Admitted(v, q)
    PROVE  Permits(v, q, Outbound(v, q))
  BY MessageScoped, MessageSingle, MessageStripped, Zenon DEF Permits

=============================================================================
