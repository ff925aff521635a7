---------------------------- MODULE ClientProofs ----------------------------
(***************************************************************************)
(* Proofs about Client for every set of flags, jobs, configurations and    *)
(* upstream answers, and every bound on a chain of redirects.              *)
(***************************************************************************)
EXTENDS Client, AdmissionProofs

\* What is at hand when the proxy gets a request: the secret is the one the
\* flags describe, and the URL, the operator's or one of a redirect, has a path.
ChainInv ==
    /\ flags \in Flags /\ job \in Jobs /\ server \in Servers
    /\ pc \in {"request", "send", "answered"} =>
           blob = Sealed(SecretOf(flags), PublicKey(flags)) /\ SealOK(flags)
    /\ pc \in {"send", "answered"} => hop.url.wire \in Seq(Mark) /\ hop.body \in Nat
    /\ pc = "answered" /\ answer.location # NoLocation => answer.location.url.wire \in Seq(Mark)

\* What RoundTrip makes of a request is a request the admission lemmas are about.
LEMMA WireWellFormed ==
    ASSUME NEW s \in Servers, NEW j \in Jobs, NEW h, NEW b, h.url.wire \in Seq(Mark)
    PROVE  WellFormed(s, Wire(j, h, b))
  <1> DEFINE overrides == IF j.sealed # <<>> THEN j.sealed ELSE j.own
             vs == SealValues(j, b)
  <1>1. Len(overrides) \in Nat
    BY JobsAssumption
  <1>2. vs = [n \in 1..Len(overrides) |-> [blob |-> b, override |-> overrides[n]]]
    BY DEF SealValues
  <1> HIDE DEF overrides, vs
  <1>3. vs \in Seq({vs[n] : n \in DOMAIN vs})
    BY <1>1, <1>2
  <1>4. Wire(j, h, b).seals = vs /\ Wire(j, h, b).url.wire = h.url.wire
    BY DEF Wire, vs
  <1> QED
    BY <1>3, <1>4, ServersAssumption DEF WellFormed

\* Every X-Sealed-Secret value of the client holds the blob that seal printed.
LEMMA BlobsAreSealed ==
    ASSUME NEW j, NEW h, NEW b
    PROVE  \A n \in 1..Len(Wire(j, h, b).seals) :
               n \in DOMAIN Wire(j, h, b).seals => Wire(j, h, b).seals[n].blob = b
  <1>1. Wire(j, h, b).seals = SealValues(j, b)
    BY DEF Wire
  <1> QED
    BY <1>1 DEF SealValues

\* What leaves the proxy on a request of the transport is within the flags.
LEMMA ForwardedWithin ==
    ASSUME ChainInv, pc = "send",
           NEW q, q = Wire(job, hop, blob), Admitted(server, q),
           NEW m, m = Outbound(server, q), m.inject # NoInject
    PROVE  /\ m.inject.token = flags.token
           /\ \E h \in HostOf(flags) : h.name = m.host /\ h.port \in {"", "443"}
           /\ PathListed(PathUnescape(m.wire), PathList(flags))
           /\ \A n \in 0..(MaxDecodes + 2) : ~ Dotted(Unescaped(m.wire, n))
           /\ Methods(flags) = {} \/ m.method \in Methods(flags)
           /\ IF flags.noAuth THEN server.noAuth
              ELSE flags.bearer \in {Presented, TrimSpace(Presented)}
           /\ m.inject.name \in (IF flags.headerName # "" THEN {flags.headerName}
                                 ELSE splitCSV(flags.allowedHeaderNames) \cup {"Authorization"})
           /\ m.inject.format \in (IF flags.format # "" THEN {flags.format}
                                   ELSE splitCSV(flags.allowedFormats) \cup {"Bearer %s"})
  <1> DEFINE c == SecretOf(flags)
  <1>1. WellFormed(server, q)
    BY WireWellFormed DEF ChainInv
  <1>2. Scoped(server, q, m)
    BY <1>1, MessageScoped
  <1>3. Len(q.seals) = 1 /\ 1 \in DOMAIN q.seals
    <2>1. Len(q.seals) = 1
      BY <1>2, Zenon DEF Scoped
    <2>2. PICK S : q.seals \in Seq(S)
      BY <1>1 DEF WellFormed
    <2> QED
      BY <2>1, <2>2
  <1>4. q.seals[1].blob = blob
    BY <1>3, BlobsAreSealed
  <1>5. PICK b \in {q.seals[n].blob : n \in 1..Len(q.seals)} :
            LET d == b.body IN
            /\ m.inject.token = d.token
            /\ \/ /\ d.auth = {"bearer_auth"}
                  /\ \E t \in {q.bearer.token, TrimSpace(q.bearer.token)} : d.digest = HashBearer(t)
               \/ server.noAuth /\ d.auth = {"no_auth"}
            /\ \E h \in (IF d.hosts # {} THEN d.hosts ELSE d.hostPattern) :
                   h.name = m.host /\ h.port \in {"", "443"}
            /\ \A n \in 0..(MaxDecodes + 2) : ~ Dotted(Unescaped(m.wire, n))
            /\ PathListed(PathUnescape(m.wire), [prefixes |-> d.prefixes, pattern |-> d.pathPattern])
            /\ d.methods = {} \/ m.method \in d.methods
            /\ m.inject.name \in (IF d.headerName # "" THEN {d.headerName}
                                  ELSE d.allowedHeaderNames \cup {"Authorization"})
            /\ m.inject.format \in (IF d.format # "" THEN {d.format}
                                    ELSE d.allowedFormats \cup {"Bearer %s"})
    BY <1>2, Zenon DEF Scoped
  <1>6. b.body = c
    <2>1. b = blob
      <3>1. PICK n \in 1..Len(q.seals) : b = q.seals[n].blob
        BY <1>5
      <3>2. n = 1
        BY <1>3, <3>1
      <3> QED
        BY <1>4, <3>1, <3>2
    <2> QED
      BY <2>1 DEF ChainInv, Sealed
  <1>7. /\ c.token = flags.token
        /\ c.auth = (IF flags.noAuth THEN {"no_auth"} ELSE {"bearer_auth"})
        /\ c.digest = (IF flags.noAuth THEN [kind |-> "empty", of |-> NoBearer] ELSE HashBearer(flags.bearer))
        /\ c.hosts = splitCSV(flags.hosts) /\ c.hostPattern = flags.hostPattern
        /\ c.prefixes = splitCSV(flags.prefixes) /\ c.pathPattern = flags.pathPattern
        /\ c.methods = splitCSV(flags.methods)
        /\ c.headerName = flags.headerName /\ c.format = flags.format
        /\ c.allowedHeaderNames = splitCSV(flags.allowedHeaderNames)
        /\ c.allowedFormats = splitCSV(flags.allowedFormats)
    BY Zenon DEF SecretOf
  <1>8. IF flags.noAuth THEN server.noAuth ELSE flags.bearer \in {Presented, TrimSpace(Presented)}
    <2>1. q.bearer.token = Presented
      BY DEF Wire, Presented
    <2>2. \A t : HashBearer(flags.bearer) = HashBearer(t) => flags.bearer = t
      BY DEF HashBearer
    <2>3. {"bearer_auth"} # {"no_auth"}
      OBVIOUS
    <2>4. \/ /\ c.auth = {"bearer_auth"}
             /\ \E t \in {Presented, TrimSpace(Presented)} : c.digest = HashBearer(t)
          \/ server.noAuth /\ c.auth = {"no_auth"}
      BY <1>5, <1>6, <2>1, Zenon
    <2>5. CASE flags.noAuth
      <3>1. c.auth = {"no_auth"}
        BY <1>7, <2>5, Zenon
      <3> HIDE DEF c
      <3> QED
        BY <2>3, <2>4, <2>5, <3>1, Zenon
    <2>6. CASE ~ flags.noAuth
      <3>1. c.auth = {"bearer_auth"} /\ c.digest = HashBearer(flags.bearer)
        BY <1>7, <2>6, Zenon
      <3> HIDE DEF c
      <3>2. PICK t \in {Presented, TrimSpace(Presented)} : c.digest = HashBearer(t)
        BY <2>3, <2>4, <3>1, Zenon
      <3> QED
        BY <2>2, <2>6, <3>1, <3>2, Zenon
    <2> QED
      BY <2>5, <2>6, Zenon
  <1> HIDE DEF c
  <1> QED
    BY <1>5, <1>6, <1>7, <1>8, Zenon DEF HostOf, PathList, Methods

----------------------------------------------------------------------------

\* The early returns of handleForward, turned round: a request that gives none
\* of them a reason is admitted.
LEMMA PassesAdmitted ==
    ASSUME NEW s, NEW q,
           ~ (s.maxBytes > 0 /\ q.length > s.maxBytes), ClientAllowed(s, q),
           q.url.given, q.url.ok, Unescapable(q.url.wire),
           ~ (Len(q.seals) > 1), ~ MissingSecret(q), ~ BadOverride(q),
           OpenOK(SealHeader(q).blob, s.key, s.previous), AuthOK(s, q),
           ~ OverrideRefused(Secret(q), Override(q)), ~ rejectNonStandardPort(q.url.host),
           HostValid(q.url.host, Secret(q)),
           PathValid(URLPath(q), [prefixes |-> Secret(q).prefixes,
                                  pattern  |-> Secret(q).pathPattern], MaxDecodes),
           MethodValid(q.method, Secret(q))
    PROVE  Admitted(s, q)
  <1>1. /\ ~ FailsCheck(s, q, "content_length") /\ ~ FailsCheck(s, q, "client_ip")
        /\ ~ FailsCheck(s, q, "missing_url") /\ ~ FailsCheck(s, q, "bad_url")
    BY DEF FailsCheck
  <1>2. /\ ~ FailsCheck(s, q, "many_seals") /\ ~ FailsCheck(s, q, "sealed_header")
        /\ ~ FailsCheck(s, q, "seal_open") /\ ~ FailsCheck(s, q, "auth")
        /\ ~ FailsCheck(s, q, "override") /\ ~ FailsCheck(s, q, "port")
        /\ ~ FailsCheck(s, q, "host") /\ ~ FailsCheck(s, q, "path") /\ ~ FailsCheck(s, q, "method")
    BY CheckMeans
  <1>3. Len(Checks) = 13
    BY DEF Checks
  <1>4. \A k \in 1..13 :
            Checks[k] \in {"content_length", "client_ip", "missing_url", "bad_url", "many_seals",
                           "sealed_header", "seal_open", "auth", "override", "port", "host", "path",
                           "method"}
    BY DEF Checks
  <1>5. \A k \in 1..13 : ~ FailsCheck(s, q, Checks[k])
    BY <1>1, <1>2, <1>4
  <1> QED
    BY <1>3, <1>5 DEF Admitted, Fails

\* The strengthening holds initially and is kept by every step.
LEMMA ChainInvInit == Init => ChainInv
  BY DEF Init, ChainInv

\* No hop of the chain of redirects breaks it.
LEMMA ChainInvStep == ChainInv /\ [Next]_vars => ChainInv'
  <1> SUFFICES ASSUME ChainInv, [Next]_vars PROVE ChainInv'
    OBVIOUS
  <1> USE DEF ChainInv, given
  <1>1. CASE runSeal
    BY <1>1 DEF runSeal, Exit
  <1>2. CASE runRequest
    <2>1. job.url.wire \in Seq(Mark) /\ job.body \in Nat
      BY JobsAssumption
    <2>2. UNCHANGED <<flags, job, server, blob, answer>> /\ pc = "request"
      BY <1>2 DEF runRequest
    <2>3. \/ pc' = "exit"
          \/ /\ pc' = "send"
             /\ hop' = [url |-> job.url, method |-> job.method, body |-> job.body]
      BY <1>2, Zenon DEF runRequest, Exit
    <2>4. CASE pc' = "exit"
      BY <2>2, <2>4
    <2>5. CASE /\ pc' = "send"
               /\ hop' = [url |-> job.url, method |-> job.method, body |-> job.body]
      BY <2>1, <2>2, <2>5
    <2> QED
      BY <2>3, <2>4, <2>5
  <1>3. CASE Follow
    BY <1>3 DEF Follow, Exit, Redirects, Resolved
  <1>4. CASE ShowAnswer \/ Timeout \/ ProxyUnreachable \/ Exited \/ UNCHANGED vars
    BY <1>4 DEF ShowAnswer, Timeout, ProxyUnreachable, Exited, Exit, vars
  <1>5. CASE ProxyRefuses
    <2>1. /\ UNCHANGED <<flags, job, server, blob, hop>>
          /\ pc = "send" /\ pc' = "answered"
          /\ \E status : answer' = Reply(status)
      BY <1>5 DEF ProxyRefuses, Sent
    <2>2. answer'.location = NoLocation
      BY <2>1 DEF Reply
    <2> QED
      BY <2>1, <2>2
  <1>6. ASSUME NEW p \in Answers, ProxyForwards(p) PROVE ChainInv'
    BY <1>6, AnswersAssumption DEF ProxyForwards, Sent
  <1>7. CASE EdgeRedirects
    <2>1. /\ UNCHANGED <<flags, job, server, blob, hop>>
          /\ pc = "send" /\ pc' = "answered"
          /\ answer'.location.url.wire = <<Slash, Literal("x")>>
      BY <1>7 DEF EdgeRedirects, Sent
    <2>2. Slash \in Mark /\ Literal("x") \in Mark
      BY DEF Mark, Slash, Literal, Char
    <2>3. <<Slash, Literal("x")>> \in Seq(Mark)
      BY <2>2
    <2> QED
      BY <2>1, <2>3
  <1> QED
    BY <1>1, <1>2, <1>3, <1>4, <1>5, <1>6, <1>7 DEF Next, Command

\* WithinFlags can change only when the proxy forwards.
LEMMA WithinFlagsStep == ChainInv /\ WithinFlags /\ [Next]_vars => WithinFlags'
  <1> SUFFICES ASSUME ChainInv, WithinFlags, [Next]_vars PROVE WithinFlags'
    OBVIOUS
  <1>1. CASE out' = NoOut
    BY <1>1 DEF WithinFlags
  <1>2. CASE UNCHANGED <<flags, job, server, out>>
    BY <1>2, Zenon DEF WithinFlags, HostOf, PathList, Methods, Presented, splitCSV
  <1>3. ASSUME NEW p \in Answers, ProxyForwards(p) PROVE WithinFlags'
    <2> DEFINE q == Wire(job, hop, blob)
    <2>1. pc = "send" /\ Admitted(server, q) /\ out' = Outbound(server, q)
      BY <1>3 DEF ProxyForwards, Sent
    <2>2. UNCHANGED <<flags, job, server>>
      BY <1>3 DEF ProxyForwards, Sent, given
    <2> SUFFICES ASSUME out'.inject # NoInject PROVE WithinFlags'
      BY DEF WithinFlags
    <2> QED
      BY <2>1, <2>2, ForwardedWithin, Zenon
      DEF WithinFlags, HostOf, PathList, Methods, Presented, splitCSV
  <1>4. \/ out' = NoOut
        \/ UNCHANGED <<flags, job, server, out>>
        \/ \E p \in Answers : ProxyForwards(p)
    BY DEF Next, Command, vars, given, runSeal, runRequest, Follow, ShowAnswer, Timeout, ProxyRefuses,
           EdgeRedirects, ProxyUnreachable, Exited, Sent
  <1> QED
    BY <1>1, <1>2, <1>3, <1>4

\* Along every chain of redirects, through every proxy, the credential stays
\* within what the flags of the seal command allow: runSeal, RoundTrip and
\* handleForward together.
THEOREM CredentialWithinFlags == Spec => []WithinFlags
  <1>1. Init => WithinFlags
    BY DEF Init, WithinFlags
  <1> QED
    BY <1>1, ChainInvInit, ChainInvStep, WithinFlagsStep, PTL DEF Spec

\* A seal that was made can be used: every request within its flags passes all
\* thirteen checks and leaves with the credential (FlagsSuffice).
THEOREM SealsSuffice == Spec => []FlagsSuffice
  <1> DEFINE q == Wire(job, hop, blob)
             c == SecretOf(flags)
             format == FirstSet("", flags.format, "Bearer %s")
  <1>1. ASSUME ChainInv, pc = "send", HopWithin(hop.url, hop.method),
               job.sealed = <<NoOverride>>,
               blob.key \in {server.key, server.previous} \ {NoKey},
               IF flags.noAuth THEN server.noAuth ELSE job.auth = flags.bearer /\ ~ flags.bearer.padded,
               ClientAllowed(server, q),
               server.maxBytes = 0 \/ hop.body <= server.maxBytes,
               FlagHeader \notin ReverseProxyHop \cup TransportOwned \cup NonTokens
        PROVE  /\ Admitted(server, q)
               /\ Sendable(Outbound(server, q))
               /\ Outbound(server, q).inject = [name |-> FlagHeader, format |-> format, token |-> flags.token]
    <2>1. /\ blob = [kind |-> "sealed", key |-> PublicKey(flags), body |-> c]
          /\ Validate(c) /\ hop.body \in Nat /\ server.maxBytes \in Nat
      BY <1>1, ServersAssumption, Zenon DEF ChainInv, SealOK, Sealed
    <2>2. /\ c.json = TRUE /\ c.token = flags.token
          /\ c.auth = (IF flags.noAuth THEN {"no_auth"} ELSE {"bearer_auth"})
          /\ c.digest = (IF flags.noAuth THEN [kind |-> "empty", of |-> NoBearer] ELSE HashBearer(flags.bearer))
          /\ c.hosts = splitCSV(flags.hosts) /\ c.hostPattern = flags.hostPattern
          /\ c.prefixes = splitCSV(flags.prefixes) /\ c.pathPattern = flags.pathPattern
          /\ c.methods = splitCSV(flags.methods)
          /\ c.headerName = flags.headerName /\ c.format = flags.format
      BY Zenon DEF SecretOf
    <2> HIDE DEF c, format
    <2>3. /\ q.length = hop.body /\ q.url.given = TRUE /\ q.url.ok = hop.url.ok
          /\ q.url.host = hop.url.host /\ q.url.wire = hop.url.wire /\ q.method = hop.method
          /\ q.seals = SealValues(job, blob)
      BY DEF Wire
    <2>0. job.auth # NoBearer => q.bearer = [scheme |-> "Bearer", valid |-> TRUE, token |-> job.auth]
      BY Zenon DEF Wire
    <2> HIDE DEF q
    <2>4. q.seals = <<[blob |-> blob, override |-> NoOverride]>>
      <3>1. job.sealed # <<>> /\ Len(job.sealed) = 1 /\ job.sealed[1] = NoOverride
        <4>1. job.sealed = <<NoOverride>>
          BY <1>1
        <4> QED
          BY <4>1
      <3> QED
        BY <2>3, <3>1 DEF SealValues
    <2>5. /\ Len(q.seals) = 1
          /\ SealHeader(q) = [blob |-> blob, override |-> NoOverride]
      BY <2>4 DEF SealHeader
    <2>6. Secret(q) = c /\ Override(q) = NoOverride
      BY <2>1, <2>5 DEF Secret, Override
    <2>7. ~ MissingSecret(q) /\ ~ BadOverride(q)
      <3>1. SealHeader(q).blob.kind = "sealed"
        BY <2>1, <2>5
      <3>2. NoOverride.json
        BY Zenon DEF NoOverride
      <3>3. SealHeader(q).override = NoOverride
        BY <2>5
      <3> QED
        BY <3>1, <3>2, <3>3, Zenon DEF MissingSecret, BadOverride
    <2>8. OpenOK(SealHeader(q).blob, server.key, server.previous)
      <3>1. blob.key \in {server.key, server.previous} \ {NoKey}
        BY <1>1
      <3> QED
        <4>1. SealHeader(q).blob = blob /\ blob.kind = "sealed" /\ blob.body = c
          BY <2>1, <2>5
        <4>2. c.json /\ Validate(c)
          BY <2>1, <2>2, Zenon
        <4>3. OpensWith(blob, server.key, server.previous)
          BY <3>1, <4>1 DEF OpensWith, tryOpen
        <4> QED
          BY <4>1, <4>2, <4>3, Zenon DEF OpenOK
    <2>9. AuthOK(server, q)
      <3>1. CASE flags.noAuth
        <4>1. c.auth = {"no_auth"} /\ server.noAuth
          BY <1>1, <2>2, <3>1, Zenon
        <4>2. "bearer_auth" \notin Secret(q).auth
          BY <2>6, <4>1
        <4> QED
          BY <4>1, <4>2, Zenon DEF AuthOK
      <3>2. CASE ~ flags.noAuth
        <4>1. job.auth = flags.bearer /\ ~ flags.bearer.padded
          BY <1>1, <3>2, Zenon
        <4>2. job.auth # NoBearer
          <5>1. flags.noAuth \/ flags.bearer # NoBearer
            BY <1>1, FlagsAssumption, Zenon DEF ChainInv, SealOK
          <5> QED
            BY <3>2, <4>1, <5>1, Zenon
        <4>3. q.bearer = [scheme |-> "Bearer", valid |-> TRUE, token |-> flags.bearer]
          BY <2>0, <4>1, <4>2, Zenon
        <4>4. Secret(q).digest = HashBearer(flags.bearer) /\ "bearer_auth" \in Secret(q).auth
          <5>1. c.auth = {"bearer_auth"} /\ c.digest = HashBearer(flags.bearer)
            BY <2>2, <3>2, Zenon
          <5> QED
            BY <2>6, <5>1
        <4>5. TrimSpace(flags.bearer) = flags.bearer
          <5>1. flags.bearer \in [text : STRING, padded : BOOLEAN]
            BY <1>1, FlagsAssumption DEF ChainInv
          <5> QED
            BY <4>1, <5>1 DEF TrimSpace
        <4> QED
          BY <4>3, <4>4, <4>5 DEF AuthOK, extractBearer, VerifyBearer
      <3> QED
        BY <3>1, <3>2
    <2>10. ~ OverrideRefused(Secret(q), Override(q))
      <3>1. NoOverride.format = "" /\ NoOverride.headerName = ""
        BY DEF NoOverride
      <3> QED
        BY <2>6, <3>1 DEF OverrideRefused
    <2>11. HopWithin(hop.url, hop.method)
      BY <1>1
    <2>12. HostValid(q.url.host, Secret(q))
      <3>1. c.hosts = {} => c.hostPattern # NoPattern
        BY <2>1, Zenon DEF Validate
      <3>2. IF c.hosts # {} THEN \E h \in c.hosts : Lower(h) = Lower(hop.url.host)
            ELSE Lower(hop.url.host) \in c.hostPattern
        BY <2>2, <2>11, Zenon DEF HopWithin
      <3> QED
        BY <2>3, <2>6, <3>1, <3>2, Zenon DEF HostValid
    <2>13. PathValid(URLPath(q), [prefixes |-> Secret(q).prefixes,
                                  pattern  |-> Secret(q).pathPattern], MaxDecodes)
      BY <2>2, <2>3, <2>6, <2>11 DEF HopWithin, PathValid, URLPath, PathList
    <2>14. MethodValid(q.method, Secret(q))
      BY <2>2, <2>3, <2>6, <2>11 DEF HopWithin, MethodValid, Methods
    <2>15. /\ ~ rejectNonStandardPort(q.url.host) /\ q.url.ok /\ Unescapable(q.url.wire)
           /\ q.url.given
      BY <2>3, <2>11 DEF HopWithin, rejectNonStandardPort
    <2>16. ~ (server.maxBytes > 0 /\ q.length > server.maxBytes) /\ ~ (Len(q.seals) > 1)
      <3>1. server.maxBytes = 0 \/ hop.body <= server.maxBytes
        BY <1>1
      <3> QED
        <4>1. q.length = hop.body
          BY <2>3
        <4> QED
          BY <2>1, <2>5, <3>1, <4>1
    <2>17. ClientAllowed(server, q)
      BY <1>1
    <2>18. Admitted(server, q)
      BY <2>7, <2>8, <2>9, <2>10, <2>12, <2>13, <2>14, <2>15, <2>16, <2>17, PassesAdmitted
    <2>19. Injected(server, q) = [name |-> FlagHeader, format |-> format, token |-> flags.token]
      <3>1. ~ Passthrough(server, q)
        BY <2>7 DEF Passthrough
      <3>2. HeaderName(c, NoOverride) = FlagHeader /\ Format(c, NoOverride) = format
        BY <2>2, Zenon DEF HeaderName, Format, NoOverride, FlagHeader, format
      <3> QED
        BY <2>2, <2>6, <3>1, <3>2 DEF Injected
    <2>20. Outbound(server, q).inject = Injected(server, q)
      <3>1. Injected(server, q).name \notin ReverseProxyHop \cup TransportOwned
        BY <1>1, <2>19
      <3> QED
        BY <3>1 DEF Outbound
    <2>21. Sendable(Outbound(server, q))
      BY <1>1, <2>19, <2>20 DEF Sendable
    <2> QED
      BY <2>18, <2>19, <2>20, <2>21
  <1>2. ChainInv => FlagsSuffice
    BY <1>1, Zenon DEF FlagsSuffice
  <1> QED
    BY <1>2, ChainInvInit, ChainInvStep, PTL DEF Spec

=============================================================================
