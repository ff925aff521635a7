----------------------------- MODULE Admission -----------------------------
(***************************************************************************)
(* What handleForward decides about a request before it forwards it, and   *)
(* the message it then sends: the checks in their order, the processor     *)
(* (header name and format), and the director's work on the headers.       *)
(*                                                                         *)
(* A server is a record of the fields of proxy.Server: maxBytes (0: no     *)
(* cap), cidrs, terminator, cloudflare, passthrough, noAuth, key,          *)
(* previous, filtered, noXFF.  A request is a record                       *)
(*   route    which case of serve it takes                                 *)
(*   length   Content-Length, or -1 for a chunked body; body, its real size*)
(*   peer, xff, cf   the TCP peer and the forwarding headers (Ingress)     *)
(*   url      X-Upstream-URL: [given, ok, host, wire]                      *)
(*   seals    the X-Sealed-Secret values: [blob, override]                 *)
(*   bearer   X-Auth-Bearer: [scheme, valid, token]                        *)
(*   method, headers   the method, and the names of all headers sent       *)
(*   nominated   the header names that its Connection header lists         *)
(* A host is [name, mixed, port]; port is "" when the URL has none and     *)
(* "malformed" when SplitHostPort fails on brackets or colons.             *)
(***************************************************************************)
EXTENDS Integers, Seals, Ingress

CONSTANT NonTokens      \* header names that are no token of HTTP

NoBlob == [kind |-> "none", key |-> NoKey, body |-> NoSecret]
NoOverride == [json |-> TRUE, format |-> "", headerName |-> ""]
NoSealHeader == [blob |-> NoBlob, override |-> NoOverride]

Lower(h) == [name |-> h.name, mixed |-> FALSE, port |-> h.port]

----------------------------------------------------------------------------
(* The parts of a request the checks look at                               *)

\* r.Header.Get(HeaderSealedSecret)
SealHeader(req) == IF req.seals = <<>> THEN NoSealHeader ELSE Head(req.seals)

\* parseSealedHeader: errMissingSecret, or an override that is not the JSON
\* of a sealedHeaderOverride.
MissingSecret(req) == SealHeader(req).blob.kind = "none"
BadOverride(req) == ~ SealHeader(req).override.json

\* The request takes the passthrough branch of handleForward.
Passthrough(server, req) == MissingSecret(req) /\ server.passthrough

Secret(req) == SealHeader(req).blob.body
Override(req) == SealHeader(req).override

TrimSpace(token) == [text |-> token.text, padded |-> FALSE]

\* The token of a Bearer is trimmed, the password of a Basic is not.
extractBearer(bearer) ==
    IF bearer.scheme = "Bearer" THEN {TrimSpace(bearer.token)}
    ELSE IF bearer.scheme = "Basic" /\ bearer.valid THEN {bearer.token} ELSE {}

AuthOK(server, req) ==
    IF "bearer_auth" \in Secret(req).auth
    THEN \E t \in extractBearer(req.bearer) : VerifyBearer(Secret(req).digest, t)
    ELSE server.noAuth

\* Mutant of OverrideRefused: what the seal pins can be overridden.
OverrideRefusedUnlisted(s, o) ==
    \/ o.format # "" /\ o.format \notin s.allowedFormats
    \/ o.headerName # "" /\ o.headerName \notin s.allowedHeaderNames

\* resolveProcessor returns an error.
OverrideRefused(s, o) ==
    \/ o.format # "" /\ (s.format # "" \/ o.format \notin s.allowedFormats)
    \/ o.headerName # "" /\ (s.headerName # "" \/ o.headerName \notin s.allowedHeaderNames)

\* resolveProcessor: the override, what the seal pins, or the default.
FirstSet(a, b, default) == IF a # "" THEN a ELSE IF b # "" THEN b ELSE default
Format(s, o) == FirstSet(o.format, s.format, "Bearer %s")
HeaderName(s, o) == FirstSet(o.headerName, s.headerName, "Authorization")

rejectNonStandardPort(host) == host.port \notin {"", "443"}

HostValid(host, s) ==
    IF s.hosts # {} THEN \E h \in s.hosts : Lower(h) = Lower(host)
    ELSE s.hostPattern # NoPattern /\ Lower(host) \in s.hostPattern

MethodValid(method, s) == s.methods = {} \/ method \in s.methods

----------------------------------------------------------------------------
(* handleForward, up to forwardTo                                          *)

\* The early returns of handleForward in the order of the code.
Checks ==
    << "content_length", "client_ip", "missing_url", "bad_url", "many_seals",
       "sealed_header", "seal_open", "auth", "override", "port", "host", "path", "method" >>

StatusOf ==
    [ content_length |-> 413, client_ip |-> 403, missing_url |-> 400, bad_url |-> 400,
      many_seals |-> 400, sealed_header |-> 400, seal_open |-> 401, auth |-> 401,
      override |-> 400, port |-> 403, host |-> 403, path |-> 403, method |-> 403 ]

\* The checks a passthrough request is spared.
SealChecks == {"seal_open", "auth", "override", "host", "path", "method"}

URLPath(req) == PathUnescape(req.url.wire)

FailsCheck(server, req, c) ==
    CASE c = "content_length" -> server.maxBytes > 0 /\ req.length > server.maxBytes
      [] c = "client_ip"      -> ~ ClientAllowed(server, req)
      [] c = "missing_url"    -> ~ req.url.given
      [] c = "bad_url"        -> ~ req.url.ok \/ ~ Unescapable(req.url.wire)
      [] c = "many_seals"     -> Len(req.seals) > 1
      [] c = "sealed_header"  -> \/ MissingSecret(req) /\ ~ server.passthrough
                                 \/ ~ MissingSecret(req) /\ BadOverride(req)
      [] c = "seal_open"      -> ~ OpenOK(SealHeader(req).blob, server.key, server.previous)
      [] c = "auth"           -> ~ AuthOK(server, req)
      [] c = "override"       -> OverrideRefused(Secret(req), Override(req))
      [] c = "port"           -> rejectNonStandardPort(req.url.host)
      [] c = "host"           -> ~ HostValid(req.url.host, Secret(req))
      [] c = "path"           -> ~ PathValid(URLPath(req),
                                     [prefixes |-> Secret(req).prefixes,
                                      pattern  |-> Secret(req).pathPattern], MaxDecodes)
      [] c = "method"         -> ~ MethodValid(req.method, Secret(req))

Fails(server, req, c) ==
    /\ c \in SealChecks => ~ Passthrough(server, req)
    /\ FailsCheck(server, req, c)

\* The k-th check is the first that fails: handleForward returns there.
RefusedAt(server, req, k) ==
    /\ \A j \in 1..(k - 1) : ~ Fails(server, req, Checks[j])
    /\ Fails(server, req, Checks[k])

Admitted(server, req) == \A k \in 1..Len(Checks) : ~ Fails(server, req, Checks[k])

----------------------------------------------------------------------------
(* The outbound message                                                    *)

ControlHeaders == {"X-Upstream-URL", "X-Sealed-Secret", "X-Auth-Bearer"}

\* Mutant of hopByHopHeaders: the proxy's own headers are left out.
hopByHopHeadersStandard ==
    {"Connection", "Proxy-Connection", "Keep-Alive", "Te", "Trailer", "Transfer-Encoding", "Upgrade"}

hopByHopHeaders ==
    {"Connection", "Proxy-Connection", "Keep-Alive", "Te", "Trailer",
     "Transfer-Encoding", "Upgrade"} \cup ControlHeaders
CloudflareTrustHeaders == {"Cf-Connecting-Ip", "Cf-Ray", "Cf-Ipcountry", "Cf-Visitor", "True-Client-Ip"}
AuthHeaders == {"Authorization", "Proxy-Authorization", "Proxy-Authenticate"}

NoInject == [name |-> "", format |-> "", token |-> ""]

\* The credential the director sets; none on the passthrough branch.
Injected(server, req) ==
    IF Passthrough(server, req) THEN NoInject
    ELSE [name   |-> HeaderName(Secret(req), Override(req)),
          format |-> Format(Secret(req), Override(req)),
          token  |-> Secret(req).token]

\* Mutant of Director: only the header of the credential is replaced.
DirectorKeepsAuth(server, req) ==
    req.headers \ ( hopByHopHeaders
                    \cup (IF server.cloudflare THEN CloudflareTrustHeaders ELSE {})
                    \cup server.filtered
                    \cup (IF server.noXFF THEN {"X-Forwarded-For"} ELSE {})
                    \cup {Injected(server, req).name} )

\* The client's headers that survive the director.  Setting the credential
\* replaces a header of the same name.
Director(server, req) ==
    LET inj == Injected(server, req)
    IN  req.headers \ ( hopByHopHeaders
                        \cup (IF server.cloudflare THEN CloudflareTrustHeaders ELSE {})
                        \cup server.filtered
                        \cup (IF server.noXFF THEN {"X-Forwarded-For"} ELSE {})
                        \cup (IF inj = NoInject THEN {} ELSE AuthHeaders \cup {inj.name}) )

\* httputil.ReverseProxy after the director: it removes what Connection lists
\* if the director left that header, its own hop-by-hop headers, an injected one
\* too, puts back a Te that asks for trailers, and adds the TCP peer to
\* X-Forwarded-For (addsPeer) unless that header is there with a nil value: the
\* director's sentinel, which a credential of that name replaces.
ReverseProxyHop ==
    {"Connection", "Proxy-Connection", "Keep-Alive", "Proxy-Authenticate", "Proxy-Authorization",
     "Te", "Trailer", "Transfer-Encoding", "Upgrade"}

Nominated(req, headers) == IF "Connection" \in headers THEN req.nominated ELSE {}

ReverseProxyHeaders(req, headers) ==
    (headers \ (ReverseProxyHop \cup Nominated(req, headers))) \cup (req.headers \cap {"Te"})

\* http.Transport writes these from the request and never from its headers.
TransportOwned == {"Host", "Content-Length"}

\* The message forwardTo sends: target host in lower case without its port,
\* the path as it stood on the wire, the headers that still carry what the
\* client put there, and the credential.
Outbound(server, req) ==
    [ host    |-> req.url.host.name,
      wire    |-> req.url.wire,
      method  |-> req.method,
      headers |-> ReverseProxyHeaders(req, Director(server, req)) \ TransportOwned,
      addsPeer |-> ~ server.noXFF \/ Injected(server, req).name = "X-Forwarded-For",
      inject  |-> IF Injected(server, req).name \in ReverseProxyHop \cup TransportOwned
                  THEN NoInject ELSE Injected(server, req) ]

\* http.Transport refuses a header name that is no token; Validate does not.
Sendable(m) == m.inject.name \notin NonTokens

----------------------------------------------------------------------------
(* What may leave the proxy: a configuration s, a request q, a message m.  *)

\* A sealed credential leaves the proxy only on a request its seal permits:
\* one seal, sealed to a key the proxy holds, valid, presented with its bearer,
\* blanks around it aside (or no_auth where the operator allows it); to an
\* allowed host, a path no decoding turns into a dot segment and that is listed,
\* an allowed method; in the header and format the seal pins or lists.
Scoped(s, q, m) ==
    m.inject # NoInject =>
        \E b \in {q.seals[n].blob : n \in 1..Len(q.seals)} :
            /\ Len(q.seals) = 1
            /\ b.kind = "sealed" /\ b.key \in {s.key, s.previous} \ {NoKey}
            /\ LET c == b.body IN
                /\ Validate(c)
                /\ m.inject.token = c.token
                /\ \/ /\ c.auth = {"bearer_auth"}
                      /\ \E t \in {q.bearer.token, TrimSpace(q.bearer.token)} : c.digest = HashBearer(t)
                   \/ s.noAuth /\ c.auth = {"no_auth"}
                /\ \E h \in (IF c.hosts # {} THEN c.hosts ELSE c.hostPattern) :
                       h.name = m.host /\ h.port \in {"", "443"}
                /\ \A n \in 0..(MaxDecodes + 2) : ~ Dotted(Unescaped(m.wire, n))
                /\ PathListed(PathUnescape(m.wire),
                              [prefixes |-> c.prefixes, pattern |-> c.pathPattern])
                /\ c.methods = {} \/ m.method \in c.methods
                /\ m.inject.name \in (IF c.headerName # "" THEN {c.headerName}
                                     ELSE c.allowedHeaderNames \cup {"Authorization"})
                /\ m.inject.format \in (IF c.format # "" THEN {c.format}
                                       ELSE c.allowedFormats \cup {"Bearer %s"})

\* What the code and the configuration name as not to travel on: the control
\* headers, the hop-by-hop headers by name, the operator's filtered headers, and
\* what hides the topology.
Unwanted(s) ==
    ControlHeaders \cup ReverseProxyHop \cup TransportOwned \cup s.filtered
        \cup (IF s.cloudflare THEN CloudflareTrustHeaders ELSE {})
        \cup (IF s.noXFF THEN {"X-Forwarded-For"} ELSE {})

\* Of the client's headers exactly those travel on that should, on the sealed
\* and on the passthrough branch: none that is unwanted but a Te, which
\* ReverseProxy puts back, and all others, next to the credential and the
\* identities it replaces.  All others include those the client nominated in
\* Connection, which the director deletes before anything reads it.  The peer's
\* address stays inside where the operator says so, unless the credential itself
\* is injected as X-Forwarded-For.
Stripped(s, q, m) ==
    /\ m.headers \subseteq q.headers
    /\ m.headers \cap Unwanted(s) = q.headers \cap {"Te"}
    /\ q.headers \ (Unwanted(s) \cup AuthHeaders \cup {m.inject.name}) \subseteq m.headers
    /\ s.noXFF /\ m.addsPeer => m.inject.name = "X-Forwarded-For"

\* Next to an injected credential the upstream sees no identity the client
\* chose: no Authorization or Proxy-Authorization of its own, and no value of
\* its own in the header the credential went to.
Single(m) ==
    m.inject # NoInject => m.headers \cap (AuthHeaders \cup {m.inject.name}) = {}

\* The policy on what may leave the proxy.
Permits(s, q, m) == Scoped(s, q, m) /\ Stripped(s, q, m) /\ Single(m)

=============================================================================
