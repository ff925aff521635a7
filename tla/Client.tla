------------------------------- MODULE Client -------------------------------
(***************************************************************************)
(* A credential from the operator's command line to the upstream: the seal *)
(* and request commands of cmd/secret-proxy/main.go and the RoundTripper   *)
(* of pkg/client, with http.Client above it, which follows redirects, and  *)
(* the proxy's admission below it.                                         *)
(*                                                                         *)
(* The flags of seal are a record: processor, token, bearer, noAuth, the   *)
(* lists hosts, prefixes, methods, allowedFormats and allowedHeaderNames   *)
(* (sets of entries [blank, value]), hostPattern, pathPattern, format,     *)
(* headerName, anchored, clean (Seals), and the sources of the public key: *)
(* keyFlag, keyEnv, keyURL (Keys).                                         *)
(*                                                                         *)
(* A job is what request or an application is told to do: proxy [ok, host, *)
(* path, upgrade] (the proxy's URL; upgrade: an edge before it redirects   *)
(* to https), url, parses (http.NewRequest takes it), method, body, sealed *)
(* (<<>>, or the override that follows the blob in SEALED_SECRET), auth,   *)
(* and the control headers an application set itself: own, ownBearer.      *)
(***************************************************************************)
EXTENDS Admission

CONSTANTS
    BadKey,             \* the error return of the key functions
    Flags,              \* flags the operator may seal with
    Jobs,               \* jobs of the client
    Servers,            \* configurations of the proxy
    Answers,            \* upstream answers: [status, location, whole]
    MaxRequests,        \* requests http.Client makes in a chain of redirects
    NoHop, NoOut, NoAnswer, NoLocation

INSTANCE Keys

ASSUME MaxRequestsAssumption == MaxRequests \in Nat \ {0}
ASSUME ServersAssumption == \A s \in Servers : s.key # NoKey /\ s.maxBytes \in Nat
ASSUME FlagsAssumption ==
    \A f \in Flags : f.noAuth \in BOOLEAN /\ f.bearer \in [text : STRING, padded : BOOLEAN]
ASSUME JobsAssumption ==
    \A j \in Jobs : /\ j.url.wire \in Seq(Mark)
                    /\ j.body \in Nat
                    /\ j.sealed \in Seq({j.sealed[n] : n \in DOMAIN j.sealed})
                    /\ j.own \in Seq({j.own[n] : n \in DOMAIN j.own})
ASSUME AnswersAssumption ==
    \A p \in Answers : p.location # NoLocation => p.location.url.wire \in Seq(Mark)

VARIABLES
    flags, job, server,
    pc,         \* seal, request, send, answered, exit
    blob,       \* what seal printed
    hop,        \* the request http.Client is at: [url, method, body]
    hops,       \* how many it has made
    dest,       \* where the transport sent it
    out,        \* the message that left the proxy for this hop, or NoOut
    answer,     \* what the client was answered
    code        \* exit status of the command that ran last

vars == <<flags, job, server, pc, blob, hop, hops, dest, out, answer, code>>
given == <<flags, job, server>>

Init ==
    /\ flags \in Flags /\ job \in Jobs /\ server \in Servers
    /\ pc = "seal"
    /\ blob = NoBlob
    /\ hop = NoHop /\ hops = 0
    /\ dest = NoHop
    /\ out = NoOut
    /\ answer = NoAnswer
    /\ code = "none"

Exit(status) == pc' = "exit" /\ code' = status

----------------------------------------------------------------------------
(* secret-proxy seal                                                       *)

\* splitCSV: blank entries are dropped, also when nothing else is left.
splitCSV(list) == {e.value : e \in {x \in list : ~ x.blank}}

\* Mutant of SecretOf: the list of methods is not passed on.
SecretOfAnyMethod(f) ==
    [ json |-> TRUE, auth |-> IF f.noAuth THEN {"no_auth"} ELSE {"bearer_auth"},
      digest |-> IF f.noAuth THEN [kind |-> "empty", of |-> NoBearer] ELSE HashBearer(f.bearer),
      inject |-> TRUE, token |-> f.token, format |-> f.format, headerName |-> f.headerName,
      allowedFormats |-> splitCSV(f.allowedFormats),
      allowedHeaderNames |-> splitCSV(f.allowedHeaderNames),
      hosts |-> splitCSV(f.hosts), hostPattern |-> f.hostPattern,
      prefixes |-> splitCSV(f.prefixes), pathPattern |-> f.pathPattern,
      methods |-> {}, anchored |-> f.anchored, clean |-> f.clean ]

\* The secret runSeal builds.
SecretOf(f) ==
    [ json |-> TRUE, auth |-> IF f.noAuth THEN {"no_auth"} ELSE {"bearer_auth"},
      digest |-> IF f.noAuth THEN [kind |-> "empty", of |-> NoBearer] ELSE HashBearer(f.bearer),
      inject |-> TRUE, token |-> f.token, format |-> f.format, headerName |-> f.headerName,
      allowedFormats |-> splitCSV(f.allowedFormats),
      allowedHeaderNames |-> splitCSV(f.allowedHeaderNames),
      hosts |-> splitCSV(f.hosts), hostPattern |-> f.hostPattern,
      prefixes |-> splitCSV(f.prefixes), pathPattern |-> f.pathPattern,
      methods |-> splitCSV(f.methods), anchored |-> f.anchored, clean |-> f.clean ]

PublicKey(f) == resolvePublicKey(f.keyFlag, f.keyEnv, f.keyURL)

\* No error return of runSeal is taken; the last is that of Seal.
SealOK(f) ==
    /\ f.token # ""
    /\ f.processor = "inject-header"
    /\ (f.bearer # NoBearer) # f.noAuth
    /\ PublicKey(f) # BadKey
    /\ Validate(SecretOf(f))

runSeal ==
    /\ pc = "seal"
    /\ \/ /\ SealOK(flags)
          /\ blob' = Sealed(SecretOf(flags), PublicKey(flags))
          /\ pc' = "request" /\ code' = "ok"
       \/ ~ SealOK(flags) /\ Exit("error") /\ UNCHANGED blob
    /\ UNCHANGED <<given, hop, hops, dest, out, answer>>

----------------------------------------------------------------------------
(* secret-proxy request, http.Client.Do and transport.RoundTrip            *)

\* NewTransport and http.NewRequest take what they are given.
runRequest ==
    /\ pc = "request"
    /\ \/ /\ job.url.given /\ job.proxy.ok /\ job.parses
          /\ hop' = [url |-> job.url, method |-> job.method, body |-> job.body]
          /\ hops' = 1
          /\ pc' = "send" /\ code' = "none"
       \/ /\ ~ (job.url.given /\ job.proxy.ok /\ job.parses)
          /\ Exit("error") /\ UNCHANGED <<hop, hops>>
    /\ UNCHANGED <<given, blob, dest, out, answer>>

\* The forward URL: the path of the proxy's URL is replaced.
Endpoint(proxy) == [host |-> proxy.host, path |-> <<"v1", "forward">>]

\* Mutant of SealValues: Header.Add instead of Header.Set.
SealValuesAdded(j, b) ==
    LET overrides == j.own \o j.sealed
    IN  [n \in 1..Len(overrides) |-> [blob |-> b, override |-> overrides[n]]]

\* X-Sealed-Secret values: the client's own replaces those that are there.
SealValues(j, b) ==
    LET overrides == IF j.sealed # <<>> THEN j.sealed ELSE j.own
    IN  [n \in 1..Len(overrides) |-> [blob |-> b, override |-> overrides[n]]]

\* What RoundTrip makes of a request, as it arrives at the proxy.
Wire(j, h, b) ==
    [ route |-> "forward", length |-> h.body, body |-> h.body, peer |-> "app", xff |-> <<>>, cf |-> "",
      url |-> [given |-> TRUE, ok |-> h.url.ok, host |-> h.url.host, wire |-> h.url.wire],
      seals |-> SealValues(j, b),
      bearer |-> IF j.auth # NoBearer THEN [scheme |-> "Bearer", valid |-> TRUE, token |-> j.auth]
                 ELSE j.ownBearer,
      method |-> h.method, headers |-> ControlHeaders, nominated |-> {} ]

\* A request is sent through the transport, and something answers it; the clone
\* leaves http.Client's request alone.
Sent(message, reply) ==
    /\ pc' = "answered"
    /\ dest' = Endpoint(job.proxy)
    /\ out' = message
    /\ answer' = reply
    /\ UNCHANGED <<given, blob, hop, hops, code>>

Reply(status) == [status |-> status, location |-> NoLocation, whole |-> TRUE]

\* The proxy refuses by itself, or its transport does.
ProxyRefuses ==
    LET q == Wire(job, hop, blob)
    IN  /\ pc = "send" /\ ~ job.proxy.upgrade
        /\ \/ \E k \in 1..Len(Checks) : RefusedAt(server, q, k) /\ Sent(NoOut, Reply(StatusOf[Checks[k]]))
           \/ Admitted(server, q) /\ q.url.host.name = "" /\ Sent(NoOut, Reply(400))
           \/ Admitted(server, q) /\ ~ Sendable(Outbound(server, q)) /\ Sent(NoOut, Reply(502))

\* The proxy forwards, and the upstream answers or the proxy for it.
ProxyForwards(p) ==
    LET q == Wire(job, hop, blob)
    IN  /\ pc = "send" /\ ~ job.proxy.upgrade
        /\ Admitted(server, q) /\ q.url.host.name # "" /\ Sendable(Outbound(server, q))
        /\ Sent(Outbound(server, q), p)

\* An edge that redirects to https: http.Client takes the forward URL it names
\* for an upstream's.
EdgeRedirects ==
    /\ pc = "send" /\ job.proxy.upgrade
    /\ Sent(NoOut,
            [status |-> 301, whole |-> TRUE,
             location |-> [relative |-> FALSE,
                           url |-> [given |-> TRUE, ok |-> TRUE, wire |-> <<Slash, Literal("x")>>,
                                    host |-> [name |-> job.proxy.host, mixed |-> FALSE, port |-> ""]]]])

\* No answer comes from the proxy.
ProxyUnreachable ==
    /\ pc = "send"
    /\ Exit("error")
    /\ dest' = Endpoint(job.proxy)
    /\ UNCHANGED <<given, blob, hop, hops, out, answer>>

Redirects == answer.status \in {301, 302, 303, 307, 308} /\ answer.location # NoLocation

\* url.URL.Parse of the Location against the URL of the request.
Resolved(base, location) ==
    LET from == IF location.relative THEN base ELSE location.url
    IN  [given |-> TRUE, ok |-> from.ok, host |-> from.host, wire |-> location.url.wire]

\* redirectBehavior: 307 and 308 repeat method and body, the others do not.
RedirectMethod(h, status) == IF status \in {307, 308} \/ h.method \in {"GET", "HEAD"} THEN h.method ELSE "GET"

\* http.Client follows a redirect, through the same transport.
Follow ==
    /\ pc = "answered" /\ Redirects
    /\ \/ /\ hops < MaxRequests
          /\ hop' = [url    |-> Resolved(hop.url, answer.location),
                     method |-> RedirectMethod(hop, answer.status),
                     body   |-> IF answer.status \in {307, 308} THEN hop.body ELSE 0]
          /\ hops' = hops + 1
          /\ pc' = "send"
          /\ UNCHANGED code
       \/ hops = MaxRequests /\ Exit("error") /\ UNCHANGED <<hop, hops>>
    /\ out' = NoOut
    /\ UNCHANGED <<given, blob, dest, answer>>

\* The status and the body are printed; a body that breaks off is an error.
ShowAnswer ==
    /\ pc = "answered" /\ ~ Redirects
    /\ Exit(IF answer.whole THEN "ok" ELSE "error")
    /\ UNCHANGED <<given, blob, hop, hops, dest, out, answer>>

\* Mutant of Timeout: http.Client has none.
TimeoutNever == FALSE /\ UNCHANGED vars

\* The 30 seconds of http.Client, redirects and bodies included.
Timeout ==
    /\ pc \in {"send", "answered"}
    /\ Exit("error")
    /\ UNCHANGED <<given, blob, hop, hops, dest, out, answer>>

Exited == pc = "exit" /\ UNCHANGED vars

Command == runSeal \/ runRequest \/ Follow \/ ShowAnswer \/ Timeout

Next ==
    \/ Command
    \/ ProxyRefuses \/ (\E p \in Answers : ProxyForwards(p)) \/ EdgeRedirects \/ ProxyUnreachable
    \/ Exited

\* The commands run on and the timer fires.  Nothing is assumed of the proxy
\* and of upstreams.
Spec == Init /\ [][Next]_vars /\ WF_vars(Command)

----------------------------------------------------------------------------
(* Properties                                                              *)

HostOf(f) == IF splitCSV(f.hosts) # {} THEN splitCSV(f.hosts) ELSE f.hostPattern
PathList(f) == [prefixes |-> splitCSV(f.prefixes), pattern |-> f.pathPattern]
Methods(f) == splitCSV(f.methods)

\* The bearer the client presents.
Presented == IF job.auth # NoBearer THEN job.auth ELSE job.ownBearer.token

\* Along a chain of redirects, whoever names the next hop, the credential the
\* operator sealed goes where the flags of seal let it go and nowhere else:
\* host, path on the wire, method, header, format, and for the bearer that was
\* named then (blanks around it aside), or for nobody's where no_auth was chosen and is allowed.
WithinFlags ==
    out # NoOut /\ out.inject # NoInject =>
        /\ out.inject.token = flags.token
        /\ \E h \in HostOf(flags) : h.name = out.host /\ h.port \in {"", "443"}
        /\ PathListed(PathUnescape(out.wire), PathList(flags))
        /\ \A n \in 0..(MaxDecodes + 2) : ~ Dotted(Unescaped(out.wire, n))
        /\ Methods(flags) = {} \/ out.method \in Methods(flags)
        /\ IF flags.noAuth THEN server.noAuth ELSE flags.bearer \in {Presented, TrimSpace(Presented)}
        /\ out.inject.name \in (IF flags.headerName # "" THEN {flags.headerName}
                                ELSE splitCSV(flags.allowedHeaderNames) \cup {"Authorization"})
        /\ out.inject.format \in (IF flags.format # "" THEN {flags.format}
                                  ELSE splitCSV(flags.allowedFormats) \cup {"Bearer %s"})

\* The hop is one the flags allow.
HopWithin(u, method) ==
    /\ u.ok /\ u.host.name # "" /\ u.host.port \in {"", "443"}
    /\ IF splitCSV(flags.hosts) # {} THEN \E h \in splitCSV(flags.hosts) : Lower(h) = Lower(u.host)
       ELSE Lower(u.host) \in flags.hostPattern
    /\ Unescapable(u.wire) /\ DotSegmentsClear(PathUnescape(u.wire), MaxDecodes)
    /\ PathListed(PathUnescape(u.wire), PathList(flags))
    /\ Methods(flags) = {} \/ method \in Methods(flags)

\* The header the credential goes into by the flags alone.
FlagHeader == FirstSet("", flags.headerName, "Authorization")

\* A seal that was made can be used: with its bearer, at a proxy that holds
\* its key and lets the client in, every request within the flags is forwarded
\* and carries the credential, whatever control headers the application had set
\* before the transport.  Two kinds of flags that seal accepts are left out: a
\* bearer with blanks around it, which is sealed as given and trimmed when it is
\* presented, and a header that ReverseProxy or the transport keeps for itself
\* or refuses.
FlagsSuffice ==
    pc = "send" /\ HopWithin(hop.url, hop.method) =>
        LET q == Wire(job, hop, blob)
        IN  /\ job.sealed = <<NoOverride>>
            /\ blob.key \in {server.key, server.previous} \ {NoKey}
            /\ IF flags.noAuth THEN server.noAuth ELSE job.auth = flags.bearer /\ ~ flags.bearer.padded
            /\ ClientAllowed(server, q)
            /\ server.maxBytes = 0 \/ hop.body <= server.maxBytes
            /\ FlagHeader \notin ReverseProxyHop \cup TransportOwned \cup NonTokens
            => /\ Admitted(server, q)
               /\ Sendable(Outbound(server, q))
               /\ Outbound(server, q).inject
                    = [name   |-> FlagHeader, format |-> FirstSet("", flags.format, "Bearer %s"),
                       token  |-> flags.token]

\* The request command ends, also in a loop of redirects (an upstream's, or that
\* of an edge which sends the forward URL to itself) and before a proxy that
\* never answers.
CommandEnds == <>(pc = "exit")

=============================================================================
