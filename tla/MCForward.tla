----------------------------- MODULE MCForward -----------------------------
(***************************************************************************)
(* Instances of Forward.  The admission instance varies configurations,    *)
(* seals, requests and the way a request came in against an upstream that  *)
(* answers at once; the stream instance varies bodies, responses and       *)
(* failures for a few requests.                                            *)
(***************************************************************************)
EXTENDS Forward

----------------------------------------------------------------------------
(* Servers                                                                 *)

BaseServer ==
    [ maxBytes |-> 1, cidrs |-> {}, terminator |-> FALSE, cloudflare |-> FALSE,
      passthrough |-> FALSE, noAuth |-> FALSE, key |-> "k2", previous |-> NoKey,
      filtered |-> {"Cookie"}, noXFF |-> FALSE ]

AdmissionServers ==
    { [BaseServer EXCEPT !.passthrough = p, !.noAuth = n, !.previous = k, !.noXFF = p, !.cloudflare = n] :
        p \in BOOLEAN, n \in BOOLEAN, k \in {NoKey, "k1"} }

StreamServers ==
    { [BaseServer EXCEPT !.passthrough = TRUE, !.maxBytes = m, !.previous = "k1"] : m \in {0, 1} }

IngressServers ==
    { [BaseServer EXCEPT !.cidrs = {"office"}, !.passthrough = TRUE, !.terminator = t, !.cloudflare = c] :
        t \in BOOLEAN, c \in BOOLEAN }

----------------------------------------------------------------------------
(* Seals                                                                   *)

Lit(cs) == [n \in 1..Len(cs) |-> Literal(cs[n])]
Enc(ch, n) == [c |-> ch, d |-> n]
H(n, m, p) == [name |-> n, mixed |-> m, port |-> p]
Api == H("api", FALSE, "")

Token(t) == [text |-> t, padded |-> FALSE]
Padded(t) == [text |-> t, padded |-> TRUE]

BaseSecret ==
    [ json |-> TRUE, auth |-> {"bearer_auth"}, digest |-> HashBearer(Token("b")),
      inject |-> TRUE, token |-> "tok", format |-> "", headerName |-> "",
      allowedFormats |-> {"Token %s"}, allowedHeaderNames |-> {"X-Api-Key"},
      hosts |-> {H("api", TRUE, "")}, hostPattern |-> NoPattern,
      prefixes |-> {Lit(<<"/", "x">>)}, pathPattern |-> NoPattern,
      methods |-> {"GET"}, anchored |-> TRUE, clean |-> TRUE ]

\* Seals an operator makes, and bodies that Validate must refuse at Open.
Secrets ==
    { BaseSecret,
      [BaseSecret EXCEPT !.auth = {"no_auth"}, !.methods = {}, !.prefixes = {}],
      [BaseSecret EXCEPT !.hosts = {}, !.hostPattern = {Api, H("", FALSE, "443")},
                         !.prefixes = {}, !.pathPattern = {Lit(<<"/", "x">>)}],
      [BaseSecret EXCEPT !.headerName = "X-Api-Key", !.format = "Token %s",
                         !.hosts = {H("api", FALSE, "443"), H("internal", FALSE, "")}],
      [BaseSecret EXCEPT !.headerName = "Proxy-Authorization"],
      [BaseSecret EXCEPT !.headerName = "X Key", !.digest = HashBearer(Padded("b"))],
      [BaseSecret EXCEPT !.digest = [kind |-> "malformed", of |-> Token("b")]] }
BadSecrets ==
    { [BaseSecret EXCEPT !.auth = AuthTags],
      [BaseSecret EXCEPT !.json = FALSE],
      [BaseSecret EXCEPT !.hosts = {}],
      [BaseSecret EXCEPT !.anchored = FALSE] }

OverrideOf(j, f, n) == [json |-> j, format |-> f, headerName |-> n]
Value(b, o) == [blob |-> b, override |-> o]

\* Values of one X-Sealed-Secret header: sealed to the current, the previous
\* or a foreign key, with overrides, and not sealed at all.
Good == Sealed(BaseSecret, "k2")
SealValues ==
    { Value(Sealed(s, k), NoOverride) : s \in Secrets, k \in {"k1", "k2"} }
        \cup { Value(Sealed(s, "k2"), NoOverride) : s \in BadSecrets }
        \cup { Value(Good, o) : o \in { OverrideOf(FALSE, "", ""), OverrideOf(TRUE, "Token %s", "X-Api-Key"),
                                         OverrideOf(TRUE, "Raw %s", ""), OverrideOf(TRUE, "", "Cookie") } }
        \cup { Value(Sealed([BaseSecret EXCEPT !.headerName = "X-Key", !.format = "Raw %s"], "k2"), o) :
                   o \in { OverrideOf(TRUE, "Token %s", ""), OverrideOf(TRUE, "", "X-Api-Key") } }
        \cup { Value(Sealed(BaseSecret, "k3"), NoOverride),
               Value([NoBlob EXCEPT !.kind = "garbage"], NoOverride),
               Value(NoBlob, OverrideOf(TRUE, "Token %s", "")) }
SealHeaders == { <<>>, <<Value(Good, NoOverride), Value(Good, NoOverride)>> } \cup { <<v>> : v \in SealValues }

----------------------------------------------------------------------------
(* Requests                                                                *)

URL(h, w) == [given |-> TRUE, ok |-> TRUE, host |-> h, wire |-> w]
BaseURL == URL(Api, Lit(<<"/", "x">>))

BaseRequest ==
    [ route |-> "forward", length |-> 0, body |-> 0,
      peer |-> "home", xff |-> <<>>, cf |-> "", origin |-> "home", via |-> "direct",
      url |-> BaseURL, seals |-> <<Value(Good, NoOverride)>>,
      bearer |-> [scheme |-> "Bearer", valid |-> TRUE, token |-> Token("b")], method |-> "GET",
      headers |-> ControlHeaders \cup AuthHeaders
                    \cup {"Connection", "Te", "Cookie", "X-Api-Key", "X-Forwarded-For", "Cf-Ray", "X-Hop"},
      nominated |-> {"X-Hop"} ]

URLs ==
    { URL(h, Lit(<<"/", "x">>)) :
        h \in { Api, H("api", TRUE, ""), H("api", FALSE, "443"), H("api", FALSE, "8080"),
                H("api", FALSE, "malformed"), H("evil", FALSE, ""), H("", FALSE, "443"),
                H("internal", FALSE, "") } }
    \cup { URL(Api, w) :
        w \in { Lit(<<"/", "x", "/", "x">>), Lit(<<"/", "x", "x">>),
                Lit(<<"/", "x", "/", ".", ".">>),
                <<Slash, Literal("x"), Enc("/", 2), Enc(".", 1), Dot>>,
                <<Slash, Literal("x"), Slash, Enc("x", MaxDecodes + 2)>>,
                Lit(<<"/", "%">>) } }
    \cup { [BaseURL EXCEPT !.given = FALSE], [BaseURL EXCEPT !.ok = FALSE] }

Bearers ==
    [scheme : {"Bearer"}, valid : {TRUE}, token : {Token("b"), Padded("b"), Token("a")}]
        \cup [scheme : {"Basic"}, valid : BOOLEAN, token : {Token("b"), Padded("b")}]
        \cup { [scheme |-> "none", valid |-> FALSE, token |-> Token("b")] }

\* Requests that may be sent twice, or not: with and without a body; passed on
\* and sealed.
RepeatRequests ==
    { [BaseRequest EXCEPT !.seals = s, !.method = "POST", !.length = n, !.body = IF n = 0 THEN 0 ELSE 1] :
        s \in { <<>>, <<Value(Sealed([BaseSecret EXCEPT !.methods = {}], "k2"), NoOverride)>> },
        n \in {-1, 0, 1} }

\* Every seal with every bearer and method, every seal with every URL, and a
\* request for each other route.
AdmissionRequests ==
    { [BaseRequest EXCEPT !.seals = s, !.bearer = b, !.method = m] :
        s \in SealHeaders, b \in Bearers, m \in {"GET", "POST"} }
    \cup { [BaseRequest EXCEPT !.seals = s, !.url = u] : s \in SealHeaders, u \in URLs }
    \cup { [BaseRequest EXCEPT !.route = r] : r \in {"public_key", "health", "other"} }
    \cup RepeatRequests

\* Bodies below, at and above the cap of one byte, announced or chunked.
StreamRequests ==
    { [BaseRequest EXCEPT !.seals = s, !.body = n, !.length = IF chunked THEN -1 ELSE n, !.url.host = h] :
        s \in { <<>>, <<Value(Sealed(BaseSecret, "k1"), NoOverride)>> }, n \in 0..2, chunked \in BOOLEAN,
        h \in { Api, H("internal", FALSE, "") } }

\* A request comes straight from its origin, through a terminator that adds
\* the origin to X-Forwarded-For (as a line or as a token), or through
\* Cloudflare, which sets CF-Connecting-IP; the rest of what it says about
\* itself is the client's own choice.
Claims == { <<>>, <<<<"office">>>>, <<<<"office">>, <<"home">>>>, <<<<"office", "">>>> }
Forwarded(claim, o) ==
    { Append(claim, <<o>>) }
        \cup (IF claim = <<>> THEN {} ELSE {[claim EXCEPT ![Len(claim)] = Append(@, o)]})
IngressRequests ==
    LET Via(v, peer, xff, cf, o) ==
            [BaseRequest EXCEPT !.seals = <<>>, !.via = v, !.peer = peer, !.xff = xff, !.cf = cf, !.origin = o]
    IN  UNION { { Via("direct", o, claim, f, o) : claim \in Claims, f \in {"", "office"} }
                \cup UNION { { Via("terminator", "edge", x, f, o) : x \in Forwarded(claim, o), f \in {"", "office"} }
                             : claim \in Claims }
                \cup UNION { { Via("cloudflare", "office", x, o, o) : x \in Forwarded(claim, "edge") }
                             : claim \in Claims }
                : o \in {"home", "office"} }

MCServers == AdmissionServers \cup IngressServers
MCRequests == AdmissionRequests \cup IngressRequests

NoResponses == { [status |-> 200, size |-> 0, framing |-> "length"] }
StreamResponses == [status : {200, 500}, size : 0..2, framing : {"length", "chunked"}]

----------------------------------------------------------------------------
(* What the documents say                                                  *)

\* The specification: "Response streams back unchanged", so a response that
\* ends properly for the client is the whole response.
CompleteMeansWhole ==
    client.end = "complete" /\ resp # NoResp => client.got = resp.size

=============================================================================
