------------------------------ MODULE MCClient ------------------------------
(***************************************************************************)
(* An instance of Client: seals of several shapes, redirects to the same   *)
(* and to another host, relative and absolute, and chains of three.        *)
(***************************************************************************)
EXTENDS Client

Lit(cs) == [n \in 1..Len(cs) |-> Literal(cs[n])]
H(n, m, p) == [name |-> n, mixed |-> m, port |-> p]
URL(h, w) == [given |-> TRUE, ok |-> TRUE, host |-> h, wire |-> w]
Api == H("api", FALSE, "")
X == Lit(<<"/", "x">>)
XX == Lit(<<"/", "x", "/", "x">>)
Up == Lit(<<"/", "x", "/", ".", ".">>)

Entry(v) == [blank |-> FALSE, value |-> v]
BlankEntry == [blank |-> TRUE, value |-> ""]
Entries(vs) == {Entry(v) : v \in vs}

----------------------------------------------------------------------------
(* Flags                                                                   *)

Hex(k) == [st |-> "hex", key |-> k]
NoURL == [given |-> FALSE, https |-> FALSE, answer |-> Unset]
At(https, source) == [given |-> TRUE, https |-> https, answer |-> source]

Token(t) == [text |-> t, padded |-> FALSE]
Padded(t) == [text |-> t, padded |-> TRUE]

BaseFlags ==
    [ processor |-> "inject-header", token |-> "tok", bearer |-> Token("b"), noAuth |-> FALSE,
      hosts |-> Entries({H("api", TRUE, "")}), hostPattern |-> NoPattern,
      prefixes |-> Entries({X}), pathPattern |-> NoPattern, methods |-> Entries({"POST", "GET"}),
      format |-> "", headerName |-> "", allowedFormats |-> {}, allowedHeaderNames |-> {},
      anchored |-> TRUE, clean |-> TRUE,
      keyFlag |-> Hex("k2"), keyEnv |-> Unset, keyURL |-> NoURL ]

\* Seals that are made: by prefix and by pattern, with and without methods, for
\* a bearer and for nobody, to the current and to the previous key.
GoodFlags ==
    { BaseFlags,
      [BaseFlags EXCEPT !.methods = Entries({"POST"}) \cup {BlankEntry}],
      [BaseFlags EXCEPT !.methods = {BlankEntry}, !.prefixes = {BlankEntry}],
      [BaseFlags EXCEPT !.noAuth = TRUE, !.bearer = NoBearer, !.prefixes = {}, !.pathPattern = {X}],
      [BaseFlags EXCEPT !.hosts = {}, !.hostPattern = {Api, H("cdn", FALSE, "")}, !.format = "Token %s"],
      [BaseFlags EXCEPT !.headerName = "X-Api-Key", !.allowedFormats = Entries({"Token %s"})],
      [BaseFlags EXCEPT !.headerName = "Proxy-Authorization"],
      [BaseFlags EXCEPT !.headerName = "Host"],
      [BaseFlags EXCEPT !.headerName = "X Key"],
      [BaseFlags EXCEPT !.bearer = Padded("b")],
      [BaseFlags EXCEPT !.keyFlag = Unset, !.keyEnv = Hex("k1"), !.keyURL = At(TRUE, Hex("k2"))],
      [BaseFlags EXCEPT !.keyFlag = Unset, !.keyURL = At(TRUE, Hex("k2"))] }

\* What seal refuses.
BadFlags ==
    { [BaseFlags EXCEPT !.token = ""],
      [BaseFlags EXCEPT !.processor = "other"],
      [BaseFlags EXCEPT !.noAuth = TRUE],
      [BaseFlags EXCEPT !.bearer = NoBearer],
      [BaseFlags EXCEPT !.hosts = {BlankEntry}],
      [BaseFlags EXCEPT !.pathPattern = {X}],
      [BaseFlags EXCEPT !.anchored = FALSE],
      [BaseFlags EXCEPT !.keyFlag = [st |-> "short", key |-> "k2"]],
      [BaseFlags EXCEPT !.keyFlag = Unset],
      [BaseFlags EXCEPT !.keyFlag = Unset, !.keyURL = At(FALSE, Hex("k2"))],
      [BaseFlags EXCEPT !.keyFlag = Unset, !.keyURL = At(TRUE, [st |-> "unreadable", key |-> NoKey])] }

SealFlags == GoodFlags \cup BadFlags

----------------------------------------------------------------------------
(* Jobs                                                                    *)

Proxy == [ok |-> TRUE, host |-> "proxy", path |-> <<>>, upgrade |-> FALSE]
Bearer(t) == [scheme |-> "Bearer", valid |-> TRUE, token |-> t]

BaseJob ==
    [ proxy |-> Proxy, url |-> URL(Api, X), parses |-> TRUE, method |-> "POST", body |-> 1,
      sealed |-> <<NoOverride>>, auth |-> Token("b"), own |-> <<>>,
      ownBearer |-> Bearer(Token("a")) ]

ClientJobs ==
    { [BaseJob EXCEPT !.url = u, !.method = m] :
        u \in { URL(Api, X), URL(H("api", TRUE, "443"), XX), URL(Api, Up), URL(H("cdn", FALSE, ""), X),
                URL(H("api", FALSE, "8443"), X), [URL(Api, X) EXCEPT !.ok = FALSE] },
        m \in {"GET", "POST"} }
    \cup { [BaseJob EXCEPT !.auth = Token("a")],
           [BaseJob EXCEPT !.auth = Padded("b")],
           [BaseJob EXCEPT !.own = <<NoOverride>>],
           [BaseJob EXCEPT !.sealed = <<>>, !.own = <<NoOverride>>, !.auth = NoBearer,
                           !.ownBearer = [scheme |-> "Basic", valid |-> TRUE, token |-> Padded("b")]],
           [BaseJob EXCEPT !.sealed = <<[json |-> TRUE, format |-> "Token %s", headerName |-> ""]>>],
           [BaseJob EXCEPT !.body = 2],
           [BaseJob EXCEPT !.proxy.upgrade = TRUE],
           [BaseJob EXCEPT !.proxy.path = <<"gateway">>],
           [BaseJob EXCEPT !.proxy.ok = FALSE],
           [BaseJob EXCEPT !.parses = FALSE],
           [BaseJob EXCEPT !.url.given = FALSE] }

ProxyServers ==
    { [ maxBytes |-> 1, cidrs |-> {}, terminator |-> FALSE, cloudflare |-> FALSE, passthrough |-> p,
        noAuth |-> n, key |-> "k2", previous |-> k, filtered |-> {}, noXFF |-> FALSE ] :
        p \in {FALSE}, n \in BOOLEAN, k \in {NoKey, "k1"} }

To(relative, u) == [relative |-> relative, url |-> u]
Redirect(status, location) == [status |-> status, location |-> location, whole |-> TRUE]
UpstreamAnswers ==
    { [status |-> 200, location |-> NoLocation, whole |-> w] : w \in BOOLEAN }
    \cup { Redirect(302, NoLocation), Redirect(302, To(TRUE, URL(Api, XX))), Redirect(307, To(TRUE, URL(Api, X))),
           Redirect(308, To(FALSE, URL(H("cdn", FALSE, ""), X))), Redirect(303, To(FALSE, URL(H("evil", FALSE, ""), X))) }

=============================================================================
