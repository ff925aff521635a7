# secretproxy in TLA+

secretproxy forwards HTTPS requests and puts a credential on them that the
caller never sees: the caller presents a *sealed secret*, a blob encrypted to
the proxy's public key that holds the credential together with the hosts,
paths, methods and bearer it may be used with. This directory models the proxy,
the command that runs it and the client in TLA+, checks them with TLC on small
instances and proves the most important results with TLAPS for every instance.

## The system

| Part | State | Operations | What is hard | What makes it correct |
|---|---|---|---|---|
| Forward handler (`internal/proxy/proxy.go`: `serve`, `handleForward`, `passthrough`, `forwardTo`) | per request: status writer, body tracker, log lines | thirteen early returns, building the message, RoundTrip, copy of the response | client, upstream and body upload run at once; any of them fails at any step; the transport repeats requests; `ReverseProxy` panics past the code that logs; responses wait in a buffer | nothing refused gets out; one outcome line per request that tells the truth; the body cap holds; the handler ends when the client is gone; what arrived is handed over |
| Admission (`parseSealedHeader`, `extractBearer`, `resolveProcessor`, `validate*`, the director) | none | the checks, the headers of the outbound message | the product of configuration, seal, override and request | a credential goes only where its seal permits, under one identity |
| Path policy (`validatePath`, `refuseDotSegments`) | text and round of the decoding loop | one round, the allowlist match | judged decoded, forwarded as on the wire, decoded again by the upstream; the cap of the loop | no dot segment in any reading; the allowlist still covers every reading |
| Egress guard (`guardedDial`, `AutoSelfHostnames`, `isPrivateOrLocal`, the transport of `Server.init`) | dials under way, pooled connections | self check, lookup, vetting, connect; pooling and reuse | name server answers change; requests share connections; cancelled requests leave dials behind | connections lead to public addresses and are never made under a name of the proxy's own |
| Ingress allowlist (`internal/proxy/ingress.go`) | the prefixes | parsing the list; client address, prefix match | headers of the client's choice in front of those of the edge; two notations of one address | the real origin is judged, by exactly what the operator wrote |
| Sealed secrets (`internal/seal/seal.go`) | none | `Validate`, `Seal`, `Open` with a fallback key, `VerifyBearer`, the key parsers, `requireAnchoredPattern` | two keys during a rotation; anyone can seal anything to a public key; nested anchors | what opens is valid, sealed to a key the proxy holds; a pattern matches whole texts |
| `serve` command (`cmd/secret-proxy/main.go`, `LoadCert` and `IsDevCert` of `tlscert.go`) | configuration, keys, listener, connections, signals | startup checks, warnings, listening, shutdown | files change under it; signal, listener and connections race; four sources for each key | it always ends; the exit status and the warnings tell the truth; no development certificate by accident |
| Key rotation (`Open`, `handlePublicKey`, `resolvePublicKey`, the runbook of the specification) | keys of each replica, of the manifest and of each seal | restart, fetch, seal, forward, the steps of the operator | restarts in any order; a key fetched a while ago; a signal that decides when a key is dropped | no seal in use stops working, unless it was made too late or too early |
| `seal`, `request`, Go client (`main.go`, `pkg/client`) | the request of a chain of redirects | `runSeal`, `runRequest`, `RoundTrip` | redirects are followed above the transport, with the seal on every hop | the credential goes where the flags of `seal` say, and the command ends |
| `unseal`, `gen-tls-cert`, `gen-keypair`, certificate generation | none | straight-line I/O | nothing that depends on an order | not modelled |

Requests share the configuration, which never changes while the process runs,
and the transport's connection pool; nothing else. So one exchange is modelled
on its own (`Forward`) and the shared pool for several requests (`EgressGuard`).
`handleForward` calls the ingress check, `seal.Open`, the validators and
`forwardTo`; that runs `httputil.ReverseProxy`, whose transport calls
`guardedDial` and whose callbacks (director, `ModifyResponse`, `ErrorHandler`)
are the proxy's again. `runServe` fills in the configuration, hands the handler
to `http.Server` and waits for a signal or the end of the listener. `runSeal`
makes the seal that `runRequest`, or an application, hands to the transport of
`pkg/client`, which sends it to the proxy with every request.

## Modules

| Module | Models | Used by |
|---|---|---|
| `Paths` | paths as sequences of marks (a character and how often it is percent-encoded), `url.PathUnescape`, the closed form of `refuseDotSegments`, the path allowlist | `PathGuard`, `Admission` |
| `PathGuard`, `MCPathGuard` | `validatePath` and the loop `refuseDotSegments`, one round per step; the reader by which an upstream resolves a path (RFC 3986, 5.2.4) | |
| `EgressGuard`, `MCEgressGuard` | `guardedDial` under the connection pool | |
| `Seals` | the records and checks of `internal/seal` | `Admission` |
| `Anchors`, `MCAnchors` | `requireAnchoredPattern` on parsed patterns, and what they match | |
| `Ingress` | `clientIPFromRequest` and the check in `handleForward` | `Admission` |
| `Cidr`, `MCCidr` | `ParseAllowedClientCIDRs`, `parseCIDROrIP`, `ipInPrefixes` on address bits | |
| `Admission` | the checks of `handleForward` in their order, `resolveProcessor`, the director, the outbound message, and the policy (`Permits`) they are held against | `Forward`, `Client` |
| `Exchange` | abstract: what the proxy promises about one exchange | `Forward` implements it |
| `Forward`, `MCForward` | one exchange: handler, transport, body upload, response copy, client, upstream | |
| `Stream`, `MCStream` | the way of a response body through `statusWriter` and the write buffer of `net/http` | |
| `Keys` | where keys come from: flags, environment, files, `--public-key-url` | `Serve`, `Client` |
| `Serve`, `MCServe` | `runServe` from its flags to the exit status | |
| `Rotation`, `MCRotation` | a fleet of replicas, applications and an operator through rotations | |
| `Client`, `MCClient` | `seal`, `request`, the transport, redirects, composed with `Admission` | |
| `AdmissionProofs` | theorems about `Paths`, `Seals` and `Admission`: operators, no state | `PathGuardProofs`, `ForwardProofs`, `ClientProofs` |
| `PathGuardProofs`, `EgressGuardProofs`, `ServeProofs`, `RotationProofs`, `ClientProofs` | theorems about the module of that name | |
| `ForwardProofs` | theorems about `Forward`, that it implements `Exchange`, and about `Stream` | |
| `AllowlistProofs` | theorems about `Anchors` and `Cidr`, the two allowlists that are parsed from text | |

The formulas of `Stream` and `Cidr` (`StreamInit`, `CidrNext`, ...) carry the
module's name, because `ForwardProofs` and `AllowlistProofs` extend them next to
`Forward` and `Anchors`. A definition carries the name of the function it models where there is one. The
operators commented as a *mutant of* another are plausible bugs; replacing the
definition by its mutant violates the property that `PROJECT.json` pairs them
with, which shows that the property can fail.

### How the state corresponds to the code

`PathGuard`: `wire` is the path of `X-Upstream-URL` as sent; `path` is
`URL.Path`, which `url.Parse` decoded once and `validatePath` reads; the wire
form is what `URL.RawPath` keeps and the request line is written from.
`current` and `i` are the loop variables. A mark `[c, d]` stands for a character
encoded `d` times: one `PathUnescape` takes one layer off every mark. Which of
several spellings of an escape was used (`%2e`, `%2E`) no check can tell, and a
`%` that starts no valid escape is a mark of its own, the only error of
`PathUnescape`.

`EgressGuard`: per request, the request itself (`new`, `wait`, `using`, or
finished), the dial that the transport started for it, and the connection which
that dial produced. The transport hands a waiting request whichever is first,
its own dial's connection or one that another request dialed to the same host; a
dial outlives its request. `disabled` is `DisableEgressGuard`. An address is its
range and whether `To4` succeeds. A host is the name it denotes, whether its
spelling is in mixed case, which `strings.ToLower` folds, and whether it is
respelled in a way that nothing folds: a final dot, another notation of an
address.

`Forward`: `pc` is the place of the handler goroutine (`serve`: in
`handleForward`; `dial` and `roundtrip`: inside `Transport.RoundTrip`; `copy`:
`ReverseProxy` copies the response; `finish`: the handler returned; `done`).
`out` is the message `forwardTo` built, `heads` how often its head went to an
upstream, `upload` the request body (`complete` once its end was read), `sw` the
`statusWriter`, `readErr` the `bodyReadTracker`, `client` what was written for
the client, `log` the lines of the exchange. An error that surfaces
in the `ErrorHandler` includes the answer, its warning and the outcome line that
`handleForward` logs after it. The checks are one sequence, `Checks`;
`Reject(k)` is the early return at the first that fails, with the warning about
a fallback key in front of its line when the seal was opened before. A
passthrough request is spared `SealChecks`. `Repeat` is the transport's
repetition of a message without a body. In `Admission` a request has the header
names that its `Connection` header nominates, and a bearer is its text and
whether there are blanks around it.

`Stream` looks into the one step of `Forward` that writes a byte: `wire` is what
`net/http` holds and what the client has got. `statusWriter` is its method set,
from which `http.ResponseController.Flush` finds out whether it can flush.

`Serve`: `main` is the place of `runServe` (a stage of the startup, the
`select`, `Shutdown`, the second `select`, before and after it began to wait,
`exit`); `listener` the goroutine, `errCh` whether its error is in the channel;
`conns` the states in which `net/http` tracks connections, where `aged` is a new
connection that `Shutdown` takes for an idle one. `disk` holds the TLS files,
which `Swap` replaces at any time; `inspected` and `served` are what `IsDevCert`
and `ServeTLS` read. A source of a key is the text or the file it names, by what
the parsers make of it.

`Rotation`: `manifest` is what a starting replica loads, `running` what it
loaded; `fetched` is the key a seal command got from some replica and has not
used yet; `heard` is how the last seal of an application opened. `late` is a
history variable: the applications whose seal in use was made with a key the
fleet had stopped, or was about to stop, accepting (`TooLate`).

`Client`: `hop` is the request `http.Client` is at, `dest` where `RoundTrip` sent
it, `out` the message the proxy made of it (an `Outbound` of `Admission`),
`answer` what came back.

`Cidr`: an address is its family, its bits, numbered from the highest, and
whether it has a zone. The IPv4-mapped addresses are those of IPv6 that begin
with `MappedTop`. `i` and `out` are the loop variables of
`ParseAllowedClientCIDRs`.

`Anchors`: a pattern is the tree `regexp/syntax` parses it to, written down as a
sequence of nodes from the leaves to the root; `sub` holds the places of a
node's parts, which come before it. `beginsWithAnchor` and `endsWithAnchor` are
the two recursive functions of the code, with the answer for every node;
`Spans` says for every node where in a subject it can match. They are recursive
functions over the places, not `RECURSIVE` operators, so that one can prove
about them.

### Taken as given

Code outside the repository is modelled from how the proxy uses it:

* `httputil.ReverseProxy` removes its hop-by-hop headers and those a `Connection`
  header nominates after the director ran (an injected one too), restores a `Te`
  that asks for trailers (every `Te` in the model), appends the peer to `X-Forwarded-For`
  unless that header is nil, relays 1xx responses through `WriteHeader`, flushes
  streamed responses through `http.ResponseController` and ignores its errors,
  and panics with `ErrAbortHandler` when the copy of a response fails.
* `net/http` ends a chunked response properly when the handler returns, cuts the
  connection of a response short of its Content-Length, and watches for a client
  that is gone only after the request body was read to its end, which for a
  chunked body is a chunk of its own; `MaxBytesReader` passes
  exactly the limit. What a handler writes waits in a buffer until that is full,
  flushed, or the handler has returned. The listener speaks HTTP/1.1 and has no
  write timeout. `Shutdown` closes listeners and idle connections until none is
  left or its context ends; new connections count as idle after five seconds.
* `http.Transport` pools connections per host; the request context reaches
  `guardedDial`. A message without a body may be sent again: over HTTP/1 on the
  close of a pooled connection, if `isReplayable` says so, over HTTP/2 whatever
  its method when the stream was refused. The model repeats any message without
  a body, which covers both. The transport writes `Host` and `Content-Length`
  itself and refuses a header name that is no token before it dials.
* `http.Client` follows up to nine redirects through the same transport
  (`MaxRequests` in the model), and keeps headers as the transport does not see
  them: `RoundTrip` adds its control headers to a clone.
* `tls.X509KeyPair` skips PEM blocks that are no certificate; `net/netip` never
  matches across families and never an address with a zone.
* Cryptography is ideal; a regular expression is the set it matches (in
  `Anchors`, the spans it can match).

## Runs

| Run | Instance | Shows |
|---|---|---|
| `path_guard` | all wire paths of a slash and up to four marks; depths 0 to MaxDecodes + 2; `MaxDecodes` = 4 as in the code; prefixes with and without a final slash, an encoded slash, a pattern, no restriction | `LoopInv`, `VerdictExact`, `NoTraversal`, `StillListed`, `Confined` (RFC 3986 resolution of what the upstream reads) |
| `egress_guard` | two requests, guard on and off, answers that are empty, public, mixed or reserved, names in mixed case and with a final dot | `VettedPeer`, `NeverSelf`, `WaitEnds` |
| `forward_admission` | twelve configurations, 29 seal headers (none, valid, invalid, foreign, with overrides, two of them), bearers with and without blanks, methods and URLs, nominated headers, header names that cannot be sent, messages sent twice; direct, terminator and Cloudflare, with every claim in front of what the edge adds | `CredentialScoped`, `HeadersStripped`, `OneIdentity`, `RefusedStaysInside`, `OriginAllowed` |
| `forward_stream` | bodies of 0 to 2 bytes against no cap and a cap of 1, announced and chunked; responses of 0 to 2 bytes in both framings; one 1xx; a refused host | `OverflowReported`, `OneOutcome`, `TruncationLogged`, `StatusLogged`, `GoneClientFreesHandler`, `KeepsPromises` (the refinement) |
| `stream` | up to five units through a buffer of three, three kinds of response | `HandedOver`, `EndArrives` |
| `serve` | combinations of the four key sources, previous keys, TLS flags; six contents of the TLS files, replaced once at any moment; a listener that may fail, two connections, a signal; passthrough with lists that are empty, blank or not | `ZeroMeansAnswered`, `FailureShown`, `RelayAnnounced`, `DevCertOnlyAround`, `ProcessEnds` |
| `cidr` | every address of two and four bits against every list of up to two entries | `ExactlyListed` |
| `anchors` | patterns three levels deep over six atoms, subjects of up to three characters | `MatchesWhole` |
| `rotation` | two replicas, two applications, three keypairs; seal commands that take any time | `SealsOpen`, `SilentMeansResealed` |
| `client_chain` | twelve seals that are made and eleven that are refused, 23 jobs, four proxies, seven answers, chains of three requests | `WithinFlags`, `FlagsSuffice`, `CommandEnds` |

Why the bounds are enough. The longest pattern the path checks look for is a
slash, two dots and a slash, and every depth on both sides of the cap occurs;
four marks also hold a prefix with something behind it. Two requests are what it
takes to share a connection or to race a dial, and the code compares no more
than two. Bodies of one less, exactly and one more than the cap, and responses
with nothing, a part and all delivered, are the cases the code can tell apart; a
buffer of three is left empty, filled in part, filled and overflown by five
units. The TLS files are read twice, so one replacement falls before, between
or after. A connection that is idle while another is active is what `Shutdown`
tells apart. Two bits and four bits have prefixes of every kind: none, part and
all of the address, across the border of the mapped range and one too long. With
three keypairs a second rotation begins with what the first one left behind. A
chain of three requests has a hop whose predecessor was itself a redirect.

Two more runs state a sentence of the documents that the code does not keep, and
end in a counterexample. In both a streamed response suffers from what the proxy
wraps around it:

| Run | Sentence | What the code does |
|---|---|---|
| `doc_streams` | "Response streams back unchanged." (`docs/specs/2026-05-08-secret-proxy.md:152`) | recovering `ErrAbortHandler` lets a chunked response that broke off end properly (`CompleteMeansWhole`) |
| `doc_events` | no WriteTimeout because of "legitimate streamed responses (server-sent events, ...)" (`main.go:177`) | `statusWriter` has no `Flush` and no `Unwrap`, so events wait in the buffer (`EventsArrive`) |

### Where documents and code differ

Met while modelling. The models follow the code; no run is spent on these:

| Document or comment | Code | Model |
|---|---|---|
| of the self hostnames: "The loop guard refuses to dial these." (`README.md:72`) | only the case is folded (`proxy.go:749`); such a name with a final dot, or an address in another notation, is dialed | `respelled` and `ToLower` in `EgressGuard`; `NeverSelf` |
| "Hop-by-hop headers (RFC 7230 §6.1) ... also stripped." (specification, line 152; the comment at `proxy.go:59`) | the director deletes `Connection` (`proxy.go:334`) before `ReverseProxy` reads what it nominates, and `ReverseProxy` puts a `Te` that asks for trailers back | `Director` and `ReverseProxyHeaders` in `Admission`; `HeadersStripped` |
| "access log captures real upstream status" (`docs/plans/2026-05-09-secret-proxy-v1-impl.md:120`) | after a 1xx response the status is that one, which `statusWriter` kept (`proxy.go:490`) | `WriteHeader` in `Forward`; `StatusLogged` |
| the event `proxied` means "Forward request fully relayed." (specification, line 239) | also logged after the `ErrorHandler` answered 403, 413 or 502 | `Event` and `ErrorHandler` in `Forward` |
| `upstream_error` is a "Genuine upstream failure" (specification, line 248) | also logged when the client's body cannot be read, and when the transport refuses the header of the credential | `BodyReadFails`, `DialFails` in `Forward` |
| seals are checked for what the header writer "would reject at request time" (`seal.go:281`) | values are; a header name that is no token passes, and every request ends in 502 | `Validate` in `Seals`, `Sendable` in `Admission` |
| the presented bearer is compared with the sealed one (specification, line 78) | the presented one is trimmed (`proxy.go:544`), the sealed one is not (`main.go:343`): a seal made with blanks around `--auth-bearer` never verifies with `Bearer` | `extractBearer` in `Admission`, `SecretOf` in `Client` |
| "Non-443 ports are rewritten to 443" (specification, line 167) | refused with 403 | `rejectNonStandardPort` in `Admission` |
| the allowlist runs against "the form actually forwarded to the upstream" (`proxy.go:668`) | against the decoded `URL.Path` | `PathGuard`; `NoTraversal`, `StillListed` and `Confined` hold all the same |
| `serve` "refuses to bind a listener whose cert matches this CN" (`tlscert.go:19`) | only the first PEM block of the file is looked at | `IsDevCert` in `Serve`; `DevCertOnlyAround` |
| `--private-key` comes before `SECRET_PROXY_PRIVATE_KEY_FILE` (specification, line 177) | a file from the environment wins over the flag | `FlagOr`, `loadPrivateKey` in `Keys` |
| "PEM/hex file" (`main.go:84`; specification, line 181) | only hex is read | `ReadPrivateKeyFile` in `Keys` |
| "retargets every request to `proxyURL/v1/forward`" (specification, line 231) | the path of the proxy URL is replaced | `Endpoint` in `Client` |
| `--public-key`, `--public-key-url`, `SECRET_PROXY_PUBLIC_KEY` "in that order" (specification, line 212) | the variable comes before the URL | `resolvePublicKey` in `Keys` |

### What some properties leave room for

* `DevCertOnlyAround` names the two ways by which a development certificate is
  served without its flag, and excludes all others.
* `FailureShown`: when the five seconds of the second `select` run out at the
  moment the listener's error arrives, either can win.
* `ExactlyListed`: a prefix written in IPv4-mapped notation matches no IPv4
  client, though a bare address in that notation does.
* `MatchesWhole`: under the flag `(?m)` of a pattern, `^` and `$` pass the
  anchoring check as bounds of a line. Hosts have no line ends; a path has one
  only when `%0A` was decoded.
* `RefusedStaysInside`: a request repeated by the transport can be refused at its
  second dial, after its head went out at the first.
* `NeverSelf` is about the case of a name and about no other difference of
  spelling: a name with a final dot is dialed.
* `HeadersStripped` says exactly which headers travel on, so `Te` and the
  headers `Connection` nominated are among them.
* `StatusLogged`: after a 1xx response the outcome line has 103, whatever the
  client was shown in the end.
* `GoneClientFreesHandler` begins when the request was read to its end: before
  that `net/http` does not watch the connection, and a dial or an upstream that
  hangs holds the handler until `ReadTimeout` ends the body.
* `FlagsSuffice` leaves out what `seal` accepts and no request can satisfy: a
  bearer with blanks around it, and a header name that `ReverseProxy` removes,
  that the transport writes itself or that it refuses.
* `SealsOpen` leaves out a seal made too late and one made too early, with the
  key of a replica that was rolled while others were not: no replica, or not
  every replica, can open them. The harm stays with that application and ends
  with its next seal. `SilentMeansResealed` leaves out the first kind only.
* `Rotation` takes one rule strictly that the runbook leaves open: the signal
  counts as silent only when every application was heard since the roll.
  Otherwise an application nobody heard may be locked out.

### Fairness

* `EgressGuard`: weak fairness of a dial's steps. The resolver and the kernel
  give up by themselves, so a lookup or a connect ends. Nothing makes a request
  finish or a connection close.
* `Forward`: weak fairness of the handler's own steps and of noticing a
  cancelled context. Nothing is assumed of the upstream or of the client, so
  `GoneClientFreesHandler` holds against an upstream that never answers. It says
  nothing of a client that stays: there the code sets no time limit.
* `Stream`: weak fairness of the handler's steps: what has been read is written,
  and an end is noticed. The upstream may fall silent, which is what
  `EventsArrive` fails on: no step that is still to come would move the event.
* `Serve`: weak fairness of `runServe` with its timers, of the listener's steps,
  and of `Accept` returning once the listener is closed. Handlers may hang and
  clients may stay, and still `ProcessEnds`: the two limits of five seconds end
  it.
* `Client`: weak fairness of the command's own steps and of the 30 seconds of
  `http.Client`. Nothing is assumed of the proxy and of upstreams.
* `PathGuard`, `Cidr`, `Anchors`, `Rotation` are checked for safety only.

## The refinement

`Exchange` says what a client, an upstream and an operator may rely on, with no
word of goroutines, callbacks or panics: the proxy declines, or releases one
message that the policy permits, sends no more of the body than the limit,
relays one response, shows the client one status and settles the exchange with
one report, which is *truncated* unless all of the response was relayed.
`Forward` implements it (`KeepsPromises`) under a mapping that reads the stage
from `pc`, the message from `out`, and the report from the last line of the log.
The steps of the transport (dialing, repeating a request) and the client's
leaving are stutters. That the policy permits a message (`Permits` of
`Admission`) is stated without the checks: by what the opened seal says.

## Proofs

All for every value of the constants, under the assumptions named in the
modules:

| Assumption | What it says | Why |
|---|---|---|
| `MaxDecodesAssumption`, `MaxRequestsAssumption`, `RoomAssumption`, the bounds of the models | numbers are natural numbers, a buffer holds something | constants of the code |
| `WiresAssumption`, `AllowsAssumption`, `HostsAssumption`, `RequestsAssumption`, `AnswersAssumption`, `ListsAssumption`, `PatternsAssumption`, `SubjectsAssumption`, `ConfsAssumption`, `DisksAssumption`, `FlagsAssumption` | paths, header lists, lists of addresses, trees, texts, configurations and files have the shape the parsers give them | the types of the code and of its libraries |
| `ResponsesAssumption`, `NoRespAssumption` | a response has a final status; no response is none | `RoundTrip` |
| `ServersAssumption`, `KeysAssumption` | a configured key is a key | the startup of `runServe` |
| `WidthAssumption` | IPv4 addresses have fewer bits than IPv6 ones | 32 and 128 |
| `EdgeAssumption` | a terminator appends the address it was connected from to `X-Forwarded-For`, Cloudflare sets `CF-Connecting-IP`, and the rest of these headers is the client's choice | what `clientIPFromRequest` relies on |

* **Paths** (`AdmissionProofs`). `n` rounds of decoding compose
  (`UnescapedTwice`), a stable text stays stable (`StableForever`), a literal dot
  segment survives decoding (`DottedForever`) and so does a prefix
  (`UnderPrefixForever`). From these: a path the loop clears is clear on the wire
  and after every number of decodings (`ClearForever`, `ClearOnTheWire`).
* **Path policy.** `LoopInv` is the inductive invariant: `current` is the
  `i`-fold decoding and every earlier one was dot-free, decodable and not yet
  stable. It is needed because the verdict only records how the loop ended.
  `LoopExact`, `TraversalFree` and `PrefixHolds` follow from it.
  `ResourceIsConfined` goes on to what an upstream makes of the path. Its reader
  is a recursive function of the marks read, so that its values exist has to be
  shown first (`ReaderSplits`); the induction is by the least place where the
  claim fails, which the library's well-foundedness of the naturals supplies.
  The reader leaves a path without dot segments as it is (`ResolveKeeps`), and a
  path under a prefix lies in the directory the prefix names (`CoveredWithin`).
* **Egress.** `VettedPeer` alone is not inductive: a connection is made from
  what a dial holds, and used by requests that did not make it. The invariant
  adds that a dial which waits for its connect holds a vetted address, and that
  a dial past the self check is under none of the proxy's names in any case
  (`DialVetted`).
* **Admission.** `AdmissionProofs` is about no state: a message built for a
  request that passed every check is `Scoped`, `Single` and `Stripped`
  (`MessageScoped` and its siblings), check by check; the path part rests on
  `ClearOnTheWire`. `Forward` and `Client` both cite it.
* **Forward.** A message exists only for an admitted request and is the one
  `forwardTo` builds (`OutAdmitted`, the inductive invariant), from which
  `CredentialsStayScoped`, `IdentityIsSingle` and `HeadersAreStripped` follow.
  `TypeCorrect` goes action by action.
* **The log.** That a log has one outcome line says nothing about the step that
  writes the next line, so `LogInv` says how an exchange can end: refused by a
  check, refused by the guard, over the cap, unanswered, or copied
  (`EndsRefused` and its four siblings), each with the lines it leaves and with
  what reached the upstream. While the exchange runs, it says what is not in the
  log yet, and that a second dial is under way only for a message without a body. `OneOutcomeLine`, `TruncationsLogged`, `OverflowsReported` and
  `RefusedNeverLeaves` follow from it together with the stages (`StageInv`).
  `StatusIsLogged` needs `StatusInv`: until a 1xx response came, the status of
  `statusWriter`, of the client and of the outcome line are one; after it, the
  writer keeps 103 to the end.
* **Origin.** `OriginIsAllowed`: by `EdgeAssumption`, where the request came from
  is what `clientIPFromRequest` reads, in each of the three setups
  (`OriginSeen`); a request that was not refused passed that check.
* **Refinement.** `ForwardImplementsExchange`: every step of `Forward` is a step
  of `Exchange` or leaves it unchanged. The mapping reads the report from the
  last line of a log, so `StageInv` and `LastLine` say what is there at each
  stage; the types of `TypeCorrect` supply the rest.
* **Stream.** `HandsOver`, for a write buffer of any size: for a client that
  stays, what it got and what is held add up to what was copied (`StreamInv`),
  and the handler's return leaves nothing held.
* **Patterns.** `PatternsMatchWhole`, for trees of any size and shape and for
  texts of any length. A function whose value at each place depends on the
  values before it exists (`Recursion`), which gives the equations of the three
  recursive functions. If `beginsWithAnchor` holds of a node, all its spans
  begin at the text's begin, or at a line's under `(?m)` (`BeginsHold`); the same
  for the end. Both by the least node where it fails.
* **Client addresses.** `ListIsExact`, for lists of any length and addresses of
  any width. The loop keeps that `out` holds the prefixes of the entries behind
  it and no others (`CidrInv`); what one prefix contains is what its entry names,
  in either notation (`EntryContains`).
* **Serve.** `Ordered` ties the listener and `Shutdown` to the place of
  `runServe`. `Drained` adds that no connection is left once `Shutdown` returned
  in time and that none can come after; `ZeroIsClean` and `FailureIsShown`
  follow, for any number of connections. `Announced` (the warnings are out before
  the listener is there) gives `RelayIsAnnounced`. `Inspected` (what `IsDevCert`
  saw is what is served, or a file was replaced) gives `DevCertGoesAround`.
* **Rotation.** What a replica runs with and what a seal is sealed to are tied to
  the phase of the runbook (`RunningInv`, `SealsInv`): while the fleet is rolled
  to a new key a seal that was not made too late is for the old one or the new,
  and while it is rolled to drop the old one it is for the new. `SealsAlwaysOpen` and
  `SilenceIsReliable` follow, for any number of replicas, applications and keys.
* **Client.** `CredentialWithinFlags` composes the two ends: the blob at hand is
  the one the flags describe (`ChainInv`), what `RoundTrip` makes of any hop is a
  request the admission lemmas apply to (`WireWellFormed`), so what leaves the
  proxy is within the seal and hence within the flags, however the chain of
  redirects runs. `SealsSuffice` is the converse: a job within the flags, with a
  bearer and a header that can be sent, fails none of the thirteen checks
  (`PassesAdmitted`, one step for each) and leaves with the credential.

Recursion and induction stay within first-order reasoning: a recursive function
is written as one, that it exists is proved where it is used, and an induction
over its argument is a proof by the least counterexample.

Only model-checked: the liveness properties `WaitEnds`,
`GoneClientFreesHandler`, `EndArrives`, `ProcessEnds` and `CommandEnds`, which
rest on fairness and so on ENABLED, out of the prover's reach; and the two runs
that end in a counterexample. Every safety property that a run checks is proved.

## Not modelled

Cryptography, randomness (keypairs, EUIDs) and certificate generation; `unseal`,
`gen-tls-cert` and `gen-keypair`, straight-line I/O; the wording and the fields
of log lines, the redaction of `LogValue`; the process environment
(`HTTPS_PROXY`); the brackets of IPv6 literals as upstream hosts; protocol
upgrades; packaging.
Elapsed time: a timer is a step that may come at any moment.

## Plan

Done, in this order: `Paths` and `PathGuard`, `EgressGuard`, `Seals`, `Ingress`,
`Admission`, `Forward` with their proofs; then `Keys`, `Serve`, `Cidr`,
`Rotation`, `Exchange` and the refinement, `Client`, `Stream`, `Anchors`, each
with the proofs above. Next:

1. `Forward` composed with `EgressGuard`, several exchanges over one pool; a
   repetition then takes whichever connection the pool has. `RefusedNeverLeaves`
   for the composition.
2. `Rotation` composed with `Client`, seals whose redirects cross a rotation;
   `SealsAlwaysOpen` for every hop.
