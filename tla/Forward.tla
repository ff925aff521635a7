------------------------------ MODULE Forward ------------------------------
(***************************************************************************)
(* One exchange through the proxy: Server.serve, handleForward,            *)
(* passthrough and forwardTo (internal/proxy/proxy.go), running against a  *)
(* client that may go away, an upstream that may answer early, late, in    *)
(* part or not at all, and net/http below and above it.                    *)
(*                                                                         *)
(* The proxy keeps no state between requests besides its configuration and *)
(* the connection pool (EgressGuard), so exchanges are independent and one *)
(* is modelled.  The handler goroutine, the transport that sends the       *)
(* request body, the client and the upstream interleave.                   *)
(***************************************************************************)
EXTENDS Admission, FiniteSets

CONSTANTS
    Servers,            \* configurations of proxy.Server
    Requests,           \* requests a client may send
    Responses,          \* upstream responses: [status, size, framing]
    RefusedNames,       \* host names guardedDial refuses
    MovingNames,        \* host names it may refuse at one time and not at another
    MaxHeads,           \* bound on how often one message is sent
    MaxInformational,   \* bound on 1xx responses of the upstream
    NoOut, NoResp       \* no message built, no response received

ASSUME MaxInformationalAssumption == MaxInformational \in Nat
ASSUME MaxHeadsAssumption == MaxHeads \in Nat
ASSUME NoRespAssumption == NoResp \notin Responses
ASSUME ResponsesAssumption ==
    \A p \in Responses : p.status \in 200..599 /\ p.size \in Nat /\ p.framing \in {"length", "chunked"}
ASSUME RequestsAssumption ==
    \A q \in Requests : /\ q.body \in Nat /\ (q.length = 0 => q.body = 0)
                        /\ q.url.wire \in Seq(Mark)
                        /\ q.seals \in Seq({q.seals[n] : n \in DOMAIN q.seals})
\* A client that connects straight to the proxy is its peer; a terminator writes
\* the address it was connected from after what X-Forwarded-For already says,
\* as a token or as a line of its own; Cloudflare sets CF-Connecting-IP.  All
\* else in the three is the client's own choice.
ASSUME EdgeAssumption ==
    \A q \in Requests :
        /\ q.origin \notin {"", NoAddr}
        /\ q.via = "direct" => q.peer = q.origin
        /\ q.via = "terminator" =>
             /\ q.xff # <<>>
             /\ LET line == q.xff[Len(q.xff)] IN line[Len(line)] = q.origin
        /\ q.via = "cloudflare" => q.cf = q.origin
ASSUME ServersAssumption == \A s \in Servers : s.maxBytes \in Nat /\ s.key # NoKey

VARIABLES
    server,     \* the configuration
    req,        \* the request
    pc,         \* where the handler goroutine is
    out,        \* the message built by forwardTo, or NoOut
    heads,      \* how often its head was sent to an upstream
    upload,     \* the request body: [sent, st]
    resp,       \* the upstream's final response, or NoResp
    infos,      \* 1xx responses relayed
    sw,         \* statusWriter: [status, written]
    readErr,    \* bodyReadTracker.readErr is set
    client,     \* what was written for the client: [gone, status, got, end]
    log         \* the log lines of this exchange

vars == <<server, req, pc, out, heads, upload, resp, infos, sw, readErr, client, log>>

\* Mutant of Init: the status writer begins without a status.
InitZeroStatus ==
    /\ server \in Servers
    /\ req \in Requests
    /\ pc = "serve"
    /\ out = NoOut
    /\ heads = 0
    /\ upload = [sent |-> 0, st |-> "idle"]
    /\ resp = NoResp
    /\ infos = 0
    /\ sw = [status |-> 0, written |-> FALSE]
    /\ readErr = FALSE
    /\ client = [gone |-> FALSE, status |-> 0, got |-> 0, end |-> "open"]
    /\ log = <<>>

Init ==
    /\ server \in Servers
    /\ req \in Requests
    /\ pc = "serve"
    /\ out = NoOut
    /\ heads = 0
    /\ upload = [sent |-> 0, st |-> "idle"]
    /\ resp = NoResp
    /\ infos = 0
    /\ sw = [status |-> 200, written |-> FALSE]
    /\ readErr = FALSE
    /\ client = [gone |-> FALSE, status |-> 0, got |-> 0, end |-> "open"]
    /\ log = <<>>

----------------------------------------------------------------------------
(* Writing and logging                                                     *)

Line(event, status) == [event |-> event, status |-> status]

\* http.ResponseWriter.WriteHeader with a final status, as the client sees it.
Shown(c, status) == IF c.gone THEN c ELSE [c EXCEPT !.status = status]

\* Mutant of WriteHeader: the status is not recorded.
WriteHeaderUnrecorded(w, status) == [w EXCEPT !.written = TRUE]

\* statusWriter.WriteHeader: the first status is the one that is kept.
WriteHeader(w, status) == IF w.written THEN w ELSE [status |-> status, written |-> TRUE]

\* The event name of this request's outcome line.
Event == IF Passthrough(server, req) THEN "passthrough" ELSE "proxied"
TruncatedEvent ==
    IF Passthrough(server, req) THEN "passthrough_truncated" ELSE "proxied_truncated"

\* logForwardOutcome, with copyErr set or not.
Outcome(copyErr, status) == Line(IF copyErr THEN TruncatedEvent ELSE Event, status)

\* forwardTo returns after its ErrorHandler answered: handleForward logs and
\* returns.  warn is what the ErrorHandler and guardedDial logged.
ErrorHandler(warn, status) ==
    /\ sw' = WriteHeader(sw, status)
    /\ client' = Shown(client, status)
    /\ log' = log \o warn \o <<Outcome(FALSE, sw'.status)>>
    /\ pc' = "finish"
    /\ UNCHANGED <<server, req, out, heads, resp, infos, readErr>>

----------------------------------------------------------------------------
(* serve, and handleForward up to the upstream call                        *)

\* /public-key, /healthz, /readyz and the 404 of every other path.
ServeOther ==
    /\ pc = "serve"
    /\ req.route # "forward"
    /\ client' = Shown(client, IF req.route = "other" THEN 404 ELSE 200)
    /\ pc' = "finish"
    /\ UNCHANGED <<server, req, out, heads, upload, resp, infos, sw, readErr, log>>

\* The warning that a seal opened with the previous key leaves, once the checks
\* before the k-th have passed.
FallbackLine(k) ==
    IF /\ \E j \in 1..(k - 1) : Checks[j] = "seal_open"
       /\ ~ Passthrough(server, req)
       /\ UsedFallback(SealHeader(req).blob, server.key, server.previous)
    THEN <<Line("seal_opened_via_previous_key", 0)>> ELSE <<>>

\* respondError at the first check that fails.
Reject(k) ==
    /\ pc = "serve"
    /\ req.route = "forward"
    /\ RefusedAt(server, req, k)
    /\ client' = Shown(client, StatusOf[Checks[k]])
    /\ log' = log \o FallbackLine(k) \o <<Line("proxy_reject", StatusOf[Checks[k]])>>
    /\ pc' = "finish"
    /\ UNCHANGED <<server, req, out, heads, upload, resp, infos, sw, readErr>>

\* The lines logged before forwardTo runs.
AdmissionLines == FallbackLine(Len(Checks) + 1)

\* forwardTo finds a host that is only a port (":443"): http.Error and return.
MissingTargetHost ==
    /\ pc = "serve"
    /\ req.route = "forward"
    /\ Admitted(server, req)
    /\ req.url.host.name = ""
    /\ ErrorHandler(AdmissionLines, 400)
    /\ UNCHANGED upload

\* forwardTo builds the message and calls ReverseProxy.ServeHTTP.
ForwardTo ==
    /\ pc = "serve"
    /\ req.route = "forward"
    /\ Admitted(server, req)
    /\ req.url.host.name # ""
    /\ out' = Outbound(server, req)
    /\ log' = log \o AdmissionLines
    /\ pc' = "dial"
    /\ UNCHANGED <<server, req, heads, upload, resp, infos, sw, readErr, client>>

----------------------------------------------------------------------------
(* RoundTrip: the connection, the request body, the response head          *)

\* Mutant of DialRefused: the ErrorHandler does not recognise ErrEgressRefused.
DialRefusedAsOutage ==
    /\ pc = "dial"
    /\ Sendable(out)
    /\ out.host \in RefusedNames \cup MovingNames
    /\ ErrorHandler(<<Line("egress_refused", 0), Line("upstream_error", 0)>>, 502)
    /\ UNCHANGED upload

\* guardedDial refuses: its own line, then the ErrorHandler's.
DialRefused ==
    /\ pc = "dial"
    /\ Sendable(out)
    /\ out.host \in RefusedNames \cup MovingNames
    /\ ErrorHandler(<<Line("egress_refused", 0), Line("egress_refused_at_dial", 0)>>, 403)
    /\ UNCHANGED upload

\* The transport refuses the header of the credential before it dials, or the
\* lookup, the connect or the TLS handshake fails.
DialFails ==
    /\ pc = "dial"
    /\ Sendable(out) => out.host \notin RefusedNames
    /\ ErrorHandler(<<Line("upstream_error", 0)>>, 502)
    /\ UNCHANGED upload

\* A connection is there, a new one or one of the pool, and the head of the
\* request is written to it.
Connect ==
    /\ pc = "dial"
    /\ Sendable(out)
    /\ out.host \notin RefusedNames
    /\ pc' = "roundtrip"
    /\ heads' = heads + 1
    /\ upload' = [upload EXCEPT !.st = IF req.length = 0 THEN "complete" ELSE "sending"]
    /\ UNCHANGED <<server, req, out, resp, infos, sw, readErr, client, log>>

Uploading == pc \in {"roundtrip", "copy"} /\ upload.st = "sending"

\* MaxBytesReader lets no byte past the limit.
WithinLimit(n) == server.maxBytes = 0 \/ n <= server.maxBytes

\* The transport reads a byte of the body from the client and sends it on; what
\* a client has sent before it is gone can still be read.  The end of a body of
\* known length comes with its last byte.
SendBody ==
    /\ Uploading
    /\ upload.sent < req.body
    /\ WithinLimit(upload.sent + 1)
    /\ upload' = [sent |-> upload.sent + 1,
                  st   |-> IF upload.sent + 1 = req.length THEN "complete" ELSE "sending"]
    /\ UNCHANGED <<server, req, pc, out, heads, resp, infos, sw, readErr, client, log>>

\* The chunk that ends a chunked body is read.
BodyEnds ==
    /\ Uploading
    /\ req.length = -1 /\ upload.sent = req.body
    /\ upload' = [upload EXCEPT !.st = "complete"]
    /\ UNCHANGED <<server, req, pc, out, heads, resp, infos, sw, readErr, client, log>>

\* The body cannot be read any further.  Before the response this fails the
\* RoundTrip; while the response is copied it costs the upstream connection.
BodyError(st, warn, status) ==
    /\ Uploading
    /\ upload' = [upload EXCEPT !.st = st]
    /\ \/ pc = "roundtrip" /\ ErrorHandler(warn, status)
       \/ pc = "copy" /\ UNCHANGED <<server, req, pc, out, heads, resp, infos, sw,
                                     readErr, client, log>>

\* Mutant of BodyOverflow: the ErrorHandler does not recognise MaxBytesError.
BodyOverflowAsOutage ==
    /\ upload.sent < req.body
    /\ ~ WithinLimit(upload.sent + 1)
    /\ BodyError("overflow", <<Line("upstream_error", 0)>>, 502)

\* MaxBytesReader reports MaxBytesError at the first byte over the limit.
BodyOverflow ==
    /\ upload.sent < req.body
    /\ ~ WithinLimit(upload.sent + 1)
    /\ BodyError("overflow", <<Line("request_too_large_streamed", 0)>>, 413)

\* Reading the body fails: the client is gone, or ReadTimeout expired.
BodyReadFails == BodyError("failed", <<Line("upstream_error", 0)>>, 502)

\* The upstream sends a 1xx response: ReverseProxy relays it at once through
\* statusWriter.WriteHeader.
Informational ==
    /\ pc = "roundtrip"
    /\ infos < MaxInformational
    /\ infos' = infos + 1
    /\ sw' = WriteHeader(sw, 103)
    /\ UNCHANGED <<server, req, pc, out, heads, upload, resp, readErr, client, log>>

\* The head of the response arrives, possibly before the body is all sent:
\* ModifyResponse wraps the body, the status goes to the client.
Respond(p) ==
    /\ pc = "roundtrip"
    /\ resp' = p
    /\ sw' = WriteHeader(sw, p.status)
    /\ client' = Shown(client, p.status)
    /\ pc' = "copy"
    /\ UNCHANGED <<server, req, out, heads, upload, infos, readErr, log>>

\* The transport sends a message without a body again, on another connection:
\* a replayable one when a pooled connection of HTTP/1 was closed before the
\* first byte of an answer, any one when an upstream that speaks HTTP/2 refused
\* its stream or closed the connection for new ones.  A body is not sent again:
\* the message has no GetBody.
Repeat ==
    /\ pc = "roundtrip"
    /\ req.length = 0
    /\ heads < MaxHeads
    /\ pc' = "dial"
    /\ UNCHANGED <<server, req, out, heads, upload, resp, infos, sw, readErr, client, log>>

\* The upstream drops the connection before it answers, or answers in no HTTP.
UpstreamDrops ==
    /\ pc = "roundtrip"
    /\ ErrorHandler(<<Line("upstream_error", 0)>>, 502)
    /\ UNCHANGED upload

\* net/http watches the connection once it has read the whole request: from the
\* start without a body, else when the transport has read the body's end, which
\* for a chunked body is a chunk of its own.
Watched == upload.st = "complete" \/ req.length = 0

\* Mutant of Cancelled: the dial does not take the request's context.
CancelledRoundTrip ==
    /\ pc = "roundtrip"
    /\ client.gone
    /\ Watched
    /\ ErrorHandler(<<Line("upstream_error", 0)>>, 502)
    /\ UNCHANGED upload

\* A client that is gone then cancels r.Context(), and so the dial and the
\* RoundTrip.
Cancelled ==
    /\ pc \in {"dial", "roundtrip"}
    /\ client.gone
    /\ Watched
    /\ ErrorHandler(<<Line("upstream_error", 0)>>, 502)
    /\ UNCHANGED upload

----------------------------------------------------------------------------
(* Copying the response body                                               *)

\* A byte is read and written.  Writing goes to a buffer first (Stream), so it
\* may succeed when the client is gone already.
CopyChunk ==
    /\ pc = "copy"
    /\ client.got < resp.size
    /\ client' = [client EXCEPT !.got = @ + 1]
    /\ UNCHANGED <<server, req, pc, out, heads, upload, resp, infos, sw, readErr, log>>

\* Mutant of CopyDone: a body that ends early is taken for its end.
CopyDoneShort ==
    /\ pc = "copy"
    /\ log' = Append(log, Outcome(FALSE, sw.status))
    /\ pc' = "finish"
    /\ UNCHANGED <<server, req, out, heads, upload, resp, infos, sw, readErr, client>>

\* io.EOF: the handler returns after the outcome line.
CopyDone ==
    /\ pc = "copy"
    /\ client.got = resp.size
    /\ log' = Append(log, Outcome(FALSE, sw.status))
    /\ pc' = "finish"
    /\ UNCHANGED <<server, req, out, heads, upload, resp, infos, sw, readErr, client>>

\* Mutant of AbortRecovered: the panic passes handleForward by.
AbortEscapes ==
    /\ pc' = "finish"
    /\ UNCHANGED <<server, req, out, heads, upload, resp, infos, sw, client, log>>

\* ReverseProxy panics with ErrAbortHandler; forwardTo recovers it and
\* returns the error it tracked, or one of its own.
AbortRecovered ==
    /\ log' = Append(log, Outcome(TRUE, sw.status))
    /\ pc' = "finish"
    /\ UNCHANGED <<server, req, out, heads, upload, resp, infos, sw, client>>

\* The end of the upstream's body has not been read: bytes are missing, or
\* the chunk that ends a chunked body.
BodyOpen == client.got < resp.size \/ resp.framing = "chunked"

\* Reading the upstream's body fails: the upstream dropped it, or the request
\* body failed under it.
ReadError ==
    /\ pc = "copy"
    /\ BodyOpen
    /\ readErr' = TRUE
    /\ AbortRecovered

\* Reading it fails because the client is gone and r.Context() was cancelled.
CopyCancelled ==
    /\ pc = "copy"
    /\ client.gone
    /\ Watched
    /\ BodyOpen
    /\ readErr' = TRUE
    /\ AbortRecovered

\* Mutant of WriteError: forwardTo returns the read error it tracked, and none
\* was.
WriteErrorUntracked ==
    /\ pc = "copy"
    /\ client.gone
    /\ client.got < resp.size
    /\ log' = Append(log, Outcome(readErr, sw.status))
    /\ pc' = "finish"
    /\ UNCHANGED <<server, req, out, heads, upload, resp, infos, sw, client, readErr>>

\* Writing to a client that is gone fails.
WriteError ==
    /\ pc = "copy"
    /\ client.gone
    /\ client.got < resp.size
    /\ AbortRecovered
    /\ UNCHANGED readErr

----------------------------------------------------------------------------
(* The client, and net/http after the handler returned                     *)

ClientDisconnect ==
    /\ pc # "done"
    /\ ~ client.gone
    /\ client' = [client EXCEPT !.gone = TRUE]
    /\ UNCHANGED <<server, req, pc, out, heads, upload, resp, infos, sw, readErr, log>>

\* The response the handler wrote has all the bytes it declared.
DeclaredMet == resp = NoResp \/ resp.framing = "chunked" \/ client.got = resp.size

\* finishRequest: the handler returned, so a chunked body gets its last chunk,
\* and a body short of its Content-Length costs the connection.
Finish ==
    /\ pc = "finish"
    /\ client' = [client EXCEPT !.end = IF ~ client.gone /\ DeclaredMet THEN "complete" ELSE "cut"]
    /\ pc' = "done"
    /\ UNCHANGED <<server, req, out, heads, upload, resp, infos, sw, readErr, log>>

Done == pc = "done" /\ UNCHANGED vars

\* Steps the handler goroutine takes by itself.
Handler ==
    \/ ServeOther
    \/ \E k \in 1..Len(Checks) : Reject(k)
    \/ MissingTargetHost
    \/ ForwardTo
    \/ Finish

\* A cancelled r.Context() ends the wait of the handler, and a body of known
\* length ends with its last byte.
Unblock ==
    \/ Cancelled
    \/ CopyCancelled
    \/ CopyDone /\ resp.framing = "length"

\* What the upstream, the network and the client decide.
Environment ==
    \/ DialRefused \/ DialFails \/ Connect \/ Repeat
    \/ SendBody \/ BodyEnds \/ BodyOverflow \/ BodyReadFails
    \/ Informational
    \/ \E p \in Responses : Respond(p)
    \/ UpstreamDrops
    \/ CopyChunk \/ (CopyDone /\ resp.framing = "chunked") \/ ReadError \/ WriteError
    \/ ClientDisconnect

Next == Handler \/ Unblock \/ Environment \/ Done

\* The handler goroutine runs on while it is not blocked, and notices that its
\* context was cancelled.  Nothing is assumed of the upstream.
Spec == Init /\ [][Next]_vars /\ WF_vars(Handler) /\ WF_vars(Unblock)

----------------------------------------------------------------------------
(* Properties                                                              *)

Outcomes == {"proxy_reject", "proxied", "proxied_truncated", "passthrough", "passthrough_truncated"}
Warnings == {"seal_opened_via_previous_key", "egress_refused", "egress_refused_at_dial",
             "request_too_large_streamed", "upstream_error"}
LogLine == [event : Outcomes \cup Warnings, status : 0..599]
Logged(event) == \E n \in 1..Len(log) : log[n].event = event

\* Types, and the message is the one forwardTo builds.
TypeOK ==
    /\ server \in Servers
    /\ req \in Requests
    /\ pc \in {"serve", "dial", "roundtrip", "copy", "finish", "done"}
    /\ out = NoOut \/ out = Outbound(server, req)
    /\ heads \in Nat
    /\ upload \in [sent : 0..req.body, st : {"idle", "sending", "complete", "overflow", "failed"}]
    /\ resp \in Responses \cup {NoResp}
    /\ infos \in 0..MaxInformational
    /\ sw \in [status : 100..599, written : BOOLEAN]
    /\ readErr \in BOOLEAN
    /\ client \in [gone : BOOLEAN, status : 0..599, got : Nat, end : {"open", "complete", "cut"}]
    /\ log \in Seq(LogLine)

\* Whatever leaves the proxy is within the bounds of its seal.
CredentialScoped == out # NoOut => Scoped(server, req, out)

\* Whatever leaves the proxy carries the headers of the client that should
\* travel on and no other.  Among those that do are a Te that asks for trailers
\* and the headers Connection nominated, which its deletion hides.
HeadersStripped == out # NoOut => Stripped(server, req, out)

\* Whatever leaves the proxy with a credential has no other identity.
OneIdentity == out # NoOut => Single(out)

\* The configuration says how the request came in.
Deployed ==
    req.via = IF server.cloudflare THEN "cloudflare"
              ELSE IF server.terminator THEN "terminator" ELSE "direct"

\* Behind the edge it was configured for, the proxy forwards only what really
\* came from an address in AllowedClientCIDRs, whatever the client wrote into
\* X-Forwarded-For or CF-Connecting-IP itself; and what came from one of them
\* is refused only for another reason.
OriginAllowed ==
    Deployed /\ server.cidrs # {} =>
        /\ out # NoOut => req.origin \in server.cidrs
        /\ Logged("proxy_reject") /\ req.origin \in server.cidrs =>
             \E k \in 1..Len(Checks) : Checks[k] # "client_ip" /\ RefusedAt(server, req, k)

\* Whatever was refused, by a check of handleForward or by guardedDial, never
\* reached an upstream, body included; and a client that was shown 403 or a
\* refusal line was refused for that reason and not for an outage.  One case is
\* left: a message the transport sends again can be refused at a later dial, when
\* its name has moved; then it had no body to send.
RefusedStaysInside ==
    Logged("proxy_reject") \/ Logged("egress_refused") =>
        /\ upload.sent = 0 /\ resp = NoResp
        /\ heads > 0 => Logged("egress_refused") /\ out.host \in MovingNames /\ req.body = 0
        /\ ~ Logged("upstream_error")

\* A body that ran over the cap is reported as that and not as an upstream
\* failure, and a response that came first is not replaced by the report.
OverflowReported ==
    /\ upload.st = "overflow" => ~ Logged("upstream_error")
    /\ Logged("request_too_large_streamed") => upload.st = "overflow" /\ resp = NoResp
    /\ upload.st = "overflow" /\ resp = NoResp => Logged("request_too_large_streamed")

\* Every request to /v1/forward leaves exactly one outcome line, also when the
\* copy panics or the client is gone; other routes leave none.
OneOutcome ==
    pc = "done" =>
        Cardinality({n \in 1..Len(log) : log[n].event \in Outcomes})
            = IF req.route = "forward" THEN 1 ELSE 0

\* A response of which less was written for the client than the upstream
\* announced or sent is logged as truncated, whoever broke it off.
TruncationLogged ==
    pc = "done" /\ resp # NoResp /\ (client.got < resp.size \/ readErr) =>
        Logged(TruncatedEvent)

\* The outcome line carries the status the client was shown, or that of the 1xx
\* response statusWriter saw first, and no third.
StatusLogged ==
    pc = "done" /\ req.route = "forward" /\ client.status # 0 =>
        log[Len(log)].status = IF infos = 0 THEN client.status ELSE 103

\* A handler whose client is gone ends, whatever the upstream does, once the
\* request has been read: the goroutine and its upstream connection are not
\* held by an upstream that never answers.
GoneClientFreesHandler == (client.gone /\ Watched) ~> pc = "done"

----------------------------------------------------------------------------
(* The refinement                                                          *)

\* What Exchange calls the events of the outcome line, the last of the log.
Kind(event) ==
    IF event = "proxy_reject" THEN "refused"
    ELSE IF event \in {"proxied", "passthrough"} THEN "forwarded" ELSE "truncated"

StageOf == [serve |-> "received", dial |-> "released", roundtrip |-> "released",
            copy |-> "answered", finish |-> "settled", done |-> "closed"]
Stage == StageOf[pc]

Report ==
    IF pc \in {"finish", "done"} /\ req.route = "forward" THEN Kind(log[Len(log)].event) ELSE "none"

BodyLimit(s) == s.maxBytes
Reportable(q) == q.route = "forward"

Exchange == INSTANCE Exchange WITH
    Limit <- BodyLimit, NoMessage <- NoOut, NoAnswer <- NoResp,
    stage <- Stage, message <- out, sent <- upload.sent, answer <- resp,
    got <- client.got, shown <- client.status, report <- Report

\* The exchange keeps the promises of Exchange: the message is one the policy
\* permits, the body stays within the limit, one status is shown, and the one
\* report that settles it says truncated when bytes of the response are missing.
KeepsPromises == Exchange!Spec

=============================================================================
