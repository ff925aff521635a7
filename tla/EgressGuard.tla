---------------------------- MODULE EgressGuard ----------------------------
(***************************************************************************)
(* Outbound connections: Server.guardedDial, AutoSelfHostnames and         *)
(* isPrivateOrLocal (internal/proxy/proxy.go) under the connection pool of *)
(* the http.Transport that Server.init clones.                             *)
(*                                                                         *)
(* A request of forwardTo waits for a connection to its upstream host.     *)
(* The transport starts a dial for it, and hands it whichever is first:    *)
(* that dial's result, or a connection another request dialed to the same  *)
(* host.  The dial resolves the name, vets every address, and connects to  *)
(* the first of them; the answers of the name server may differ at every   *)
(* lookup, and other requests run between any two of these steps.          *)
(***************************************************************************)
EXTENDS Naturals, Sequences

CONSTANTS
    Requests,           \* requests that reach forwardTo
    Names,              \* host names, in lower case
    Hosts,              \* upstream hosts as clients spell them
    OsHostname,         \* what os.Hostname returns, in its spelling
    ExtraSelf,          \* --self-hostname values, in their spelling
    Answers             \* answers a lookup may return: sequences of addresses

(* An address: its range, and whether To4 sees an IPv4 address in it.      *)
StdLocal == {"private", "loopback", "linklocal", "unspecified"}
ExtraReservedV4 == {"thisnet", "cgnat", "reserved"}
Address ==
    [range : StdLocal \cup {"public"}, v4 : BOOLEAN]
        \cup [range : ExtraReservedV4, v4 : {TRUE}]

(* A host as it is written: the host it denotes, whether its case is mixed,*)
(* and whether it is respelled in another way: with a final dot, or in     *)
(* another notation of the same address.  Resolvers do not tell them apart.*)
Host == [name : Names \cup {""}, mixed : BOOLEAN, respelled : BOOLEAN]
Plain(n) == [name |-> n, mixed |-> FALSE, respelled |-> FALSE]

ASSUME HostsAssumption ==
    Hosts \subseteq Host /\ ExtraSelf \subseteq Host /\ OsHostname \in Host
ASSUME AnswersAssumption == Answers \subseteq Seq(Address)

\* strings.ToLower: the case is folded, a final dot and the like stay.
ToLower(h) == [name |-> h.name, mixed |-> FALSE, respelled |-> h.respelled]

\* The names AutoSelfHostnames starts from, as they are spelled there.  Blank
\* ones are left out.
OwnSpellings ==
    {Plain("localhost"), Plain("127.0.0.1"), Plain("::1")}
        \cup {h \in ExtraSelf \cup {OsHostname} : h.name # ""}

\* Mutant of AutoSelfHostnames: names are kept as the operator spelled them.
AutoSelfHostnamesVerbatim == OwnSpellings

AutoSelfHostnames == {ToLower(h) : h \in OwnSpellings}

isPrivateOrLocal(ip) ==
    \/ ip.range \in StdLocal
    \/ ip.v4 /\ ip.range \in ExtraReservedV4

NoAddress == [range |-> "none", v4 |-> FALSE]
NoHost == Plain("")

VARIABLES
    disabled,   \* Server.DisableEgressGuard
    req,        \* request -> its state, upstream host and connection
    dial,       \* request -> the dial the transport started for it
    conn        \* request -> the connection that dial produced

vars == <<disabled, req, dial, conn>>

Init ==
    /\ disabled \in BOOLEAN
    /\ req = [r \in Requests |-> [st |-> "new", host |-> NoHost, via |-> r]]
    /\ dial = [r \in Requests |-> [st |-> "none", host |-> NoHost, addr |-> NoAddress]]
    /\ conn = [r \in Requests |-> [open |-> FALSE, host |-> NoHost, peer |-> NoAddress]]

----------------------------------------------------------------------------
(* forwardTo and the transport                                             *)

\* forwardTo: target.Host = strings.ToLower(stripPort(upstream.Host)); the
\* transport finds no connection ready and starts a dial.
Start(r, h) ==
    /\ req[r].st = "new"
    /\ req' = [req EXCEPT ![r] = [st |-> "wait", host |-> ToLower(h), via |-> r]]
    /\ dial' = [dial EXCEPT ![r] = [st |-> "self_check", host |-> ToLower(h), addr |-> NoAddress]]
    /\ UNCHANGED <<disabled, conn>>

\* While its dial is on the way, the request gets a connection to its host
\* that another request dialed (HTTP/2 shares one, HTTP/1 reuses an idle one).
TakeConn(r, c) ==
    /\ req[r].st = "wait"
    /\ conn[c].open
    /\ conn[c].host = req[r].host
    /\ req' = [req EXCEPT ![r] = [st |-> "using", host |-> req[r].host, via |-> c]]
    /\ UNCHANGED <<disabled, dial, conn>>

\* As Start, with a connection of the pool that is ready.
StartPooled(r, h, c) ==
    /\ req[r].st = "new"
    /\ conn[c].open
    /\ conn[c].host = ToLower(h)
    /\ req' = [req EXCEPT ![r] = [st |-> "using", host |-> ToLower(h), via |-> c]]
    /\ UNCHANGED <<disabled, dial, conn>>

\* The response is over and the connection stays in the pool.
Finish(r) ==
    /\ req[r].st = "using"
    /\ req' = [req EXCEPT ![r].st = "done"]
    /\ UNCHANGED <<disabled, dial, conn>>

\* The client is gone: the waiting request fails, its dial goes on.
Cancel(r) ==
    /\ req[r].st = "wait"
    /\ req' = [req EXCEPT ![r].st = "cancelled"]
    /\ UNCHANGED <<disabled, dial, conn>>

\* Mutant of CloseConn: the record of the connection is dropped with it.
CloseConnForgets(c) ==
    /\ conn[c].open
    /\ \A r \in Requests : ~ (req[r].st = "using" /\ req[r].via = c)
    /\ conn' = [d \in Requests \ {c} |-> conn[d]]
    /\ UNCHANGED <<disabled, req, dial>>

\* The peer, or the idle timeout, closes a connection nobody uses.
CloseConn(c) ==
    /\ conn[c].open
    /\ \A r \in Requests : ~ (req[r].st = "using" /\ req[r].via = c)
    /\ conn' = [conn EXCEPT ![c].open = FALSE]
    /\ UNCHANGED <<disabled, req, dial>>

----------------------------------------------------------------------------
(* guardedDial                                                             *)

\* Mutant of DialError: the request is not told.
DialErrorSilent(r, outcome) ==
    /\ dial' = [dial EXCEPT ![r].st = outcome]
    /\ UNCHANGED <<disabled, req, conn>>

\* An error return of guardedDial; it fails the request if it still waits.
DialError(r, outcome) ==
    /\ dial' = [dial EXCEPT ![r].st = outcome]
    /\ req' = IF req[r].st = "wait" THEN [req EXCEPT ![r].st = outcome] ELSE req
    /\ UNCHANGED <<disabled, conn>>

\* The self-loop check, before anything is resolved.
SelfLoop(r) ==
    /\ dial[r].st = "self_check"
    /\ ToLower(dial[r].host) \in AutoSelfHostnames
    /\ DialError(r, "refused")

NotSelf(r) ==
    /\ dial[r].st = "self_check"
    /\ ToLower(dial[r].host) \notin AutoSelfHostnames
    /\ dial' = [dial EXCEPT ![r].st = IF disabled THEN "dial_name" ELSE "lookup"]
    /\ UNCHANGED <<disabled, req, conn>>

\* LookupIPAddr fails, or returns no address.
LookupFails(r) ==
    /\ dial[r].st = "lookup"
    /\ DialError(r, "failed")

\* The address to dial: the first of the answer that was vetted.
DialAddr(ips) == ips[1]

\* Every address of the answer is vetted before one is dialed.
Vetted(ips) == \A k \in 1..Len(ips) : ~ isPrivateOrLocal(ips[k])

LookupReturns(r, ips) ==
    /\ dial[r].st = "lookup"
    /\ ips # <<>>
    /\ IF Vetted(ips)
       THEN /\ dial' = [dial EXCEPT ![r] = [st |-> "dial_ip", host |-> dial[r].host,
                                            addr |-> DialAddr(ips)]]
            /\ UNCHANGED <<disabled, req, conn>>
       ELSE DialError(r, "refused")

\* Mutant of Connect: the dialer is given the name, which is resolved again.
ConnectByName(r, ip) ==
    /\ dial[r].st \in {"dial_ip", "dial_name"}
    /\ dial' = [dial EXCEPT ![r].st = "connected"]
    /\ conn' = [conn EXCEPT ![r] = [open |-> TRUE, host |-> dial[r].host, peer |-> ip]]
    /\ req' = IF req[r].st # "wait" THEN req
              ELSE [req EXCEPT ![r] = [st |-> "using", host |-> req[r].host, via |-> r]]
    /\ UNCHANGED disabled

\* d.DialContext succeeds: with a literal address it connects to that
\* address, with a name (guard disabled) to whatever the name resolves to now.
\* The connection goes to the request if it still waits, else to the pool.
Connect(r, ip) ==
    /\ \/ dial[r].st = "dial_ip" /\ ip = dial[r].addr
       \/ dial[r].st = "dial_name"
    /\ dial' = [dial EXCEPT ![r].st = "connected"]
    /\ conn' = [conn EXCEPT ![r] = [open |-> TRUE, host |-> dial[r].host, peer |-> ip]]
    /\ req' = IF req[r].st # "wait" THEN req
              ELSE [req EXCEPT ![r] = [st |-> "using", host |-> req[r].host, via |-> r]]
    /\ UNCHANGED disabled

ConnectFails(r) ==
    /\ dial[r].st \in {"dial_ip", "dial_name"}
    /\ DialError(r, "failed")

Dialable == UNION {{ips[k] : k \in 1..Len(ips)} : ips \in Answers}

Finished == {"done", "cancelled", "refused", "failed"}

\* Everything has come to rest; nothing else happens.
Idle ==
    /\ \A r \in Requests : req[r].st \in Finished /\ ~ conn[r].open
    /\ UNCHANGED vars

\* A step of the dial goroutine.
DialStep(r) ==
    \/ SelfLoop(r)
    \/ NotSelf(r)
    \/ LookupFails(r)
    \/ \E ips \in Answers : LookupReturns(r, ips)
    \/ \E ip \in Dialable : Connect(r, ip)
    \/ ConnectFails(r)

\* A step of the transport on behalf of a request.
TransportStep(r) ==
    \/ \E h \in Hosts : Start(r, h)
    \/ \E h \in Hosts, c \in Requests : StartPooled(r, h, c)
    \/ \E c \in Requests : TakeConn(r, c)
    \/ Finish(r)
    \/ Cancel(r)
    \/ CloseConn(r)

Next == (\E r \in Requests : DialStep(r) \/ TransportStep(r)) \/ Idle

\* The dial goroutine runs on; the resolver's and the kernel's own time limits
\* end a lookup or a connect that nobody answers.
Fairness == \A r \in Requests : WF_vars(DialStep(r))

Spec == Init /\ [][Next]_vars /\ Fairness

----------------------------------------------------------------------------

\* Types of the pool's and the dials' state.
TypeOK ==
    /\ disabled \in BOOLEAN
    /\ req \in [Requests -> [st : {"new", "wait", "using"} \cup Finished,
                             host : Host, via : Requests]]
    /\ dial \in [Requests -> [st : {"none", "self_check", "lookup", "dial_ip", "dial_name",
                                    "connected", "refused", "failed"},
                              host : Host, addr : Address \cup {NoAddress}]]
    /\ conn \in [Requests -> [open : BOOLEAN, host : Host, peer : Address \cup {NoAddress}]]

\* With the guard on, every connection of the pool leads to a public address,
\* whatever the name server answered before, between and after guardedDial's
\* lookup and its connect.
VettedPeer ==
    ~ disabled => \A c \in Requests : conn[c].open => conn[c].peer.range = "public"

\* Two spellings that differ in case at most.
SameButCase(g, h) == g.name = h.name /\ g.respelled = h.respelled

\* No connection, pooled ones included, is ever made under a name of the proxy
\* itself, in whatever case the operator or the client spelled it, and even
\* with the guard disabled.  The self check of guardedDial promises no more
\* than that: a name respelled in another way, by a final dot, is dialed.
NeverSelf ==
    \A c \in Requests : conn[c].open =>
        \A own \in OwnSpellings : ~ SameButCase(own, conn[c].host)

\* A dial that waits for its connect holds an address it vetted, and a dial
\* past the self check is not for the proxy's own name.
DialVetted ==
    \A r \in Requests :
        /\ dial[r].st = "dial_ip" => ~ isPrivateOrLocal(dial[r].addr) /\ dial[r].addr \in Address
        /\ dial[r].st \in {"lookup", "dial_ip", "dial_name"} =>
              \A own \in OwnSpellings : ~ SameButCase(own, dial[r].host)
        /\ dial[r].st = "dial_name" => disabled

\* A request that waits for a connection gets one or an error, also when the
\* dial it started is refused by the guard.
WaitEnds == \A r \in Requests : req[r].st = "wait" ~> req[r].st # "wait"

=============================================================================
