------------------------------ MODULE Exchange ------------------------------
(***************************************************************************)
(* What the proxy promises about one exchange, without saying how: it      *)
(* answers by itself, or it releases one message that the policy permits,  *)
(* sends no more of a body than the limit, relays one response, shows the  *)
(* client one status and reports the exchange once.  Forward implements    *)
(* it.                                                                     *)
(***************************************************************************)
EXTENDS Naturals

CONSTANTS
    Permits(_, _, _),   \* configuration, request, message: the policy
    Limit(_),           \* configuration: bytes of a request body, 0 for no limit
    Reportable(_),      \* request: whether it is an exchange the log must show
    NoMessage, NoAnswer

VARIABLES
    server, req,        \* the configuration and the request
    stage,              \* received, released, answered, settled, closed
    message,            \* what went to the upstream, or NoMessage
    sent,               \* bytes of the body sent with it
    answer,             \* the upstream's response, or NoAnswer
    got,                \* bytes of it relayed
    shown,              \* the status the client was shown, 0 before
    report              \* none, refused, forwarded or truncated

vars == <<server, req, stage, message, sent, answer, got, shown, report>>

Init ==
    /\ stage = "received" /\ message = NoMessage /\ sent = 0
    /\ answer = NoAnswer /\ got = 0 /\ shown = 0 /\ report = "none"

\* A status is shown to a client that has seen none, or to nobody.
Show(status) == shown' = shown \/ (shown = 0 /\ shown' = status)

\* The proxy answers without an upstream.
Decline ==
    /\ stage = "received" /\ stage' = "settled"
    /\ \E status \in 200..599 : Show(status)
    /\ report' \in (IF Reportable(req) THEN {"refused", "forwarded"} ELSE {"none"})
    /\ UNCHANGED <<server, req, message, sent, answer, got>>

Release ==
    /\ stage = "received" /\ stage' = "released"
    /\ Reportable(req)
    /\ Permits(server, req, message')
    /\ UNCHANGED <<server, req, sent, answer, got, shown, report>>

Send ==
    /\ stage \in {"released", "answered"}
    /\ sent' = sent + 1
    /\ Limit(server) = 0 \/ sent' <= Limit(server)
    /\ UNCHANGED <<server, req, stage, message, answer, got, shown, report>>

\* No response: the proxy answers for the upstream.
Fail ==
    /\ stage = "released" /\ stage' = "settled"
    /\ \E status \in 200..599 : Show(status)
    /\ report' = "forwarded"
    /\ UNCHANGED <<server, req, message, sent, answer, got>>

Answer ==
    /\ stage = "released" /\ stage' = "answered"
    /\ Show(answer'.status)
    /\ UNCHANGED <<server, req, message, sent, got, report>>

Relay ==
    /\ stage = "answered"
    /\ got < answer.size
    /\ got' = got + 1
    /\ UNCHANGED <<server, req, stage, message, sent, answer, shown, report>>

\* A response of which the client got less is reported as truncated.
Settle ==
    /\ stage = "answered" /\ stage' = "settled"
    /\ report' \in {"forwarded", "truncated"}
    /\ report' = "forwarded" => got = answer.size
    /\ UNCHANGED <<server, req, message, sent, answer, got, shown>>

Close ==
    /\ stage = "settled" /\ stage' = "closed"
    /\ UNCHANGED <<server, req, message, sent, answer, got, shown, report>>

Next == Decline \/ Release \/ Send \/ Fail \/ Answer \/ Relay \/ Settle \/ Close

Spec == Init /\ [][Next]_vars

=============================================================================
