--------------------------- MODULE MCEgressGuard ---------------------------
(***************************************************************************)
(* EgressGuard with a public name and a name of the proxy itself, which    *)
(* the operator and the client spell differently, in case and otherwise.   *)
(***************************************************************************)
EXTENDS EgressGuard

Mixed(n) == [Plain(n) EXCEPT !.mixed = TRUE]
Respelled(n) == [Plain(n) EXCEPT !.respelled = TRUE]
A(r, four) == [range |-> r, v4 |-> four]

MCHosts == {Plain("api"), Mixed("api"), Plain("localhost"), Mixed("proxy"), Respelled("proxy")}
MCOsHostname == Mixed("box")
MCExtraSelf == {Mixed("proxy")}

Pub == A("public", TRUE)
MCAnswers ==
    { <<>>, <<Pub>>, <<A("public", FALSE), Pub>>,
      <<Pub, A("loopback", FALSE)>>, <<A("cgnat", TRUE)>>, <<A("private", TRUE), Pub>> }

=============================================================================
