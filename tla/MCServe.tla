------------------------------ MODULE MCServe ------------------------------
(***************************************************************************)
(* An instance of Serve: every way its startup can fail, and the listener  *)
(* and its connections under a terminator and with its own certificate.    *)
(***************************************************************************)
EXTENDS Serve

CONSTANTS k1, k2, c1, c2

MCConns == {c1, c2}

Hex(k) == [st |-> "hex", key |-> k]
Broken(st) == [st |-> st, key |-> NoKey]
Nowhere == [fileFlag |-> Unset, hexFlag |-> Unset, fileEnv |-> Unset, hexEnv |-> Unset]

Base ==
    [envOK |-> TRUE, cloudflare |-> FALSE, terminator |-> TRUE,
     key |-> [Nowhere EXCEPT !.fileFlag = Hex(k1)], prev |-> Nowhere,
     certGiven |-> FALSE, allowDev |-> FALSE, cidrs |-> <<>>,
     passthrough |-> FALSE, noAuth |-> FALSE, level |-> "info"]

Sources(paths, hexes) ==
    [fileFlag : paths, hexFlag : hexes, fileEnv : paths, hexEnv : hexes]

\* The private key from every combination of its four sources, and a previous
\* key that cannot be read.
KeyConfs ==
    {[Base EXCEPT !.envOK = FALSE],
     [Base EXCEPT !.cloudflare = TRUE, !.terminator = FALSE],
     [Base EXCEPT !.prev = [Nowhere EXCEPT !.fileEnv = Broken("pem")]],
     [Base EXCEPT !.prev = [Nowhere EXCEPT !.fileFlag = Broken("blank"), !.fileEnv = Hex(k2)]],
     [Base EXCEPT !.cidrs = <<"net", "bad">>]}
    \cup {[Base EXCEPT !.key = s] :
            s \in Sources({Unset, Hex(k1), Broken("pem")}, {Unset, Hex(k2)})
                \cup {[Nowhere EXCEPT !.hexFlag = Broken("short"), !.hexEnv = Hex(k2)],
                      [Nowhere EXCEPT !.fileEnv = Broken("unreadable"), !.hexEnv = Hex(k2)]}}

\* What the log says at startup.
RelayConfs ==
    {[Base EXCEPT !.passthrough = TRUE, !.cidrs = l, !.noAuth = n, !.level = v] :
        l \in {<<>>, <<"blank", "blank">>, <<"blank", "net">>},
        n \in BOOLEAN, v \in {"info", "error"}}

\* The proxy's own certificate.
TLSConfs ==
    {[Base EXCEPT !.terminator = FALSE, !.certGiven = g, !.allowDev = a] : g, a \in BOOLEAN}

MCConfs == KeyConfs \cup RelayConfs \cup TLSConfs

Pair(blocks) == [cert |-> "present", key |-> TRUE, blocks |-> blocks, match |-> TRUE]
RealCert == [type |-> "CERTIFICATE", dev |-> FALSE]
DevCert  == [type |-> "CERTIFICATE", dev |-> TRUE]
KeyBlock == [type |-> "PRIVATE KEY", dev |-> FALSE]

\* A pair from an authority, gen-tls-cert's, gen-tls-cert's with the key put
\* first in the same file, a key that belongs to another certificate, and
\* files that cannot be read or are not there.
MCDisks ==
    {Pair(<<RealCert>>), Pair(<<DevCert>>), Pair(<<KeyBlock, DevCert>>),
     [Pair(<<RealCert>>) EXCEPT !.match = FALSE],
     [Pair(<<>>) EXCEPT !.cert = "unreadable"],
     [Pair(<<>>) EXCEPT !.cert = "absent"]}

=============================================================================
