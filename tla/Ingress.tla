------------------------------ MODULE Ingress ------------------------------
(***************************************************************************)
(* The client address allowlist: internal/proxy/ingress.go.                *)
(*                                                                         *)
(* An address token of a header is an address, "" (nothing between two     *)
(* commas, or only blanks) or "junk" (text that parses as no address).     *)
(* X-Forwarded-For is a sequence of header lines, each a non-empty         *)
(* sequence of tokens.  An allowlist is the set of addresses its prefixes  *)
(* cover.                                                                  *)
(***************************************************************************)
EXTENDS Naturals, Sequences

NoAddr == "junk"        \* the error return of parseIPMaybePort

parseIPMaybePort(token) == IF token = "" THEN NoAddr ELSE token

\* Mutant of Rightmost: Header.Get, which returns the first line.
RightmostOfFirst(xff) == xff[1][Len(xff[1])]

\* The rightmost token of the rightmost line.
Rightmost(xff) == LET line == xff[Len(xff)] IN line[Len(line)]

\* The address the check is made on, or NoAddr for every error return.
clientIPFromRequest(req, trustTerminator, trustCloudflare) ==
    IF trustCloudflare
    THEN parseIPMaybePort(req.cf)
    ELSE IF trustTerminator /\ req.xff # <<>>
         THEN parseIPMaybePort(Rightmost(req.xff))
         ELSE req.peer

ipInPrefixes(addr, cidrs) == addr # NoAddr /\ addr \in cidrs

\* The check of handleForward; an empty allowlist turns it off.
ClientAllowed(server, req) ==
    server.cidrs = {} \/
        ipInPrefixes(clientIPFromRequest(req, server.terminator, server.cloudflare),
                     server.cidrs)

=============================================================================
