-------------------------------- MODULE Cidr --------------------------------
(***************************************************************************)
(* The client address allowlist as internal/proxy/ingress.go reads and     *)
(* matches it: ParseAllowedClientCIDRs, parseCIDROrIP, parseIPMaybePort    *)
(* and ipInPrefixes, over net/netip with W4 and W6 bits in place of 32     *)
(* and 128.  Ingress says which address a request is judged by; this       *)
(* module says what becomes of it.                                         *)
(*                                                                         *)
(* An address is [fam, bits, zone], the bits numbered from the highest;    *)
(* the IPv6 addresses that begin with MappedTop stand for the IPv4 address *)
(* in their last W4 bits.  An entry of the list is [kind, addr, bits],     *)
(* kind "cidr", "ip", "blank" or "bad" (text that is neither).             *)
(***************************************************************************)
EXTENDS Naturals, Sequences

CONSTANTS
    W4, W6,         \* bits of an IPv4 and of an IPv6 address
    MappedTop,      \* what the IPv4-mapped addresses begin with
    Lists           \* values of --allowed-client-cidrs, split at the commas

Bit == {0, 1}

ASSUME WidthAssumption ==
    /\ W4 \in Nat \ {0} /\ W6 \in Nat /\ W4 < W6
    /\ MappedTop \in [1..(W6 - W4) -> Bit]

Width(fam) == IF fam = 4 THEN W4 ELSE W6
Is4In6(a) == a.fam = 6 /\ \A k \in 1..(W6 - W4) : a.bits[k] = MappedTop[k]

\* The addresses a text or a connection can give; only IPv6 ones have zones.
Addrs ==
    [fam : {4}, bits : [1..W4 -> Bit], zone : {FALSE}]
        \cup {a \in [fam : {6}, bits : [1..W6 -> Bit], zone : BOOLEAN] : a.zone => ~ Is4In6(a)}

Entry == [kind : {"cidr", "ip", "blank", "bad"}, addr : Addrs, bits : Nat]

ASSUME ListsAssumption == Lists \subseteq Seq(Entry)

\* netip.Addr.Unmap, which parseIPMaybePort and ipInPrefixes call.
Unmap(a) ==
    IF Is4In6(a)
    THEN [fam |-> 4, bits |-> [k \in 1..W4 |-> a.bits[W6 - W4 + k]], zone |-> FALSE]
    ELSE a

\* netip.PrefixFrom: too many bits give a prefix that contains nothing.
PrefixFrom(a, bits) == [fam |-> a.fam, net |-> a.bits, bits |-> bits, valid |-> bits <= Width(a.fam)]

\* netip.Prefix.Masked: the bits behind the prefix become zero.
Masked(a, bits) ==
    PrefixFrom([a EXCEPT !.bits = [k \in DOMAIN @ |-> IF k <= bits THEN @[k] ELSE 0]], bits)

\* netip.ParsePrefix takes no zone and no more bits than the family has.
BadEntry(e) ==
    e.kind = "bad" \/ (e.kind = "cidr" /\ (e.addr.zone \/ e.bits > Width(e.addr.fam)))

\* Mutant of parseCIDROrIP: a bare address in mapped notation keeps 128 bits.
parseCIDROrIPWide(e) ==
    IF e.kind = "cidr" THEN Masked(e.addr, e.bits)
    ELSE PrefixFrom(Unmap(e.addr), IF e.addr.fam = 6 THEN W6 ELSE W4)

parseCIDROrIP(e) ==
    IF e.kind = "cidr" THEN Masked(e.addr, e.bits)
    ELSE PrefixFrom(Unmap(e.addr), IF e.addr.fam = 6 /\ ~ Is4In6(e.addr) THEN W6 ELSE W4)

\* Both addresses begin with the same n bits.
SameBits(u, v, n) == \A k \in 1..n : u[k] = v[k]

\* netip.Prefix.Contains: never across families, and never with a zone.
Contains(p, a) ==
    p.valid /\ ~ a.zone /\ p.fam = a.fam /\ SameBits(a.bits, p.net, p.bits)

ipInPrefixes(a, prefixes) ==
    \E n \in 1..Len(prefixes) : Contains(prefixes[n], Unmap(a))

----------------------------------------------------------------------------

VARIABLES
    list,       \* the entries of the flag
    i,          \* the entry the loop is at
    out,        \* the prefixes so far
    stage,      \* "parse", "serve", "judged", or "refused": the start failed
    peer,       \* the address the request comes from
    allowed     \* the verdict on it

cidrVars == <<list, i, out, stage, peer, allowed>>

CidrInit ==
    /\ list \in Lists
    /\ i = 1 /\ out = <<>> /\ stage = "parse"
    /\ peer \in Addrs
    /\ allowed = FALSE

ParseEntry ==
    /\ stage = "parse" /\ i <= Len(list)
    /\ IF list[i].kind # "blank" /\ BadEntry(list[i])
       THEN stage' = "refused" /\ UNCHANGED <<i, out>>
       ELSE /\ i' = i + 1
            /\ out' = IF list[i].kind = "blank" THEN out ELSE Append(out, parseCIDROrIP(list[i]))
            /\ UNCHANGED stage
    /\ UNCHANGED <<list, peer, allowed>>

ParseDone ==
    /\ stage = "parse" /\ i > Len(list)
    /\ stage' = "serve"
    /\ UNCHANGED <<list, i, out, peer, allowed>>

\* The check of handleForward on an address that parsed: no prefixes, no check.
Judge ==
    /\ stage = "serve"
    /\ allowed' = (out = <<>> \/ ipInPrefixes(peer, out))
    /\ stage' = "judged"
    /\ UNCHANGED <<list, i, out, peer>>

CidrOver == stage \in {"judged", "refused"} /\ UNCHANGED cidrVars

CidrNext == ParseEntry \/ ParseDone \/ Judge \/ CidrOver

CidrSpec == CidrInit /\ [][CidrNext]_cidrVars

----------------------------------------------------------------------------

\* The range an entry names, in the notation it is written in: the addresses
\* that share its leading bits.
Named(e) ==
    {a \in Addrs :
        /\ a.fam = e.addr.fam
        /\ SameBits(a.bits, e.addr.bits, IF e.kind = "ip" THEN Width(e.addr.fam) ELSE e.bits)}

Written == {n \in 1..Len(list) : list[n].kind \in {"cidr", "ip"}}

\* The verdict, exactly: an address that is listed gets in, written either way
\* and seen either way, but for one kind of entry.  A prefix over IPv4-mapped
\* addresses keeps its family and so matches no IPv4 client, whom a bare mapped
\* address lets in.  An address with a zone never matches.
ExactlyListed ==
    stage = "judged" =>
        (allowed <=>
            \/ Written = {}
            \/ /\ ~ peer.zone
               /\ \E n \in Written :
                    /\ \E b \in Named(list[n]) : Unmap(b) = Unmap(peer)
                    /\ list[n].kind = "cidr" => list[n].addr.fam = Unmap(peer).fam)

=============================================================================
