------------------------------- MODULE MCCidr -------------------------------
(***************************************************************************)
(* Every list of up to two entries, over two-bit IPv4 addresses and        *)
(* four-bit IPv6 addresses with the mapped ones in the second quarter.     *)
(***************************************************************************)
EXTENDS Cidr

MCMappedTop == <<0, 1>>

Net(k, a, b) == [kind |-> k, addr |-> a, bits |-> b]
V4(bits) == [fam |-> 4, bits |-> bits, zone |-> FALSE]
V6(bits) == [fam |-> 6, bits |-> bits, zone |-> FALSE]

Plain  == V6(<<1, 0, 0, 1>>)
Mapped == V6(<<0, 1, 1, 0>>)
Scoped == [Plain EXCEPT !.zone = TRUE]

\* Networks of every length, one past the longest of each family, bare
\* addresses in each notation, and entries that are no address.
Entries ==
    {Net("cidr", V4(<<1, 0>>), b) : b \in 0..(W4 + 1)}
        \cup {Net("cidr", a, b) : a \in {Mapped, Plain}, b \in 0..(W6 + 1)}
        \cup {Net("ip", a, 0) : a \in {V4(<<0, 1>>), V6(<<0, 1, 0, 1>>), Plain, Scoped}}
        \cup {Net("cidr", Scoped, W6), Net("blank", V4(<<0, 0>>), 0), Net("bad", V4(<<0, 0>>), 0)}

MCLists == {<<>>} \cup {<<e>> : e \in Entries} \cup (Entries \X Entries)

=============================================================================
