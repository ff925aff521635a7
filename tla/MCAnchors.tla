----------------------------- MODULE MCAnchors ------------------------------
(***************************************************************************)
(* Patterns three levels deep over every anchor and a literal, and every   *)
(* subject of up to three characters.                                      *)
(***************************************************************************)
EXTENDS Anchors

Leaf(op) == <<[op |-> op, sub |-> <<>>]>>

\* The nodes of several trees and a root above them.
Moved(re, k) ==
    [n \in 1..Len(re) |-> [re[n] EXCEPT !.sub = [m \in DOMAIN @ |-> @[m] + k]]]
Tree1(op, a) == Append(a, [op |-> op, sub |-> <<Len(a)>>])
Tree2(op, a, b) ==
    a \o Moved(b, Len(a)) \o <<[op |-> op, sub |-> <<Len(a), Len(a) + Len(b)>>]>>
Tree3(op, a, b, c) ==
    LET ab == a \o Moved(b, Len(a))
    IN  ab \o Moved(c, Len(ab)) \o <<[op |-> op, sub |-> <<Len(a), Len(ab), Len(ab) + Len(c)>>]>>

Atoms == {Leaf(op) : op \in Op \ {"concat", "alternate", "capture", "star"}}
Over1(op, S) == {Tree1(op, a) : a \in S}
Over2(op, S, T) == {Tree2(op, a, b) : a \in S, b \in T}

Parts ==
    Atoms \cup Over1("star", Atoms) \cup Over2("alternate", Atoms, Atoms) \cup Over2("concat", Atoms, Atoms)

MCPatterns ==
    Over2("concat", Parts, Parts)
        \cup Over1("capture", Over2("concat", Atoms, Parts))
        \cup Over2("concat", Over1("capture", Parts), Over1("capture", Atoms))
        \cup {Tree3("concat", a, b, c) : a \in Atoms, b \in Parts, c \in Atoms}

MCSubjects == UNION {[1..n -> {"x", "y", NewLine}] : n \in 0..3}

=============================================================================
