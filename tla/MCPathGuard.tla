---------------------------- MODULE MCPathGuard ----------------------------
(***************************************************************************)
(* PathGuard on every wire path of up to MaxLen marks after the leading    *)
(* slash, with encodings on both sides of the cap.                         *)
(***************************************************************************)
EXTENDS PathGuard, SequencesExt

CONSTANT MaxLen

M(ch, ds) == {[c |-> ch, d |-> n] : n \in ds}

\* A wire mark of depth MaxDecodes + 1 is the deepest the loop still settles.
MCMarks ==
    M(".", {0, 1, 2}) \cup M("/", {0, 1, MaxDecodes + 1})
        \cup M("x", {0, MaxDecodes + 2}) \cup M("%", {0, 2})
MCWires == {<<Slash>> \o s : s \in BoundedSeq(MCMarks, MaxLen)}

X == Literal("x")
\* "/x", "/" (a trailing slash of its own), "/x%2f", a pattern, no restriction.
MCAllows ==
    { [prefixes |-> {<<Slash, X>>}, pattern |-> NoPattern],
      [prefixes |-> {<<Slash, X, Slash>>, <<Slash, X, [c |-> "/", d |-> 1]>>}, pattern |-> NoPattern],
      [prefixes |-> {}, pattern |-> {<<Slash, X>>, <<Slash, X, Slash, X>>}],
      [prefixes |-> {}, pattern |-> NoPattern] }
MCReadings == 0..(MaxDecodes + 3)

=============================================================================
