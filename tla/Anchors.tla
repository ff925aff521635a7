------------------------------- MODULE Anchors ------------------------------
(***************************************************************************)
(* requireAnchoredPattern of internal/seal/seal.go, the check behind the   *)
(* "anchored" of Seals, against what a pattern matches.                    *)
(*                                                                         *)
(* A pattern is the tree regexp/syntax parses it to, written down from its *)
(* leaves to its root: a sequence of nodes [op, sub], where sub holds the  *)
(* places of a node's parts, all of them before its own.  op is "literal", *)
(* "empty", "begin_text", "end_text", "begin_line", "end_line" (a ^ or $   *)
(* under the flag (?m)), "concat", "alternate", "capture" or "star".  A    *)
(* subject is a sequence of characters "x", which the literal matches, "y" *)
(* and NewLine.                                                            *)
(***************************************************************************)
EXTENDS Naturals, Sequences

CONSTANTS Patterns, Subjects, NewLine

Op == {"literal", "empty", "begin_text", "end_text", "begin_line", "end_line",
       "concat", "alternate", "capture", "star"}
Node == [op : Op, sub : Seq(Nat)]

ASSUME PatternsAssumption ==
    \A re \in Patterns :
        /\ re \in Seq(Node) /\ re # <<>>
        /\ \A n \in 1..Len(re) :
              /\ \A k \in 1..Len(re[n].sub) : re[n].sub[k] \in 1..(n - 1)
              /\ re[n].op \in {"capture", "star"} => Len(re[n].sub) = 1

ASSUME SubjectsAssumption == Subjects \subseteq Seq({"x", "y", NewLine})

----------------------------------------------------------------------------
(* The check: the answer for each node of the tree                         *)

\* Mutant of beginsWithAnchor: it looks into alternatives too.
beginsWithAnchorOr(re) ==
    LET begins[n \in 1..Len(re)] ==
            \/ re[n].op \in {"begin_text", "begin_line"}
            \/ /\ re[n].op \in {"concat", "capture", "alternate"} /\ re[n].sub # <<>>
               /\ begins[re[n].sub[1]]
    IN  begins

beginsWithAnchor(re) ==
    LET begins[n \in 1..Len(re)] ==
            \/ re[n].op \in {"begin_text", "begin_line"}
            \/ /\ re[n].op \in {"concat", "capture"} /\ re[n].sub # <<>>
               /\ begins[re[n].sub[1]]
    IN  begins

endsWithAnchor(re) ==
    LET ends[n \in 1..Len(re)] ==
            \/ re[n].op \in {"end_text", "end_line"}
            \/ /\ re[n].op \in {"concat", "capture"} /\ re[n].sub # <<>>
               /\ ends[re[n].sub[Len(re[n].sub)]]
    IN  ends

requireAnchoredPattern(re) == beginsWithAnchor(re)[Len(re)] /\ endsWithAnchor(re)[Len(re)]

----------------------------------------------------------------------------
(* What a pattern matches: for each node the spans <<i, j>> of a subject   *)
(* such that a match that begins at i can end in front of j                *)

Places(s) == 1..(Len(s) + 1)

LineBegin(s, i) == i = 1 \/ s[i - 1] = NewLine
LineEnd(s, i) == i = Len(s) + 1 \/ s[i] = NewLine

Here(S) == {<<i, i>> : i \in S}

\* One part after the other: parts is a sequence of sets of spans.
InTurn(s, parts) ==
    {<<c[0], c[Len(parts)]>> :
        c \in {c \in [0..Len(parts) -> Places(s)] :
                 \A k \in 1..Len(parts) : <<c[k - 1], c[k]>> \in parts[k]}}

\* A part any number of times: j is wherever i is, if the part never leaves.
Repeated(s, part) ==
    {m \in Places(s) \X Places(s) :
        \A P \in SUBSET Places(s) :
            m[1] \in P /\ (\A x \in part : x[1] \in P => x[2] \in P) => m[2] \in P}

\* The spans of a node from those of its parts.
Matched(node, s, parts) ==
    CASE node.op = "literal"    -> {<<i, i + 1>> : i \in {i \in 1..Len(s) : s[i] = "x"}}
      [] node.op = "empty"      -> Here(Places(s))
      [] node.op = "begin_text" -> Here({1})
      [] node.op = "end_text"   -> Here({Len(s) + 1})
      [] node.op = "begin_line" -> Here({i \in Places(s) : LineBegin(s, i)})
      [] node.op = "end_line"   -> Here({i \in Places(s) : LineEnd(s, i)})
      [] node.op = "concat"     -> InTurn(s, parts)
      [] node.op = "capture"    -> parts[1]
      [] node.op = "alternate"  -> UNION {parts[k] : k \in DOMAIN parts}
      [] node.op = "star"       -> Repeated(s, parts[1])

Spans(re, s) ==
    LET of[n \in 1..Len(re)] ==
            Matched(re[n], s, [k \in 1..Len(re[n].sub) |-> of[re[n].sub[k]]])
    IN  of

ByLines(re) == \E n \in 1..Len(re) : re[n].op \in {"begin_line", "end_line"}

----------------------------------------------------------------------------

VARIABLES
    pattern, subject,
    pc,         \* seal, match, judged or refused
    spans       \* the matches regexp.MatchString can find

vars == <<pattern, subject, pc, spans>>

Init == pattern \in Patterns /\ subject \in Subjects /\ pc = "seal" /\ spans = {}

\* Validate, when a secret is sealed and when it is opened.
Validate ==
    /\ pc = "seal"
    /\ pc' = IF requireAnchoredPattern(pattern) THEN "match" ELSE "refused"
    /\ UNCHANGED <<pattern, subject, spans>>

\* The host or the path of a request is matched.
MatchString ==
    /\ pc = "match"
    /\ spans' = Spans(pattern, subject)[Len(pattern)]
    /\ pc' = "judged"
    /\ UNCHANGED <<pattern, subject>>

Over == pc \in {"judged", "refused"} /\ UNCHANGED vars

Next == Validate \/ MatchString \/ Over

Spec == Init /\ [][Next]_vars

\* A pattern that a seal may carry matches a text whole or not at all, however
\* its anchors are nested and whatever stands between them: a host or a path is
\* never admitted for a part of it.  Under the flag (?m), where ^ and $ are the
\* bounds of a line, it matches whole lines, which is the same for a host, and
\* for a path as long as no %0A is decoded.
MatchesWhole ==
    \A m \in spans :
        /\ LineBegin(subject, m[1]) /\ LineEnd(subject, m[2])
        /\ ~ ByLines(pattern) => m = <<1, Len(subject) + 1>>

=============================================================================
