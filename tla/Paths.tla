------------------------------- MODULE Paths -------------------------------
(***************************************************************************)
(* URL paths as the proxy's path policy sees them.                         *)
(*                                                                         *)
(* A path is a sequence of marks.  A mark [c |-> ch, d |-> n] stands for   *)
(* the character ch percent-encoded n times: [c |-> ".", d |-> 0] is ".",  *)
(* d = 1 is "%2e", d = 2 is "%252e" (or "%25%32%65"), and so on.  This     *)
(* loses nothing the policy can tell apart: a "%" of a decoded text always *)
(* comes from an escape of the text before it, so one round of             *)
(* url.PathUnescape takes exactly one layer off every encoded character,   *)
(* and the text of a mark with d > 0 contains neither "." nor "/".         *)
(* The character "%" with d = 0 is a percent sign that no two hex digits   *)
(* follow, the only input on which url.PathUnescape fails.                 *)
(***************************************************************************)
EXTENDS Naturals, Sequences

CONSTANT MaxDecodes     \* maxDecodes of refuseDotSegments

ASSUME MaxDecodesAssumption == MaxDecodes \in Nat

Char == {".", "/", "%", "x"}     \* "x" is any other character
Mark == [c : Char, d : Nat]

Literal(ch) == [c |-> ch, d |-> 0]
Dot   == Literal(".")
Slash == Literal("/")

----------------------------------------------------------------------------
(* url.PathUnescape.                                                       *)

\* n rounds of decoding: a mark loses one layer a round until it is literal.
Unescaped(p, n) ==
    [i \in 1..Len(p) |-> [c |-> p[i].c, d |-> IF p[i].d > n THEN p[i].d - n ELSE 0]]

PathUnescape(p) == Unescaped(p, 1)

\* The error return of url.PathUnescape: a bare percent sign.
Unescapable(p) == \A i \in 1..Len(p) : p[i] # Literal("%")

----------------------------------------------------------------------------
(* Segments.                                                               *)

\* The positions strings.Split(p, "/") cuts at, both ends included.
Cuts(p) == {0, Len(p) + 1} \cup {i \in 1..Len(p) : p[i] = Slash}

\* Some element of strings.Split(p, "/") is "." or "..".
Dotted(p) ==
    \E a, b \in Cuts(p) :
        /\ b - a \in {2, 3}
        /\ \A i \in 1..Len(p) : a < i /\ i < b => p[i] = Dot

\* refuseDotSegments(p) returns nil: some round within the cap leaves the text
\* unchanged, and no round up to it saw a dot segment or a bad escape.
DotSegmentsClear(p, maxDecodes) ==
    \E n \in 0..maxDecodes :
        /\ Unescaped(p, n + 1) = Unescaped(p, n)
        /\ \A i \in 0..n : ~ Dotted(Unescaped(p, i)) /\ Unescapable(Unescaped(p, i))

----------------------------------------------------------------------------
(* The allowlist of a seal: prefixes (a set of paths) and pattern, the set *)
(* of paths an anchored regular expression matches, or NoPattern.          *)

CONSTANT NoPattern

\* strings.HasPrefix
HasPrefix(p, q) ==
    /\ Len(q) <= Len(p)
    /\ \A i \in 1..Len(q) : p[i] = q[i]

HasSuffixSlash(q) == Len(q) > 0 /\ q[Len(q)] = Slash

\* Mutant of UnderPrefix: no slash is added, so a prefix ends inside a segment.
UnderPrefixNoSlash(p, q) == HasPrefix(p, q)

\* One turn of the loop over AllowedPathPrefixes.
UnderPrefix(p, q) ==
    \/ p = q
    \/ HasPrefix(p, IF HasSuffixSlash(q) THEN q ELSE Append(q, Slash))

\* The part of validatePath after refuseDotSegments returned nil.
PathListed(p, allow) ==
    IF allow.prefixes # {}
    THEN \E q \in allow.prefixes : UnderPrefix(p, q)
    ELSE allow.pattern = NoPattern \/ p \in allow.pattern

\* validatePath(p, secret) returns nil.
PathValid(p, allow, maxDecodes) == DotSegmentsClear(p, maxDecodes) /\ PathListed(p, allow)

=============================================================================
