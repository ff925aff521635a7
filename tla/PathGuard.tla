----------------------------- MODULE PathGuard -----------------------------
(***************************************************************************)
(* validatePath and its loop refuseDotSegments (internal/proxy/proxy.go),  *)
(* one round of the loop per step.                                         *)
(*                                                                         *)
(* wire is the path of the X-Upstream-URL header as the client sent it,    *)
(* and as it leaves for the upstream: url.Parse stores its decoded form in *)
(* URL.Path, which validatePath reads, and keeps the escapes in            *)
(* URL.RawPath, which the outbound request line is written from.           *)
(***************************************************************************)
EXTENDS Paths

CONSTANTS
    Wires,          \* the wire paths that arrive
    Allows,         \* the path allowlists of seals
    Readings        \* how often an upstream may decode the wire path

ASSUME WiresAssumption == Wires \subseteq Seq(Mark)
ASSUME ReadingsAssumption == Readings \subseteq Nat
ASSUME AllowsAssumption ==
    \A a \in Allows : /\ DOMAIN a = {"prefixes", "pattern"}
                      /\ a.prefixes \subseteq Seq(Mark)

VARIABLES
    wire,       \* the path on the wire
    allow,      \* the allowlist of the seal in use
    current,    \* the text of this round
    i,          \* rounds of decoding done
    verdict     \* "checking", "clear" between the loop and the allowlist, or the result

vars == <<wire, allow, current, i, verdict>>

path == PathUnescape(wire)      \* URL.Path

Results == {"allowed", "dot_segment", "bad_encoding", "unstable", "not_permitted"}

\* url.Parse refuses a wire path with a bad escape before validatePath runs.
Init ==
    /\ wire \in {w \in Wires : Unescapable(w)}
    /\ allow \in Allows
    /\ current = path
    /\ i = 0
    /\ verdict = "checking"

Conclude(v) == verdict' = v /\ UNCHANGED <<wire, allow, current, i>>

InLoop == verdict = "checking" /\ i <= MaxDecodes

\* The inner loop over the segments meets "." or "..".
RefuseDotSegment == InLoop /\ Dotted(current) /\ Conclude("dot_segment")

\* url.PathUnescape returns an error.
RefuseBadEncoding ==
    /\ InLoop
    /\ ~ Dotted(current)
    /\ ~ Unescapable(current)
    /\ Conclude("bad_encoding")

\* Mutant of Stable: a text that is stable is accepted before its segments are
\* looked at.
StableUnchecked ==
    /\ InLoop
    /\ Unescapable(current)
    /\ PathUnescape(current) = current
    /\ Conclude("clear")

\* next == current: the text is stable.
Stable ==
    /\ InLoop
    /\ ~ Dotted(current)
    /\ Unescapable(current)
    /\ PathUnescape(current) = current
    /\ Conclude("clear")

\* Mutant of DecodeRound: a round decodes twice.
DecodeRoundTwice ==
    /\ InLoop
    /\ ~ Dotted(current)
    /\ Unescapable(current)
    /\ PathUnescape(current) # current
    /\ current' = Unescaped(current, 2)
    /\ i' = i + 2
    /\ UNCHANGED <<wire, allow, verdict>>

\* Mutant of DecodeRound: every round decodes the path it began with.
DecodeRoundAnew ==
    /\ InLoop
    /\ ~ Dotted(current)
    /\ Unescapable(current)
    /\ PathUnescape(current) # current
    /\ current' = PathUnescape(path)
    /\ i' = i + 1
    /\ UNCHANGED <<wire, allow, verdict>>

\* current = next; i++
DecodeRound ==
    /\ InLoop
    /\ ~ Dotted(current)
    /\ Unescapable(current)
    /\ PathUnescape(current) # current
    /\ current' = PathUnescape(current)
    /\ i' = i + 1
    /\ UNCHANGED <<wire, allow, verdict>>

\* Mutant of RefuseUnstable: the last round is not waited for.
RefuseUnstableEarly == verdict = "checking" /\ i >= MaxDecodes /\ Conclude("unstable")

\* The loop runs out of rounds.
RefuseUnstable == verdict = "checking" /\ i > MaxDecodes /\ Conclude("unstable")

\* Mutant of MatchAllowlist: the text the loop ended with is matched.
MatchAllowlistDecoded ==
    /\ verdict = "clear"
    /\ Conclude(IF PathListed(current, allow) THEN "allowed" ELSE "not_permitted")

\* The allowlist match of validatePath, on URL.Path and not on the text the
\* loop ended with.
MatchAllowlist ==
    /\ verdict = "clear"
    /\ Conclude(IF PathListed(path, allow) THEN "allowed" ELSE "not_permitted")

Done == verdict \in Results /\ UNCHANGED vars

Next ==
    \/ RefuseDotSegment
    \/ RefuseBadEncoding
    \/ Stable
    \/ DecodeRound
    \/ RefuseUnstable
    \/ MatchAllowlist
    \/ Done

Spec == Init /\ [][Next]_vars

----------------------------------------------------------------------------
(* What an upstream makes of a path: it reads the marks one by one and     *)
(* removes the dot segments (RFC 3986, 5.2.4).  out holds the segments it  *)
(* is through with, seg the one it is in, each with its slash in front.    *)

OneDot == {<<Dot>>, <<Slash, Dot>>}
TwoDots == {<<Dot, Dot>>, <<Slash, Dot, Dot>>}

\* out without its last segment and the slash in front of that.
Parent(out) ==
    SubSeq(out, 1, CHOOSE n \in 0..(Len(out) - 1) :
                       /\ n = 0 \/ out[n + 1] = Slash
                       /\ \A m \in (n + 2)..Len(out) : out[m] # Slash)

Close(out, seg) ==
    CASE seg \in OneDot -> out
      [] seg \in TwoDots -> IF out = <<>> THEN out ELSE Parent(out)
      [] OTHER          -> out \o seg

Read(s, m) ==
    IF m = Slash
    THEN [out |-> Close(s.out, s.seg), seg |-> <<m>>]
    ELSE [out |-> s.out, seg |-> Append(s.seg, m)]

\* The state of the reader after each mark.
Reader(p) ==
    LET f[k \in 0..Len(p)] ==
            IF k = 0 THEN [out |-> <<>>, seg |-> <<>>] ELSE Read(f[k - 1], p[k])
    IN  f

\* A dot segment at the end leaves its slash.
Resolve(p) ==
    LET s == Reader(p)[Len(p)]
    IN  Close(s.out, s.seg) \o (IF s.seg \in OneDot \cup TwoDots THEN <<Slash>> ELSE <<>>)

\* The directory a prefix names, with or without its trailing slash.
Directory(q) == IF HasSuffixSlash(q) THEN SubSeq(q, 1, Len(q) - 1) ELSE q

\* r is dir or lies in it.
Within(r, dir) == HasPrefix(r, dir) /\ Len(dir) + 1 \in Cuts(r)

----------------------------------------------------------------------------

\* Types: the text of every round is a path, and the rounds stay within one
\* of the cap of refuseDotSegments.
TypeOK ==
    /\ wire \in Seq(Mark)
    /\ allow \in Allows
    /\ current \in Seq(Mark)
    /\ i \in 0..(MaxDecodes + 1)
    /\ verdict \in Results \cup {"checking", "clear"}

\* The loop of refuseDotSegments looks at the i-fold decoding of URL.Path,
\* every form it has left behind was dot-free, decodable and not yet stable,
\* and each result records what ended the loop.
LoopInv ==
    /\ current = Unescaped(path, i)
    /\ \A n \in 0..(i - 1) : /\ ~ Dotted(Unescaped(path, n))
                             /\ Unescapable(Unescaped(path, n))
                             /\ Unescaped(path, n + 1) # Unescaped(path, n)
    /\ verdict \in {"clear", "allowed", "not_permitted"} =>
          /\ i <= MaxDecodes
          /\ ~ Dotted(current)
          /\ Unescapable(current)
          /\ PathUnescape(current) = current
    /\ verdict = "dot_segment"   => Dotted(current)
    /\ verdict = "bad_encoding"  => ~ Unescapable(current)
    /\ verdict = "unstable"      => i = MaxDecodes + 1
    /\ verdict = "allowed"       => PathListed(path, allow)
    /\ verdict = "not_permitted" => ~ PathListed(path, allow)

\* An admitted path (validatePath returned nil) has no "." or ".." segment on
\* the wire or after any number of decodings an upstream may apply,
\* although the loop looked at MaxDecodes + 1 of them at most.
NoTraversal ==
    verdict = "allowed" => \A n \in Readings : ~ Dotted(Unescaped(wire, n))

\* The loop of refuseDotSegments computes what PathValid says: it admits
\* exactly the listed paths that reach a stable, dot-free text within the cap,
\* and never refuses one of them for a round too few.
VerdictExact ==
    verdict \in Results =>
        (verdict = "allowed" <=> PathValid(path, allow, MaxDecodes))

\* The upstream's reading stays under the allowlist: whatever number of
\* further decodings it applies to the URL.Path that was matched, the prefix
\* decoded as often still covers it.
StillListed ==
    verdict = "allowed" /\ allow.prefixes # {} =>
        \A n \in Readings : \E q \in allow.prefixes :
            UnderPrefix(Unescaped(path, n), Unescaped(q, n))

\* The resource an upstream resolves an admitted wire path to, after decoding
\* it once or more often and removing dot segments, lies in a directory the
\* seal's allowed_path_prefixes name (validatePath and the RawPath that is
\* forwarded, together).
Confined ==
    verdict = "allowed" /\ allow.prefixes # {} =>
        \A n \in Readings \ {0} : \E q \in allow.prefixes :
            Within(Resolve(Unescaped(wire, n)), Directory(Resolve(Unescaped(q, n - 1))))

=============================================================================
