-------------------------- MODULE PathGuardProofs --------------------------
(***************************************************************************)
(* Proofs about PathGuard for every set of wire paths, every allowlist and *)
(* every cap on the rounds of decoding.                                    *)
(***************************************************************************)
EXTENDS PathGuard, AdmissionProofs, WellFoundedInduction

----------------------------------------------------------------------------

USE MaxDecodesAssumption, WiresAssumption

\* The machine keeps its types (TypeOK): the loop of refuseDotSegments never
\* decodes past one round more than its cap.
THEOREM TypeCorrect == Spec => []TypeOK
  <1>1. Init => TypeOK
    BY UnescapedType DEF Init, TypeOK, path, PathUnescape
  <1>2. TypeOK /\ [Next]_vars => TypeOK'
    <2> SUFFICES ASSUME TypeOK, [Next]_vars PROVE TypeOK'
      OBVIOUS
    <2> USE DEF TypeOK, Results
    <2>1. CASE RefuseDotSegment
      BY <2>1 DEF RefuseDotSegment, Conclude
    <2>2. CASE RefuseBadEncoding
      BY <2>2 DEF RefuseBadEncoding, Conclude
    <2>3. CASE Stable
      BY <2>3 DEF Stable, Conclude
    <2>4. CASE DecodeRound
      BY <2>4, UnescapedType DEF DecodeRound, InLoop, PathUnescape
    <2>5. CASE RefuseUnstable
      BY <2>5 DEF RefuseUnstable, Conclude
    <2>6. CASE MatchAllowlist
      BY <2>6 DEF MatchAllowlist, Conclude
    <2>7. CASE Done
      BY <2>7 DEF Done, vars
    <2>8. CASE UNCHANGED vars
      BY <2>8 DEF vars
    <2> QED
      BY <2>1, <2>2, <2>3, <2>4, <2>5, <2>6, <2>7, <2>8 DEF Next
  <1> QED
    BY <1>1, <1>2, PTL DEF Spec

\* The loop invariant of refuseDotSegments (LoopInv).
THEOREM LoopInvariant == Spec => []LoopInv
  <1>1. Init => LoopInv
    <2> SUFFICES ASSUME Init PROVE LoopInv
      OBVIOUS
    <2>1. wire \in Seq(Mark) /\ path \in Seq(Mark)
      BY UnescapedType DEF Init, path, PathUnescape
    <2>2. Unescaped(path, 0) = path
      BY <2>1, UnescapedZero
    <2> QED
      BY <2>2 DEF Init, LoopInv
  <1>2. LoopInv /\ TypeOK /\ [Next]_vars => LoopInv'
    <2> SUFFICES ASSUME LoopInv, TypeOK, [Next]_vars PROVE LoopInv'
      OBVIOUS
    <2>0. path \in Seq(Mark)
      BY UnescapedType DEF TypeOK, path, PathUnescape
    <2>1. CASE RefuseDotSegment
      BY <2>1 DEF RefuseDotSegment, Conclude, LoopInv, path
    <2>2. CASE RefuseBadEncoding
      BY <2>2 DEF RefuseBadEncoding, Conclude, LoopInv, path
    <2>3. CASE Stable
      BY <2>3 DEF Stable, InLoop, Conclude, LoopInv, path
    <2>4. CASE DecodeRound
      <3>1. path' = path /\ i \in Nat /\ i' = i + 1 /\ verdict' = "checking"
        BY <2>4 DEF DecodeRound, InLoop, TypeOK, path
      <3>2. current' = Unescaped(path, i + 1)
        BY <2>0, <2>4, <3>1, UnescapedTwice DEF DecodeRound, LoopInv, PathUnescape
      <3>3. /\ ~ Dotted(Unescaped(path, i))
            /\ Unescapable(Unescaped(path, i))
            /\ Unescaped(path, i + 1) # Unescaped(path, i)
        BY <2>4, <3>2 DEF DecodeRound, LoopInv
      <3>4. \A n \in 0..i : /\ ~ Dotted(Unescaped(path, n))
                            /\ Unescapable(Unescaped(path, n))
                            /\ Unescaped(path, n + 1) # Unescaped(path, n)
        <4> TAKE n \in 0..i
        <4>1. CASE n = i
          BY <3>3, <4>1
        <4>2. CASE n \in 0..(i - 1)
          BY <4>2 DEF LoopInv
        <4> QED
          BY <3>1, <4>1, <4>2
      <3> HIDE DEF path
      <3> QED
        BY <3>1, <3>2, <3>4 DEF LoopInv
    <2>5. CASE RefuseUnstable
      BY <2>5 DEF RefuseUnstable, Conclude, LoopInv, TypeOK, path
    <2>6. CASE MatchAllowlist
      BY <2>6 DEF MatchAllowlist, Conclude, LoopInv, path
    <2>7. CASE Done
      BY <2>7 DEF Done, vars, LoopInv, path
    <2>8. CASE UNCHANGED vars
      BY <2>8 DEF vars, LoopInv, path
    <2> QED
      BY <2>1, <2>2, <2>3, <2>4, <2>5, <2>6, <2>7, <2>8 DEF Next
  <1> QED
    BY <1>1, <1>2, TypeCorrect, PTL DEF Spec

\* The loop computes PathValid, for every cap (VerdictExact).
THEOREM LoopExact == Spec => []VerdictExact
  <1>1. TypeOK /\ LoopInv => VerdictExact
    <2> SUFFICES ASSUME TypeOK, LoopInv, verdict \in Results
                 PROVE  verdict = "allowed" <=> PathValid(path, allow, MaxDecodes)
      BY DEF VerdictExact
    <2>0. i \in Nat /\ path \in Seq(Mark) /\ current = Unescaped(path, i)
      BY UnescapedType DEF TypeOK, LoopInv, path, PathUnescape
    <2>1. ASSUME verdict = "allowed"
          PROVE  PathValid(path, allow, MaxDecodes)
      <3>1. i \in 0..MaxDecodes
        BY <2>0, <2>1 DEF LoopInv
      <3>2. Unescaped(path, i + 1) = Unescaped(path, i)
        BY <2>0, <2>1, UnescapedTwice DEF LoopInv, PathUnescape
      <3>3. \A n \in 0..i : ~ Dotted(Unescaped(path, n)) /\ Unescapable(Unescaped(path, n))
        <4> TAKE n \in 0..i
        <4>1. CASE n = i
          BY <2>0, <2>1, <4>1 DEF LoopInv
        <4>2. CASE n \in 0..(i - 1)
          BY <4>2 DEF LoopInv
        <4> QED
          BY <2>0, <4>1, <4>2
      <3>4. PathListed(path, allow)
        BY <2>1 DEF LoopInv
      <3> QED
        BY <3>1, <3>2, <3>3, <3>4 DEF PathValid, DotSegmentsClear
    <2>2. ASSUME PathValid(path, allow, MaxDecodes)
          PROVE  verdict = "allowed"
      <3>1. PICK n \in 0..MaxDecodes :
               /\ Unescaped(path, n + 1) = Unescaped(path, n)
               /\ \A k \in 0..n : ~ Dotted(Unescaped(path, k)) /\ Unescapable(Unescaped(path, k))
        BY <2>2 DEF PathValid, DotSegmentsClear
      <3>2. i <= n
        <4>1. n \notin 0..(i - 1)
          BY <3>1 DEF LoopInv
        <4> QED
          BY <2>0, <4>1
      <3>3. ~ Dotted(current) /\ Unescapable(current)
        BY <2>0, <3>1, <3>2
      <3>4. verdict \notin {"dot_segment", "bad_encoding"}
        BY <3>3 DEF LoopInv
      <3>5. verdict # "unstable"
        BY <3>1, <3>2, <2>0 DEF LoopInv
      <3>6. verdict # "not_permitted"
        BY <2>2 DEF LoopInv, PathValid
      <3> QED
        BY <3>4, <3>5, <3>6 DEF Results
    <2> QED
      BY <2>1, <2>2
  <1> QED
    BY <1>1, TypeCorrect, LoopInvariant, PTL

\* No admitted path shows a dot segment at any number of decodings, whatever
\* the cap of refuseDotSegments (NoTraversal).
THEOREM TraversalFree == Spec => []NoTraversal
  <1>1. TypeOK /\ VerdictExact => NoTraversal
    <2> SUFFICES ASSUME TypeOK, VerdictExact, verdict = "allowed", NEW n \in Readings
                 PROVE  ~ Dotted(Unescaped(wire, n))
      BY DEF NoTraversal
    <2>1. DotSegmentsClear(PathUnescape(wire), MaxDecodes)
      BY DEF VerdictExact, Results, PathValid, path
    <2>2. wire \in Seq(Mark) /\ n \in Nat
      BY ReadingsAssumption DEF TypeOK
    <2> QED
      BY <2>1, <2>2, ClearOnTheWire
  <1> QED
    BY <1>1, TypeCorrect, LoopExact, PTL

\* An upstream that decodes the matched path again still reads a path under
\* the prefix, decoded as often (StillListed).
THEOREM PrefixHolds == Spec => []StillListed
  <1>1. TypeOK /\ LoopInv => StillListed
    <2> SUFFICES ASSUME TypeOK, LoopInv, verdict = "allowed", allow.prefixes # {},
                        NEW n \in Readings
                 PROVE  \E q \in allow.prefixes :
                            UnderPrefix(Unescaped(path, n), Unescaped(q, n))
      BY DEF StillListed
    <2>0. /\ n \in Nat
          /\ path \in Seq(Mark)
          /\ allow.prefixes \subseteq Seq(Mark)
      BY UnescapedType, ReadingsAssumption, AllowsAssumption DEF TypeOK, path, PathUnescape
    <2>1. PICK q \in allow.prefixes : UnderPrefix(path, q)
      BY DEF LoopInv, PathListed
    <2> QED
      BY <2>0, <2>1, UnderPrefixForever
  <1> QED
    BY <1>1, TypeCorrect, LoopInvariant, PTL

----------------------------------------------------------------------------
(* The upstream that removes dot segments.  Reader is a recursive function *)
(* of a path: what it is for a dot-free path is found by the least number  *)
(* of marks at which it would be anything else.                            *)

\* A set of numbers that is not empty has a least one.
LEMMA Least ==
    ASSUME NEW T, T \subseteq Nat, T # {}
    PROVE  \E x \in T : \A y \in T : x <= y
  <1> DEFINE R == {p \in Nat \X Nat : p[1] < p[2]}
  <1>1. IsWellFoundedOn(R, Nat)
    BY NatLessThanWellFounded DEF OpToRel
  <1>2. \A x, y \in Nat : y < x => <<y, x>> \in R
    OBVIOUS
  <1> HIDE DEF R
  <1>3. \E x \in T : \A y \in T : ~ (<<y, x>> \in R)
    BY <1>1, WFMin
  <1>4. PICK x \in T : \A y \in T : ~ (<<y, x>> \in R)
    BY <1>3
  <1>5. ASSUME NEW y \in T PROVE x <= y
    <2>1. ~ (y < x)
      BY <1>2, <1>4
    <2>2. x \in Nat /\ y \in Nat
      OBVIOUS
    <2> QED
      BY <2>1, <2>2
  <1> QED
    BY <1>5

\* After k marks of p the reader is in the segment that begins behind mark s.
InSegment(p, s, k) ==
    /\ s = 0 \/ (s < k /\ p[s + 1] = Slash)
    /\ \A m \in (s + 2)..k : p[m] # Slash

\* Every point of a path is in some segment: the last slash before it, if
\* there is one, is the last of those there are.
LEMMA SegmentExists ==
    ASSUME NEW p \in Seq(Mark), NEW k \in 0..Len(p)
    PROVE  \E s \in 0..k : InSegment(p, s, k)
  <1> DEFINE Starts == {s \in 0..k : s = 0 \/ (s < k /\ p[s + 1] = Slash)}
             T == {k - s : s \in Starts}
  <1>0. k \in Nat
    OBVIOUS
  <1>1. T \subseteq Nat /\ k - 0 \in T
    BY <1>0
  <1>2. PICK x \in T : \A y \in T : x <= y
    BY <1>1, Least
  <1>3. PICK s \in Starts : x = k - s
    OBVIOUS
  <1>4. ASSUME NEW m \in (s + 2)..k PROVE p[m] # Slash
    <2>1. m - 1 \in 0..k /\ m - 1 < k /\ (m - 1) + 1 = m
      BY <1>0, <1>4
    <2>2. SUFFICES ASSUME p[m] = Slash PROVE FALSE
      OBVIOUS
    <2>3. k - (m - 1) \in T
      BY <2>1, <2>2
    <2>4. k - s <= k - (m - 1)
      BY <1>2, <1>3, <2>3
    <2> QED
      BY <1>0, <2>1, <2>4
  <1> QED
    BY <1>4 DEF InSegment

\* And in one only.
LEMMA SegmentUnique ==
    ASSUME NEW p, NEW k \in Nat, NEW s \in 0..k, NEW t \in 0..k,
           InSegment(p, s, k), InSegment(p, t, k)
    PROVE  s = t
  BY DEF InSegment

\* The segment a dot-free path has between two cuts is none that the reader
\* removes.
LEMMA SegmentKept ==
    ASSUME NEW p \in Seq(Mark), ~ Dotted(p), NEW k \in 0..Len(p), k + 1 \in Cuts(p),
           NEW s \in 0..k, InSegment(p, s, k)
    PROVE  SubSeq(p, s + 1, k) \notin OneDot \cup TwoDots
  <1> DEFINE seg == SubSeq(p, s + 1, k)
  <1>0. k \in Nat /\ s \in Nat /\ Len(p) \in Nat
    OBVIOUS
  <1>1. \A m \in (s + 1)..k : p[m] \in Mark
    OBVIOUS
  <1>2. /\ Len(seg) = IF s + 1 <= k THEN k - s ELSE 0
        /\ \A m \in 1..(k - s) : seg[m] = p[s + m]
    <2>1. /\ Len(seg) = IF s + 1 <= k THEN k - (s + 1) + 1 ELSE 0
          /\ \A m \in 1..(k - (s + 1) + 1) : seg[m] = p[(s + 1) + m - 1]
      BY <1>0, <1>1, SubSeqProperties
    <2>2. k - (s + 1) + 1 = k - s /\ \A m \in 1..(k - s) : (s + 1) + m - 1 = s + m
      BY <1>0
    <2> QED
      BY <2>1, <2>2
  <1>3. Dot # Slash
    BY DEF Dot, Slash, Literal
  <1> HIDE DEF seg
  <1>4. ASSUME NEW a \in Cuts(p), (k + 1) - a \in {2, 3},
               \A m \in 1..Len(p) : a < m /\ m < k + 1 => p[m] = Dot
        PROVE  FALSE
    BY <1>4 DEF Dotted
  <1>5. 0 \in Cuts(p) /\ (s # 0 => s + 1 \in Cuts(p))
    BY <1>0 DEF Cuts, InSegment
  <1>6. seg # <<Dot>>
    <2> SUFFICES ASSUME seg = <<Dot>> PROVE FALSE
      OBVIOUS
    <2>1. Len(seg) = 1 /\ seg[1] = Dot
      OBVIOUS
    <2>2. k = s + 1 /\ p[s + 1] = Dot
      BY <1>0, <1>2, <2>1
    <2>3. s = 0
      BY <1>3, <2>2 DEF InSegment
    <2> QED
      BY <1>0, <1>4, <1>5, <2>2, <2>3
  <1>7. seg # <<Dot, Dot>>
    <2> SUFFICES ASSUME seg = <<Dot, Dot>> PROVE FALSE
      OBVIOUS
    <2>1. Len(seg) = 2 /\ seg[1] = Dot /\ seg[2] = Dot
      OBVIOUS
    <2>2. k = s + 2 /\ p[s + 1] = Dot /\ p[s + 2] = Dot
      BY <1>0, <1>2, <2>1
    <2>3. s = 0
      BY <1>3, <2>2 DEF InSegment
    <2> QED
      BY <1>0, <1>4, <1>5, <2>2, <2>3
  <1>8. seg # <<Slash, Dot>>
    <2> SUFFICES ASSUME seg = <<Slash, Dot>> PROVE FALSE
      OBVIOUS
    <2>1. Len(seg) = 2 /\ seg[1] = Slash /\ seg[2] = Dot
      OBVIOUS
    <2>2. k = s + 2 /\ p[s + 1] = Slash /\ p[s + 2] = Dot
      BY <1>0, <1>2, <2>1
    <2>3. s + 1 \in Cuts(p)
      BY <1>0, <2>2 DEF Cuts
    <2> QED
      BY <1>0, <1>4, <2>2, <2>3
  <1>9. seg # <<Slash, Dot, Dot>>
    <2> SUFFICES ASSUME seg = <<Slash, Dot, Dot>> PROVE FALSE
      OBVIOUS
    <2>1. Len(seg) = 3 /\ seg[1] = Slash /\ seg[2] = Dot /\ seg[3] = Dot
      OBVIOUS
    <2>2. k = s + 3 /\ p[s + 1] = Slash /\ p[s + 2] = Dot /\ p[s + 3] = Dot
      BY <1>0, <1>2, <2>1
    <2>3. s + 1 \in Cuts(p)
      BY <1>0, <2>2 DEF Cuts
    <2> QED
      BY <1>0, <1>4, <2>2, <2>3
  <1> QED
    BY <1>6, <1>7, <1>8, <1>9 DEF seg, OneDot, TwoDots

\* What the reader has after k marks of a dot-free path: all of them, cut in
\* front of the segment it is in.
Split(p, s, k) == [out |-> SubSeq(p, 1, s), seg |-> SubSeq(p, s + 1, k)]

\* Where a segment of a dot-free path ends, the reader puts it behind the
\* others unchanged.
LEMMA SegmentClosed ==
    ASSUME NEW p \in Seq(Mark), ~ Dotted(p), NEW k \in 0..Len(p), k + 1 \in Cuts(p),
           NEW s \in 0..k, InSegment(p, s, k)
    PROVE  Close(SubSeq(p, 1, s), SubSeq(p, s + 1, k)) = SubSeq(p, 1, k)
  <1>1. SubSeq(p, s + 1, k) \notin OneDot /\ SubSeq(p, s + 1, k) \notin TwoDots
    BY SegmentKept
  <1>2. SubSeq(p, 1, s) \o SubSeq(p, s + 1, k) = SubSeq(p, 1, k)
    <2>1. s \in (1 - 1)..Len(p) /\ k \in s..Len(p) /\ 1 \in 1..(Len(p) + 1)
      OBVIOUS
    <2> QED
      BY <2>1, ConcatAdjacentSubSeq
  <1> QED
    BY <1>1, <1>2 DEF Close

\* One turn of the reader on a dot-free path takes up the next mark.
LEMMA ReadSplit ==
    ASSUME NEW p \in Seq(Mark), ~ Dotted(p), NEW k \in 1..Len(p),
           NEW s \in 0..(k - 1), InSegment(p, s, k - 1),
           NEW t \in 0..k, InSegment(p, t, k)
    PROVE  Read(Split(p, s, k - 1), p[k]) = Split(p, t, k)
  <1>0. k \in Nat /\ s \in Nat /\ t \in Nat /\ k - 1 \in 0..Len(p) /\ (k - 1) + 1 = k
    OBVIOUS
  <1>1. CASE p[k] = Slash
    <2>1. InSegment(p, k - 1, k) /\ k - 1 \in 0..k
      BY <1>0, <1>1 DEF InSegment
    <2>2. t = k - 1
      BY <1>0, <2>1, SegmentUnique
    <2>3. k \in Cuts(p)
      BY <1>1 DEF Cuts
    <2>4. Close(SubSeq(p, 1, s), SubSeq(p, s + 1, k - 1)) = SubSeq(p, 1, k - 1)
      BY <1>0, <2>3, SegmentClosed
    <2>5. SubSeq(p, k, k) = <<p[k]>>
      <3>1. SubSeq(p, k, k) = SubSeq(p, k, k - 1) \o <<p[k]>>
        BY <1>0, SubSeqRecursiveSecond
      <3>2. SubSeq(p, k, k - 1) = <<>>
        BY <1>0, SubSeqEmpty
      <3>3. <<p[k]>> \in Seq(Mark)
        OBVIOUS
      <3> QED
        BY <3>1, <3>2, <3>3, ConcatEmptySeq
    <2> QED
      BY <1>0, <1>1, <2>2, <2>4, <2>5 DEF Read, Split
  <1>2. CASE p[k] # Slash
    <2>1. InSegment(p, s, k) /\ s \in 0..k
      BY <1>0, <1>2 DEF InSegment
    <2>2. t = s
      BY <1>0, <2>1, SegmentUnique
    <2>3. SubSeq(p, s + 1, k) = Append(SubSeq(p, s + 1, k - 1), p[k])
      <3>1. s + 1 \in 1..Len(p) /\ k \in (s + 1)..Len(p)
        BY <1>0
      <3>2. SubSeq(p, s + 1, k) = SubSeq(p, s + 1, k - 1) \o <<p[k]>>
        BY <3>1, SubSeqRecursiveSecond
      <3>3. \A m \in (s + 1)..(k - 1) : p[m] \in Mark
        BY <1>0
      <3>4. SubSeq(p, s + 1, k - 1) \in Seq(Mark) /\ p[k] \in Mark
        BY <1>0, <3>3, SubSeqProperties
      <3> QED
        BY <3>2, <3>4, AppendIsConcat
    <2> QED
      BY <1>0, <1>2, <2>2, <2>3 DEF Read, Split
  <1> QED
    BY <1>1, <1>2

\* The equation that Reader solves, at one point.
Turn(p, f, k) == IF k = 0 THEN [out |-> <<>>, seg |-> <<>>] ELSE Read(f[k - 1], p[k])

\* A dot-free path comes out of the reader as it went in.
LEMMA ReaderSplits ==
    ASSUME NEW p \in Seq(Mark), ~ Dotted(p), NEW k \in 0..Len(p)
    PROVE  \E s \in 0..k : InSegment(p, s, k) /\ Reader(p)[k] = Split(p, s, k)
  <1> DEFINE start(n) == CHOOSE s \in 0..n : InSegment(p, s, n)
             g == [n \in 0..Len(p) |-> Split(p, start(n), n)]
  <1>0. Len(p) \in Nat
    OBVIOUS
  <1>1. \A n \in 0..Len(p) : start(n) \in 0..n /\ InSegment(p, start(n), n)
    BY SegmentExists
  <1> HIDE DEF start
  <1>2. ASSUME NEW n \in 0..Len(p) PROVE g[n] = Turn(p, g, n)
    <2>1. CASE n = 0
      <3>1. start(0) = 0
        BY <1>0, <1>1, <2>1
      <3>2. SubSeq(p, 1, 0) = <<>> /\ SubSeq(p, 0 + 1, 0) = <<>>
        BY SubSeqEmpty
      <3>3. g[0] = Split(p, 0, 0)
        BY <1>0, <3>1
      <3> QED
        BY <2>1, <3>2, <3>3 DEF Turn, Split
    <2>2. CASE n # 0
      <3>1. n \in 1..Len(p) /\ n - 1 \in 0..Len(p)
        BY <1>0, <2>2
      <3>2. Read(Split(p, start(n - 1), n - 1), p[n]) = Split(p, start(n), n)
        BY <1>1, <3>1, ReadSplit
      <3> QED
        BY <2>2, <3>1, <3>2 DEF Turn
    <2> QED
      BY <2>1, <2>2
  <1>3. g = [n \in 0..Len(p) |-> Turn(p, g, n)]
    <2>1. g = [n \in 0..Len(p) |-> g[n]]
      OBVIOUS
    <2> HIDE DEF g
    <2> QED
      BY <1>2, <2>1
  <1> HIDE DEF g
  <1> DEFINE f == Reader(p)
  <1>4. f = CHOOSE h : h = [n \in 0..Len(p) |-> Turn(p, h, n)]
    BY DEF Reader, Turn
  <1> HIDE DEF f
  <1>5. f = [n \in 0..Len(p) |-> Turn(p, f, n)]
    BY <1>3, <1>4, Zenon
  <1>6. \A n \in 0..Len(p) : f[n] = g[n]
    <2> DEFINE T == {n \in 0..Len(p) : f[n] # g[n]}
    <2> SUFFICES ASSUME T # {} PROVE FALSE
      OBVIOUS
    <2>0. T \subseteq Nat
      OBVIOUS
    <2>1. PICK n \in T : \A m \in T : n <= m
      <3> HIDE DEF T
      <3> QED
        BY <2>0, Least
    <2>2. f[n] = Turn(p, f, n) /\ g[n] = Turn(p, g, n)
      BY <1>2, <1>5
    <2>3. n # 0
      BY <2>2 DEF Turn
    <2>4. n - 1 \in 0..Len(p) /\ n - 1 \notin T
      BY <1>0, <2>1, <2>3
    <2>5. f[n - 1] = g[n - 1]
      BY <2>4
    <2> QED
      BY <2>2, <2>5 DEF Turn
  <1>7. g[k] = Split(p, start(k), k)
    BY DEF g
  <1> QED
    BY <1>1, <1>6, <1>7 DEF f

\* Removing dot segments changes nothing of a dot-free path.
LEMMA ResolveKeeps ==
    ASSUME NEW p \in Seq(Mark), ~ Dotted(p)
    PROVE  Resolve(p) = p
  <1>0. Len(p) \in 0..Len(p) /\ Len(p) + 1 \in Cuts(p)
    BY DEF Cuts
  <1>1. PICK s \in 0..Len(p) : InSegment(p, s, Len(p)) /\ Reader(p)[Len(p)] = Split(p, s, Len(p))
    BY <1>0, ReaderSplits
  <1>2. Close(SubSeq(p, 1, s), SubSeq(p, s + 1, Len(p))) = p
    BY <1>0, <1>1, SegmentClosed, SubSeqFull
  <1>3. SubSeq(p, s + 1, Len(p)) \notin OneDot \cup TwoDots
    BY <1>0, <1>1, SegmentKept
  <1>4. p \o <<>> = p
    BY ConcatEmptySeq
  <1> QED
    BY <1>1, <1>2, <1>3, <1>4 DEF Resolve, Split

\* A path in front of which a prefix and a slash stand, mark by mark.
LEMMA CoveredBelow ==
    ASSUME NEW p \in Seq(Mark), NEW q \in Seq(Mark), HasPrefix(p, Append(q, Slash))
    PROVE  /\ Len(q) + 1 <= Len(p)
           /\ \A m \in 1..Len(q) : m <= Len(p) /\ p[m] = q[m]
           /\ p[Len(q) + 1] = Slash
  <1> DEFINE r == Append(q, Slash)
  <1>1. /\ Len(r) = Len(q) + 1
        /\ \A m \in 1..Len(q) : r[m] = q[m]
        /\ r[Len(q) + 1] = Slash
    OBVIOUS
  <1>2. Len(r) <= Len(p) /\ \A m \in 1..Len(r) : p[m] = r[m]
    BY DEF HasPrefix
  <1>3. Len(q) \in Nat /\ Len(p) \in Nat
    OBVIOUS
  <1> HIDE DEF r
  <1> QED
    BY <1>1, <1>2, <1>3

\* A prefix that covers a dot-free path is dot-free.
LEMMA PrefixDotFree ==
    ASSUME NEW p \in Seq(Mark), NEW q \in Seq(Mark), UnderPrefix(p, q), ~ Dotted(p)
    PROVE  ~ Dotted(q)
  <1>0. Len(p) \in Nat /\ Len(q) \in Nat /\ Dot # Slash
    BY DEF Dot, Slash, Literal
  <1>1. CASE p = q
    BY <1>1
  <1> SUFFICES ASSUME NEW a \in Cuts(q), NEW b \in Cuts(q), b - a \in {2, 3},
                      \A m \in 1..Len(q) : a < m /\ m < b => q[m] = Dot,
                      p # q
               PROVE  FALSE
    BY <1>1 DEF Dotted
  <1>2. a \in 0..(Len(q) + 1) /\ b \in 0..(Len(q) + 1)
    BY <1>0 DEF Cuts
  <1>3. ASSUME \A m \in 1..Len(q) : m <= Len(p) /\ p[m] = q[m], a \in Cuts(p), b \in Cuts(p)
        PROVE  FALSE
    <2>1. \A m \in 1..Len(p) : a < m /\ m < b => p[m] = Dot
      BY <1>0, <1>2, <1>3
    <2> QED
      BY <1>3, <2>1 DEF Dotted
  <1>4. CASE HasPrefix(p, q) /\ HasSuffixSlash(q)
    <2>1. \A m \in 1..Len(q) : m <= Len(p) /\ p[m] = q[m]
      BY <1>0, <1>4 DEF HasPrefix
    <2>2. a <= Len(q) /\ b <= Len(q)
      <3>1. b # Len(q) + 1
        BY <1>0, <1>2, <1>4 DEF HasSuffixSlash
      <3> QED
        BY <1>0, <1>2, <3>1
    <2>3. a \in Cuts(p) /\ b \in Cuts(p)
      BY <1>0, <1>2, <2>1, <2>2 DEF Cuts
    <2> QED
      BY <1>3, <2>1, <2>3
  <1>5. CASE HasPrefix(p, Append(q, Slash))
    <2>1. /\ Len(q) + 1 <= Len(p)
          /\ \A m \in 1..Len(q) : m <= Len(p) /\ p[m] = q[m]
          /\ p[Len(q) + 1] = Slash
      BY <1>5, <1>0, CoveredBelow
    <2>2. a \in Cuts(p) /\ b \in Cuts(p)
      BY <1>0, <1>2, <2>1 DEF Cuts
    <2> QED
      BY <1>3, <2>1, <2>2
  <1> QED
    BY <1>1, <1>4, <1>5 DEF UnderPrefix

\* What a prefix covers lies in the directory the prefix names.
LEMMA CoveredWithin ==
    ASSUME NEW p \in Seq(Mark), NEW q \in Seq(Mark), UnderPrefix(p, q)
    PROVE  Within(p, Directory(q))
  <1>0. Len(p) \in Nat /\ Len(q) \in Nat
    OBVIOUS
  <1>1. ASSUME HasPrefix(p, q), HasSuffixSlash(q)
        PROVE  Within(p, Directory(q))
    <2> DEFINE d == SubSeq(q, 1, Len(q) - 1)
    <2>1. Len(q) \in 1..Len(p) /\ q[Len(q)] = Slash /\ p[Len(q)] = Slash
      BY <1>0, <1>1 DEF HasPrefix, HasSuffixSlash
    <2>2. Len(d) = Len(q) - 1 /\ \A m \in 1..(Len(q) - 1) : d[m] = q[m]
      <3>1. \A m \in 1..(Len(q) - 1) : q[m] \in Mark
        BY <1>0
      <3>2. /\ Len(d) = IF 1 <= Len(q) - 1 THEN (Len(q) - 1) - 1 + 1 ELSE 0
            /\ \A m \in 1..((Len(q) - 1) - 1 + 1) : d[m] = q[1 + m - 1]
        BY <1>0, <3>1, SubSeqProperties
      <3>3. (Len(q) - 1) - 1 + 1 = Len(q) - 1 /\ \A m \in 1..(Len(q) - 1) : 1 + m - 1 = m
        BY <1>0
      <3>4. Len(d) = Len(q) - 1
        BY <1>0, <2>1, <3>2, <3>3
      <3> HIDE DEF d
      <3>5. \A m \in 1..(Len(q) - 1) : d[m] = q[m]
        BY <3>2, <3>3
      <3> QED
        BY <3>4, <3>5
    <2>3. Directory(q) = d
      BY <1>1 DEF Directory
    <2> HIDE DEF d
    <2>4. HasPrefix(p, d)
      BY <1>0, <1>1, <2>1, <2>2 DEF HasPrefix
    <2>5. Len(d) + 1 \in Cuts(p)
      BY <1>0, <2>1, <2>2 DEF Cuts
    <2> QED
      BY <2>3, <2>4, <2>5 DEF Within
  <1>2. CASE HasSuffixSlash(q)
    <2>1. HasPrefix(q, q)
      BY <1>0 DEF HasPrefix
    <2> QED
      BY <1>1, <1>2, <2>1 DEF UnderPrefix
  <1>3. CASE ~ HasSuffixSlash(q)
    <2>1. Directory(q) = q
      BY <1>3 DEF Directory
    <2>2. CASE p = q
      BY <1>0, <2>1, <2>2 DEF Within, HasPrefix, Cuts
    <2>3. CASE HasPrefix(p, Append(q, Slash))
      <3>1. /\ Len(q) + 1 <= Len(p)
            /\ \A m \in 1..Len(q) : m <= Len(p) /\ p[m] = q[m]
            /\ p[Len(q) + 1] = Slash
        BY <2>3, CoveredBelow
      <3>2. HasPrefix(p, q)
        BY <1>0, <3>1 DEF HasPrefix
      <3>3. Len(q) + 1 \in Cuts(p)
        BY <1>0, <3>1 DEF Cuts
      <3> QED
        BY <2>1, <3>2, <3>3 DEF Within
    <2> QED
      BY <1>3, <2>2, <2>3 DEF UnderPrefix
  <1> QED
    BY <1>2, <1>3

\* Whatever number of decodings an upstream applies to an admitted path before
\* it removes dot segments, it ends in a directory of the allowlist (Confined).
THEOREM ResourceIsConfined == Spec => []Confined
  <1>1. TypeOK /\ LoopInv /\ VerdictExact => Confined
    <2> SUFFICES ASSUME TypeOK, LoopInv, VerdictExact, verdict = "allowed",
                        allow.prefixes # {}, NEW n \in Readings \ {0}
                 PROVE  \E q \in allow.prefixes :
                            Within(Resolve(Unescaped(wire, n)),
                                   Directory(Resolve(Unescaped(q, n - 1))))
      BY DEF Confined
    <2>0. /\ n \in Nat /\ n - 1 \in Nat /\ 1 + (n - 1) = n
          /\ wire \in Seq(Mark)
          /\ path \in Seq(Mark)
          /\ allow.prefixes \subseteq Seq(Mark)
      BY UnescapedType, ReadingsAssumption, AllowsAssumption DEF TypeOK, path, PathUnescape
    <2>1. PICK q \in allow.prefixes : UnderPrefix(path, q)
      BY DEF LoopInv, PathListed
    <2> DEFINE read == Unescaped(wire, n)
               known == Unescaped(q, n - 1)
    <2>2. read \in Seq(Mark) /\ known \in Seq(Mark)
      BY <2>0, <2>1, UnescapedType
    <2>3. UnderPrefix(read, known)
      <3>1. Unescaped(path, n - 1) = read
        BY <2>0, UnescapedTwice DEF path, PathUnescape
      <3>2. UnderPrefix(Unescaped(path, n - 1), known)
        <4> HIDE DEF path
        <4>1. q \in Seq(Mark)
          BY <2>0, <2>1
        <4> QED
          BY <2>0, <2>1, <4>1, UnderPrefixForever
      <3> QED
        BY <3>1, <3>2
    <2>4. ~ Dotted(read)
      <3>1. DotSegmentsClear(PathUnescape(wire), MaxDecodes)
        BY DEF VerdictExact, Results, PathValid, path
      <3> QED
        BY <2>0, <3>1, ClearOnTheWire
    <2> HIDE DEF read, known
    <2>5. ~ Dotted(known)
      BY <2>2, <2>3, <2>4, PrefixDotFree
    <2>6. Resolve(read) = read /\ Resolve(known) = known
      BY <2>2, <2>4, <2>5, ResolveKeeps
    <2>7. Within(read, Directory(known))
      BY <2>2, <2>3, CoveredWithin
    <2> QED
      BY <2>1, <2>6, <2>7 DEF read, known
  <1> QED
    BY <1>1, TypeCorrect, LoopInvariant, LoopExact, PTL

=============================================================================
