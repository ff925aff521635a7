-------------------------- MODULE AllowlistProofs --------------------------
(***************************************************************************)
(* Proofs about what the text of an allowlist means: the anchored pattern  *)
(* of a seal (Anchors), for every tree and every subject, and the client   *)
(* addresses of the operator (Cidr), for every list and every width.       *)
(***************************************************************************)
EXTENDS Anchors, Cidr, WellFoundedInduction, SequenceTheorems, TLAPS

----------------------------------------------------------------------------
(* Recursive functions                                                     *)

\* A set of numbers that is not empty has a least one.
LEMMA Least ==
    ASSUME NEW T, T \subseteq Nat, T # {}
    PROVE  \E x \in T : \A y \in T : x <= y
  <1> DEFINE R == {p \in Nat \X Nat : p[1] < p[2]}
  <1>1. IsWellFoundedOn(R, Nat)
    BY NatLessThanWellFounded DEF OpToRel
  <1>2. \A x, y \in Nat : y < x => <<y, x>> \in R
    OBVIOUS
  <1> HIDE DEF R
  <1>3. \E x \in T : \A y \in T : ~ (<<y, x>> \in R)
    BY <1>1, WFMin
  <1>4. PICK x \in T : \A y \in T : ~ (<<y, x>> \in R)
    BY <1>3
  <1>5. ASSUME NEW y \in T PROVE x <= y
    <2>1. ~ (y < x)
      BY <1>2, <1>4
    <2>2. x \in Nat /\ y \in Nat
      OBVIOUS
    <2> QED
      BY <2>1, <2>2
  <1> QED
    BY <1>5

\* G[<<n, f>>], the value at n of a function on 1..N that is to be found, is
\* determined by its values f below n.
Causal(G, N, S) ==
    /\ G \in [(1..N) \X [1..N -> S] -> S]
    /\ \A n \in 1..N : \A f, g \in [1..N -> S] :
          (\A m \in 1..(n - 1) : f[m] = g[m]) => G[<<n, f>>] = G[<<n, g>>]

Solution(G, N, S, f) == f \in [1..N -> S] /\ \A n \in 1..N : f[n] = G[<<n, f>>]

\* Such a function exists.
LEMMA Recursion ==
    ASSUME NEW N \in Nat, NEW S, S # {}, NEW G, Causal(G, N, S)
    PROVE  \E f : Solution(G, N, S, f)
  <1> USE DEF Causal, Solution
  <1> DEFINE Upto(f, k) == \A n \in 1..k : f[n] = G[<<n, f>>]
             T == {k \in 0..N : ~ \E f \in [1..N -> S] : Upto(f, k)}
  <1> SUFFICES T = {}
    <2>1. N \in 0..N
      OBVIOUS
    <2> QED
      BY <2>1
  <1> SUFFICES ASSUME T # {} PROVE FALSE
    OBVIOUS
  <1>1. PICK k \in T : \A j \in T : k <= j
    <2>1. T \subseteq Nat
      OBVIOUS
    <2> HIDE DEF T
    <2> QED
      BY <2>1, Least
  <1>2. k \in 0..N /\ k \in Nat
    OBVIOUS
  <1>3. k # 0
    <2> PICK default \in S : TRUE
      OBVIOUS
    <2>1. [n \in 1..N |-> default] \in [1..N -> S]
      OBVIOUS
    <2>2. Upto([n \in 1..N |-> default], 0)
      OBVIOUS
    <2> QED
      BY <1>2, <2>1, <2>2
  <1>4. PICK f \in [1..N -> S] : Upto(f, k - 1)
    <2>1. k - 1 \in 0..N /\ ~ (k <= k - 1)
      BY <1>2, <1>3
    <2>2. k - 1 \notin T
      BY <1>1, <2>1
    <2> QED
      BY <2>1, <2>2
  <1> DEFINE g == [f EXCEPT ![k] = G[<<k, f>>]]
  <1>5. k \in 1..N
    BY <1>2, <1>3
  <1>6. G[<<k, f>>] \in S
    BY <1>5
  <1>7. g \in [1..N -> S] /\ g[k] = G[<<k, f>>] /\ \A m \in 1..(k - 1) : g[m] = f[m]
    BY <1>2, <1>5, <1>6
  <1> HIDE DEF g
  <1>8. ASSUME NEW n \in 1..k PROVE g[n] = G[<<n, g>>]
    <2>1. n \in 1..N /\ \A m \in 1..(n - 1) : m \in 1..(k - 1)
      BY <1>2, <1>8
    <2>2. G[<<n, f>>] = G[<<n, g>>]
      BY <1>7, <2>1
    <2>3. CASE n = k
      BY <1>7, <2>2, <2>3
    <2>4. CASE n # k
      <3>1. n \in 1..(k - 1)
        BY <1>2, <1>8, <2>4
      <3> QED
        BY <1>4, <1>7, <2>2, <3>1
    <2> QED
      BY <2>3, <2>4
  <1>9. Upto(g, k)
    BY <1>8
  <1> QED
    BY <1>7, <1>9

----------------------------------------------------------------------------
(* Patterns                                                                *)

USE PatternsAssumption, SubjectsAssumption

\* The parts of a node stand before it.
LEMMA PartsBefore ==
    ASSUME NEW re \in Patterns
    PROVE  /\ Len(re) \in Nat /\ Len(re) \in 1..Len(re)
           /\ \A n \in 1..Len(re) :
                /\ re[n] \in Node /\ re[n].sub \in Seq(Nat) /\ re[n].op \in Op
                /\ Len(re[n].sub) \in Nat
                /\ \A k \in 1..Len(re[n].sub) :
                      re[n].sub[k] \in 1..(n - 1) /\ re[n].sub[k] \in 1..Len(re)
                /\ re[n].sub # <<>> => 1 \in 1..Len(re[n].sub) /\ Len(re[n].sub) \in 1..Len(re[n].sub)
                /\ re[n].op \in {"capture", "star"} => Len(re[n].sub) = 1
  <1>1. re \in Seq(Node) /\ re # <<>> /\ Len(re) \in Nat
    OBVIOUS
  <1>2. ASSUME NEW n \in 1..Len(re)
        PROVE  /\ re[n] \in Node /\ re[n].sub \in Seq(Nat) /\ re[n].op \in Op
               /\ Len(re[n].sub) \in Nat
    <2>1. re[n] \in Node
      BY <1>1
    <2> QED
      BY <2>1 DEF Node
  <1>3. ASSUME NEW n \in 1..Len(re), NEW k \in 1..Len(re[n].sub)
        PROVE  re[n].sub[k] \in 1..(n - 1) /\ re[n].sub[k] \in 1..Len(re)
    <2>1. re[n].sub[k] \in 1..(n - 1)
      OBVIOUS
    <2> QED
      BY <1>1, <2>1
  <1>4. Len(re) \in 1..Len(re)
    BY <1>1
  <1>5. ASSUME NEW n \in 1..Len(re), re[n].sub # <<>>
        PROVE  1 \in 1..Len(re[n].sub) /\ Len(re[n].sub) \in 1..Len(re[n].sub)
    <2>1. Len(re[n].sub) \in Nat /\ re[n].sub \in Seq(Nat)
      BY <1>2
    <2>2. Len(re[n].sub) # 0
      BY <1>5, <2>1, EmptySeq
    <2> QED
      BY <2>1, <2>2
  <1> QED
    BY <1>1, <1>2, <1>3, <1>4, <1>5

\* The equations that beginsWithAnchor and endsWithAnchor solve.
BeginsAt(re, f, n) ==
    \/ re[n].op \in {"begin_text", "begin_line"}
    \/ re[n].op \in {"concat", "capture"} /\ re[n].sub # <<>> /\ f[re[n].sub[1]]

EndsAt(re, f, n) ==
    \/ re[n].op \in {"end_text", "end_line"}
    \/ /\ re[n].op \in {"concat", "capture"} /\ re[n].sub # <<>>
       /\ f[re[n].sub[Len(re[n].sub)]]

\* beginsWithAnchor answers for a node what its own body says of the node, given
\* the answers for the node's parts.
LEMMA BeginsEquation ==
    ASSUME NEW re \in Patterns, NEW n \in 1..Len(re)
    PROVE  beginsWithAnchor(re)[n] <=> BeginsAt(re, beginsWithAnchor(re), n)
  <1> DEFINE N == Len(re)
             G == [x \in (1..N) \X [1..N -> BOOLEAN] |-> BeginsAt(re, x[2], x[1])]
             b == beginsWithAnchor(re)
  <1>0. N \in Nat
    BY PartsBefore
  <1>1. \A m \in 1..N : \A f \in [1..N -> BOOLEAN] : BeginsAt(re, f, m) \in BOOLEAN
    BY DEF BeginsAt
  <1>2. \A m \in 1..N : \A f \in [1..N -> BOOLEAN] : G[<<m, f>>] = BeginsAt(re, f, m)
    OBVIOUS
  <1>3. G \in [(1..N) \X [1..N -> BOOLEAN] -> BOOLEAN]
    BY <1>1
  <1> HIDE DEF G
  <1>4. ASSUME NEW m \in 1..N, NEW f \in [1..N -> BOOLEAN], NEW g \in [1..N -> BOOLEAN],
               \A j \in 1..(m - 1) : f[j] = g[j]
        PROVE  G[<<m, f>>] = G[<<m, g>>]
    <2>1. re[m].sub # <<>> => f[re[m].sub[1]] = g[re[m].sub[1]]
      BY <1>4, PartsBefore
    <2>2. BeginsAt(re, f, m) <=> BeginsAt(re, g, m)
      BY <2>1, Zenon DEF BeginsAt
    <2>3. BeginsAt(re, f, m) = BeginsAt(re, g, m)
      BY <1>1, <2>2
    <2> QED
      BY <1>2, <2>3
  <1>5. \E f \in [1..N -> BOOLEAN] : \A m \in 1..N : f[m] = G[<<m, f>>]
    <2>1. Causal(G, N, BOOLEAN)
      BY <1>3, <1>4 DEF Causal
    <2>2. BOOLEAN # {}
      OBVIOUS
    <2> HIDE DEF N
    <2>3. \E f : Solution(G, N, BOOLEAN, f)
      BY <1>0, <2>1, <2>2, Recursion
    <2> QED
      BY <2>3 DEF Solution
  <1>6. PICK f \in [1..N -> BOOLEAN] : \A m \in 1..N : f[m] = G[<<m, f>>]
    BY <1>5
  <1>7. f = [m \in 1..N |-> BeginsAt(re, f, m)]
    <2>1. f = [m \in 1..N |-> f[m]]
      OBVIOUS
    <2>2. \A m \in 1..N : f[m] = BeginsAt(re, f, m)
      BY <1>2, <1>6
    <2> QED
      BY <2>1, <2>2
  <1>8. b = CHOOSE h : h = [m \in 1..N |-> BeginsAt(re, h, m)]
    BY DEF beginsWithAnchor, BeginsAt
  <1> HIDE DEF b
  <1>9. b = [m \in 1..N |-> BeginsAt(re, b, m)]
    BY <1>7, <1>8, Zenon
  <1>10. b[n] = BeginsAt(re, b, n)
    BY <1>9
  <1> QED
    BY <1>10 DEF b

\* endsWithAnchor likewise.
LEMMA EndsEquation ==
    ASSUME NEW re \in Patterns, NEW n \in 1..Len(re)
    PROVE  endsWithAnchor(re)[n] <=> EndsAt(re, endsWithAnchor(re), n)
  <1> DEFINE N == Len(re)
             G == [x \in (1..N) \X [1..N -> BOOLEAN] |-> EndsAt(re, x[2], x[1])]
             b == endsWithAnchor(re)
  <1>0. N \in Nat
    BY PartsBefore
  <1>1. \A m \in 1..N : \A f \in [1..N -> BOOLEAN] : EndsAt(re, f, m) \in BOOLEAN
    BY DEF EndsAt
  <1>2. \A m \in 1..N : \A f \in [1..N -> BOOLEAN] : G[<<m, f>>] = EndsAt(re, f, m)
    OBVIOUS
  <1>3. G \in [(1..N) \X [1..N -> BOOLEAN] -> BOOLEAN]
    BY <1>1
  <1> HIDE DEF G
  <1>4. ASSUME NEW m \in 1..N, NEW f \in [1..N -> BOOLEAN], NEW g \in [1..N -> BOOLEAN],
               \A j \in 1..(m - 1) : f[j] = g[j]
        PROVE  G[<<m, f>>] = G[<<m, g>>]
    <2>1. re[m].sub # <<>> => f[re[m].sub[Len(re[m].sub)]] = g[re[m].sub[Len(re[m].sub)]]
      BY <1>4, PartsBefore
    <2>2. EndsAt(re, f, m) <=> EndsAt(re, g, m)
      BY <2>1, Zenon DEF EndsAt
    <2>3. EndsAt(re, f, m) = EndsAt(re, g, m)
      BY <1>1, <2>2
    <2> QED
      BY <1>2, <2>3
  <1>5. \E f \in [1..N -> BOOLEAN] : \A m \in 1..N : f[m] = G[<<m, f>>]
    <2>1. Causal(G, N, BOOLEAN)
      BY <1>3, <1>4 DEF Causal
    <2>2. BOOLEAN # {}
      OBVIOUS
    <2> HIDE DEF N
    <2>3. \E f : Solution(G, N, BOOLEAN, f)
      BY <1>0, <2>1, <2>2, Recursion
    <2> QED
      BY <2>3 DEF Solution
  <1>6. PICK f \in [1..N -> BOOLEAN] : \A m \in 1..N : f[m] = G[<<m, f>>]
    BY <1>5
  <1>7. f = [m \in 1..N |-> EndsAt(re, f, m)]
    <2>1. f = [m \in 1..N |-> f[m]]
      OBVIOUS
    <2>2. \A m \in 1..N : f[m] = EndsAt(re, f, m)
      BY <1>2, <1>6
    <2> QED
      BY <2>1, <2>2
  <1>8. b = CHOOSE h : h = [m \in 1..N |-> EndsAt(re, h, m)]
    BY DEF endsWithAnchor, EndsAt
  <1> HIDE DEF b
  <1>9. b = [m \in 1..N |-> EndsAt(re, b, m)]
    BY <1>7, <1>8, Zenon
  <1>10. b[n] = EndsAt(re, b, n)
    BY <1>9
  <1> QED
    BY <1>10 DEF b

\* The parts of node n, if f says what each node of a tree matches.
PartsOf(re, f, n) == [k \in 1..Len(re[n].sub) |-> f[re[n].sub[k]]]

SpanSets(s) == SUBSET (Places(s) \X Places(s))

\* What a node matches are spans of the subject.
LEMMA MatchedType ==
    ASSUME NEW s \in Subjects, NEW node \in Node, NEW parts \in Seq(SpanSets(s)),
           node.op \in {"capture", "star"} => Len(parts) = 1
    PROVE  Matched(node, s, parts) \in SpanSets(s)
  <1>0. Len(s) \in Nat /\ 1 \in Places(s) /\ Len(s) + 1 \in Places(s) /\ Len(parts) \in Nat
    BY DEF Places
  <1>1. \A P \in SUBSET Places(s) : Here(P) \in SpanSets(s)
    BY DEF Here, SpanSets
  <1>2. \A k \in 1..Len(parts) : parts[k] \in SpanSets(s)
    OBVIOUS
  <1>3. {<<at, at + 1>> : at \in {at \in 1..Len(s) : s[at] = "x"}} \in SpanSets(s)
    BY <1>0 DEF SpanSets, Places
  <1>4. InTurn(s, parts) \in SpanSets(s)
    <2>1. 0 \in 0..Len(parts) /\ Len(parts) \in 0..Len(parts)
      BY <1>0
    <2> QED
      BY <2>1 DEF InTurn, SpanSets
  <1>5. UNION {parts[k] : k \in DOMAIN parts} \in SpanSets(s)
    BY <1>2 DEF SpanSets
  <1>6. \A part : Repeated(s, part) \in SpanSets(s)
    BY DEF Repeated, SpanSets
  <1>7. node.op \in {"capture", "star"} => parts[1] \in SpanSets(s)
    BY <1>2
  <1>8. {1} \in SUBSET Places(s) /\ {Len(s) + 1} \in SUBSET Places(s)
           /\ {at \in Places(s) : LineBegin(s, at)} \in SUBSET Places(s)
           /\ {at \in Places(s) : LineEnd(s, at)} \in SUBSET Places(s)
           /\ Places(s) \in SUBSET Places(s)
    BY <1>0
  <1>9. node.op \in Op
    BY DEF Node
  <1> HIDE DEF SpanSets
  <1> QED
    BY <1>1, <1>3, <1>4, <1>5, <1>6, <1>7, <1>8, <1>9 DEF Matched, Op

\* The equation of Spans.
LEMMA SpansEquation ==
    ASSUME NEW re \in Patterns, NEW s \in Subjects, NEW n \in 1..Len(re)
    PROVE  /\ Spans(re, s)[n] = Matched(re[n], s, PartsOf(re, Spans(re, s), n))
           /\ Spans(re, s) \in [1..Len(re) -> SpanSets(s)]
           /\ PartsOf(re, Spans(re, s), n) \in Seq(SpanSets(s))
           /\ Len(PartsOf(re, Spans(re, s), n)) = Len(re[n].sub)
  <1> DEFINE N == Len(re)
             S == SpanSets(s)
             At(f, m) == Matched(re[m], s, PartsOf(re, f, m))
             G == [x \in (1..N) \X [1..N -> S] |-> At(x[2], x[1])]
             b == Spans(re, s)
  <1>0. N \in Nat
    BY PartsBefore
  <1>1. ASSUME NEW m \in 1..N, NEW f \in [1..N -> S]
        PROVE  PartsOf(re, f, m) \in Seq(S) /\ Len(PartsOf(re, f, m)) = Len(re[m].sub)
    <2>1. Len(re[m].sub) \in Nat /\ \A k \in 1..Len(re[m].sub) : re[m].sub[k] \in 1..N
      BY PartsBefore
    <2>2. \A k \in 1..Len(re[m].sub) : f[re[m].sub[k]] \in S
      BY <2>1
    <2> HIDE DEF S
    <2> QED
      BY <2>1, <2>2 DEF PartsOf
  <1>2. ASSUME NEW m \in 1..N, NEW f \in [1..N -> S]
        PROVE  At(f, m) \in S
    <2>1. re[m] \in Node /\ (re[m].op \in {"capture", "star"} => Len(re[m].sub) = 1)
      BY PartsBefore
    <2> QED
      BY <1>1, <2>1, MatchedType
  <1>3. \A m \in 1..N : \A f \in [1..N -> S] : G[<<m, f>>] = At(f, m)
    OBVIOUS
  <1>4. G \in [(1..N) \X [1..N -> S] -> S]
    <2> HIDE DEF At, S
    <2> QED
      BY <1>2
  <1> HIDE DEF G
  <1>5. ASSUME NEW m \in 1..N, NEW f \in [1..N -> S], NEW g \in [1..N -> S],
               \A j \in 1..(m - 1) : f[j] = g[j]
        PROVE  G[<<m, f>>] = G[<<m, g>>]
    <2>1. \A k \in 1..Len(re[m].sub) : f[re[m].sub[k]] = g[re[m].sub[k]]
      BY <1>5, PartsBefore
    <2>2. PartsOf(re, f, m) = PartsOf(re, g, m)
      BY <2>1 DEF PartsOf
    <2> QED
      BY <1>3, <2>2
  <1>6. \E f \in [1..N -> S] : \A m \in 1..N : f[m] = G[<<m, f>>]
    <2>1. {} \in S
      BY DEF SpanSets
    <2> HIDE DEF N, S
    <2>2. Causal(G, N, S)
      BY <1>4, <1>5 DEF Causal
    <2>3. \E f : Solution(G, N, S, f)
      BY <1>0, <2>1, <2>2, Recursion
    <2> QED
      BY <2>3 DEF Solution
  <1>7. PICK f \in [1..N -> S] : \A m \in 1..N : f[m] = G[<<m, f>>]
    BY <1>6
  <1>8. f = [m \in 1..N |-> At(f, m)]
    <2>1. f = [m \in 1..N |-> f[m]]
      OBVIOUS
    <2>2. \A m \in 1..N : f[m] = At(f, m)
      BY <1>3, <1>7
    <2> HIDE DEF At
    <2> QED
      BY <2>1, <2>2
  <1>9. b = CHOOSE h : h = [m \in 1..N |-> At(h, m)]
    BY DEF Spans, PartsOf
  <1> HIDE DEF b
  <1>10. b = [m \in 1..N |-> At(b, m)]
    BY <1>8, <1>9, Zenon
  <1>11. b \in [1..N -> S]
    <2> DEFINE T == {m \in 1..N : b[m] \notin S}
    <2>1. T \subseteq Nat
      OBVIOUS
    <2> SUFFICES ASSUME T # {} PROVE FALSE
      <3> HIDE DEF At, S
      <3> QED
        BY <1>10
    <2>2. PICK m \in T : \A j \in T : m <= j
      <3> HIDE DEF T
      <3> QED
        BY <2>1, Least
    <2>3. \A k \in 1..Len(re[m].sub) : b[re[m].sub[k]] \in S
      <3>1. \A k \in 1..Len(re[m].sub) : re[m].sub[k] \in 1..(m - 1) /\ re[m].sub[k] \in 1..N
        BY PartsBefore
      <3> HIDE DEF S
      <3> QED
        BY <2>2, <3>1
    <2>4. re[m] \in Node /\ Len(re[m].sub) \in Nat
            /\ (re[m].op \in {"capture", "star"} => Len(re[m].sub) = 1)
      BY PartsBefore
    <2>5. PartsOf(re, b, m) \in Seq(S) /\ Len(PartsOf(re, b, m)) = Len(re[m].sub)
      <3> HIDE DEF S
      <3> QED
        BY <2>3, <2>4 DEF PartsOf
    <2>6. At(b, m) \in S
      BY <2>4, <2>5, MatchedType
    <2>7. b[m] = At(b, m)
      <3> HIDE DEF At
      <3> QED
        BY <1>10
    <2> QED
      BY <2>6, <2>7
  <1>12. b[n] = At(b, n)
    <2> HIDE DEF At
    <2> QED
      BY <1>10
  <1> QED
    BY <1>1, <1>11, <1>12 DEF b


\* A tree that beginsWithAnchor accepts matches only from the begin of a line,
\* and of the text if no ^ in it is that of a line.
LEMMA BeginsHold ==
    ASSUME NEW re \in Patterns, NEW s \in Subjects, NEW n \in 1..Len(re),
           beginsWithAnchor(re)[n], NEW m \in Spans(re, s)[n]
    PROVE  LineBegin(s, m[1]) /\ (~ ByLines(re) => m[1] = 1)
  <1> DEFINE Right(x) == LineBegin(s, x[1]) /\ (~ ByLines(re) => x[1] = 1)
             T == {k \in 1..Len(re) : beginsWithAnchor(re)[k] /\ \E x \in Spans(re, s)[k] : ~ Right(x)}
  <1> SUFFICES ASSUME T # {} PROVE FALSE
    OBVIOUS
  <1>1. T \subseteq Nat
    OBVIOUS
  <1>2. PICK k \in T : \A j \in T : k <= j
    <2> HIDE DEF T
    <2> QED
      BY <1>1, Least
  <1>3. PICK x \in Spans(re, s)[k] : ~ Right(x)
    OBVIOUS
  <1> DEFINE sub == re[k].sub
             parts == PartsOf(re, Spans(re, s), k)
  <1>4. /\ Len(s) \in Nat /\ k \in 1..Len(re) /\ beginsWithAnchor(re)[k]
        /\ sub \in Seq(Nat) /\ Len(sub) \in Nat
        /\ \A y \in 1..Len(sub) : sub[y] \in 1..(k - 1) /\ sub[y] \in 1..Len(re)
        /\ sub # <<>> => 1 \in 1..Len(sub) /\ Len(sub) \in 1..Len(sub)
        /\ re[k].op = "capture" => Len(sub) = 1
    BY PartsBefore
  <1>5. BeginsAt(re, beginsWithAnchor(re), k)
    BY <1>4, BeginsEquation
  <1>6. /\ x \in Matched(re[k], s, parts)
        /\ Len(parts) = Len(sub)
        /\ \A y \in 1..Len(sub) : parts[y] = Spans(re, s)[sub[y]]
    BY <1>3, <1>4, SpansEquation DEF PartsOf
  <1>7. ASSUME NEW y \in 1..Len(sub), beginsWithAnchor(re)[sub[y]], NEW z \in parts[y]
        PROVE  Right(z)
    <2>1. sub[y] \notin T
      <3> HIDE DEF T
      <3> QED
        BY <1>2, <1>4
    <2> HIDE DEF Right
    <2> QED
      BY <1>4, <1>6, <1>7, <2>1
  <1>8. CASE re[k].op = "begin_text"
    <2>1. Right(<<1, 1>>)
      BY <1>4 DEF LineBegin
    <2>2. x = <<1, 1>>
      BY <1>6, <1>8 DEF Matched, Here
    <2> HIDE DEF Right
    <2> QED
      BY <1>3, <2>1, <2>2
  <1>9. CASE re[k].op = "begin_line"
    <2>1. ByLines(re)
      BY <1>4, <1>9 DEF ByLines
    <2>2. PICK y \in Places(s) : LineBegin(s, y) /\ x = <<y, y>>
      BY <1>6, <1>9 DEF Matched, Here
    <2> QED
      BY <1>3, <2>1, <2>2
  <1>10. CASE re[k].op = "concat" /\ sub # <<>> /\ beginsWithAnchor(re)[sub[1]]
    <2>1. PICK c \in [0..Len(parts) -> Places(s)] :
             /\ \A y \in 1..Len(parts) : <<c[y - 1], c[y]>> \in parts[y]
             /\ x = <<c[0], c[Len(parts)]>>
      <3>1. x \in InTurn(s, parts)
        BY <1>6, <1>10 DEF Matched
      <3> HIDE DEF parts
      <3> QED
        BY <3>1 DEF InTurn
    <2>2. 1 \in 1..Len(sub) /\ 1 \in 1..Len(parts)
      BY <1>4, <1>6, <1>10
    <2>3. <<c[1 - 1], c[1]>> \in parts[1]
      BY <2>1, <2>2
    <2>4. Right(<<c[1 - 1], c[1]>>)
      <3> HIDE DEF Right, parts
      <3> QED
        BY <1>7, <1>10, <2>2, <2>3
    <2>5. x[1] = <<c[1 - 1], c[1]>>[1]
      BY <1>6, <2>1
    <2> QED
      BY <1>3, <2>4, <2>5
  <1>11. CASE re[k].op = "capture" /\ sub # <<>> /\ beginsWithAnchor(re)[sub[1]]
    <2>1. x \in parts[1] /\ 1 \in 1..Len(sub) /\ 1 = 1
      BY <1>4, <1>6, <1>11 DEF Matched
    <2>2. Right(x)
      <3> HIDE DEF Right, parts
      <3> QED
        BY <1>7, <1>11, <2>1
    <2> HIDE DEF Right
    <2> QED
      BY <1>3, <2>2
  <1> HIDE DEF Right, T, parts
  <1> QED
    BY <1>5, <1>8, <1>9, <1>10, <1>11 DEF BeginsAt

\* And one that endsWithAnchor accepts only up to the end of one.
LEMMA EndsHold ==
    ASSUME NEW re \in Patterns, NEW s \in Subjects, NEW n \in 1..Len(re),
           endsWithAnchor(re)[n], NEW m \in Spans(re, s)[n]
    PROVE  LineEnd(s, m[2]) /\ (~ ByLines(re) => m[2] = (Len(s) + 1))
  <1> DEFINE Right(x) == LineEnd(s, x[2]) /\ (~ ByLines(re) => x[2] = (Len(s) + 1))
             T == {k \in 1..Len(re) : endsWithAnchor(re)[k] /\ \E x \in Spans(re, s)[k] : ~ Right(x)}
  <1> SUFFICES ASSUME T # {} PROVE FALSE
    OBVIOUS
  <1>1. T \subseteq Nat
    OBVIOUS
  <1>2. PICK k \in T : \A j \in T : k <= j
    <2> HIDE DEF T
    <2> QED
      BY <1>1, Least
  <1>3. PICK x \in Spans(re, s)[k] : ~ Right(x)
    OBVIOUS
  <1> DEFINE sub == re[k].sub
             parts == PartsOf(re, Spans(re, s), k)
  <1>4. /\ Len(s) \in Nat /\ k \in 1..Len(re) /\ endsWithAnchor(re)[k]
        /\ sub \in Seq(Nat) /\ Len(sub) \in Nat
        /\ \A y \in 1..Len(sub) : sub[y] \in 1..(k - 1) /\ sub[y] \in 1..Len(re)
        /\ sub # <<>> => 1 \in 1..Len(sub) /\ Len(sub) \in 1..Len(sub)
        /\ re[k].op = "capture" => Len(sub) = 1
    BY PartsBefore
  <1>5. EndsAt(re, endsWithAnchor(re), k)
    BY <1>4, EndsEquation
  <1>6. /\ x \in Matched(re[k], s, parts)
        /\ Len(parts) = Len(sub)
        /\ \A y \in 1..Len(sub) : parts[y] = Spans(re, s)[sub[y]]
    BY <1>3, <1>4, SpansEquation DEF PartsOf
  <1>7. ASSUME NEW y \in 1..Len(sub), endsWithAnchor(re)[sub[y]], NEW z \in parts[y]
        PROVE  Right(z)
    <2>1. sub[y] \notin T
      <3> HIDE DEF T
      <3> QED
        BY <1>2, <1>4
    <2> HIDE DEF Right
    <2> QED
      BY <1>4, <1>6, <1>7, <2>1
  <1>8. CASE re[k].op = "end_text"
    <2>1. Right(<<(Len(s) + 1), (Len(s) + 1)>>)
      BY <1>4 DEF LineEnd
    <2>2. x = <<(Len(s) + 1), (Len(s) + 1)>>
      BY <1>6, <1>8 DEF Matched, Here
    <2> HIDE DEF Right
    <2> QED
      BY <1>3, <2>1, <2>2
  <1>9. CASE re[k].op = "end_line"
    <2>1. ByLines(re)
      BY <1>4, <1>9 DEF ByLines
    <2>2. PICK y \in Places(s) : LineEnd(s, y) /\ x = <<y, y>>
      BY <1>6, <1>9 DEF Matched, Here
    <2> QED
      BY <1>3, <2>1, <2>2
  <1>10. CASE re[k].op = "concat" /\ sub # <<>> /\ endsWithAnchor(re)[sub[Len(sub)]]
    <2>1. PICK c \in [0..Len(parts) -> Places(s)] :
             /\ \A y \in 1..Len(parts) : <<c[y - 1], c[y]>> \in parts[y]
             /\ x = <<c[0], c[Len(parts)]>>
      <3>1. x \in InTurn(s, parts)
        BY <1>6, <1>10 DEF Matched
      <3> HIDE DEF parts
      <3> QED
        BY <3>1 DEF InTurn
    <2>2. Len(sub) \in 1..Len(sub) /\ Len(sub) \in 1..Len(parts)
      BY <1>4, <1>6, <1>10
    <2>3. <<c[Len(sub) - 1], c[Len(sub)]>> \in parts[Len(sub)]
      BY <2>1, <2>2
    <2>4. Right(<<c[Len(sub) - 1], c[Len(sub)]>>)
      <3> HIDE DEF Right, parts
      <3> QED
        BY <1>7, <1>10, <2>2, <2>3
    <2>5. x[2] = <<c[Len(sub) - 1], c[Len(sub)]>>[2]
      BY <1>6, <2>1
    <2> QED
      BY <1>3, <2>4, <2>5
  <1>11. CASE re[k].op = "capture" /\ sub # <<>> /\ endsWithAnchor(re)[sub[Len(sub)]]
    <2>1. x \in parts[1] /\ 1 \in 1..Len(sub) /\ Len(sub) = 1
      BY <1>4, <1>6, <1>11 DEF Matched
    <2>2. Right(x)
      <3> HIDE DEF Right, parts
      <3> QED
        BY <1>7, <1>11, <2>1
    <2> HIDE DEF Right
    <2> QED
      BY <1>3, <2>2
  <1> HIDE DEF Right, T, parts
  <1> QED
    BY <1>5, <1>8, <1>9, <1>10, <1>11 DEF EndsAt

\* A pattern is matched only when its check is behind it.
AnchorsInv ==
    /\ pattern \in Patterns /\ subject \in Subjects
    /\ pc = "match" => requireAnchoredPattern(pattern)
    /\ spans # {} => /\ requireAnchoredPattern(pattern)
                     /\ spans = Spans(pattern, subject)[Len(pattern)]

\* Whatever a seal's pattern matches, it matches whole, for every tree that the
\* anchoring check accepts and every subject (MatchesWhole).
THEOREM PatternsMatchWhole == Spec => []MatchesWhole
  <1>1. Init => AnchorsInv
    BY DEF Init, AnchorsInv
  <1>2. AnchorsInv /\ [Next]_vars => AnchorsInv'
    <2> SUFFICES ASSUME AnchorsInv, [Next]_vars PROVE AnchorsInv'
      OBVIOUS
    <2>1. CASE Validate
      BY <2>1 DEF Validate, AnchorsInv
    <2>2. CASE MatchString
      BY <2>2 DEF MatchString, AnchorsInv
    <2>3. CASE UNCHANGED vars
      BY <2>3 DEF vars, AnchorsInv
    <2> QED
      BY <2>1, <2>2, <2>3 DEF Next, Over
  <1>3. AnchorsInv => MatchesWhole
    <2> SUFFICES ASSUME AnchorsInv, NEW m \in spans
                 PROVE  /\ LineBegin(subject, m[1]) /\ LineEnd(subject, m[2])
                        /\ ~ ByLines(pattern) => m = <<1, Len(subject) + 1>>
      BY DEF MatchesWhole
    <2>1. /\ pattern \in Patterns /\ subject \in Subjects
          /\ beginsWithAnchor(pattern)[Len(pattern)]
          /\ endsWithAnchor(pattern)[Len(pattern)]
          /\ m \in Spans(pattern, subject)[Len(pattern)]
          /\ Len(pattern) \in 1..Len(pattern)
      BY PartsBefore DEF AnchorsInv, requireAnchoredPattern
    <2>2. m \in Places(subject) \X Places(subject)
      <3>1. Spans(pattern, subject) \in [1..Len(pattern) -> SpanSets(subject)]
        BY <2>1, SpansEquation
      <3>2. Spans(pattern, subject)[Len(pattern)] \in SpanSets(subject)
        BY <2>1, <3>1
      <3> QED
        BY <2>1, <3>2 DEF SpanSets
    <2>3. LineBegin(subject, m[1]) /\ (~ ByLines(pattern) => m[1] = 1)
      BY <2>1, BeginsHold
    <2>4. LineEnd(subject, m[2]) /\ (~ ByLines(pattern) => m[2] = Len(subject) + 1)
      BY <2>1, EndsHold
    <2>5. m = <<m[1], m[2]>>
      BY <2>2
    <2> QED
      BY <2>3, <2>4, <2>5, Zenon
  <1> QED
    BY <1>1, <1>2, <1>3, PTL DEF Spec

----------------------------------------------------------------------------
(* Client addresses                                                        *)

Verdicts == {"parse", "serve", "judged", "refused"}

\* The prefixes are those of the entries the loop has passed, of each one that
\* is not blank, and none of them was malformed.
CidrInv ==
    /\ list \in Lists /\ i \in 1..(Len(list) + 1) /\ peer \in Addrs
    /\ out \in Seq({parseCIDROrIP(e) : e \in Entry})
    /\ stage \in Verdicts
    /\ \A n \in 1..(i - 1) : list[n].kind # "blank" =>
          /\ ~ BadEntry(list[n])
          /\ \E k \in 1..Len(out) : out[k] = parseCIDROrIP(list[n])
    /\ \A k \in 1..Len(out) : \E n \in 1..(i - 1) :
          list[n].kind # "blank" /\ out[k] = parseCIDROrIP(list[n])
    /\ stage \in {"serve", "judged"} => i = Len(list) + 1
    /\ stage = "judged" => (allowed <=> (out = <<>> \/ ipInPrefixes(peer, out)))

\* CidrInv holds of the loop of ParseAllowedClientCIDRs at every entry, for
\* every list.
LEMMA CidrInductive == CidrSpec => []CidrInv
  <1>1. CidrInit => CidrInv
    <2> SUFFICES ASSUME CidrInit PROVE CidrInv
      OBVIOUS
    <2>1. list \in Seq(Entry)
      BY ListsAssumption DEF CidrInit
    <2> QED
      BY <2>1 DEF CidrInit, CidrInv, Verdicts
  <1>2. CidrInv /\ [CidrNext]_cidrVars => CidrInv'
    <2> SUFFICES ASSUME CidrInv, [CidrNext]_cidrVars PROVE CidrInv'
      OBVIOUS
    <2>0. /\ list \in Seq(Entry) /\ Len(list) \in Nat
          /\ i \in Nat /\ i \in 1..(Len(list) + 1)
      BY ListsAssumption DEF CidrInv
    <2>1. CASE ParseEntry
      <3>1. /\ i \in 1..Len(list) /\ list' = list /\ peer' = peer /\ allowed' = allowed
            /\ stage = "parse" /\ list[i] \in Entry
        BY <2>0, <2>1 DEF ParseEntry
      <3>2. CASE list[i].kind # "blank" /\ BadEntry(list[i])
        BY <2>0, <2>1, <3>1, <3>2 DEF ParseEntry, CidrInv, Verdicts
      <3>3. CASE list[i].kind = "blank"
        <4>1. stage' = stage /\ i' = i + 1 /\ out' = out
          BY <2>1, <3>3 DEF ParseEntry
        <4>2. i' \in 1..(Len(list') + 1)
          BY <2>0, <3>1, <4>1
        <4>3. \A n \in 1..(i' - 1) : list[n].kind # "blank" => n \in 1..(i - 1)
          BY <2>0, <3>3, <4>1
        <4>4. \A n \in 1..(i - 1) : n \in 1..(i' - 1)
          BY <2>0, <4>1
        <4> QED
          BY <3>1, <4>1, <4>2, <4>3, <4>4 DEF CidrInv, Verdicts
      <3>4. CASE list[i].kind # "blank" /\ ~ BadEntry(list[i])
        <4> DEFINE new == parseCIDROrIP(list[i])
        <4>1. stage' = stage /\ i' = i + 1 /\ out' = Append(out, new)
          BY <2>1, <3>4 DEF ParseEntry
        <4>2. i' \in 1..(Len(list') + 1)
          BY <2>0, <3>1, <4>1
        <4>3. new \in {parseCIDROrIP(e) : e \in Entry}
          BY <3>1
        <4>4. out \in Seq({parseCIDROrIP(e) : e \in Entry})
          BY DEF CidrInv
        <4> HIDE DEF new
        <4>5. /\ out' \in Seq({parseCIDROrIP(e) : e \in Entry})
              /\ Len(out') = Len(out) + 1 /\ Len(out) \in Nat
              /\ \A k \in 1..Len(out) : out'[k] = out[k]
              /\ out'[Len(out) + 1] = new
          BY <4>1, <4>3, <4>4
        <4>6. ASSUME NEW n \in 1..(i' - 1), list[n].kind # "blank"
              PROVE  /\ ~ BadEntry(list[n])
                     /\ \E k \in 1..Len(out') : out'[k] = parseCIDROrIP(list[n])
          <5>1. CASE n = i
            <6>1. Len(out) + 1 \in 1..Len(out')
              BY <4>5
            <6> QED
              BY <3>4, <4>5, <5>1, <6>1 DEF new
          <5>2. CASE n # i
            <6>1. n \in 1..(i - 1)
              BY <2>0, <4>1, <5>2
            <6>2. PICK k \in 1..Len(out) : out[k] = parseCIDROrIP(list[n])
              BY <4>6, <6>1 DEF CidrInv
            <6>3. k \in 1..Len(out') /\ out'[k] = out[k]
              BY <4>5
            <6>4. ~ BadEntry(list[n])
              BY <4>6, <6>1 DEF CidrInv
            <6> QED
              BY <6>2, <6>3, <6>4
          <5> QED
            BY <5>1, <5>2
        <4>7. ASSUME NEW k \in 1..Len(out')
              PROVE  \E n \in 1..(i' - 1) :
                        list[n].kind # "blank" /\ out'[k] = parseCIDROrIP(list[n])
          <5>1. CASE k = Len(out) + 1
            <6>1. i \in 1..(i' - 1)
              BY <2>0, <3>1, <4>1
            <6> QED
              BY <3>4, <4>5, <5>1, <6>1 DEF new
          <5>2. CASE k # Len(out) + 1
            <6>1. k \in 1..Len(out) /\ out'[k] = out[k]
              BY <4>5, <5>2
            <6>2. PICK n \in 1..(i - 1) : list[n].kind # "blank" /\ out[k] = parseCIDROrIP(list[n])
              BY <6>1 DEF CidrInv
            <6>3. n \in 1..(i' - 1)
              BY <2>0, <4>1
            <6> QED
              BY <6>1, <6>2, <6>3
          <5> QED
            BY <5>1, <5>2
        <4> QED
          BY <3>1, <4>1, <4>2, <4>5, <4>6, <4>7 DEF CidrInv, Verdicts
      <3> QED
        BY <3>2, <3>3, <3>4
    <2>2. CASE ParseDone
      BY <2>0, <2>2 DEF ParseDone, CidrInv, Verdicts
    <2>3. CASE Judge
      BY <2>3 DEF Judge, CidrInv, Verdicts
    <2>4. CASE UNCHANGED cidrVars
      BY <2>4 DEF cidrVars, CidrInv
    <2> QED
      BY <2>1, <2>2, <2>3, <2>4 DEF CidrNext, CidrOver
  <1> QED
    BY <1>1, <1>2, PTL DEF CidrSpec

\* An address has the bits of its family.
LEMMA AddrType ==
    ASSUME NEW a \in Addrs
    PROVE  /\ a.fam \in {4, 6} /\ a.zone \in BOOLEAN
           /\ a.bits \in [1..Width(a.fam) -> Bit]
           /\ a = [fam |-> a.fam, bits |-> a.bits, zone |-> a.zone]
           /\ a.fam = 4 => ~ a.zone
           /\ a.zone => ~ Is4In6(a)
  <1>1. CASE a \in [fam : {4}, bits : [1..W4 -> Bit], zone : {FALSE}]
    <2>1. a.fam = 4 /\ a.zone = FALSE /\ a.bits \in [1..W4 -> Bit]
      BY <1>1
    <2>2. a = [fam |-> a.fam, bits |-> a.bits, zone |-> a.zone]
      BY <1>1
    <2> QED
      BY <2>1, <2>2 DEF Width, Is4In6
  <1>2. CASE a \in [fam : {6}, bits : [1..W6 -> Bit], zone : BOOLEAN] /\ (a.zone => ~ Is4In6(a))
    <2>1. a.fam = 6 /\ a.zone \in BOOLEAN /\ a.bits \in [1..W6 -> Bit]
      BY <1>2
    <2>2. a = [fam |-> a.fam, bits |-> a.bits, zone |-> a.zone]
      BY <1>2
    <2> QED
      BY <1>2, <2>1, <2>2 DEF Width
  <1> QED
    BY <1>1, <1>2 DEF Addrs

\* Unmap gives an address that no Unmap changes, of the family it names.
LEMMA UnmapType ==
    ASSUME NEW a \in Addrs
    PROVE  /\ Unmap(a) \in Addrs /\ Unmap(Unmap(a)) = Unmap(a)
           /\ Unmap(a).zone = a.zone
           /\ Unmap(a).fam = IF Is4In6(a) THEN 4 ELSE a.fam
           /\ ~ Is4In6(a) => Unmap(a) = a
  <1>1. CASE Is4In6(a)
    <2> DEFINE low == [k \in 1..W4 |-> a.bits[W6 - W4 + k]]
    <2>1. a.fam = 6 /\ a.bits \in [1..W6 -> Bit] /\ ~ a.zone
      BY <1>1, AddrType DEF Is4In6, Width
    <2>2. \A k \in 1..W4 : W6 - W4 + k \in 1..W6
      BY WidthAssumption
    <2>3. low \in [1..W4 -> Bit]
      BY <2>1, <2>2
    <2> HIDE DEF low
    <2>4. Unmap(a) = [fam |-> 4, bits |-> low, zone |-> FALSE]
      BY <1>1 DEF Unmap, low
    <2>5. Unmap(a) \in Addrs
      BY <2>3, <2>4 DEF Addrs
    <2> DEFINE u == Unmap(a)
    <2>6. u.fam = 4 /\ u.zone = FALSE
      BY <2>4
    <2> HIDE DEF u
    <2>7. Unmap(u) = u
      BY <2>6 DEF Unmap, Is4In6
    <2>8. a.zone = FALSE
      BY <2>1, AddrType
    <2>9. Unmap(a).zone = a.zone
      BY <2>6, <2>8, Zenon DEF u
    <2> QED
      BY <1>1, <2>1, <2>5, <2>6, <2>7, <2>9 DEF u
  <1>2. CASE ~ Is4In6(a)
    BY <1>2 DEF Unmap
  <1> QED
    BY <1>1, <1>2

\* Two addresses of one family that begin with the same bits, all of them,
\* differ in their zones at most.
LEMMA SameAll ==
    ASSUME NEW a \in Addrs, NEW b \in Addrs, a.fam = b.fam, ~ a.zone, ~ b.zone,
           SameBits(a.bits, b.bits, Width(a.fam))
    PROVE  a = b
  <1>1. /\ a.bits \in [1..Width(a.fam) -> Bit] /\ b.bits \in [1..Width(a.fam) -> Bit]
        /\ a = [fam |-> a.fam, bits |-> a.bits, zone |-> a.zone]
        /\ b = [fam |-> b.fam, bits |-> b.bits, zone |-> b.zone]
        /\ a.zone \in BOOLEAN /\ b.zone \in BOOLEAN
    BY AddrType
  <1>2. a.bits = b.bits
    <2>1. \A k \in 1..Width(a.fam) : a.bits[k] = b.bits[k]
      BY DEF SameBits
    <2>2. a.bits = [k \in 1..Width(a.fam) |-> a.bits[k]]
      BY <1>1
    <2>3. b.bits = [k \in 1..Width(a.fam) |-> b.bits[k]]
      BY <1>1
    <2>4. [k \in 1..Width(a.fam) |-> a.bits[k]] = [k \in 1..Width(a.fam) |-> b.bits[k]]
      BY <2>1
    <2> QED
      BY <2>2, <2>3, <2>4
  <1>3. a.zone = b.zone
    BY <1>1
  <1> QED
    BY <1>1, <1>2, <1>3

\* What a well-formed entry lets in: with no zone, an address in the range the
\* entry names, in either notation, unless the entry is a prefix of the other.
LEMMA EntryContains ==
    ASSUME NEW e \in Entry, e.kind # "blank", ~ BadEntry(e), NEW a \in Addrs
    PROVE  Contains(parseCIDROrIP(e), Unmap(a)) <=>
             /\ ~ a.zone
             /\ \E b \in Named(e) : Unmap(b) = Unmap(a)
             /\ e.kind = "cidr" => e.addr.fam = Unmap(a).fam
  <1> DEFINE u == Unmap(a)
             p == parseCIDROrIP(e)
  <1>0. /\ e.addr \in Addrs /\ e.bits \in Nat /\ e.kind \in {"cidr", "ip"}
        /\ u \in Addrs /\ Unmap(u) = u /\ u.zone = a.zone
    BY UnmapType DEF Entry, BadEntry
  <1> HIDE DEF u, p
  <1>1. CASE e.kind = "cidr"
    <2> DEFINE net == [k \in DOMAIN e.addr.bits |-> IF k <= e.bits THEN e.addr.bits[k] ELSE 0]
    <2>1. ~ e.addr.zone /\ e.bits <= Width(e.addr.fam)
      <3>1. ~ (e.addr.zone \/ e.bits > Width(e.addr.fam))
        BY <1>1 DEF BadEntry
      <3>2. Width(e.addr.fam) \in Nat
        BY WidthAssumption DEF Width
      <3> QED
        BY <1>0, <3>1, <3>2
    <2>2. DOMAIN e.addr.bits = 1..Width(e.addr.fam) /\ Width(e.addr.fam) \in Nat
      BY <1>0, AddrType, WidthAssumption DEF Width
    <2>3. p = [fam |-> e.addr.fam, net |-> net, bits |-> e.bits,
               valid |-> e.bits <= Width(e.addr.fam)]
      <3>1. e.addr = [fam |-> e.addr.fam, bits |-> e.addr.bits, zone |-> e.addr.zone]
        BY <1>0, AddrType
      <3>2. [e.addr EXCEPT !.bits = net].fam = e.addr.fam /\ [e.addr EXCEPT !.bits = net].bits = net
        BY <3>1
      <3> QED
        BY <1>1, <3>2 DEF p, parseCIDROrIP, Masked, PrefixFrom
    <2>4. \A k \in 1..e.bits : net[k] = e.addr.bits[k]
      BY <1>0, <2>1, <2>2
    <2> HIDE DEF net
    <2>5. Contains(p, u) <=> /\ ~ u.zone /\ e.addr.fam = u.fam
                             /\ SameBits(u.bits, e.addr.bits, e.bits)
      BY <2>1, <2>3, <2>4 DEF Contains, SameBits
    <2>6. ASSUME Contains(p, u) PROVE u \in Named(e)
      BY <1>0, <1>1, <2>5, <2>6 DEF Named
    <2>7. ASSUME NEW b \in Named(e), Unmap(b) = u, e.addr.fam = u.fam
          PROVE  SameBits(u.bits, e.addr.bits, e.bits)
      <3>1. b \in Addrs /\ b.fam = u.fam /\ SameBits(b.bits, e.addr.bits, e.bits)
        BY <1>1, <2>7 DEF Named
      <3>2. ~ Is4In6(b)
        BY <2>7, <3>1, UnmapType DEF Is4In6
      <3> QED
        BY <2>7, <3>1, <3>2, UnmapType
    <2> QED
      BY <1>0, <1>1, <2>5, <2>6, <2>7 DEF u, p
  <1>2. CASE e.kind = "ip"
    <2> DEFINE v == Unmap(e.addr)
               bare == [e.addr EXCEPT !.zone = FALSE]
    <2>1. v \in Addrs /\ v.fam \in {4, 6}
      BY <1>0, UnmapType, AddrType
    <2>2. p = [fam |-> v.fam, net |-> v.bits, bits |-> Width(v.fam), valid |-> TRUE]
      <3>1. Width(v.fam) = IF e.addr.fam = 6 /\ ~ Is4In6(e.addr) THEN W6 ELSE W4
        <4>1. e.addr.fam \in {4, 6}
          BY <1>0, AddrType
        <4>2. Is4In6(e.addr) => e.addr.fam = 6
          BY DEF Is4In6
        <4>3. v.fam = IF Is4In6(e.addr) THEN 4 ELSE e.addr.fam
          BY <1>0, UnmapType
        <4> HIDE DEF v
        <4> QED
          BY <4>1, <4>2, <4>3 DEF Width
      <3>2. Width(v.fam) <= Width(v.fam)
        BY WidthAssumption DEF Width
      <3> HIDE DEF v
      <3>3. p = PrefixFrom(v, Width(v.fam))
        BY <1>2, <3>1 DEF p, parseCIDROrIP, v
      <3> QED
        BY <3>2, <3>3 DEF PrefixFrom
    <2>3. Contains(p, u) <=> /\ ~ u.zone /\ v.fam = u.fam
                             /\ SameBits(u.bits, v.bits, Width(v.fam))
      BY <2>2 DEF Contains
    <2>4. bare \in Addrs /\ ~ bare.zone /\ bare.fam = e.addr.fam /\ bare.bits = e.addr.bits
      BY <1>0, AddrType DEF Addrs, Is4In6
    <2>5. Unmap(bare).fam = v.fam /\ Unmap(bare).bits = v.bits /\ Unmap(bare) \in Addrs
            /\ ~ Unmap(bare).zone
      <3>1. Is4In6(bare) <=> Is4In6(e.addr)
        BY <2>4 DEF Is4In6
      <3>2. Unmap(bare) \in Addrs /\ Unmap(bare).zone = bare.zone
        BY <2>4, UnmapType
      <3>3. Unmap(bare).fam = v.fam /\ Unmap(bare).bits = v.bits
        BY <2>4, <3>1 DEF Unmap
      <3> QED
        BY <2>4, <3>2, <3>3
    <2> HIDE DEF v, bare
    <2>6. ASSUME Contains(p, u)
          PROVE  \E b \in Named(e) : Unmap(b) = u
      <3>1. Unmap(bare) = u
        BY <1>0, <2>3, <2>5, <2>6, SameAll DEF SameBits
      <3>2. bare \in Named(e)
        BY <1>2, <2>4 DEF Named, SameBits
      <3> QED
        BY <3>1, <3>2
    <2>7. ASSUME NEW b \in Named(e), Unmap(b) = u, ~ u.zone
          PROVE  Contains(p, u)
      <3>1. /\ b \in Addrs /\ b.fam = bare.fam
            /\ SameBits(b.bits, bare.bits, Width(b.fam))
        BY <1>2, <2>4, <2>7 DEF Named
      <3>2. ~ b.zone
        BY <2>7, <3>1, UnmapType
      <3>3. b = bare
        BY <2>4, <3>1, <3>2, SameAll
      <3> QED
        BY <2>3, <2>5, <2>7, <3>3 DEF SameBits
    <2> QED
      BY <1>0, <1>2, <2>3, <2>6, <2>7 DEF u, p
  <1> QED
    BY <1>0, <1>1, <1>2

\* The ingress allowlist judges every address as the operator wrote it, for
\* every list and addresses of any width (ExactlyListed).
THEOREM ListIsExact == CidrSpec => []ExactlyListed
  <1>1. CidrInv => ExactlyListed
    <2> SUFFICES ASSUME CidrInv, stage = "judged"
                 PROVE  allowed <=>
                          \/ Written = {}
                          \/ /\ ~ peer.zone
                             /\ \E n \in Written :
                                  /\ \E b \in Named(list[n]) : Unmap(b) = Unmap(peer)
                                  /\ list[n].kind = "cidr" => list[n].addr.fam = Unmap(peer).fam
      BY DEF ExactlyListed
    <2>0. /\ list \in Seq(Entry) /\ peer \in Addrs /\ i - 1 = Len(list)
          /\ allowed <=> (out = <<>> \/ ipInPrefixes(peer, out))
          /\ Len(out) \in Nat /\ (out = <<>> <=> Len(out) = 0)
      BY ListsAssumption DEF CidrInv
    <2>1. ASSUME NEW n \in 1..Len(list), list[n].kind # "blank"
          PROVE  /\ n \in Written /\ list[n] \in Entry /\ ~ BadEntry(list[n])
                 /\ \E k \in 1..Len(out) : out[k] = parseCIDROrIP(list[n])
      <3>1. list[n] \in Entry
        BY <2>0
      <3>2. ~ BadEntry(list[n]) /\ \E k \in 1..Len(out) : out[k] = parseCIDROrIP(list[n])
        BY <2>0, <2>1 DEF CidrInv
      <3> QED
        BY <2>1, <3>1, <3>2 DEF Written, BadEntry, Entry
    <2>2. ASSUME NEW n \in Written
          PROVE  n \in 1..Len(list) /\ list[n].kind # "blank"
      BY <2>2 DEF Written
    <2>3. ASSUME NEW k \in 1..Len(out)
          PROVE  \E n \in 1..Len(list) :
                    list[n].kind # "blank" /\ out[k] = parseCIDROrIP(list[n])
      BY <2>0 DEF CidrInv
    <2>4. out = <<>> <=> Written = {}
      <3>1. ASSUME out = <<>> PROVE Written = {}
        <4>1. \A n \in Written : \E k \in 1..Len(out) : TRUE
          BY <2>1, <2>2
        <4>2. 1..Len(out) = {}
          BY <2>0, <3>1
        <4> QED
          BY <4>1, <4>2
      <3>2. ASSUME out # <<>> PROVE Written # {}
        <4>1. 1 \in 1..Len(out)
          BY <2>0, <3>2
        <4>2. PICK n \in 1..Len(list) : list[n].kind # "blank"
          BY <2>3, <4>1
        <4> QED
          BY <2>1, <4>2
      <3> QED
        BY <3>1, <3>2
    <2>5. ipInPrefixes(peer, out) <=>
             \E n \in Written : Contains(parseCIDROrIP(list[n]), Unmap(peer))
      BY <2>1, <2>2, <2>3 DEF ipInPrefixes
    <2>6. \A n \in Written :
             Contains(parseCIDROrIP(list[n]), Unmap(peer)) <=>
               /\ ~ peer.zone
               /\ \E b \in Named(list[n]) : Unmap(b) = Unmap(peer)
               /\ list[n].kind = "cidr" => list[n].addr.fam = Unmap(peer).fam
      BY <2>0, <2>1, <2>2, EntryContains
    <2> QED
      BY <2>0, <2>4, <2>5, <2>6
  <1> QED
    BY <1>1, CidrInductive, PTL

=============================================================================
