---------------------------- MODULE FilterCallProofs ----------------------------
(***************************************************************************)
(* What a chain of filters tests, for any filters, chained to each other in  *)
(* any way that ends: the flat sequence of a chain, which operator| extends   *)
(* at its end, is what a call goes through, whatever the deletions in between. *)
(***************************************************************************)
EXTENDS FilterGraphProofs

-------------------------------------------------------------------------------
(* The flat sequence of a chain. First, what FlattenSeq joins.                 *)

LEMMA Regroup ==
  ASSUME NEW a \in Seq(Filter), NEW b \in Seq(Filter), NEW c \in Seq(Filter)
  PROVE  (a \o b) \o c = a \o (b \o c)
OBVIOUS

LEMMA EmptyJoins ==
  ASSUME NEW a \in Seq(Filter)
  PROVE  a \o << >> = a /\ << >> \o a = a
OBVIOUS

LEMMA EmptyIsEmpty ==
  ASSUME NEW S, NEW s \in Seq(S), Len(s) = 0
  PROVE  s = << >>
OBVIOUS

LEMMA JoinIsSequence ==
  ASSUME NEW a \in Seq(Filter), NEW b \in Seq(Filter)
  PROVE  a \o b \in Seq(Filter)
OBVIOUS

\* f has the first sequences joined, one more at each position.
Joins(f, seqs, n) ==
  f = [i \in 1 .. n |-> IF i = 1 THEN seqs[i] ELSE f[i - 1] \o seqs[i]]

JoinsEach(f, seqs, n) ==
  \A i \in 1 .. n : f[i] = IF i = 1 THEN seqs[i] ELSE f[i - 1] \o seqs[i]

Agree(f, g, n) == \A i \in 1 .. n : f[i] = g[i]

\* Each element of such an f.
LEMMA JoinsAt ==
  ASSUME NEW n \in Nat, NEW seqs, NEW f, Joins(f, seqs, n)
  PROVE  JoinsEach(f, seqs, n)
<1>. SUFFICES ASSUME NEW i \in 1 .. n
              PROVE  f[i] = IF i = 1 THEN seqs[i] ELSE f[i - 1] \o seqs[i]
  BY DEF JoinsEach
<1>. DEFINE joined == [j \in 1 .. n |-> IF j = 1 THEN seqs[j] ELSE f[j - 1] \o seqs[j]]
<1>1. joined[i] = IF i = 1 THEN seqs[i] ELSE f[i - 1] \o seqs[i]
  OBVIOUS
<1>2. f = joined
  BY DEF Joins
<1>. HIDE DEF joined
<1>. QED
  BY <1>1, <1>2, Zenon

LEMMA JoinOneMore ==
  ASSUME NEW k \in Nat \ {0}, NEW f, NEW seqs, Joins(f, seqs, k),
         \A i \in 1 .. k + 1 : seqs[i] \in Seq(Filter), \A i \in 1 .. k : f[i] \in Seq(Filter)
  PROVE  \E g \in [1 .. k + 1 -> Seq(Filter)] : Joins(g, seqs, k + 1)
<1>. DEFINE g == [i \in 1 .. k + 1 |-> IF i = k + 1 THEN f[k] \o seqs[k + 1] ELSE f[i]]
<1>1. \A i \in 1 .. k : f[i] = IF i = 1 THEN seqs[i] ELSE f[i - 1] \o seqs[i]
  BY JoinsAt DEF JoinsEach
<1>2. g \in [1 .. k + 1 -> Seq(Filter)]
  <2>1. f[k] \in Seq(Filter) /\ seqs[k + 1] \in Seq(Filter)
    OBVIOUS
  <2>2. f[k] \o seqs[k + 1] \in Seq(Filter)
    BY <2>1
  <2>3. \A i \in 1 .. k + 1 : i # k + 1 => i \in 1 .. k
    OBVIOUS
  <2>. QED
    BY <2>2, <2>3
<1>3. ASSUME NEW i \in 1 .. k + 1
      PROVE  g[i] = IF i = 1 THEN seqs[i] ELSE g[i - 1] \o seqs[i]
  <2>1. CASE i = k + 1
    <3>1. i - 1 = k /\ k \in 1 .. k + 1 /\ k # k + 1 /\ i # 1
      BY <2>1
    <3>. QED
      BY <2>1, <3>1
  <2>2. CASE i # k + 1
    <3>1. i \in 1 .. k /\ (i # 1 => i - 1 \in 1 .. k + 1 /\ i - 1 # k + 1)
      BY <2>2
    <3>. QED
      BY <2>2, <3>1, <1>1
  <2>. QED
    BY <2>1, <2>2
<1>4. Joins(g, seqs, k + 1)
  <2>1. g = [i \in 1 .. k + 1 |-> g[i]]
    OBVIOUS
  <2>. HIDE DEF g
  <2>. QED
    BY <1>3, <2>1 DEF Joins
<1>. QED
  BY <1>2, <1>4

\* FlattenSeq chooses such an f: there is one, and all of them agree.
LEMMA JoinExists ==
  ASSUME NEW n \in Nat, NEW seqs, \A i \in 1 .. n : seqs[i] \in Seq(Filter)
  PROVE  \E f \in [1 .. n -> Seq(Filter)] : Joins(f, seqs, n)
<1>. DEFINE Exist(m) == \E f \in [1 .. m -> Seq(Filter)] : Joins(f, seqs, m)
            never == {m \in 1 .. n : ~Exist(m)}
<1>1. CASE n = 0
  <2>. DEFINE f == [i \in 1 .. n |-> seqs[i]]
  <2>1. f \in [1 .. n -> Seq(Filter)] /\ Joins(f, seqs, n)
    BY <1>1 DEF Joins
  <2>. QED
    BY <2>1
<1>2. ASSUME never # {} PROVE FALSE
  <2>1. PICK m \in never : \A k \in never : m <= k
    <3>1. never \in SUBSET Nat
      OBVIOUS
    <3>. HIDE DEF never
    <3>. QED
      BY <1>2, <3>1, LeastNatural
  <2>2. CASE m = 1
    <3>1. LET f == [i \in 1 .. 1 |-> seqs[1]] IN
            f \in [1 .. m -> Seq(Filter)] /\ Joins(f, seqs, m)
      BY <2>1, <2>2 DEF Joins
    <3>. QED
      BY <2>1, <3>1
  <2>3. CASE m # 1
    <3>. HIDE DEF Exist
    <3>1. m - 1 \in 1 .. n /\ Exist(m - 1) /\ m \in 1 .. n
      BY <2>1, <2>3
    <3>2. PICK k \in Nat \ {0} : k = m - 1
      BY <3>1
    <3>3. PICK f : f \in [1 .. k -> Seq(Filter)] /\ Joins(f, seqs, k)
      BY <3>1, <3>2 DEF Exist
    <3>4. \A i \in 1 .. k + 1 : seqs[i] \in Seq(Filter)
      BY <3>1, <3>2
    <3>5. \A i \in 1 .. k : f[i] \in Seq(Filter)
      BY <3>3
    <3>6. Exist(k + 1)
      BY <3>3, <3>5, <3>4, JoinOneMore DEF Exist
    <3>. QED
      BY <2>1, <3>1, <3>2, <3>6
  <2>. QED
    BY <2>2, <2>3
<1>3. CASE n # 0
  <2>. HIDE DEF Exist
  <2>1. Exist(n)
    BY <1>2, <1>3
  <2>. QED
    BY <2>1 DEF Exist
<1>. QED
  BY <1>1, <1>3

\* ... on what two sequences share.
LEMMA JoinsAgree ==
  ASSUME NEW m \in Nat, NEW n \in Nat, NEW s, NEW t, NEW f, NEW g, Joins(f, s, m), Joins(g, t, n),
         m <= n, Agree(s, t, m)
  PROVE  Agree(f, g, m)
<1>. DEFINE apart == {i \in 1 .. m : f[i] # g[i]}
<1>1. ASSUME apart # {} PROVE FALSE
  <2>1. PICK i \in apart : \A j \in apart : i <= j
    <3>1. apart \in SUBSET Nat
      OBVIOUS
    <3>. HIDE DEF apart
    <3>. QED
      BY <1>1, <3>1, LeastNatural
  <2>2. i \in 1 .. m /\ i \in 1 .. n /\ s[i] = t[i] /\ f[i] # g[i]
    BY <2>1 DEF Agree
  <2>3. i # 1 => f[i - 1] = g[i - 1]
    BY <2>1, <2>2
  <2>4. /\ f[i] = IF i = 1 THEN s[i] ELSE f[i - 1] \o s[i]
        /\ g[i] = IF i = 1 THEN t[i] ELSE g[i - 1] \o t[i]
    <3>1. JoinsEach(f, s, m) /\ JoinsEach(g, t, n)
      BY JoinsAt, Zenon
    <3>. QED
      BY <2>2, <3>1 DEF JoinsEach
  <2>. QED
    BY <2>2, <2>3, <2>4
<1>. QED
  BY <1>1 DEF Agree

LEMMA FlattenIsJoin ==
  ASSUME NEW seqs \in Seq(Seq(Filter)), NEW n, n = Len(seqs), NEW f, Joins(f, seqs, n)
  PROVE  FlattenSeq(seqs) = IF n = 0 THEN << >> ELSE f[n]
<1>1. n \in Nat
  OBVIOUS
<1>2. CASE n = 0
  <2>1. seqs = << >>
    BY <1>2, EmptyIsEmpty
  <2>. QED
    BY <1>1, <1>2, <2>1 DEF FlattenSeq
<1>3. CASE n # 0
  <2>. DEFINE flatten == CHOOSE h : Joins(h, seqs, n)
  <2>1. FlattenSeq(seqs) = flatten[n]
    BY <1>1, <1>3 DEF FlattenSeq, Joins
  <2>2. Joins(flatten, seqs, n)
    BY Zenon
  <2>. HIDE DEF flatten
  <2>3. n <= n /\ n \in 1 .. n /\ Agree(seqs, seqs, n)
    BY <1>1, <1>3 DEF Agree
  <2>4. Agree(flatten, f, n)
    BY <1>1, <2>2, <2>3, JoinsAgree, Zenon
  <2>5. flatten[n] = f[n]
    BY <2>3, <2>4 DEF Agree
  <2>. QED
    BY <2>1, <2>5, <1>3
<1>. QED
  BY <1>2, <1>3

LEMMA FlattenJoins ==
  ASSUME NEW seqs \in Seq(Seq(Filter)), NEW n, n = Len(seqs)
  PROVE  /\ n \in Nat
         /\ \E f : /\ Joins(f, seqs, n)
                   /\ \A i \in 1 .. n : f[i] \in Seq(Filter)
                   /\ FlattenSeq(seqs) = IF n = 0 THEN << >> ELSE f[n]
<1>1. n \in Nat /\ \A i \in 1 .. n : seqs[i] \in Seq(Filter)
  OBVIOUS
<1>2. PICK f \in [1 .. n -> Seq(Filter)] : Joins(f, seqs, n)
  BY <1>1, JoinExists
<1>3. FlattenSeq(seqs) = IF n = 0 THEN << >> ELSE f[n]
  BY <1>2, FlattenIsJoin
<1>. QED
  BY <1>1, <1>2, <1>3

LEMMA FlattenType ==
  ASSUME NEW seqs \in Seq(Seq(Filter))
  PROVE  FlattenSeq(seqs) \in Seq(Filter) /\ (Len(seqs) = 0 => FlattenSeq(seqs) = << >>)
<1>1. PICK n : n = Len(seqs)
  OBVIOUS
<1>2. PICK f : /\ \A i \in 1 .. n : f[i] \in Seq(Filter)
               /\ FlattenSeq(seqs) = IF n = 0 THEN << >> ELSE f[n]
  BY <1>1, FlattenJoins
<1>3. n \in Nat /\ << >> \in Seq(Filter)
  BY <1>1
<1>. QED
  BY <1>1, <1>2, <1>3

\* One sequence more is joined at the end.
LEMMA FlattenMore ==
  ASSUME NEW seqs \in Seq(Seq(Filter)), NEW first \in Seq(Seq(Filter)),
         Len(seqs) = Len(first) + 1, \A i \in 1 .. Len(first) : first[i] = seqs[i]
  PROVE  FlattenSeq(seqs) = FlattenSeq(first) \o seqs[Len(seqs)]
<1>1. PICK n \in Nat, m \in Nat : n = Len(first) /\ m = Len(seqs)
  <2>1. Len(first) \in Nat /\ Len(seqs) \in Nat
    OBVIOUS
  <2>. QED
    BY <2>1, Zenon
<1>2. m = n + 1 /\ n <= m /\ Agree(first, seqs, n) /\ seqs[m] \in Seq(Filter)
  BY <1>1 DEF Agree
<1>3. PICK f : Joins(f, first, n) /\ FlattenSeq(first) = IF n = 0 THEN << >> ELSE f[n]
  BY <1>1, FlattenJoins
<1>4. PICK g : Joins(g, seqs, m) /\ FlattenSeq(seqs) = IF m = 0 THEN << >> ELSE g[m]
  BY <1>1, FlattenJoins
<1>5. Agree(f, g, n)
  BY <1>2, <1>3, <1>4, JoinsAgree, Zenon
<1>6. g[m] = IF m = 1 THEN seqs[m] ELSE g[m - 1] \o seqs[m]
  <2>1. JoinsEach(g, seqs, m)
    BY <1>4, JoinsAt, Zenon
  <2>2. m \in 1 .. m
    BY <1>2
  <2>. QED
    BY <2>1, <2>2 DEF JoinsEach
<1>7. CASE n = 0
  <2>1. << >> \o seqs[m] = seqs[m]
    BY <1>2, EmptyJoins
  <2>. QED
    BY <1>1, <1>2, <1>3, <1>4, <1>6, <1>7, <2>1
<1>8. CASE n # 0
  <2>1. n \in 1 .. n /\ m - 1 = n /\ m # 1 /\ m # 0
    BY <1>2, <1>8
  <2>2. f[n] = g[n]
    BY <1>5, <2>1 DEF Agree
  <2>3. g[m] = g[n] \o seqs[m]
    BY <1>6, <2>1
  <2>4. FlattenSeq(seqs) = g[m] /\ FlattenSeq(first) = f[n]
    BY <1>3, <1>4, <1>8, <2>1
  <2>. QED
    BY <1>1, <2>2, <2>3, <2>4
<1>. QED
  BY <1>7, <1>8

-------------------------------------------------------------------------------
(* Flat sequences unfold: the recursion of FlatIn goes deep enough, because a    *)
(* path through the chains has at most as many filters as there are.            *)

Table == [Filter -> Seq(Filter)]

\* The flat sequences of what is chained to g, if F has the flat sequences.
Children(chains, F, g) == [i \in DOMAIN chains[g] |-> F[chains[g][i]]]

FlatOf(chains, F, g) == <<g>> \o FlattenSeq(Children(chains, F, g))

Unfolds(F, chains) == F \in Table /\ \A g \in Filter : F[g] = FlatOf(chains, F, g)

\* What is chained to a filter is less high.
Lower(height, chains) ==
  \A g \in Filter : \A i \in DOMAIN chains[g] : height[chains[g][i]] < height[g]

Falling(depth, chains) ==
  \A g \in Filter : \A i \in DOMAIN chains[g] : depth[g] < depth[chains[g][i]]

\* No filter is chained behind itself.
Ends(chains) == \E depth \in [Filter -> Nat] : Falling(depth, chains)

\* The height of a filter: how many lie as deep as it or deeper. There are no
\* more heights than filters.
LEMMA HeightExists ==
  ASSUME NEW chains \in Table, Ends(chains)
  PROVE  /\ Cardinality(Filter) \in Nat
         /\ \E height \in [Filter -> 1 .. Cardinality(Filter)] : Lower(height, chains)
<1>0. PICK depth \in [Filter -> Nat] :
        \A g \in Filter : \A i \in DOMAIN chains[g] : depth[g] < depth[chains[g][i]]
  BY DEF Ends, Falling
<1>. DEFINE below(g) == {f \in Filter : depth[g] <= depth[f]}
            height == [g \in Filter |-> Cardinality(below(g))]
<1>1. IsFiniteSet(Filter) /\ Cardinality(Filter) \in Nat
  BY ObjectsAssumption, FS_CardinalityType
<1>2. ASSUME NEW g \in Filter
      PROVE  /\ IsFiniteSet(below(g)) /\ Cardinality(below(g)) \in 1 .. Cardinality(Filter)
  <2>1. below(g) \subseteq Filter /\ g \in below(g)
    OBVIOUS
  <2>. HIDE DEF below
  <2>2. IsFiniteSet(below(g)) /\ Cardinality(below(g)) <= Cardinality(Filter)
    BY <1>1, <2>1, FS_Subset
  <2>3. Cardinality(below(g)) \in Nat /\ Cardinality(below(g)) # 0
    BY <2>1, <2>2, FS_CardinalityType, FS_EmptySet
  <2>. QED
    BY <1>1, <2>2, <2>3
<1>3. ASSUME NEW g \in Filter, NEW i \in DOMAIN chains[g]
      PROVE  height[chains[g][i]] < height[g]
  <2>1. PICK f \in Filter : f = chains[g][i]
    BY DEF Table
  <2>2. below(f) \subseteq below(g) /\ g \in below(g) /\ g \notin below(f)
    BY <1>0, <2>1
  <2>3. IsFiniteSet(below(g)) /\ IsFiniteSet(below(f))
    BY <1>2
  <2>. HIDE DEF below
  <2>4. Cardinality(below(f)) < Cardinality(below(g))
    <3>1. below(f) # below(g)
      BY <2>2
    <3>2. Cardinality(below(f)) <= Cardinality(below(g))
          /\ (Cardinality(below(f)) = Cardinality(below(g)) => below(f) = below(g))
      BY <2>2, <2>3, FS_Subset
    <3>3. Cardinality(below(f)) \in Nat /\ Cardinality(below(g)) \in Nat
      BY <2>3, FS_CardinalityType
    <3>. QED
      BY <3>1, <3>2, <3>3
  <2>. QED
    BY <2>1, <2>4
<1>4. height \in [Filter -> 1 .. Cardinality(Filter)]
  <2>. HIDE DEF below
  <2>. QED
    BY <1>2
<1>. HIDE DEF height
<1>. QED
  BY <1>1, <1>3, <1>4 DEF Lower

LEMMA FlatOfType ==
  ASSUME NEW chains \in Table, NEW F \in Table, NEW g \in Filter
  PROVE  /\ FlatOf(chains, F, g) \in Seq(Filter)
         /\ Children(chains, F, g) \in Seq(Seq(Filter))
         /\ Len(Children(chains, F, g)) = Len(chains[g])
<1>1. /\ Children(chains, F, g) \in Seq(Seq(Filter))
      /\ Len(Children(chains, F, g)) = Len(chains[g])
  <2>1. chains[g] \in Seq(Filter)
    BY DEF Table
  <2>2. PICK n \in Nat : n = Len(chains[g]) /\ DOMAIN chains[g] = 1 .. n
    BY <2>1
  <2>3. \A i \in 1 .. n : F[chains[g][i]] \in Seq(Filter)
    BY <2>1, <2>2 DEF Table
  <2>4. Children(chains, F, g) = [i \in 1 .. n |-> F[chains[g][i]]]
    BY <2>2, Zenon DEF Children
  <2>. QED
    BY <2>2, <2>3, <2>4
<1>2. FlattenSeq(Children(chains, F, g)) \in Seq(Filter)
  BY <1>1, FlattenType
<1>3. <<g>> \in Seq(Filter)
  OBVIOUS
<1>4. <<g>> \o FlattenSeq(Children(chains, F, g)) \in Seq(Filter)
  BY <1>2, <1>3, JoinIsSequence
<1>5. FlatOf(chains, F, g) \in Seq(Filter)
  BY <1>4, Zenon DEF FlatOf
<1>. QED
  BY <1>1, <1>5

\* Only the sequences of the children matter.
LEMMA FlatOfAgrees ==
  ASSUME NEW chains, NEW F, NEW G, NEW g,
         \A i \in DOMAIN chains[g] : F[chains[g][i]] = G[chains[g][i]]
  PROVE  FlatOf(chains, F, g) = FlatOf(chains, G, g)
<1>1. Children(chains, F, g) = Children(chains, G, g)
  BY DEF Children
<1>. QED
  BY <1>1 DEF FlatOf

\* The recursion of FlatIn, down to n.
Levels(flat, chains, n) ==
  flat = [m \in 0 .. n |->
            [g \in Filter |->
               IF m = 0 THEN << >>
               ELSE <<g>> \o FlattenSeq([i \in DOMAIN chains[g] |-> flat[m - 1][chains[g][i]]])]]

LevelAt(flat, chains, m) ==
  flat[m] = [g \in Filter |-> IF m = 0 THEN << >> ELSE FlatOf(chains, flat[m - 1], g)]

LEMMA LevelsAt ==
  ASSUME NEW n \in Nat, NEW chains, NEW flat
  PROVE  /\ Levels(flat, chains, n) => \A m \in 0 .. n : LevelAt(flat, chains, m)
         /\ (/\ flat = [m \in 0 .. n |-> flat[m]]
             /\ \A m \in 0 .. n : LevelAt(flat, chains, m)) => Levels(flat, chains, n)
<1>. DEFINE level(m) == [g \in Filter |-> IF m = 0 THEN << >> ELSE FlatOf(chains, flat[m - 1], g)]
            levels == [m \in 0 .. n |-> level(m)]
<1>1. Levels(flat, chains, n) <=> flat = levels
  BY DEF Levels, FlatOf, Children
<1>2. \A m \in 0 .. n : LevelAt(flat, chains, m) <=> flat[m] = level(m)
  BY DEF LevelAt
<1>. HIDE DEF level
<1>3. \A m \in 0 .. n : levels[m] = level(m)
  OBVIOUS
<1>4. ASSUME flat = levels, NEW m \in 0 .. n PROVE flat[m] = level(m)
  BY <1>3, <1>4, Zenon
<1>5. ASSUME flat = [m \in 0 .. n |-> flat[m]], \A m \in 0 .. n : flat[m] = level(m)
      PROVE  flat = levels
  BY <1>5
<1>. QED
  BY <1>1, <1>2, <1>4, <1>5

\* The recursion defines a function, although it is given as a CHOOSE.
LEMMA LevelsExist ==
  ASSUME NEW n \in Nat, NEW chains
  PROVE  \E flat : Levels(flat, chains, n)
<1>. DEFINE Exist(m) == \E flat : Levels(flat, chains, m)
            never == {m \in 0 .. n : ~Exist(m)}
<1>1. Exist(0)
  <2>. DEFINE flat == [m \in 0 .. 0 |-> [g \in Filter |-> << >>]]
  <2>1. flat = [m \in 0 .. 0 |-> flat[m]] /\ \A m \in 0 .. 0 : LevelAt(flat, chains, m)
    BY DEF LevelAt
  <2>. HIDE DEF flat
  <2>. QED
    BY <2>1, LevelsAt
<1>2. ASSUME NEW m \in Nat, Exist(m) PROVE Exist(m + 1)
  <2>1. PICK f : Levels(f, chains, m)
    BY <1>2
  <2>2. \A l \in 0 .. m : LevelAt(f, chains, l)
    BY <2>1, LevelsAt
  <2>. DEFINE top == [g \in Filter |-> FlatOf(chains, f[m], g)]
              flat == [l \in 0 .. m + 1 |-> IF l = m + 1 THEN top ELSE f[l]]
  <2>3. flat = [l \in 0 .. m + 1 |-> flat[l]]
    OBVIOUS
  <2>4. ASSUME NEW l \in 0 .. m + 1 PROVE LevelAt(flat, chains, l)
    <3>. HIDE DEF top
    <3>1. CASE l = m + 1
      <4>1. flat[l] = top /\ flat[l - 1] = f[m] /\ l # 0
        BY <3>1
      <4>. HIDE DEF flat
      <4>. QED
        BY <4>1 DEF LevelAt, top
    <3>2. CASE l # m + 1
      <4>1. l \in 0 .. m /\ flat[l] = f[l] /\ (l # 0 => flat[l - 1] = f[l - 1])
        BY <3>2
      <4>2. LevelAt(f, chains, l)
        BY <2>2, <4>1
      <4>. HIDE DEF flat
      <4>. QED
        BY <4>1, <4>2 DEF LevelAt
    <3>. QED
      BY <3>1, <3>2
  <2>5. Levels(flat, chains, m + 1)
    <3>1. PICK k \in Nat : k = m + 1
      OBVIOUS
    <3>. HIDE DEF flat
    <3>. QED
      BY <2>3, <2>4, <3>1, LevelsAt
  <2>. QED
    BY <2>5
<1>. HIDE DEF Exist
<1>3. ASSUME never # {} PROVE FALSE
  <2>1. PICK m \in never : \A j \in never : m <= j
    <3>1. never \in SUBSET Nat
      OBVIOUS
    <3>. HIDE DEF never
    <3>. QED
      BY <1>3, <3>1, LeastNatural
  <2>2. PICK j \in 0 .. n : j + 1 = m
    BY <1>1, <2>1
  <2>3. Exist(j)
    BY <2>1, <2>2
  <2>. QED
    BY <1>2, <2>1, <2>2, <2>3
<1>. QED
  BY <1>3 DEF Exist

LEMMA FlatIsLevel ==
  ASSUME NEW chains, NEW n \in Nat, n = Cardinality(Filter)
  PROVE  \E flat : /\ FlatIn(chains) = flat[n]
                   /\ \A m \in 0 .. n : LevelAt(flat, chains, m)
<1>. DEFINE flat == CHOOSE f : Levels(f, chains, n)
<1>1. FlatIn(chains) = flat[n]
  BY DEF FlatIn, Levels
<1>2. Levels(flat, chains, n)
  BY LevelsExist, Zenon
<1>. HIDE DEF flat
<1>. QED
  BY <1>1, <1>2, LevelsAt

LEMMA LevelTypes ==
  ASSUME NEW chains \in Table, NEW n \in Nat, NEW flat, \A m \in 0 .. n : LevelAt(flat, chains, m)
  PROVE  \A m \in 0 .. n : flat[m] \in Table
<1>. DEFINE wrong == {m \in 0 .. n : flat[m] \notin Table}
<1>1. ASSUME wrong # {} PROVE FALSE
  <2>1. PICK m \in wrong : \A j \in wrong : m <= j
    <3>1. wrong \in SUBSET Nat
      OBVIOUS
    <3>. HIDE DEF wrong
    <3>. QED
      BY <1>1, <3>1, LeastNatural
  <2>2. m \in 0 .. n /\ LevelAt(flat, chains, m) /\ flat[m] \notin Table
    BY <2>1
  <2>3. CASE m = 0
    <3>1. flat[m] = [g \in Filter |-> << >>]
      BY <2>2, <2>3 DEF LevelAt
    <3>. QED
      BY <2>2, <3>1 DEF Table
  <2>4. CASE m # 0
    <3>1. flat[m - 1] \in Table
      BY <2>1, <2>2, <2>4
    <3>2. PICK F \in Table : F = flat[m - 1]
      BY <3>1
    <3>3. flat[m] = [g \in Filter |-> FlatOf(chains, F, g)]
      BY <2>2, <2>4, <3>2 DEF LevelAt
    <3>4. \A g \in Filter : FlatOf(chains, F, g) \in Seq(Filter)
      BY FlatOfType
    <3>. QED
      BY <2>2, <3>3, <3>4 DEF Table
  <2>. QED
    BY <2>3, <2>4
<1>. QED
  BY <1>1

\* From the level of its height on, the sequence of a filter does not change.
LEMMA FlatUnfolds ==
  ASSUME NEW chains \in Table, Ends(chains)
  PROVE  Unfolds(FlatIn(chains), chains)
<1>1. PICK n \in Nat : n = Cardinality(Filter)
  BY HeightExists
<1>2. PICK height \in [Filter -> 1 .. n] : Lower(height, chains)
  BY <1>1, HeightExists
<1>3. PICK flat : FlatIn(chains) = flat[n] /\ \A m \in 0 .. n : LevelAt(flat, chains, m)
  BY <1>1, FlatIsLevel
<1>4. \A m \in 0 .. n : flat[m] \in Table
  BY <1>3, LevelTypes
<1>5. ASSUME NEW m \in 1 .. n, NEW g \in Filter
      PROVE  flat[m][g] = FlatOf(chains, flat[m - 1], g)
  <2>1. LevelAt(flat, chains, m) /\ m # 0
    BY <1>3
  <2>2. flat[m] = [f \in Filter |-> FlatOf(chains, flat[m - 1], f)]
    BY <2>1 DEF LevelAt
  <2>. QED
    BY <2>2
<1>. DEFINE Stable(m) == \A g \in Filter : height[g] <= m => flat[m][g] = flat[m + 1][g]
            unstable == {m \in 0 .. n - 1 : ~Stable(m)}
<1>6. ASSUME NEW m \in 1 .. n - 1, Stable(m - 1) PROVE Stable(m)
  <2>. SUFFICES ASSUME NEW g \in Filter, height[g] <= m
                PROVE  flat[m][g] = flat[m + 1][g]
    OBVIOUS
  <2>1. flat[m][g] = FlatOf(chains, flat[m - 1], g) /\ flat[m + 1][g] = FlatOf(chains, flat[m], g)
    BY <1>5
  <2>2. ASSUME NEW i \in DOMAIN chains[g]
        PROVE  flat[m - 1][chains[g][i]] = flat[m][chains[g][i]]
    <3>1. PICK f \in Filter : f = chains[g][i]
      BY DEF Table
    <3>2. height[f] < height[g]
      BY <1>2, <3>1 DEF Lower
    <3>3. height[f] <= m - 1
      BY <3>2
    <3>. QED
      BY <1>6, <3>1, <3>3
  <2>. QED
    BY <2>1, <2>2, FlatOfAgrees
<1>7. Stable(0)
  OBVIOUS
<1>. HIDE DEF Stable
<1>8. ASSUME unstable # {} PROVE FALSE
  <2>1. PICK m \in unstable : \A j \in unstable : m <= j
    <3>1. unstable \in SUBSET Nat
      OBVIOUS
    <3>. HIDE DEF unstable
    <3>. QED
      BY <1>8, <3>1, LeastNatural
  <2>2. m \in 1 .. n - 1 /\ Stable(m - 1)
    BY <1>7, <2>1
  <2>. QED
    BY <1>6, <2>1, <2>2
<1>9. ASSUME NEW g \in Filter PROVE flat[n][g] = FlatOf(chains, flat[n], g)
  <2>1. height[g] \in 1 .. n /\ n \in 1 .. n
    OBVIOUS
  <2>2. flat[n][g] = FlatOf(chains, flat[n - 1], g)
    BY <1>5, <2>1
  <2>3. ASSUME NEW i \in DOMAIN chains[g]
        PROVE  flat[n - 1][chains[g][i]] = flat[n][chains[g][i]]
    <3>1. PICK f \in Filter : f = chains[g][i]
      BY DEF Table
    <3>2. height[f] < height[g]
      BY <1>2, <3>1 DEF Lower
    <3>3. height[f] <= n - 1
      BY <3>2
    <3>4. Stable(n - 1)
      BY <1>8, <2>1
    <3>. QED
      BY <3>1, <3>3, <3>4 DEF Stable
  <2>. QED
    BY <2>2, <2>3, FlatOfAgrees
<1>. QED
  BY <1>3, <1>4, <1>9 DEF Unfolds

ClosedIn(chains, S) == \A g \in S : \A i \in DOMAIN chains[g] : chains[g][i] \in S

Same(old, new, S) == \A g \in S : new[g] = old[g]

(* Two chainings that agree on a set of filters closed under both have the same  *)
(* flat sequences there.                                                    *)
LEMMA UnfoldingsAgree ==
  ASSUME NEW old \in Table, NEW new, NEW F, NEW G, NEW S \in SUBSET Filter,
         Ends(old), Unfolds(F, old), Unfolds(G, new),
         Same(old, new, S), ClosedIn(old, S)
  PROVE  Same(F, G, S)
<1>1. PICK height \in [Filter -> 1 .. Cardinality(Filter)] : Lower(height, old)
  BY HeightExists
<1>. DEFINE apart == {g \in S : F[g] # G[g]}
            heights == {height[g] : g \in apart}
<1>2. ASSUME apart # {} PROVE FALSE
  <2>1. heights \in SUBSET Nat /\ heights # {}
    BY <1>2
  <2>. HIDE DEF heights
  <2>2. PICK m \in heights : \A n \in heights : m <= n
    BY <2>1, LeastNatural
  <2>3. PICK g \in apart : m = height[g]
    BY DEF heights
  <2>4. \A f \in apart : height[g] <= height[f]
    BY <2>2, <2>3 DEF heights
  <2>5. ASSUME NEW i \in DOMAIN old[g] PROVE F[old[g][i]] = G[old[g][i]]
    <3>1. PICK f \in S : f = old[g][i]
      BY DEF ClosedIn
    <3>2. height[f] < height[g]
      BY <1>1, <3>1 DEF Lower
    <3>3. height[f] \in Nat /\ height[g] \in Nat
      OBVIOUS
    <3>4. f \notin apart
      BY <2>4, <3>2, <3>3
    <3>. QED
      BY <3>1, <3>4
  <2>6. F[g] = FlatOf(old, F, g) /\ G[g] = FlatOf(new, G, g)
    BY DEF Unfolds
  <2>7. new[g] = old[g]
    BY DEF Same
  <2>8. FlatOf(new, G, g) = FlatOf(old, G, g)
    BY <2>7 DEF FlatOf, Children
  <2>9. FlatOf(old, F, g) = FlatOf(old, G, g)
    BY <2>5, FlatOfAgrees
  <2>. QED
    BY <2>6, <2>8, <2>9
<1>. QED
  BY <1>2 DEF Same

\* operator| extends the list of the left side at its end.
LEMMA OneChildMore ==
  ASSUME NEW F, \A f \in Filter : F[f] \in Seq(Filter), NEW list \in Seq(Filter), NEW right \in Filter
  PROVE  FlattenSeq([i \in DOMAIN Append(list, right) |-> F[Append(list, right)[i]]])
           = FlattenSeq([i \in DOMAIN list |-> F[list[i]]]) \o F[right]
<1>1. PICK longer \in Seq(Filter) : longer = Append(list, right)
  <2>1. Append(list, right) \in Seq(Filter)
    OBVIOUS
  <2>. QED
    BY <2>1, Zenon
<1>2. PICK n \in Nat : n = Len(list)
  OBVIOUS
<1>3. /\ Len(longer) = n + 1 /\ DOMAIN list = 1 .. n /\ DOMAIN longer = 1 .. n + 1
      /\ longer[n + 1] = right /\ \A i \in 1 .. n : longer[i] = list[i]
  BY <1>1, <1>2
<1>. DEFINE first == [i \in DOMAIN list |-> F[list[i]]]
            all == [i \in DOMAIN longer |-> F[longer[i]]]
<1>4. /\ first \in Seq(Seq(Filter)) /\ all \in Seq(Seq(Filter))
      /\ Len(first) = n /\ Len(all) = n + 1
      /\ \A i \in 1 .. n : first[i] = all[i]
      /\ all[n + 1] = F[right]
  BY <1>2, <1>3
<1>. HIDE DEF first, all
<1>5. Len(all) = Len(first) + 1 /\ \A i \in 1 .. Len(first) : first[i] = all[i]
  BY <1>4
<1>6. FlattenSeq(all) = FlattenSeq(first) \o all[Len(all)]
  BY <1>4, <1>5, FlattenMore
<1>7. FlattenSeq(all) = FlattenSeq(first) \o F[right]
  BY <1>4, <1>6
<1>. QED
  BY <1>1, <1>7, Zenon DEF first, all

Appended(old, new, left, right) == new = [old EXCEPT ![left] = Append(@, right)]

\* S has all that is chained to left, and left is not among it.
Beneath(chains, left, S) ==
  /\ S \in SUBSET Filter /\ left \notin S /\ ClosedIn(chains, S)
  /\ \A i \in DOMAIN chains[left] : chains[left][i] \in S

Behind(F, G, left, right) == G[left] = F[left] \o F[right]

\* What is chained behind left comes behind all that it had.
LEMMA AppendedFlat ==
  ASSUME NEW old \in Table, NEW new \in Table, NEW F, NEW G,
         Ends(old), Unfolds(F, old), Unfolds(G, new), NEW left \in Filter, NEW right \in Filter,
         NEW S, Beneath(old, left, S), right \in S, Appended(old, new, left, right)
  PROVE  Behind(F, G, left, right)
<1>0. /\ S \in SUBSET Filter /\ left \notin S /\ ClosedIn(old, S)
      /\ \A i \in DOMAIN old[left] : old[left][i] \in S
  BY DEF Beneath
<1>1. Same(old, new, S)
  BY <1>0 DEF Table, Same, Appended
<1>2. Same(F, G, S)
  BY <1>0, <1>1, UnfoldingsAgree, Zenon
<1>3. PICK list \in Seq(Filter) : list = old[left]
  BY DEF Table
<1>4. PICK longer : longer = Append(list, right)
  OBVIOUS
<1>5. new[left] = longer /\ \A i \in DOMAIN longer : longer[i] \in S
  BY <1>0, <1>3, <1>4 DEF Table, Appended
<1>6. \A i \in DOMAIN new[left] : F[new[left][i]] = G[new[left][i]]
  BY <1>2, <1>5, Zenon DEF Same
<1>7. /\ F[left] = FlatOf(old, F, left) /\ G[left] = FlatOf(new, G, left)
      /\ (\A f \in Filter : F[f] \in Seq(Filter))
  BY DEF Unfolds, Table
<1>8. G[left] = FlatOf(new, F, left)
  <2>1. FlatOf(new, F, left) = FlatOf(new, G, left)
    BY <1>6, FlatOfAgrees
  <2>. QED
    BY <1>7, <2>1, Zenon
<1>. DEFINE before == FlattenSeq([i \in DOMAIN list |-> F[list[i]]])
<1>9. FlatOf(new, F, left) = <<left>> \o (before \o F[right])
  <2>1. FlatOf(new, F, left) = <<left>> \o FlattenSeq([i \in DOMAIN longer |-> F[longer[i]]])
    BY <1>5, Zenon DEF FlatOf, Children
  <2>2. right \in Filter
    OBVIOUS
  <2>3. FlattenSeq([i \in DOMAIN longer |-> F[longer[i]]]) = before \o F[right]
    BY <1>4, <1>7, <2>2, OneChildMore, Zenon
  <2>. QED
    BY <2>1, <2>3, Zenon
<1>10. F[left] = <<left>> \o before
  BY <1>3, <1>7, Zenon DEF FlatOf, Children
<1>11. before \in Seq(Filter)
  <2>1. Children(old, F, left) \in Seq(Seq(Filter))
    BY FlatOfType DEF Unfolds
  <2>2. FlattenSeq(Children(old, F, left)) \in Seq(Filter)
    BY <2>1, FlattenType
  <2>. QED
    BY <1>3, <2>2, Zenon DEF Children
<1>. HIDE DEF before
<1>12. PICK a \in Seq(Filter) : a = <<left>>
  <2>1. <<left>> \in Seq(Filter)
    OBVIOUS
  <2>. QED
    BY <2>1
<1>13. PICK c \in Seq(Filter) : c = F[right]
  <2>1. right \in Filter
    OBVIOUS
  <2>. QED
    BY <1>7, <2>1, Zenon
<1>14. PICK b \in Seq(Filter) : b = before
  BY <1>11, Zenon
<1>15. (a \o b) \o c = a \o (b \o c)
  BY Regroup, Zenon
<1>. QED
  BY <1>8, <1>9, <1>10, <1>12, <1>13, <1>14, <1>15, Zenon DEF Behind

LEMMA BehindFlat ==
  ASSUME NEW old \in Table, Ends(old), NEW new \in Table, Ends(new),
         NEW R \in SUBSET Filter, ClosedIn(old, R), NEW left \in Filter, left \notin R,
         NEW right \in R, Appended(old, new, left, right)
  PROVE  Behind(FlatIn(old), FlatIn(new), left, right)
<1>1. Unfolds(FlatIn(old), old) /\ Unfolds(FlatIn(new), new)
  BY FlatUnfolds
<1>2. PICK S : right \in S /\ Beneath(old, left, S)
  <2>1. PICK depth \in [Filter -> Nat] : Falling(depth, old)
    BY DEF Ends
  <2>. DEFINE S == {f \in Filter : depth[left] < depth[f]} \cup R
  <2>2. S \in SUBSET Filter /\ left \notin S /\ right \in S
    OBVIOUS
  <2>3. ASSUME NEW g \in Filter, NEW i \in DOMAIN old[g] PROVE old[g][i] \in Filter
    <3>1. old[g] \in Seq(Filter)
      BY DEF Table
    <3>. QED
      BY <3>1
  <2>4. ASSUME NEW g \in S, NEW i \in DOMAIN old[g] PROVE old[g][i] \in S
    <3>1. CASE g \in R
      BY <3>1 DEF ClosedIn
    <3>2. CASE g \notin R
      <4>1. g \in Filter /\ depth[left] < depth[g] /\ depth[g] < depth[old[g][i]]
        BY <2>1, <3>2 DEF Falling
      <4>2. old[g][i] \in Filter
        BY <2>3, <4>1
      <4>3. depth[left] < depth[old[g][i]]
        BY <4>1, <4>2
      <4>. QED
        BY <4>2, <4>3
    <3>. QED
      BY <3>1, <3>2
  <2>5. \A i \in DOMAIN old[left] : old[left][i] \in S
    BY <2>1, <2>3 DEF Falling
  <2>. HIDE DEF S
  <2>. QED
    BY <2>2, <2>4, <2>5 DEF ClosedIn, Beneath
<1>3. right \in Filter
  OBVIOUS
<1>. QED
  BY <1>1, <1>2, <1>3, AppendedFlat

LEMMA ChainFlat ==
  ASSUME GraphInv, GraphInv', NEW v \in Variable, NEW a \in Variable, NEW b \in Variable, Chain(v, a, b)
  PROVE  Flat(ptr[v])' = Flat(ptr[a]) \o Flat(ptr[b])
<1>1. PICK left \in Filter, right \in Filter : left = ptr[a] /\ right = ptr[b]
  BY DEF Chain, GraphInv, TypeOK
<1>2. left \notin Reached({right}) /\ Appended(next_, next_', left, right) /\ ptr'[v] = left
  BY <1>1 DEF Chain, Chained, Appended, Refer, GraphInv, TypeOK
<1>3. PICK R \in SUBSET Filter : R = Reached({right})
  BY DEF Reached
<1>4. right \in R /\ Closed(R)
  BY <1>3, ReachedIsLeast DEF GraphInv, TypeOK
<1>5. PICK old \in Table : old = next_ /\ Ends(old)
  BY DEF GraphInv, TypeOK, Acyclic, Deeper, Falling, Table, Ends
<1>6. PICK new \in Table : new = next_' /\ Ends(new)
  BY DEF GraphInv, TypeOK, Acyclic, Deeper, Falling, Table, Ends
<1>7. ClosedIn(old, R)
  <2>. SUFFICES ASSUME NEW g \in R, NEW i \in DOMAIN old[g] PROVE old[g][i] \in R
    BY DEF ClosedIn
  <2>1. old[g] \in Seq(Filter) /\ ToSet(old[g]) \subseteq R
    BY <1>4, <1>5 DEF Closed, Table
  <2>. QED
    BY <2>1 DEF ToSet
<1>8. Behind(FlatIn(old), FlatIn(new), left, right)
  <2>1. Appended(old, new, left, right) /\ left \notin R
    BY <1>2, <1>3, <1>5, <1>6
  <2>. QED
    BY <1>4, <1>5, <1>6, <1>7, <2>1, BehindFlat
<1>. QED
  BY <1>1, <1>2, <1>5, <1>6, <1>8 DEF Flat, Behind

\* a | b tests what a tests and then what b tests, whatever the two share and
\* however they were built (operator| of filter.cpp).
THEOREM ChainsAreAppended == Spec => ChainAppends
<1>1. GraphInv /\ [Next]_vars => GraphInv'
  BY GraphStep
<1>2. ASSUME GraphInv, GraphInv'
      PROVE  [\A v, a, b \in Variable :
                Chain(v, a, b) => Flat(ptr[v])' = Flat(ptr[a]) \o Flat(ptr[b])]_vars
  BY <1>2, ChainFlat
<1>. QED
  BY <1>1, <1>2, GraphInvariant, PTL DEF ChainAppends

-------------------------------------------------------------------------------
(* What a call has still to do.                                             *)

\* The sequences from the i-th on, joined.
From(seqs, i) == FlattenSeq([j \in 1 .. Len(seqs) + 1 - i |-> seqs[j + i - 1]])

LEMMA FromSequences ==
  ASSUME NEW seqs \in Seq(Seq(Filter)), NEW i \in Nat \ {0}
  PROVE  /\ [j \in 1 .. Len(seqs) + 1 - i |-> seqs[j + i - 1]] \in Seq(Seq(Filter))
         /\ From(seqs, i) \in Seq(Filter)
         /\ i > Len(seqs) => From(seqs, i) = << >>
<1>. DEFINE part == [j \in 1 .. Len(seqs) + 1 - i |-> seqs[j + i - 1]]
<1>1. Len(seqs) \in Nat /\ \A j \in 1 .. Len(seqs) : seqs[j] \in Seq(Filter)
  OBVIOUS
<1>2. CASE i > Len(seqs)
  <2>1. part = << >>
    BY <1>1, <1>2
  <2>. HIDE DEF part
  <2>2. part \in Seq(Seq(Filter)) /\ Len(part) = 0
    BY <2>1
  <2>. QED
    BY <1>2, <2>2, FlattenType DEF From
<1>3. CASE ~(i > Len(seqs))
  <2>1. PICK n \in Nat : n = Len(seqs) + 1 - i
    <3>1. Len(seqs) + 1 - i \in Nat
      BY <1>1, <1>3
    <3>. QED
      BY <3>1, Zenon
  <2>2. \A j \in 1 .. n : seqs[j + i - 1] \in Seq(Filter)
    BY <1>1, <2>1
  <2>3. part = [j \in 1 .. n |-> seqs[j + i - 1]]
    BY <2>1, Zenon
  <2>4. part \in Seq(Seq(Filter))
    BY <2>2, <2>3
  <2>. HIDE DEF part
  <2>. QED
    BY <1>3, <2>4, FlattenType DEF From, part
<1>. QED
  BY <1>2, <1>3

\* The same sequence, joined from its first element on.
LEMMA FlattenHead ==
  ASSUME NEW n \in Nat, NEW seqs \in Seq(Seq(Filter)), Len(seqs) = n + 1
  PROVE  FlattenSeq(seqs) = seqs[1] \o FlattenSeq([j \in 1 .. n |-> seqs[j + 1]])
<1>. DEFINE first(m) == [j \in 1 .. m + 1 |-> seqs[j]]
            rest(m) == [j \in 1 .. m |-> seqs[j + 1]]
            Holds(m) == FlattenSeq(first(m)) = seqs[1] \o FlattenSeq(rest(m))
            never == {m \in 0 .. n : ~Holds(m)}
<1>1. ASSUME NEW m \in 0 .. n
      PROVE  /\ first(m) \in Seq(Seq(Filter)) /\ Len(first(m)) = m + 1
             /\ rest(m) \in Seq(Seq(Filter)) /\ Len(rest(m)) = m
             /\ seqs[m + 1] \in Seq(Filter) /\ seqs[1] \in Seq(Filter)
  OBVIOUS
<1>2. Holds(0)
  <2>1. /\ << >> \in Seq(Seq(Filter)) /\ Len(<< >>) = 0 /\ first(0) \in Seq(Seq(Filter)) /\ Len(first(0)) = 1
        /\ first(0)[1] = seqs[1] /\ rest(0) = << >> /\ seqs[1] \in Seq(Filter)
    BY <1>1
  <2>. HIDE DEF first, rest
  <2>2. FlattenSeq(<< >>) = << >>
    BY <2>1, FlattenType
  <2>3. FlattenSeq(first(0)) = FlattenSeq(<< >>) \o first(0)[1]
    <3>1. Len(first(0)) = Len(<< >>) + 1 /\ \A j \in 1 .. Len(<< >>) : << >>[j] = first(0)[j]
      BY <2>1
    <3>2. FlattenSeq(first(0)) = FlattenSeq(<< >>) \o first(0)[Len(first(0))]
      BY <2>1, <3>1, FlattenMore, Zenon
    <3>. QED
      BY <2>1, <3>2
  <2>4. << >> \o seqs[1] = seqs[1] /\ seqs[1] \o << >> = seqs[1]
    BY <2>1, EmptyJoins
  <2>. QED
    BY <2>1, <2>2, <2>3, <2>4, Zenon
<1>3. ASSUME NEW m \in 0 .. n, m + 1 \in 0 .. n, Holds(m) PROVE Holds(m + 1)
  <2>1. /\ \A j \in 1 .. m + 1 : first(m)[j] = first(m + 1)[j]
        /\ \A j \in 1 .. m : rest(m)[j] = rest(m + 1)[j]
        /\ first(m + 1)[m + 2] = seqs[m + 2] /\ rest(m + 1)[m + 1] = seqs[m + 2]
    BY <1>3
  <2>2. /\ first(m) \in Seq(Seq(Filter)) /\ Len(first(m)) = m + 1
        /\ rest(m) \in Seq(Seq(Filter)) /\ Len(rest(m)) = m
        /\ first(m + 1) \in Seq(Seq(Filter)) /\ Len(first(m + 1)) = m + 2
        /\ rest(m + 1) \in Seq(Seq(Filter)) /\ Len(rest(m + 1)) = m + 1
        /\ seqs[m + 2] \in Seq(Filter) /\ seqs[1] \in Seq(Filter)
    <3>1. (m + 1) + 1 = m + 2
      OBVIOUS
    <3>. HIDE DEF first, rest
    <3>. QED
      BY <1>1, <1>3, <3>1
  <2>. HIDE DEF first, rest
  <2>3. FlattenSeq(first(m + 1)) = FlattenSeq(first(m)) \o seqs[m + 2]
    <3>1. /\ Len(first(m + 1)) = Len(first(m)) + 1 /\ first(m + 1)[Len(first(m + 1))] = seqs[m + 2]
          /\ \A j \in 1 .. Len(first(m)) : first(m)[j] = first(m + 1)[j]
      BY <2>1, <2>2
    <3>2. FlattenSeq(first(m + 1)) = FlattenSeq(first(m)) \o first(m + 1)[Len(first(m + 1))]
      BY <2>2, <3>1, FlattenMore
    <3>. QED
      BY <3>1, <3>2, Zenon
  <2>4. FlattenSeq(rest(m + 1)) = FlattenSeq(rest(m)) \o seqs[m + 2]
    <3>1. /\ Len(rest(m + 1)) = Len(rest(m)) + 1 /\ rest(m + 1)[Len(rest(m + 1))] = seqs[m + 2]
          /\ \A j \in 1 .. Len(rest(m)) : rest(m)[j] = rest(m + 1)[j]
      BY <2>1, <2>2
    <3>2. FlattenSeq(rest(m + 1)) = FlattenSeq(rest(m)) \o rest(m + 1)[Len(rest(m + 1))]
      BY <2>2, <3>1, FlattenMore
    <3>. QED
      BY <3>1, <3>2, Zenon
  <2>5. PICK a \in Seq(Filter), b \in Seq(Filter), c \in Seq(Filter) :
          a = seqs[1] /\ b = FlattenSeq(rest(m)) /\ c = seqs[m + 2]
    <3>1. FlattenSeq(rest(m)) \in Seq(Filter)
      BY <2>2, FlattenType
    <3>. QED
      BY <2>2, <3>1
  <2>6. (a \o b) \o c = a \o (b \o c)
    BY Regroup, Zenon
  <2>. QED
    BY <1>3, <2>3, <2>4, <2>5, <2>6, Zenon
<1>. HIDE DEF Holds
<1>4. ASSUME never # {} PROVE FALSE
  <2>1. PICK m \in never : \A j \in never : m <= j
    <3>1. never \in SUBSET Nat
      OBVIOUS
    <3>. HIDE DEF never
    <3>. QED
      BY <1>4, <3>1, LeastNatural
  <2>2. PICK j \in 0 .. n : j + 1 = m
    BY <1>2, <2>1
  <2>3. Holds(j)
    BY <2>1, <2>2
  <2>. QED
    BY <1>3, <2>1, <2>2, <2>3
<1>5. Holds(n)
  BY <1>4
<1>6. first(n) = seqs
  OBVIOUS
<1>. HIDE DEF first
<1>. QED
  BY <1>5, <1>6, Zenon DEF Holds

LEMMA FromNext ==
  ASSUME NEW seqs \in Seq(Seq(Filter)), NEW i \in 1 .. Len(seqs)
  PROVE  From(seqs, i) = seqs[i] \o From(seqs, i + 1)
<1>. DEFINE part(k) == [j \in 1 .. Len(seqs) + 1 - k |-> seqs[j + k - 1]]
<1>1. PICK n \in Nat : n = Len(seqs) - i
  <2>1. Len(seqs) - i \in Nat
    OBVIOUS
  <2>. QED
    BY <2>1, Zenon
<1>2. Len(seqs) + 1 - i = n + 1 /\ Len(seqs) + 1 - (i + 1) = n /\ i \in Nat \ {0}
  BY <1>1
<1>3. part(i) \in Seq(Seq(Filter))
  BY <1>2, FromSequences
<1>4. Len(part(i)) = n + 1 /\ part(i)[1] = seqs[i]
  BY <1>2
<1>5. [j \in 1 .. n |-> part(i)[j + 1]] = part(i + 1)
  <2>1. \A j \in 1 .. n : part(i)[j + 1] = seqs[j + (i + 1) - 1]
    BY <1>2
  <2>2. part(i + 1) = [j \in 1 .. n |-> seqs[j + (i + 1) - 1]]
    BY <1>2
  <2>. HIDE DEF part
  <2>. QED
    BY <2>1, <2>2
<1>6. From(seqs, i) = FlattenSeq(part(i)) /\ From(seqs, i + 1) = FlattenSeq(part(i + 1))
  BY DEF From
<1>. HIDE DEF part
<1>7. FlattenSeq(part(i)) = part(i)[1] \o FlattenSeq([j \in 1 .. n |-> part(i)[j + 1]])
  BY <1>3, <1>4, FlattenHead
<1>. QED
  BY <1>4, <1>5, <1>6, <1>7, Zenon

\* What g calls from its i-th filter on.
Rest(chains, F, g, i) == From(Children(chains, F, g), i)

LEMMA RestKnown ==
  ASSUME NEW chains \in Table, NEW F, Unfolds(F, chains), NEW g \in Filter, NEW i \in Nat \ {0}
  PROVE  /\ Rest(chains, F, g, i) \in Seq(Filter)
         /\ i > Len(chains[g]) => Rest(chains, F, g, i) = << >>
         /\ i \in DOMAIN chains[g] =>
              /\ chains[g][i] \in Filter
              /\ F[chains[g][i]] \in Seq(Filter)
              /\ Rest(chains, F, g, i) = F[chains[g][i]] \o Rest(chains, F, g, i + 1)
         /\ F[g] = <<g>> \o Rest(chains, F, g, 1)
<1>1. F \in Table /\ F[g] = FlatOf(chains, F, g)
  BY DEF Unfolds
<1>2. PICK seqs \in Seq(Seq(Filter)) : seqs = Children(chains, F, g) /\ Len(seqs) = Len(chains[g])
  BY <1>1, FlatOfType
<1>3. /\ chains[g] \in Seq(Filter) /\ DOMAIN chains[g] = 1 .. Len(seqs)
      /\ \A j \in DOMAIN chains[g] : chains[g][j] \in Filter
  <2>1. chains[g] \in Seq(Filter)
    BY DEF Table
  <2>. QED
    BY <1>2, <2>1
<1>4. Rest(chains, F, g, i) = From(seqs, i) /\ Rest(chains, F, g, i + 1) = From(seqs, i + 1)
      /\ Rest(chains, F, g, 1) = From(seqs, 1)
  BY <1>2 DEF Rest
<1>5. From(seqs, i) \in Seq(Filter) /\ (i > Len(seqs) => From(seqs, i) = << >>)
  BY FromSequences
<1>6. ASSUME i \in DOMAIN chains[g]
      PROVE  /\ chains[g][i] \in Filter /\ F[chains[g][i]] \in Seq(Filter)
             /\ From(seqs, i) = F[chains[g][i]] \o From(seqs, i + 1)
  <2>1. chains[g][i] \in Filter /\ F[chains[g][i]] \in Seq(Filter)
    BY <1>1, <1>3, <1>6 DEF Table
  <2>2. seqs[i] = F[chains[g][i]]
    BY <1>2, <1>6 DEF Children
  <2>3. From(seqs, i) = seqs[i] \o From(seqs, i + 1)
    BY <1>3, <1>6, FromNext
  <2>. QED
    BY <2>1, <2>2, <2>3
<1>7. From(seqs, 1) = FlattenSeq(seqs)
  <2>1. [j \in 1 .. Len(seqs) + 1 - 1 |-> seqs[j + 1 - 1]] = seqs
    OBVIOUS
  <2>. QED
    BY <2>1, Zenon DEF From
<1>8. F[g] = <<g>> \o From(seqs, 1)
  BY <1>1, <1>2, <1>7, Zenon DEF FlatOf
<1>. QED
  BY <1>2, <1>3, <1>4, <1>5, <1>6, <1>8

-------------------------------------------------------------------------------
(* The calls in progress: each was entered from the one before, and has what it  *)
(* will call later on still ahead of it.                                       *)

Entered(chains, who, at, k) == at[k] \in DOMAIN chains[who[k]]

Child(chains, who, at, k) == chains[who[k]][at[k]]

\* todo[k]: what is called after the k-th call has returned.
Stacked(chains, F, who, at, n, todo) ==
  /\ \A k \in 1 .. n : who[k] \in Filter /\ at[k] \in Nat /\ todo[k] \in Seq(Filter)
  /\ n > 0 => todo[1] = << >>
  /\ \A k \in 1 .. n - 1 :
       /\ Entered(chains, who, at, k)
       /\ who[k + 1] = Child(chains, who, at, k)
       /\ todo[k + 1] = Rest(chains, F, who[k], at[k] + 1) \o todo[k]

\* All of the list pass, or all but its last.
AllPass(list, pass) == \A j \in 1 .. Len(list) : list[j] \in pass
OthersPass(list, pass) == \A j \in 1 .. Len(list) - 1 : list[j] \in pass

\* The filters already called are followed by these.
Ahead(F, list, rest) == F[list[1]] = list \o rest

Testing(chains, F, who, at, n, todo, pass, list) ==
  /\ n > 0 /\ at[n] = 0 /\ list[Len(list)] = who[n] /\ OthersPass(list, pass)
  /\ Ahead(F, list, Rest(chains, F, who[n], 1) \o todo[n])

Looping(chains, F, who, at, n, todo, pass, list) ==
  /\ n > 0 /\ at[n] > 0 /\ AllPass(list, pass)
  /\ Ahead(F, list, Rest(chains, F, who[n], at[n]) \o todo[n])

Passed(chains, F, who, at, n, todo, pass, list) ==
  /\ AllPass(list, pass)
  /\ n > 0 => /\ Entered(chains, who, at, n)
              /\ Ahead(F, list, Rest(chains, F, who[n], at[n] + 1) \o todo[n])
  /\ n = 0 => F[list[1]] = list

Failed(chains, F, who, at, n, pass, list) ==
  /\ OthersPass(list, pass) /\ list[Len(list)] \notin pass
  /\ n > 0 => Entered(chains, who, at, n)
  /\ \E rest \in Seq(Filter) : Ahead(F, list, rest)

Calling(chains, F, who, at, n, todo, result, pass, list) ==
  /\ n > 0 => who[1] = list[1]
  /\ Stacked(chains, F, who, at, n, todo)
  /\ \/ result = "none" /\ Testing(chains, F, who, at, n, todo, pass, list)
     \/ result = "none" /\ Looping(chains, F, who, at, n, todo, pass, list)
     \/ result = "pass" /\ Passed(chains, F, who, at, n, todo, pass, list)
     \/ result = "fail" /\ Failed(chains, F, who, at, n, pass, list)

\* The filters being called, and where in its loop each of them is.
Who(fr) == [k \in DOMAIN fr |-> fr[k].filter]
At(fr) == [k \in DOMAIN fr |-> fr[k].i]

Held(f) == \E v \in Variable : ptr[v] = f

\* What is given up during a call is still referred to by the caller.
GivenUp ==
  \/ dropped = << >>
  \/ /\ verdict # "none"
     /\ dropped = <<IF frames = << >> THEN called[1] ELSE Child(next_, Who(frames), At(frames), Len(frames))>>

(* The inductive invariant of a call: its filter is still one of the application's, *)
(* and the filters called so far are the beginning of the flat sequence, with the  *)
(* rest of every loop in progress, innermost first, as what is still ahead.        *)
CallInv ==
  /\ called = << >> => verdict = "none"
  /\ called # << >> =>
       /\ Held(called[1])
       /\ GivenUp
       /\ \E todo : Calling(next_, FlatIn(next_), Who(frames), At(frames), Len(frames), todo,
                           verdict, passing, called)

-------------------------------------------------------------------------------
(* How each step of a call keeps this, for a stack given as who and at.          *)

\* Two stacks with the same first calls.
Like(who, at, who2, at2, m) == \A k \in 1 .. m : who2[k] = who[k] /\ at2[k] = at[k]

\* A call of f, with the given sequence ahead of its caller, was entered from the
\* m-th call, or from the application.
EnteredFrom(chains, F, who, at, m, todo, f, rest) ==
  /\ m > 0 => /\ Entered(chains, who, at, m)
              /\ Child(chains, who, at, m) = f
              /\ rest = Rest(chains, F, who[m], at[m] + 1) \o todo[m]
  /\ m = 0 => rest = << >>

LEMMA StackPopped ==
  ASSUME NEW chains, NEW F, NEW who, NEW at, NEW who2, NEW at2, NEW todo, NEW n \in Nat, n > 0,
         Stacked(chains, F, who, at, n, todo), Like(who, at, who2, at2, n - 1)
  PROVE  /\ Stacked(chains, F, who2, at2, n - 1, todo)
         /\ EnteredFrom(chains, F, who2, at2, n - 1, todo, who[n], todo[n])
<1>1. ASSUME NEW k \in 1 .. n - 1
      PROVE  /\ who2[k] = who[k] /\ at2[k] = at[k]
             /\ who[k] \in Filter /\ at[k] \in Nat /\ todo[k] \in Seq(Filter)
             /\ Entered(chains, who, at, k) /\ who[k + 1] = Child(chains, who, at, k)
             /\ todo[k + 1] = Rest(chains, F, who[k], at[k] + 1) \o todo[k]
  <2>1. k \in 1 .. n
    OBVIOUS
  <2>. QED
    BY <2>1 DEF Stacked, Like
<1>2. ASSUME NEW k \in 1 .. n - 1
      PROVE  /\ Entered(chains, who2, at2, k) /\ who[k + 1] = Child(chains, who2, at2, k)
             /\ todo[k + 1] = Rest(chains, F, who2[k], at2[k] + 1) \o todo[k]
  BY <1>1 DEF Entered, Child
<1>3. todo[1] = << >>
  BY DEF Stacked
<1>4. Stacked(chains, F, who2, at2, n - 1, todo)
  <2>1. \A k \in 1 .. (n - 1) - 1 : k \in 1 .. n - 1 /\ k + 1 \in 1 .. n - 1
    OBVIOUS
  <2>. QED
    BY <1>1, <1>2, <1>3, <2>1 DEF Stacked
<1>5. EnteredFrom(chains, F, who2, at2, n - 1, todo, who[n], todo[n])
  <2>1. CASE n - 1 > 0
    <3>1. PICK m \in 1 .. n - 1 : m = n - 1 /\ m + 1 = n
      <4>1. n - 1 \in 1 .. n - 1 /\ (n - 1) + 1 = n
        BY <2>1
      <4>. QED
        BY <4>1, Zenon
    <3>2. /\ Entered(chains, who2, at2, m) /\ who[m + 1] = Child(chains, who2, at2, m)
          /\ todo[m + 1] = Rest(chains, F, who2[m], at2[m] + 1) \o todo[m]
      BY <1>2
    <3>3. ~(n - 1 = 0)
      BY <2>1
    <3>. QED
      BY <3>1, <3>2, <3>3, Zenon DEF EnteredFrom
  <2>2. CASE ~(n - 1 > 0)
    <3>1. n = 1 /\ n - 1 = 0
      BY <2>2
    <3>. QED
      BY <1>3, <2>2, <3>1 DEF EnteredFrom
  <2>. QED
    BY <2>1, <2>2
<1>. QED
  BY <1>4, <1>5

\* ... or with the innermost call at another place of its loop.
Moved(who, at, who2, at2, n) ==
  Like(who, at, who2, at2, n - 1) /\ who2[n] = who[n] /\ at2[n] \in Nat

LEMMA StackPlaced ==
  ASSUME NEW chains, NEW F, NEW who, NEW at, NEW who2, NEW at2, NEW todo, NEW n \in Nat, n > 0,
         Stacked(chains, F, who, at, n, todo), Moved(who, at, who2, at2, n)
  PROVE  Stacked(chains, F, who2, at2, n, todo) /\ who2[1] = who[1]
<1>1. /\ \A k \in 1 .. n : who[k] \in Filter /\ todo[k] \in Seq(Filter)
      /\ todo[1] = << >>
      /\ \A k \in 1 .. n - 1 :
           /\ who2[k] = who[k] /\ at2[k] = at[k] 
           /\ Entered(chains, who, at, k) /\ who[k + 1] = Child(chains, who, at, k)
           /\ todo[k + 1] = Rest(chains, F, who[k], at[k] + 1) \o todo[k]
      /\ \A k \in 1 .. n : at[k] \in Nat
  BY DEF Stacked, Like, Moved
<1>2. \A k \in 1 .. n : who2[k] = who[k] /\ at2[k] \in Nat
  <2>1. \A k \in 1 .. n : k = n \/ k \in 1 .. n - 1
    OBVIOUS
  <2>. QED
    BY <1>1, <2>1 DEF Moved
<1>3. ASSUME NEW k \in 1 .. n - 1
      PROVE  /\ Entered(chains, who2, at2, k) /\ who2[k + 1] = Child(chains, who2, at2, k)
             /\ todo[k + 1] = Rest(chains, F, who2[k], at2[k] + 1) \o todo[k]
  <2>1. k + 1 \in 1 .. n
    OBVIOUS
  <2>. QED
    BY <1>1, <1>2, <2>1 DEF Entered, Child
<1>4. 1 \in 1 .. n
  OBVIOUS
<1>. QED
  BY <1>1, <1>2, <1>3, <1>4 DEF Stacked

\* ... or with one more, of f.
Pushed(who, at, who2, at2, n, f) ==
  Like(who, at, who2, at2, n) /\ who2[n + 1] = f /\ at2[n + 1] = 0

LEMMA StackPushed ==
  ASSUME NEW chains, NEW F, NEW who, NEW at, NEW who2, NEW at2, NEW todo, NEW n \in Nat, n > 0,
         Stacked(chains, F, who, at, n, todo), NEW f \in Filter, NEW rest \in Seq(Filter),
         EnteredFrom(chains, F, who, at, n, todo, f, rest), Pushed(who, at, who2, at2, n, f)
  PROVE  /\ \E more : Stacked(chains, F, who2, at2, n + 1, more) /\ more[n + 1] = rest
         /\ who2[1] = who[1]
<1>0. /\ Entered(chains, who, at, n) /\ Child(chains, who, at, n) = f
      /\ rest = Rest(chains, F, who[n], at[n] + 1) \o todo[n]
  BY DEF EnteredFrom
<1>. DEFINE more == [k \in 1 .. n + 1 |-> IF k = n + 1 THEN rest ELSE todo[k]]
<1>1. /\ \A k \in 1 .. n : who[k] \in Filter /\ at[k] \in Nat /\ todo[k] \in Seq(Filter)
                           /\ who2[k] = who[k] /\ at2[k] = at[k]
      /\ todo[1] = << >>
      /\ who2[n + 1] = Child(chains, who, at, n) /\ who2[n + 1] \in Filter /\ at2[n + 1] \in Nat
      /\ \A k \in 1 .. n - 1 :
           /\ Entered(chains, who, at, k) /\ who[k + 1] = Child(chains, who, at, k)
           /\ todo[k + 1] = Rest(chains, F, who[k], at[k] + 1) \o todo[k]
  <2>1. /\ who2[n + 1] = Child(chains, who, at, n) /\ who2[n + 1] \in Filter /\ at2[n + 1] \in Nat
        /\ Like(who, at, who2, at2, n)
    BY <1>0 DEF Pushed
  <2>. QED
    BY <2>1 DEF Stacked, Like
<1>2. /\ \A k \in 1 .. n + 1 : k = n + 1 \/ k \in 1 .. n
      /\ \A k \in 1 .. n : k \in 1 .. n + 1 /\ k # n + 1
      /\ 1 \in 1 .. n /\ n + 1 \in 1 .. n + 1
  OBVIOUS
<1>3. more[n + 1] = rest /\ \A k \in 1 .. n : more[k] = todo[k]
  BY <1>2
<1>. HIDE DEF more
<1>4. \A k \in 1 .. n + 1 : who2[k] \in Filter /\ at2[k] \in Nat /\ more[k] \in Seq(Filter)
  BY <1>1, <1>2, <1>3
<1>5. ASSUME NEW k \in 1 .. n
      PROVE  /\ Entered(chains, who2, at2, k) /\ who2[k + 1] = Child(chains, who2, at2, k)
             /\ more[k + 1] = Rest(chains, F, who2[k], at2[k] + 1) \o more[k]
  <2>1. CASE k = n
    BY <1>0, <1>1, <1>3, <2>1 DEF Entered, Child
  <2>2. CASE k # n
    <3>1. k \in 1 .. n - 1 /\ k + 1 \in 1 .. n
      BY <2>2
    <3>. QED
      BY <1>1, <1>3, <3>1 DEF Entered, Child
  <2>. QED
    BY <2>1, <2>2
<1>6. Stacked(chains, F, who2, at2, n + 1, more)
  <2>1. PICK m : m = n + 1
    OBVIOUS
  <2>2. m - 1 = n /\ 1 .. m - 1 = 1 .. n
    BY <2>1
  <2>3. more[1] = << >>
    BY <1>1, <1>2, <1>3
  <2>4. Stacked(chains, F, who2, at2, m, more)
    BY <1>4, <1>5, <2>1, <2>2, <2>3, Zenon DEF Stacked
  <2>. QED
    BY <2>1, <2>4
<1>7. who2[1] = who[1]
  BY <1>1, <1>2
<1>. QED
  BY <1>3, <1>6, <1>7

\* The innermost call returns to the one it was entered from, or to the application.
LEMMA CallReturned ==
  ASSUME NEW chains, NEW F, NEW who, NEW at, NEW who2, NEW at2, NEW todo, NEW n \in Nat, n > 0, NEW list,
         who[1] = list[1], Stacked(chains, F, who, at, n, todo), Like(who, at, who2, at2, n - 1)
  PROVE  /\ Stacked(chains, F, who2, at2, n - 1, todo)
         /\ n - 1 > 0 => who2[1] = list[1]
<1>1. /\ Stacked(chains, F, who2, at2, n - 1, todo)
      /\ EnteredFrom(chains, F, who2, at2, n - 1, todo, who[n], todo[n])
  BY StackPopped
<1>2. n - 1 > 0 => who2[1] = who[1]
  BY DEF Like
<1>. QED
  BY <1>1, <1>2

\* What the verdict says of the innermost call.
LEMMA StageIs ==
  ASSUME NEW chains, NEW F, NEW who, NEW at, NEW todo, NEW n, NEW pass, NEW list, NEW result,
         Calling(chains, F, who, at, n, todo, result, pass, list)
  PROVE  /\ n > 0 => who[1] = list[1]
         /\ Stacked(chains, F, who, at, n, todo)
         /\ result = "none" => \/ Testing(chains, F, who, at, n, todo, pass, list)
                               \/ Looping(chains, F, who, at, n, todo, pass, list)
         /\ result = "pass" => Passed(chains, F, who, at, n, todo, pass, list)
         /\ result = "fail" => Failed(chains, F, who, at, n, pass, list)
BY DEF Calling

\* The filter that was called last fails the candidate ...
LEMMA CallTestFails ==
  ASSUME NEW chains \in Table, NEW F, Unfolds(F, chains), NEW who, NEW at, NEW who2, NEW at2, NEW todo,
         NEW n \in Nat, n > 0, NEW pass, NEW list,
         Calling(chains, F, who, at, n, todo, "none", pass, list), at[n] = 0,
         who[n] \notin pass, Like(who, at, who2, at2, n - 1)
  PROVE  Calling(chains, F, who2, at2, n - 1, todo, "fail", pass, list)
<1>1. /\ who[1] = list[1] /\ Stacked(chains, F, who, at, n, todo)
      /\ Testing(chains, F, who, at, n, todo, pass, list)
  BY StageIs DEF Looping
<1>2. /\ Stacked(chains, F, who2, at2, n - 1, todo)
      /\ n - 1 > 0 => who2[1] = list[1]
  BY <1>1, CallReturned
<1>3. n - 1 > 0 => Entered(chains, who2, at2, n - 1)
  BY <1>1, StackPopped DEF EnteredFrom
<1>4. PICK rest \in Seq(Filter) : Ahead(F, list, rest)
  <2>1. who[n] \in Filter /\ todo[n] \in Seq(Filter)
    BY <1>1 DEF Stacked
  <2>2. Rest(chains, F, who[n], 1) \in Seq(Filter)
    <3>1. 1 \in Nat \ {0}
      OBVIOUS
    <3>. QED
      BY <2>1, <3>1, RestKnown, Zenon
  <2>3. Rest(chains, F, who[n], 1) \o todo[n] \in Seq(Filter)
    BY <2>1, <2>2, JoinIsSequence
  <2>. QED
    BY <1>1, <2>3, Zenon DEF Testing
<1>5. OthersPass(list, pass) /\ list[Len(list)] \notin pass
  BY <1>1 DEF Testing
<1>6. Failed(chains, F, who2, at2, n - 1, pass, list)
  BY <1>3, <1>4, <1>5 DEF Failed
<1>. QED
  BY <1>2, <1>6 DEF Calling

\* ... or passes it, and goes on to what is chained to it.
LEMMA CallTestPasses ==
  ASSUME NEW chains \in Table, NEW F, Unfolds(F, chains), NEW who, NEW at, NEW who2, NEW at2, NEW todo,
         NEW n \in Nat, n > 0, NEW pass, NEW list \in Seq(Filter),
         Calling(chains, F, who, at, n, todo, "none", pass, list), at[n] = 0,
         who[n] \in pass, Moved(who, at, who2, at2, n), at2[n] = 1
  PROVE  Calling(chains, F, who2, at2, n, todo, "none", pass, list)
<1>1. /\ who[1] = list[1] /\ Stacked(chains, F, who, at, n, todo)
      /\ Testing(chains, F, who, at, n, todo, pass, list)
  BY StageIs DEF Looping
<1>2. Stacked(chains, F, who2, at2, n, todo) /\ who2[1] = who[1]
  BY <1>1, StackPlaced
<1>3. AllPass(list, pass)
  <2>1. Len(list) \in Nat /\ \A j \in 1 .. Len(list) : j = Len(list) \/ j \in 1 .. Len(list) - 1
    OBVIOUS
  <2>2. list[Len(list)] \in pass /\ OthersPass(list, pass)
    BY <1>1 DEF Testing
  <2>. QED
    BY <2>1, <2>2 DEF AllPass, OthersPass
<1>4. Looping(chains, F, who2, at2, n, todo, pass, list)
  BY <1>1, <1>3 DEF Testing, Looping, Moved
<1>. QED
  BY <1>1, <1>2, <1>4 DEF Calling

\* All that is chained to it has passed the candidate.
LEMMA CallLoopEnds ==
  ASSUME NEW chains \in Table, NEW F, Unfolds(F, chains), NEW who, NEW at, NEW who2, NEW at2, NEW todo,
         NEW n \in Nat, n > 0, NEW pass, NEW list \in Seq(Filter),
         Calling(chains, F, who, at, n, todo, "none", pass, list), at[n] > 0,
         at[n] > Len(chains[who[n]]), Like(who, at, who2, at2, n - 1)
  PROVE  Calling(chains, F, who2, at2, n - 1, todo, "pass", pass, list)
<1>1. /\ who[1] = list[1] /\ Stacked(chains, F, who, at, n, todo)
      /\ Looping(chains, F, who, at, n, todo, pass, list)
  <2>1. ~(at[n] = 0)
    OBVIOUS
  <2>. QED
    BY <2>1, StageIs DEF Testing
<1>2. /\ Stacked(chains, F, who2, at2, n - 1, todo)
      /\ n - 1 > 0 => who2[1] = list[1]
  BY <1>1, CallReturned
<1>3. who[n] \in Filter /\ at[n] \in Nat \ {0} /\ todo[n] \in Seq(Filter)
  BY <1>1 DEF Stacked
<1>4. Rest(chains, F, who[n], at[n]) = << >>
  BY <1>3, RestKnown
<1>5. Ahead(F, list, todo[n]) /\ AllPass(list, pass)
  <2>1. << >> \o todo[n] = todo[n]
    BY <1>3, EmptyJoins
  <2>. QED
    BY <1>1, <1>4, <2>1 DEF Looping
<1>6. CASE n - 1 = 0
  <2>1. todo[n] = << >>
    <3>1. EnteredFrom(chains, F, who2, at2, n - 1, todo, who[n], todo[n])
      BY <1>1, StackPopped
    <3>. QED
      BY <1>6, <3>1, Zenon DEF EnteredFrom
  <2>2. F[list[1]] = list \o << >>
    BY <1>5, <2>1 DEF Ahead
  <2>3. F[list[1]] = list
    BY <2>2
  <2>4. ~(n - 1 > 0)
    BY <1>6
  <2>5. Passed(chains, F, who2, at2, n - 1, todo, pass, list)
    BY <1>5, <2>3, <2>4 DEF Passed
  <2>. QED
    BY <1>2, <2>5 DEF Calling
<1>7. CASE n - 1 # 0
  <2>1. n - 1 > 0
    BY <1>7
  <2>2. /\ Entered(chains, who2, at2, n - 1)
        /\ todo[n] = Rest(chains, F, who2[n - 1], at2[n - 1] + 1) \o todo[n - 1]
    <3>1. EnteredFrom(chains, F, who2, at2, n - 1, todo, who[n], todo[n])
      BY <1>1, StackPopped
    <3>. QED
      BY <2>1, <3>1, Zenon DEF EnteredFrom
  <2>3. Passed(chains, F, who2, at2, n - 1, todo, pass, list)
    BY <1>5, <1>7, <2>1, <2>2 DEF Passed
  <2>. QED
    BY <1>2, <2>3 DEF Calling
<1>. QED
  BY <1>6, <1>7

\* One of them has, and the loop goes on.
LEMMA CallGoesOnToNext ==
  ASSUME NEW chains \in Table, NEW F, NEW who, NEW at, NEW who2, NEW at2, NEW todo,
         NEW n \in Nat, n > 0, NEW pass, NEW list,
         Calling(chains, F, who, at, n, todo, "pass", pass, list),
         Moved(who, at, who2, at2, n), at2[n] = at[n] + 1
  PROVE  Calling(chains, F, who2, at2, n, todo, "none", pass, list)
<1>1. /\ who[1] = list[1] /\ Stacked(chains, F, who, at, n, todo)
      /\ Passed(chains, F, who, at, n, todo, pass, list)
  BY StageIs
<1>2. at[n] \in Nat
  BY <1>1 DEF Stacked
<1>3. at2[n] \in Nat /\ at2[n] > 0
  BY <1>2
<1>4. Stacked(chains, F, who2, at2, n, todo) /\ who2[1] = who[1]
  BY <1>1, StackPlaced
<1>5. Looping(chains, F, who2, at2, n, todo, pass, list)
  BY <1>1, <1>3 DEF Passed, Looping, Moved
<1>. QED
  BY <1>1, <1>4, <1>5 DEF Calling

\* One of them has not, nor does the filter.
LEMMA CallReturnsFalse ==
  ASSUME NEW chains \in Table, NEW F, NEW who, NEW at, NEW who2, NEW at2, NEW todo,
         NEW n \in Nat, n > 0, NEW pass, NEW list,
         Calling(chains, F, who, at, n, todo, "fail", pass, list), Like(who, at, who2, at2, n - 1)
  PROVE  Calling(chains, F, who2, at2, n - 1, todo, "fail", pass, list)
<1>1. /\ who[1] = list[1] /\ Stacked(chains, F, who, at, n, todo)
      /\ Failed(chains, F, who, at, n, pass, list)
  BY StageIs
<1>2. /\ Stacked(chains, F, who2, at2, n - 1, todo)
      /\ n - 1 > 0 => who2[1] = list[1]
  BY <1>1, CallReturned
<1>3. n - 1 > 0 => Entered(chains, who2, at2, n - 1)
  BY <1>1, StackPopped DEF EnteredFrom
<1>4. Failed(chains, F, who2, at2, n - 1, pass, list)
  BY <1>1, <1>3 DEF Failed
<1>. QED
  BY <1>2, <1>4 DEF Calling

AllSequences(a, b, c, d, e) == \A list \in {a, b, c, d, e} : list \in Seq(Filter)

JoinsAlike(list, g, a, b, t) ==
  list \o (((g \o a) \o b) \o t) = (list \o g) \o (a \o (b \o t))

LEMMA FiveJoined ==
  ASSUME NEW list, NEW g, NEW a, NEW b, NEW t, AllSequences(list, g, a, b, t)
  PROVE  JoinsAlike(list, g, a, b, t)
<1>1. list \in Seq(Filter)
  BY DEF AllSequences
<1>2. g \in Seq(Filter)
  BY DEF AllSequences
<1>3. a \in Seq(Filter)
  BY DEF AllSequences
<1>4. b \in Seq(Filter)
  BY DEF AllSequences
<1>5. t \in Seq(Filter)
  BY DEF AllSequences
<1>6. b \o t \in Seq(Filter)
  BY <1>4, <1>5, JoinIsSequence
<1>7. g \o a \in Seq(Filter)
  BY <1>2, <1>3, JoinIsSequence
<1>8. PICK e : e = b \o t
  OBVIOUS
<1>9. PICK d : d = g \o a
  OBVIOUS
<1>10. e \in Seq(Filter)
  BY <1>6, <1>8, Zenon
<1>11. d \in Seq(Filter)
  BY <1>7, <1>9, Zenon
<1>12. a \o e \in Seq(Filter)
  BY <1>3, <1>10, JoinIsSequence
<1>13. (d \o b) \o t = d \o (b \o t)
  BY <1>4, <1>5, <1>11, Regroup
<1>14. (g \o a) \o e = g \o (a \o e)
  BY <1>2, <1>3, <1>10, Regroup
<1>15. (list \o g) \o (a \o e) = list \o (g \o (a \o e))
  BY <1>1, <1>2, <1>12, Regroup
<1>. QED
  BY <1>8, <1>9, <1>13, <1>14, <1>15, Zenon DEF JoinsAlike

\* f is called and then what it calls, a, before b and t.
CalledNext(list, f, a, b, t, longer) ==
  /\ longer \in Seq(Filter) /\ longer[1] = list[1] /\ longer[Len(longer)] = f
  /\ Len(longer) - 1 = Len(list) /\ \A j \in 1 .. Len(list) : longer[j] = list[j]
  /\ list \o (((<<f>> \o a) \o b) \o t) = longer \o (a \o (b \o t))

LEMMA NextAhead ==
  ASSUME NEW list \in Seq(Filter), list # << >>, NEW a \in Seq(Filter), NEW b \in Seq(Filter),
         NEW t \in Seq(Filter), NEW f \in Filter
  PROVE  CalledNext(list, f, a, b, t, Append(list, f))
<1>1. PICK g : g = <<f>>
  OBVIOUS
<1>2. g \in Seq(Filter) /\ Append(list, f) = list \o g
  BY <1>1
<1>3. JoinsAlike(list, g, a, b, t)
  <2>1. AllSequences(list, g, a, b, t)
    BY <1>2 DEF AllSequences
  <2>. QED
    BY <2>1, FiveJoined
<1>7. list \o (((<<f>> \o a) \o b) \o t) = Append(list, f) \o (a \o (b \o t))
  BY <1>1, <1>2, <1>3, Zenon DEF JoinsAlike
<1>8. /\ Append(list, f)[1] = list[1] /\ Append(list, f) \in Seq(Filter)
      /\ Append(list, f)[Len(Append(list, f))] = f
      /\ Len(Append(list, f)) - 1 = Len(list)
      /\ \A j \in 1 .. Len(list) : Append(list, f)[j] = list[j]
  OBVIOUS
<1>. QED
  BY <1>7, <1>8, Zenon DEF CalledNext

\* The next one is called: it is the next in the flat sequence.
LEMMA CallNextCalled ==
  ASSUME NEW chains \in Table, NEW F, Unfolds(F, chains), NEW who, NEW at, NEW who2, NEW at2, NEW todo,
         NEW n \in Nat, n > 0, NEW pass, NEW list \in Seq(Filter), list # << >>,
         Calling(chains, F, who, at, n, todo, "none", pass, list), at[n] > 0,
         at[n] <= Len(chains[who[n]]), NEW f \in Filter, f = Child(chains, who, at, n),
         Pushed(who, at, who2, at2, n, f)
  PROVE  \E more : Calling(chains, F, who2, at2, n + 1, more, "none", pass, Append(list, f))
<1>1. /\ who[1] = list[1] /\ Stacked(chains, F, who, at, n, todo)
      /\ Looping(chains, F, who, at, n, todo, pass, list)
  <2>1. ~(at[n] = 0)
    OBVIOUS
  <2>. QED
    BY <2>1, StageIs DEF Testing
<1>2. PICK g \in Filter, i \in Nat \ {0} : g = who[n] /\ i = at[n] /\ todo[n] \in Seq(Filter)
  <2>1. who[n] \in Filter /\ at[n] \in Nat \ {0} /\ todo[n] \in Seq(Filter)
    BY <1>1 DEF Stacked
  <2>. QED
    BY <2>1, Zenon
<1>3. i \in DOMAIN chains[g]
  <2>1. chains[g] \in Seq(Filter)
    BY DEF Table
  <2>. QED
    BY <1>2, <2>1
<1>4. Entered(chains, who, at, n) /\ f = chains[g][i]
  BY <1>2, <1>3 DEF Entered, Child
<1>5. /\ F[f] \in Seq(Filter) /\ Rest(chains, F, g, i) = F[f] \o Rest(chains, F, g, i + 1)
  <2>1. i \in DOMAIN chains[g] =>
          /\ F[chains[g][i]] \in Seq(Filter)
          /\ Rest(chains, F, g, i) = F[chains[g][i]] \o Rest(chains, F, g, i + 1)
    BY RestKnown, Zenon
  <2>. QED
    BY <1>3, <1>4, <2>1, Zenon
<1>6. 1 \in Nat \ {0} /\ i + 1 \in Nat \ {0}
  OBVIOUS
<1>7. PICK a \in Seq(Filter) : a = Rest(chains, F, f, 1) /\ F[f] = <<f>> \o a
  <2>1. Rest(chains, F, f, 1) \in Seq(Filter) /\ F[f] = <<f>> \o Rest(chains, F, f, 1)
    BY <1>6, RestKnown, Zenon
  <2>. QED
    BY <2>1, Zenon
<1>8. PICK b \in Seq(Filter) : b = Rest(chains, F, g, i + 1)
  <2>1. Rest(chains, F, g, i + 1) \in Seq(Filter)
    BY <1>6, RestKnown, Zenon
  <2>. QED
    BY <2>1, Zenon
<1>9. PICK t \in Seq(Filter) : t = todo[n]
  BY <1>2, Zenon
<1>10. PICK rest \in Seq(Filter) : rest = b \o t
  <2>1. b \o t \in Seq(Filter)
    BY JoinIsSequence
  <2>. QED
    BY <2>1, Zenon
<1>11. PICK more : Stacked(chains, F, who2, at2, n + 1, more) /\ more[n + 1] = rest
  <2>1. rest = Rest(chains, F, who[n], at[n] + 1) \o todo[n] /\ n # 0
    BY <1>2, <1>8, <1>9, <1>10
  <2>2. EnteredFrom(chains, F, who, at, n, todo, f, rest)
    BY <1>4, <2>1 DEF EnteredFrom
  <2>. QED
    BY <1>1, <2>2, StackPushed
<1>12. who2[1] = who[1]
  BY DEF Pushed, Like
<1>13. PICK longer : longer = Append(list, f) /\ CalledNext(list, f, a, b, t, longer)
  BY NextAhead
<1>14. Ahead(F, longer, a \o rest)
  <2>1. F[list[1]] = list \o (Rest(chains, F, who[n], at[n]) \o todo[n])
    BY <1>1 DEF Looping, Ahead
  <2>2. F[list[1]] = list \o (((<<f>> \o a) \o b) \o t)
    BY <1>2, <1>5, <1>7, <1>8, <1>9, <2>1, Zenon
  <2>. QED
    BY <1>10, <1>13, <2>2, Zenon DEF Ahead, CalledNext
<1>15. OthersPass(longer, pass)
  <2>1. AllPass(list, pass)
    BY <1>1 DEF Looping
  <2>. QED
    BY <1>13, <2>1 DEF AllPass, OthersPass, CalledNext
<1>16. Testing(chains, F, who2, at2, n + 1, more, pass, longer)
  <2>1. who2[n + 1] = f /\ at2[n + 1] = 0 /\ n + 1 > 0
    BY DEF Pushed
  <2>. QED
    BY <1>7, <1>11, <1>13, <1>14, <1>15, <2>1, Zenon DEF Testing, CalledNext
<1>17. Calling(chains, F, who2, at2, n + 1, more, "none", pass, longer)
  BY <1>1, <1>11, <1>12, <1>13, <1>16, Zenon DEF Calling, CalledNext
<1>. QED
  BY <1>13, <1>17, Zenon

-------------------------------------------------------------------------------
(* The same for the actions of the model.                                     *)

Activation == [filter : Filter, i : Nat]

\* The frames of the model are such stacks.
LEMMA FrontIsLike ==
  ASSUME NEW fr \in Seq(Activation), fr # << >>, NEW n, n = Len(fr), NEW new, new = Front(fr)
  PROVE  /\ n \in Nat /\ n > 0 /\ Len(new) = n - 1
         /\ (new = << >> => n - 1 = 0) /\ (new # << >> => n - 1 # 0)
         /\ Like(Who(fr), At(fr), Who(new), At(new), n - 1)
         /\ Who(fr)[n] = fr[n].filter /\ At(fr)[n] = fr[n].i
<1>1. n \in Nat /\ n > 0 /\ DOMAIN fr = 1 .. n /\ n \in 1 .. n
  OBVIOUS
<1>2. /\ Len(new) = n - 1 /\ DOMAIN new = 1 .. n - 1
      /\ \A k \in 1 .. n - 1 : new[k] = fr[k]
  <2>1. new = [k \in 1 .. n - 1 |-> fr[k]]
    BY DEF Front, SubSeq
  <2>2. n - 1 \in Nat
    BY <1>1
  <2>3. \A k \in 1 .. n - 1 : fr[k] \in Activation
    BY <1>1
  <2>4. new \in Seq(Activation)
    BY <2>1, <2>2, <2>3
  <2>. QED
    BY <2>1, <2>2, <2>4
<1>3. (new = << >> => n - 1 = 0) /\ (new # << >> => n - 1 # 0)
  <2>1. new \in Seq(Activation)
    BY DEF Front
  <2>. QED
    BY <1>2, <2>1
<1>4. \A k \in 1 .. n : Who(fr)[k] = fr[k].filter /\ At(fr)[k] = fr[k].i
  BY <1>1 DEF Who, At
<1>5. \A k \in 1 .. n - 1 : Who(new)[k] = new[k].filter /\ At(new)[k] = new[k].i
  BY <1>2 DEF Who, At
<1>6. Like(Who(fr), At(fr), Who(new), At(new), n - 1)
  <2>. SUFFICES ASSUME NEW k \in 1 .. n - 1
                PROVE  Who(new)[k] = Who(fr)[k] /\ At(new)[k] = At(fr)[k]
    BY DEF Like
  <2>1. k \in 1 .. n
    BY <1>1
  <2>. QED
    BY <1>2, <1>4, <1>5, <2>1
<1>. QED
  BY <1>1, <1>2, <1>3, <1>4, <1>6

PlacedAt(fr, n, place, new) == new = [fr EXCEPT ![n].i = place]

LEMMA PlacedIsMoved ==
  ASSUME NEW fr \in Seq(Activation), fr # << >>, NEW n, n = Len(fr), NEW place \in Nat,
         NEW new, PlacedAt(fr, n, place, new)
  PROVE  /\ n \in Nat /\ n > 0 /\ Len(new) = n /\ new # << >>
         /\ Moved(Who(fr), At(fr), Who(new), At(new), n)
         /\ Who(fr)[n] = fr[n].filter /\ At(fr)[n] = fr[n].i /\ At(new)[n] = place
<1>1. n \in Nat /\ n > 0 /\ DOMAIN fr = 1 .. n /\ n \in 1 .. n /\ fr[n] \in Activation
  OBVIOUS
<1>2. PICK last : last = [fr[n] EXCEPT !.i = place]
  OBVIOUS
<1>3. last.filter = fr[n].filter /\ last.i = place /\ last \in Activation
  BY <1>1, <1>2 DEF Activation
<1>4. new = [fr EXCEPT ![n] = last]
  BY <1>2 DEF PlacedAt
<1>5. /\ DOMAIN new = 1 .. n /\ new[n] = last /\ Len(new) = n /\ new # << >>
      /\ \A k \in 1 .. n - 1 : new[k] = fr[k] /\ k \in 1 .. n
  BY <1>1, <1>3, <1>4
<1>6. \A k \in 1 .. n : /\ Who(fr)[k] = fr[k].filter /\ At(fr)[k] = fr[k].i
                        /\ Who(new)[k] = new[k].filter /\ At(new)[k] = new[k].i
  BY <1>1, <1>5 DEF Who, At
<1>7. Like(Who(fr), At(fr), Who(new), At(new), n - 1)
  <2>. SUFFICES ASSUME NEW k \in 1 .. n - 1
                PROVE  Who(new)[k] = Who(fr)[k] /\ At(new)[k] = At(fr)[k]
    BY DEF Like
  <2>1. new[k] = fr[k] /\ k \in 1 .. n
    BY <1>5
  <2>2. /\ Who(fr)[k] = fr[k].filter /\ At(fr)[k] = fr[k].i
        /\ Who(new)[k] = new[k].filter /\ At(new)[k] = new[k].i
    BY <1>6, <2>1
  <2>. QED
    BY <2>1, <2>2, Zenon
<1>8. Who(new)[n] = Who(fr)[n] /\ At(new)[n] = place
  BY <1>1, <1>3, <1>5, <1>6
<1>. QED
  BY <1>1, <1>5, <1>6, <1>7, <1>8 DEF Moved

Extended(fr, f, new) == new = Append(fr, [filter |-> f, i |-> 0])

LEMMA AppendedIsPushed ==
  ASSUME NEW fr \in Seq(Activation), fr # << >>, NEW n, n = Len(fr), NEW f \in Filter,
         NEW new, Extended(fr, f, new)
  PROVE  /\ n \in Nat /\ n > 0 /\ Len(new) = n + 1
         /\ Pushed(Who(fr), At(fr), Who(new), At(new), n, f)
         /\ Who(fr)[n] = fr[n].filter /\ At(fr)[n] = fr[n].i
<1>1. PICK last : last = [filter |-> f, i |-> 0]
  OBVIOUS
<1>2. last \in Activation /\ last.filter = f /\ last.i = 0
  BY <1>1 DEF Activation
<1>3. new = Append(fr, last)
  BY <1>1 DEF Extended
<1>4. /\ n \in Nat /\ n > 0 /\ DOMAIN fr = 1 .. n /\ n \in 1 .. n /\ n + 1 \in 1 .. n + 1
      /\ DOMAIN new = 1 .. n + 1 /\ Len(new) = n + 1 /\ new[n + 1] = last
      /\ \A k \in 1 .. n : new[k] = fr[k] /\ k \in 1 .. n + 1
  BY <1>2, <1>3
<1>5. \A k \in 1 .. n : Who(fr)[k] = fr[k].filter /\ At(fr)[k] = fr[k].i
  BY <1>4 DEF Who, At
<1>6. \A k \in 1 .. n + 1 : Who(new)[k] = new[k].filter /\ At(new)[k] = new[k].i
  BY <1>4 DEF Who, At
<1>7. Like(Who(fr), At(fr), Who(new), At(new), n)
  <2>. SUFFICES ASSUME NEW k \in 1 .. n
                PROVE  Who(new)[k] = Who(fr)[k] /\ At(new)[k] = At(fr)[k]
    BY DEF Like
  <2>. QED
    BY <1>4, <1>5, <1>6
<1>8. Who(new)[n + 1] = f /\ At(new)[n + 1] = 0
  BY <1>2, <1>4, <1>6
<1>. QED
  BY <1>4, <1>5, <1>7, <1>8 DEF Pushed

LEMMA CallTables ==
  ASSUME GraphInv
  PROVE  /\ next_ \in Table /\ Unfolds(FlatIn(next_), next_)
         /\ frames \in Seq(Activation) /\ called \in Seq(Filter)
<1>1. next_ \in Table /\ Ends(next_)
  BY DEF GraphInv, TypeOK, Acyclic, Deeper, Falling, Table, Ends
<1>2. PICK chains \in Table : chains = next_ /\ Ends(chains)
  BY <1>1
<1>3. Unfolds(FlatIn(chains), chains)
  BY <1>2, FlatUnfolds
<1>. QED
  BY <1>1, <1>2, <1>3 DEF GraphInv, TypeOK, Activation

\* What a call gives up is referred to by others still.
LEMMA TwiceReferred ==
  ASSUME GraphInv, NEW f \in Filter, dropped = <<f>>,
         \/ Held(f)
         \/ \E g \in Filter : \E i \in DOMAIN next_[g] : next_[g][i] = f
  PROVE  references[f] # 1
<1>. DEFINE h == Cardinality(Holders(f))
            l == Cardinality(Links(f))
            d == Count(dropped, f)
            c == Cardinality(Calls(f))
<1>1. h \in Nat /\ l \in Nat /\ d \in Nat /\ c \in Nat /\ references[f] = h + l + d + c
  BY PartsAreFinite
<1>2. (h = 0 => Holders(f) = {}) /\ (l = 0 => Links(f) = {})
  BY PartsAreFinite, FS_EmptySet
<1>3. d = 1
  BY CountOne
<1>4. Holders(f) # {} \/ Links(f) # {}
  <2>1. CASE Held(f)
    BY <2>1 DEF Holders, Held
  <2>2. CASE \E g \in Filter : \E i \in DOMAIN next_[g] : next_[g][i] = f
    <3>0. PICK g \in Filter : \E i \in DOMAIN next_[g] : next_[g][i] = f
      BY <2>2
    <3>1. PICK i \in DOMAIN next_[g] : next_[g][i] = f
      BY <3>0
    <3>2. i \in Nat
      <4>1. next_[g] \in Seq(Filter)
        BY DEF GraphInv, TypeOK
      <4>. QED
        BY <4>1
    <3>3. <<g, i>> \in Links(f)
      BY <3>1, <3>2 DEF Links
    <3>. QED
      BY <3>3
  <2>. QED
    BY <2>1, <2>2
<1>. HIDE DEF h, l, d, c
<1>. QED
  BY <1>1, <1>2, <1>3, <1>4

\* A call in progress.
InCall(chains, F, fr, n, todo) ==
  /\ chains = next_ /\ F = FlatIn(next_) /\ fr = frames /\ n = Len(fr)
  /\ chains \in Table /\ Unfolds(F, chains) /\ fr \in Seq(Activation) /\ called \in Seq(Filter)
  /\ called # << >> /\ Held(called[1])
  /\ Calling(chains, F, Who(fr), At(fr), n, todo, verdict, passing, called)

LEMMA CallIsKnown ==
  ASSUME GraphInv, CallInv, called # << >>
  PROVE  \E chains, F, fr, n, todo : InCall(chains, F, fr, n, todo)
<1>1. PICK todo : Calling(next_, FlatIn(next_), Who(frames), At(frames), Len(frames), todo,
                          verdict, passing, called)
  BY Zenon DEF CallInv
<1>2. InCall(next_, FlatIn(next_), frames, Len(frames), todo)
  BY <1>1, CallTables DEF InCall, CallInv
<1>. QED
  BY <1>2

\* It stays one.
LEMMA CallStays ==
  ASSUME next_' = next_, ptr' = ptr, NEW chains, NEW F, NEW fr, NEW n, NEW todo,
         InCall(chains, F, fr, n, todo),
         NEW new, new = frames', NEW m, m = Len(new), NEW more, NEW longer, longer = called',
         longer # << >>, longer[1] = called[1],
         Calling(chains, F, Who(new), At(new), m, more, verdict', passing', longer),
         GivenUp'
  PROVE  CallInv'
<1>1. F = FlatIn(next_') /\ chains = next_'
  BY DEF InCall
<1>2. Held(called[1])'
  <2>1. Held(called[1])
    BY DEF InCall
  <2>2. PICK f : f = called[1] /\ f = called'[1]
    OBVIOUS
  <2>. QED
    BY <2>1, <2>2 DEF Held
<1>3. Calling(next_', FlatIn(next_'), Who(frames'), At(frames'), Len(frames'), more,
              verdict', passing', called')
  BY <1>1, Zenon
<1>. QED
  BY <1>2, <1>3, Zenon DEF CallInv

\* TestFails, EndLoop and ReturnFalse return from the innermost call.
LEMMA CallReturnsStep ==
  ASSUME NEW chains, NEW F, NEW fr, NEW n, NEW todo, InCall(chains, F, fr, n, todo),
         frames # << >>, NEW result \in {"pass", "fail"}, ReturnVerdict(result),
         NEW new, new = Front(fr),
         Calling(chains, F, Who(new), At(new), n - 1, todo, result, passing, called)
  PROVE  CallInv'
<1>1. /\ fr \in Seq(Activation) /\ fr # << >> /\ n = Len(fr) /\ fr = frames
      /\ Calling(chains, F, Who(fr), At(fr), n, todo, verdict, passing, called)
  BY DEF InCall
<1>2. /\ n \in Nat /\ n > 0 /\ Len(new) = n - 1
      /\ (new = << >> => n - 1 = 0) /\ (new # << >> => n - 1 # 0)
      /\ Like(Who(fr), At(fr), Who(new), At(new), n - 1)
      /\ Who(fr)[n] = fr[n].filter
  BY <1>1, FrontIsLike
<1>3. PICK m : m = n - 1 /\ m = Len(new) /\ (new = << >> <=> m = 0)
  BY <1>2
<1>4. Who(fr)[1] = called[1] /\ Stacked(chains, F, Who(fr), At(fr), n, todo)
  BY <1>1, <1>2, StageIs
<1>5. Who(fr)[n] = IF m = 0 THEN called[1] ELSE Child(chains, Who(new), At(new), m)
  <2>1. EnteredFrom(chains, F, Who(new), At(new), n - 1, todo, Who(fr)[n], todo[n])
    BY <1>2, <1>4, StackPopped
  <2>2. m > 0 => Child(chains, Who(new), At(new), m) = Who(fr)[n]
    BY <1>3, <2>1, Zenon DEF EnteredFrom
  <2>3. m = 0 => n = 1
    BY <1>2, <1>3
  <2>4. m = 0 \/ m > 0
    BY <1>2, <1>3
  <2>. QED
    BY <1>4, <2>2, <2>3, <2>4, Zenon
<1>6. /\ verdict' = result /\ frames' = new /\ dropped' = <<fr[n].filter>>
      /\ UNCHANGED <<next_, ptr, passing, called>>
  BY <1>1 DEF ReturnVerdict, Frame
<1>7. GivenUp'
  <2>1. verdict' # "none"
    BY <1>6
  <2>2. PICK f : f = fr[n].filter
    OBVIOUS
  <2>3. /\ dropped' = <<f>> 
        /\ f = IF frames' = << >> THEN called'[1]
               ELSE Child(next_', Who(frames'), At(frames'), Len(frames'))
    <3>1. chains = next_'
      BY <1>6 DEF InCall
    <3>. QED
      BY <1>2, <1>3, <1>5, <1>6, <2>2, <3>1, Zenon
  <2>. QED
    BY <2>1, <2>3, Zenon DEF GivenUp
<1>8. Calling(chains, F, Who(new), At(new), m, todo, verdict', passing', called')
  BY <1>3, <1>6, Zenon
<1>9. called' # << >> /\ called'[1] = called[1]
  BY <1>6 DEF InCall
<1>. QED
  BY <1>3, <1>6, <1>7, <1>8, <1>9, CallStays

LEMMA InCallKnows ==
  ASSUME NEW chains, NEW F, NEW fr, NEW n, NEW todo, InCall(chains, F, fr, n, todo)
  PROVE  /\ chains \in Table /\ Unfolds(F, chains) /\ chains = next_
         /\ fr = frames /\ n = Len(fr) /\ fr \in Seq(Activation)
         /\ called \in Seq(Filter) /\ called # << >>
         /\ Calling(chains, F, Who(fr), At(fr), n, todo, verdict, passing, called)
BY DEF InCall

LEMMA TestFailsStep ==
  ASSUME NEW chains, NEW F, NEW fr, NEW n, NEW todo, InCall(chains, F, fr, n, todo), TestFails
  PROVE  CallInv'
<1>1. PICK new : new = Front(fr)
  OBVIOUS
<1>2. /\ frames # << >> /\ verdict = "none" /\ ReturnVerdict("fail")
      /\ fr[n].i = 0 /\ fr[n].filter \notin passing
  BY InCallKnows DEF TestFails, AtTest, Running, Frame
<1>3. /\ n \in Nat /\ n > 0
      /\ Like(Who(fr), At(fr), Who(new), At(new), n - 1)
      /\ Who(fr)[n] = fr[n].filter /\ At(fr)[n] = fr[n].i
  BY <1>1, <1>2, InCallKnows, FrontIsLike
<1>4. /\ chains \in Table /\ Unfolds(F, chains)
      /\ Calling(chains, F, Who(fr), At(fr), n, todo, "none", passing, called)
  BY <1>2, InCallKnows
<1>5. Who(fr)[n] \notin passing /\ At(fr)[n] = 0
  BY <1>2, <1>3
<1>6. Calling(chains, F, Who(new), At(new), n - 1, todo, "fail", passing, called)
  BY <1>3, <1>4, <1>5, CallTestFails
<1>. QED
  BY <1>1, <1>2, <1>6, CallReturnsStep

LEMMA EndLoopStep ==
  ASSUME NEW chains, NEW F, NEW fr, NEW n, NEW todo, InCall(chains, F, fr, n, todo), EndLoop
  PROVE  CallInv'
<1>1. PICK new : new = Front(fr)
  OBVIOUS
<1>2. /\ frames # << >> /\ verdict = "none" /\ ReturnVerdict("pass")
      /\ fr[n].i > 0 /\ fr[n].i > Len(chains[fr[n].filter])
  BY InCallKnows DEF EndLoop, InLoop, Running, Frame
<1>3. /\ n \in Nat /\ n > 0
      /\ Like(Who(fr), At(fr), Who(new), At(new), n - 1)
      /\ Who(fr)[n] = fr[n].filter /\ At(fr)[n] = fr[n].i
  BY <1>1, <1>2, InCallKnows, FrontIsLike
<1>4. /\ chains \in Table /\ Unfolds(F, chains) /\ called \in Seq(Filter)
      /\ Calling(chains, F, Who(fr), At(fr), n, todo, "none", passing, called)
  BY <1>2, InCallKnows
<1>5. At(fr)[n] > 0 /\ At(fr)[n] > Len(chains[Who(fr)[n]])
  BY <1>2, <1>3
<1>6. Calling(chains, F, Who(new), At(new), n - 1, todo, "pass", passing, called)
  BY <1>3, <1>4, <1>5, CallLoopEnds
<1>. QED
  BY <1>1, <1>2, <1>6, CallReturnsStep

LEMMA ReturnFalseStep ==
  ASSUME NEW chains, NEW F, NEW fr, NEW n, NEW todo, InCall(chains, F, fr, n, todo), ReturnFalse
  PROVE  CallInv'
<1>1. PICK new : new = Front(fr)
  OBVIOUS
<1>2. frames # << >> /\ verdict = "fail" /\ ReturnVerdict("fail")
  BY DEF ReturnFalse, NextFailed
<1>3. n \in Nat /\ n > 0 /\ Like(Who(fr), At(fr), Who(new), At(new), n - 1)
  BY <1>1, <1>2, InCallKnows, FrontIsLike
<1>4. /\ chains \in Table
      /\ Calling(chains, F, Who(fr), At(fr), n, todo, "fail", passing, called)
  BY <1>2, InCallKnows
<1>5. Calling(chains, F, Who(new), At(new), n - 1, todo, "fail", passing, called)
  BY <1>3, <1>4, CallReturnsFalse
<1>. QED
  BY <1>1, <1>2, <1>5, CallReturnsStep

LEMMA TestPassesStep ==
  ASSUME NEW chains, NEW F, NEW fr, NEW n, NEW todo, InCall(chains, F, fr, n, todo), TestPasses
  PROVE  CallInv'
<1>1. PICK new : new = frames'
  OBVIOUS
<1>2. /\ frames # << >> /\ verdict = "none" /\ dropped = << >> /\ PlacedAt(fr, n, 1, new)
      /\ fr[n].i = 0 /\ fr[n].filter \in passing
      /\ UNCHANGED <<next_, ptr, dropped, verdict, passing, called>>
  <2>1. fr = frames /\ n = Len(fr)
    BY InCallKnows
  <2>2. PlacedAt(fr, n, 1, new)
    BY <1>1, <2>1 DEF TestPasses, CalledBase, PlacedAt
  <2>. QED
    BY <2>1, <2>2 DEF TestPasses, AtTest, Running, Frame
<1>3. /\ n \in Nat /\ n > 0 /\ Len(new) = n
      /\ Moved(Who(fr), At(fr), Who(new), At(new), n)
      /\ Who(fr)[n] = fr[n].filter /\ At(fr)[n] = fr[n].i /\ At(new)[n] = 1
  BY <1>1, <1>2, InCallKnows, PlacedIsMoved
<1>4. /\ chains \in Table /\ Unfolds(F, chains) /\ called \in Seq(Filter)
      /\ Calling(chains, F, Who(fr), At(fr), n, todo, "none", passing, called)
  BY <1>2, InCallKnows
<1>5. Who(fr)[n] \in passing /\ At(fr)[n] = 0
  BY <1>2, <1>3
<1>6. Calling(chains, F, Who(new), At(new), n, todo, "none", passing, called)
  <2>1. At(new)[n] = 1
    BY <1>3
  <2>. QED
    BY <1>3, <1>4, <1>5, <2>1, CallTestPasses
<1>7. GivenUp'
  BY <1>2 DEF GivenUp
<1>8. /\ called' # << >> /\ called'[1] = called[1]
      /\ Calling(chains, F, Who(new), At(new), n, todo, verdict', passing', called')
  BY <1>2, <1>6, InCallKnows
<1>. QED
  BY <1>1, <1>2, <1>3, <1>7, <1>8, CallStays

LEMMA GoOnStep ==
  ASSUME NEW chains, NEW F, NEW fr, NEW n, NEW todo, InCall(chains, F, fr, n, todo), GoOn
  PROVE  CallInv'
<1>1. /\ frames # << >> /\ verdict = "pass" /\ dropped = << >> /\ verdict' = "none"
      /\ frames' = [fr EXCEPT ![n].i = @ + 1]
      /\ UNCHANGED <<next_, ptr, dropped, passing, called>>
  BY InCallKnows DEF GoOn, NextPassed
<1>2. PICK place \in Nat : place = fr[n].i + 1
  <2>1. fr[n] \in Activation
    BY <1>1, InCallKnows
  <2>2. fr[n].i + 1 \in Nat
    BY <2>1 DEF Activation
  <2>. QED
    BY <2>2, Zenon
<1>3. PICK new : PlacedAt(fr, n, place, new) /\ new = frames'
  BY <1>1, <1>2, Zenon DEF PlacedAt
<1>4. /\ n \in Nat /\ n > 0 /\ Len(new) = n
      /\ Moved(Who(fr), At(fr), Who(new), At(new), n)
      /\ At(fr)[n] = fr[n].i /\ At(new)[n] = place
  BY <1>1, <1>3, InCallKnows, PlacedIsMoved
<1>5. chains \in Table /\ Calling(chains, F, Who(fr), At(fr), n, todo, "pass", passing, called)
  BY <1>1, InCallKnows
<1>6. At(new)[n] = At(fr)[n] + 1
  BY <1>2, <1>4
<1>7. Calling(chains, F, Who(new), At(new), n, todo, "none", passing, called)
  BY <1>4, <1>5, <1>6, CallGoesOnToNext
<1>8. GivenUp'
  BY <1>1 DEF GivenUp
<1>9. /\ called' # << >> /\ called'[1] = called[1]
      /\ Calling(chains, F, Who(new), At(new), n, todo, verdict', passing', called')
  BY <1>1, <1>7, InCallKnows
<1>. QED
  BY <1>1, <1>3, <1>4, <1>8, <1>9, CallStays

LEMMA CallNextStep ==
  ASSUME NEW chains, NEW F, NEW fr, NEW n, NEW todo, InCall(chains, F, fr, n, todo), CallNext
  PROVE  CallInv'
<1>1. PICK f : f = chains[fr[n].filter][fr[n].i]
  OBVIOUS
<1>2. PICK new : new = frames'
  OBVIOUS
<1>3. PICK longer : longer = Append(called, f)
  OBVIOUS
<1>4. /\ frames # << >> /\ verdict = "none" /\ dropped = << >>
      /\ fr[n].i > 0 /\ fr[n].i <= Len(chains[fr[n].filter])
      /\ Extended(fr, f, new) /\ called' = longer
      /\ UNCHANGED <<next_, ptr, dropped, verdict, passing>>
  BY <1>1, <1>2, <1>3, InCallKnows DEF CallNext, InLoop, Running, Frame, Extended
<1>5. f \in Filter
  <2>1. fr[n] \in Activation
    BY <1>4, InCallKnows
  <2>2. fr[n].filter \in Filter /\ fr[n].i \in Nat
    BY <2>1 DEF Activation
  <2>3. chains[fr[n].filter] \in Seq(Filter)
    BY <2>2, InCallKnows DEF Table
  <2>. QED
    BY <1>1, <1>4, <2>2, <2>3
<1>6. /\ n \in Nat /\ n > 0 /\ Len(new) = n + 1
      /\ Pushed(Who(fr), At(fr), Who(new), At(new), n, f)
      /\ Who(fr)[n] = fr[n].filter /\ At(fr)[n] = fr[n].i
  BY <1>2, <1>4, <1>5, InCallKnows, AppendedIsPushed
<1>7. /\ chains \in Table /\ Unfolds(F, chains) /\ called \in Seq(Filter) /\ called # << >>
      /\ Calling(chains, F, Who(fr), At(fr), n, todo, "none", passing, called)
  BY <1>4, InCallKnows
<1>8. At(fr)[n] > 0 /\ At(fr)[n] <= Len(chains[Who(fr)[n]]) /\ f = Child(chains, Who(fr), At(fr), n)
  BY <1>1, <1>4, <1>6 DEF Child
<1>9. PICK more : Calling(chains, F, Who(new), At(new), n + 1, more, "none", passing, longer)
  BY <1>3, <1>5, <1>6, <1>7, <1>8, CallNextCalled
<1>10. PICK m : m = n + 1 /\ m = Len(new)
  BY <1>6
<1>11. Calling(chains, F, Who(new), At(new), m, more, verdict', passing', longer)
  BY <1>4, <1>9, <1>10, Zenon
<1>12. longer # << >> /\ longer[1] = called[1]
  BY <1>3, <1>5, <1>7
<1>13. GivenUp'
  BY <1>4 DEF GivenUp
<1>. QED
  BY <1>2, <1>3, <1>4, <1>10, <1>11, <1>12, <1>13, CallStays

\* A filter that has returned was entered from the one that gives it up.
LEMMA ReturnedWasEntered ==
  ASSUME NEW chains \in Table, NEW F, NEW who, NEW at, NEW todo, NEW n \in Nat, n > 0,
         NEW pass, NEW list, NEW result, result # "none",
         Calling(chains, F, who, at, n, todo, result, pass, list)
  PROVE  /\ \E g \in Filter : \E i \in DOMAIN chains[g] : chains[g][i] = Child(chains, who, at, n)
         /\ Child(chains, who, at, n) \in Filter
<1>1. Entered(chains, who, at, n) /\ Stacked(chains, F, who, at, n, todo)
  BY DEF Calling, Passed, Failed
<1>2. who[n] \in Filter /\ at[n] \in DOMAIN chains[who[n]]
  BY <1>1 DEF Stacked, Entered
<1>3. chains[who[n]] \in Seq(Filter)
  BY <1>2 DEF Table
<1>4. chains[who[n]][at[n]] = Child(chains, who, at, n) /\ chains[who[n]][at[n]] \in Filter
  BY <1>2, <1>3 DEF Child
<1>. QED
  BY <1>2, <1>4

\* During a call nothing is deleted: what is given up is still referred to, by
\* the application's variable or by the filter it is chained to.
LEMMA UnrefInCall ==
  ASSUME GraphInv, CallInv, NEW chains, NEW F, NEW fr, NEW n, NEW todo,
         InCall(chains, F, fr, n, todo), Unref
  PROVE  CallInv'
<1>1. /\ dropped # << >> /\ GivenUp /\ UNCHANGED <<ptr, callVars>>
      /\ called \in Seq(Filter) /\ called # << >> /\ Held(called[1]) /\ chains = next_
  BY DEF Unref, CallInv, InCall
<1>2. PICK f : /\ verdict # "none" /\ dropped = <<f>>
               /\ f = IF fr = << >> THEN called[1] ELSE Child(chains, Who(fr), At(fr), n)
  BY <1>1, InCallKnows DEF GivenUp
<1>3. f \in Filter /\ references[f] # 1
  <2>1. CASE fr = << >>
    <3>1. f \in Filter /\ Held(f)
      BY <1>1, <1>2, <2>1
    <3>. QED
      BY <1>2, <3>1, TwiceReferred
  <2>2. CASE fr # << >>
    <3>1. n \in Nat /\ n > 0
      BY <2>2, InCallKnows
    <3>2. /\ chains \in Table
          /\ Calling(chains, F, Who(fr), At(fr), n, todo, verdict, passing, called)
      BY InCallKnows
    <3>3. /\ \E g \in Filter : \E i \in DOMAIN chains[g] :
               chains[g][i] = Child(chains, Who(fr), At(fr), n)
          /\ Child(chains, Who(fr), At(fr), n) \in Filter
      BY <1>2, <3>1, <3>2, ReturnedWasEntered
    <3>4. f \in Filter /\ f = Child(chains, Who(fr), At(fr), n)
      BY <1>2, <2>2, <3>3
    <3>5. \E h \in Filter : \E j \in DOMAIN next_[h] : next_[h][j] = f
      BY <1>1, <3>3, <3>4
    <3>. QED
      BY <1>2, <3>4, <3>5, TwiceReferred
  <2>. QED
    BY <2>1, <2>2
<1>4. next_' = next_ /\ dropped' = << >>
  <2>1. Head(dropped) = f /\ Tail(dropped) = << >> /\ << >> \o << >> = << >>
    BY <1>2, <1>3
  <2>. QED
    BY <1>3, <2>1 DEF Unref
<1>5. /\ ptr' = ptr /\ frames' = frames /\ called' = called
      /\ verdict' = verdict /\ passing' = passing
  BY <1>1 DEF callVars
<1>6. GivenUp'
  BY <1>4 DEF GivenUp
<1>7. PICK new : new = fr
  OBVIOUS
<1>8. new = frames' /\ n = Len(new)
  BY <1>5, <1>7, InCallKnows
<1>9. Calling(chains, F, Who(new), At(new), n, todo, verdict', passing', called')
  BY <1>5, <1>7, InCallKnows, Zenon
<1>10. called' # << >> /\ called'[1] = called[1]
  BY <1>1, <1>5
<1>. QED
  BY <1>4, <1>5, <1>6, <1>8, <1>9, <1>10, CallStays

\* A call that starts has all of its chain ahead.
LEMMA CallStarts ==
  ASSUME NEW chains \in Table, NEW F, Unfolds(F, chains), NEW f \in Filter, NEW pass,
         NEW who, NEW at, who[1] = f, at[1] = 0, NEW list \in Seq(Filter), Len(list) = 1, list[1] = f
  PROVE  \E todo : Calling(chains, F, who, at, 1, todo, "none", pass, list)
<1>. DEFINE todo == [k \in 1 .. 1 |-> << >>]
<1>1. todo[1] = << >> /\ << >> \in Seq(Filter)
  OBVIOUS
<1>. HIDE DEF todo
<1>2. Stacked(chains, F, who, at, 1, todo)
  <2>1. PICK n : n = 1
    OBVIOUS
  <2>2. \A k \in 1 .. n : who[k] \in Filter /\ at[k] \in Nat /\ todo[k] \in Seq(Filter)
    <3>1. \A k \in 1 .. n : k = 1
      BY <2>1
    <3>2. who[1] \in Filter /\ at[1] \in Nat /\ todo[1] \in Seq(Filter)
      BY <1>1
    <3>. QED
      BY <3>1, <3>2, Zenon
  <2>3. 1 .. n - 1 = {}
    BY <2>1
  <2>4. Stacked(chains, F, who, at, n, todo)
    BY <1>1, <2>2, <2>3, Zenon DEF Stacked
  <2>. QED
    BY <2>1, <2>4
<1>3. PICK rest \in Seq(Filter) : rest = Rest(chains, F, f, 1) /\ F[f] = <<f>> \o rest
  <2>1. 1 \in Nat \ {0}
    OBVIOUS
  <2>2. Rest(chains, F, f, 1) \in Seq(Filter) /\ F[f] = <<f>> \o Rest(chains, F, f, 1)
    BY <2>1, RestKnown, Zenon
  <2>. QED
    BY <2>2, Zenon
<1>4. rest \o << >> = rest /\ list = <<f>>
  OBVIOUS
<1>5. Ahead(F, list, Rest(chains, F, who[1], 1) \o todo[1])
  BY <1>1, <1>3, <1>4, Zenon DEF Ahead
<1>6. OthersPass(list, pass)
  BY DEF OthersPass
<1>7. Testing(chains, F, who, at, 1, todo, pass, list)
  BY <1>5, <1>6 DEF Testing
<1>8. Calling(chains, F, who, at, 1, todo, "none", pass, list)
  BY <1>2, <1>7 DEF Calling
<1>. QED
  BY <1>8

LEMMA CallBegun ==
  ASSUME GraphInv, CallInv, NEW v \in Variable, Call(v)
  PROVE  CallInv'
<1>1. PICK f : f = ptr[v]
  OBVIOUS
<1>2. /\ called = << >> /\ dropped = << >> /\ f # Null
      /\ frames' = <<[filter |-> f, i |-> 0]>> /\ called' = <<f>>
      /\ UNCHANGED <<next_, ptr, dropped, verdict>>
  BY <1>1 DEF Call, Idle
<1>3. f \in Filter
  BY <1>1, <1>2 DEF GraphInv, TypeOK
<1>4. verdict = "none" /\ next_ \in Table /\ Unfolds(FlatIn(next_), next_)
  BY <1>2, CallTables DEF CallInv
<1>5. PICK chains, F : chains \in Table /\ chains = next_ /\ F = FlatIn(next_) /\ Unfolds(F, chains)
  BY <1>4
<1>6. PICK new : new = frames'
  OBVIOUS
<1>7. Len(new) = 1 /\ Who(new)[1] = f /\ At(new)[1] = 0
  <2>1. PICK a : a = [filter |-> f, i |-> 0]
    OBVIOUS
  <2>2. a.filter = f /\ a.i = 0
    BY <2>1
  <2>3. new = <<a>>
    BY <1>2, <1>6, <2>1
  <2>4. Len(new) = 1 /\ DOMAIN new = 1 .. 1 /\ new[1] = a
    BY <2>3
  <2>. QED
    BY <2>2, <2>4 DEF Who, At
<1>8. PICK list \in Seq(Filter) : list = <<f>> /\ list = called' /\ Len(list) = 1 /\ list[1] = f
  <2>1. <<f>> \in Seq(Filter) /\ Len(<<f>>) = 1 /\ <<f>>[1] = f
    BY <1>3
  <2>. QED
    BY <1>2, <2>1, Zenon
<1>9. PICK todo : Calling(chains, F, Who(new), At(new), 1, todo, "none", passing', list)
  BY <1>3, <1>5, <1>7, <1>8, CallStarts
<1>10. PICK m : m = 1 /\ m = Len(new)
  BY <1>7
<1>11. Calling(next_', FlatIn(next_'), Who(frames'), At(frames'), Len(frames'), todo,
               verdict', passing', called')
  <2>1. chains = next_' /\ F = FlatIn(next_')
    BY <1>2, <1>5
  <2>2. verdict' = "none"
    BY <1>2, <1>4
  <2>. QED
    BY <1>6, <1>8, <1>9, <1>10, <2>1, <2>2, Zenon
<1>12. Held(called[1])'
  <2>1. f = called'[1] /\ ptr'[v] = f
    BY <1>1, <1>2
  <2>. QED
    BY <2>1 DEF Held
<1>13. GivenUp' /\ called' # << >>
  BY <1>2 DEF GivenUp
<1>. QED
  BY <1>11, <1>12, <1>13, Zenon DEF CallInv

\* Between two calls nothing is called.
LEMMA CallInvStep == GraphInv /\ CallInv /\ [Next]_vars => CallInv'
<1>. SUFFICES ASSUME GraphInv, CallInv, [Next]_vars PROVE CallInv'
  OBVIOUS
<1>1. CASE called = << >>
  <2>1. verdict = "none" /\ frames = << >>
    BY <1>1 DEF CallInv, GraphInv
  <2>2. ASSUME called' = called, verdict' = verdict PROVE CallInv'
    BY <1>1, <2>1, <2>2 DEF CallInv
  <2>3. CASE \E v \in Variable : Call(v)
    BY <2>3, CallBegun
  <2>4. CASE \/ \E v \in Variable : New(v) \/ Reset(v)
             \/ \E v, w \in Variable : Assign(v, w)
             \/ \E v, a, b \in Variable : Chain(v, a, b)
    BY <2>2, <2>4 DEF New, Reset, Assign, Chain, callVars
  <2>5. CASE Unref
    BY <2>2, <2>5 DEF Unref, callVars
  <2>6. ~TestFails /\ ~TestPasses /\ ~CallNext /\ ~EndLoop /\ ~GoOn /\ ~ReturnFalse /\ ~TakeVerdict
    BY <2>1 DEF TestFails, TestPasses, CallNext, EndLoop, GoOn, ReturnFalse, TakeVerdict,
                AtTest, InLoop, Running, NextPassed, NextFailed
  <2>7. CASE UNCHANGED vars
    BY <2>2, <2>7 DEF vars, callVars
  <2>. QED
    BY <2>3, <2>4, <2>5, <2>6, <2>7 DEF Next, Step
<1>2. CASE called # << >>
  <2>0. PICK chains, F, fr, n, todo : InCall(chains, F, fr, n, todo)
    BY <1>2, CallIsKnown
  <2>1. /\ ~(\E v \in Variable : New(v) \/ Reset(v) \/ Call(v))
        /\ ~(\E v, w \in Variable : Assign(v, w))
        /\ ~(\E v, a, b \in Variable : Chain(v, a, b))
    BY <1>2 DEF New, Reset, Call, Assign, Chain, Idle
  <2>2. CASE Unref
    BY <2>0, <2>2, UnrefInCall
  <2>3. CASE TestFails
    BY <2>0, <2>3, TestFailsStep
  <2>4. CASE TestPasses
    BY <2>0, <2>4, TestPassesStep
  <2>5. CASE CallNext
    BY <2>0, <2>5, CallNextStep
  <2>6. CASE EndLoop
    BY <2>0, <2>6, EndLoopStep
  <2>7. CASE GoOn
    BY <2>0, <2>7, GoOnStep
  <2>8. CASE ReturnFalse
    BY <2>0, <2>8, ReturnFalseStep
  <2>9. CASE TakeVerdict
    BY <2>9 DEF TakeVerdict, CallInv
  <2>10. CASE UNCHANGED vars
    BY <2>10 DEF vars, callVars, CallInv, GivenUp, Held
  <2>. QED
    BY <2>1, <2>2, <2>3, <2>4, <2>5, <2>6, <2>7, <2>8, <2>9, <2>10 DEF Next, Step
<1>. QED
  BY <1>1, <1>2

Split(chain, list, rest) == chain = list \o rest

NotPassing(chain, pass) == {i \in DOMAIN chain : chain[i] \notin pass}

UpToFirst(chain, list, failed) ==
  failed # {} /\ list = SubSeq(chain, 1, CHOOSE i \in failed : \A j \in failed : i <= j)

\* The first of the chain that does not pass is the last that was called.
LEMMA FirstFailed ==
  ASSUME NEW list \in Seq(Filter), list # << >>, NEW rest \in Seq(Filter), NEW pass,
         OthersPass(list, pass), list[Len(list)] \notin pass,
         NEW chain, Split(chain, list, rest)
  PROVE  UpToFirst(chain, list, NotPassing(chain, pass))
<1>. DEFINE failed == NotPassing(chain, pass)
<1>0. failed = {i \in DOMAIN chain : chain[i] \notin pass} /\ chain = list \o rest
  BY DEF NotPassing, Split
<1>. HIDE DEF failed
<1>1. PICK n \in Nat : n = Len(list) /\ n > 0 /\ n \in 1 .. n
  <2>1. Len(list) \in Nat /\ Len(list) > 0 /\ Len(list) \in 1 .. Len(list)
    OBVIOUS
  <2>. QED
    BY <2>1, Zenon
<1>2. /\ DOMAIN chain = 1 .. n + Len(rest) /\ Len(rest) \in Nat /\ DOMAIN list = 1 .. n
      /\ \A i \in 1 .. n : chain[i] = list[i] /\ i \in DOMAIN chain
  BY <1>0, <1>1
<1>3. n \in failed
  BY <1>0, <1>1, <1>2
<1>4. \A j \in failed : j \in Nat /\ n <= j
  <2>. SUFFICES ASSUME NEW j \in failed, j < n PROVE FALSE
    BY <1>0, <1>1, <1>2
  <2>1. j \in 1 .. n - 1 /\ j \in 1 .. n
    BY <1>0, <1>1, <1>2
  <2>2. list[j] \in pass
    BY <1>1, <2>1 DEF OthersPass
  <2>3. list[j] = chain[j] /\ chain[j] \notin pass
    BY <1>0, <1>2, <2>1
  <2>. QED
    BY <2>2, <2>3
<1>5. (CHOOSE i \in failed : \A j \in failed : i <= j) = n
  <2>1. PICK least : least = CHOOSE i \in failed : \A j \in failed : i <= j
    OBVIOUS
  <2>2. least \in failed /\ \A j \in failed : least <= j
    BY <1>3, <1>4, <2>1, Zenon
  <2>3. least \in Nat /\ least <= n /\ n <= least
    BY <1>3, <1>4, <2>2
  <2>4. least = n
    BY <1>1, <2>3
  <2>. QED
    BY <2>1, <2>4
<1>6. list = SubSeq(chain, 1, n)
  BY <1>0, <1>1, <1>2
<1>. QED
  BY <1>3, <1>5, <1>6, Zenon DEF UpToFirst, failed

LEMMA CallTellsVerdict == GraphInv /\ CallInv => VerdictOfChain
<1>. SUFFICES ASSUME GraphInv, CallInv, verdict # "none", frames = << >>,
                     NEW chain, chain = Flat(called[1]),
                     NEW failed, failed = {i \in DOMAIN chain : chain[i] \notin passing}
              PROVE  IF failed = {} THEN verdict = "pass" /\ called = chain
                     ELSE /\ verdict = "fail"
                          /\ called = SubSeq(chain, 1, CHOOSE i \in failed : \A j \in failed : i <= j)
  BY Zenon DEF VerdictOfChain
<1>0. failed = NotPassing(chain, passing)
  BY DEF NotPassing
<1>1. called # << >>
  BY DEF CallInv
<1>2. PICK chains, F, fr, n, todo : InCall(chains, F, fr, n, todo)
  BY <1>1, CallIsKnown
<1>3. /\ called \in Seq(Filter) /\ fr = frames /\ n = Len(fr)
      /\ Calling(chains, F, Who(fr), At(fr), n, todo, verdict, passing, called)
  BY <1>2, InCallKnows
<1>4. n = 0 /\ F[called[1]] = chain
  BY <1>2, <1>3 DEF InCall, Flat
<1>5. CASE verdict = "pass"
  <2>1. Passed(chains, F, Who(fr), At(fr), n, todo, passing, called)
    BY <1>3, <1>5, StageIs
  <2>2. AllPass(called, passing) /\ chain = called
    BY <1>4, <2>1 DEF Passed
  <2>3. failed = {}
    <3>1. DOMAIN chain = 1 .. Len(called)
      BY <1>3, <2>2
    <3>2. \A i \in DOMAIN chain : chain[i] \in passing
      BY <2>2, <3>1, Zenon DEF AllPass
    <3>. QED
      BY <1>0, <3>2 DEF NotPassing
  <2>. QED
    BY <1>5, <2>2, <2>3
<1>6. CASE verdict = "fail"
  <2>1. Failed(chains, F, Who(fr), At(fr), n, passing, called)
    BY <1>3, <1>6, StageIs
  <2>2. PICK rest \in Seq(Filter) : Split(chain, called, rest)
    BY <1>4, <2>1 DEF Failed, Ahead, Split
  <2>3. OthersPass(called, passing) /\ called[Len(called)] \notin passing
    BY <2>1 DEF Failed
  <2>4. UpToFirst(chain, called, failed)
    BY <1>0, <1>1, <1>3, <2>2, <2>3, FirstFailed
  <2>. QED
    BY <1>6, <2>4, Zenon DEF UpToFirst
<1>. QED
  BY <1>3, <1>5, <1>6 DEF Calling

\* A call of a chain (Filter::operator() of filter.cpp, and the test of each
\* filter before it) calls the filters of the flat sequence in their order, up to
\* the first that fails the candidate, and returns whether one did.
THEOREM CallsFollowTheChain == Spec => []VerdictOfChain
<1>1. Init => CallInv
  BY DEF Init, CallInv
<1>. QED
  BY <1>1, GraphInvariant, CallInvStep, CallTellsVerdict, PTL DEF Spec

================================================================================
