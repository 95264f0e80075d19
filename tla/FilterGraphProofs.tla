--------------------------- MODULE FilterGraphProofs ---------------------------
(***************************************************************************)
(* The reference counts of the filters are exact in the middle of every call  *)
(* and of every deletion, for any number of filters and variables and chains   *)
(* of any length: nothing that is reached is deleted, and what is not reached  *)
(* is.                                                                     *)
(***************************************************************************)
EXTENDS FilterGraph, FiniteSetTheorems, TLAPS

(* The inductive invariant counts, for each filter, who refers to it: the       *)
(* variables, the filters it is chained to, the references still to be given up  *)
(* and the calls in progress.                                               *)
Count(list, f) == Cardinality({k \in DOMAIN list : list[k] = f})

Holders(f) == {v \in Variable : ptr[v] = f}
Links(f) == {l \in Filter \X Nat : l[2] \in DOMAIN next_[l[1]] /\ next_[l[1]][l[2]] = f}
Calls(f) == {k \in DOMAIN frames : frames[k].filter = f}

TypeOK ==
  /\ next_ \in [Filter -> Seq(Filter)]
  /\ references \in [Filter -> Nat]
  /\ ptr \in [Variable -> Filter \cup {Null}]
  /\ dropped \in Seq(Filter)
  /\ frames \in Seq([filter : Filter, i : Nat])
  /\ verdict \in {"none", "pass", "fail"}
  /\ passing \in SUBSET Filter
  /\ called \in Seq(Filter)

Counted ==
  \A f \in Filter :
    /\ IsFiniteSet(Links(f))
    /\ references[f] = Cardinality(Holders(f)) + Cardinality(Links(f))
                         + Count(dropped, f) + Cardinality(Calls(f))

\* An object that is gone refers to nothing.
Gone == \A f \in Filter : ~Exists(f) => next_[f] = << >>

\* No filter is chained behind itself: what is chained to a filter lies deeper.
Deeper(depth) ==
  \A g \in Filter : \A i \in DOMAIN next_[g] : depth[g] < depth[next_[g][i]]
Acyclic == \E depth \in [Filter -> Nat] : Deeper(depth)

GraphInv ==
  /\ TypeOK
  /\ Counted
  /\ Gone
  /\ Acyclic
  /\ called = << >> => frames = << >>

-------------------------------------------------------------------------------
(* Counting.                                                               *)

LEMMA LeastNatural ==
  ASSUME NEW D \in SUBSET Nat, D # {}
  PROVE  \E k \in D : \A j \in D : k <= j
<1>1. PICK k \in D : \A j \in D : ~ (<<j, k>> \in OpToRel(<, Nat))
  BY NatLessThanWellFounded, WFMin, Zenon
<1>2. \A j \in D : ~ (j < k)
  BY <1>1 DEF OpToRel
<1>. QED
  BY <1>2

LEMMA OneMore ==
  ASSUME NEW S, IsFiniteSet(S), NEW x, x \notin S, NEW more \in BOOLEAN
  PROVE  /\ IsFiniteSet(IF more THEN S \cup {x} ELSE S)
         /\ Cardinality(S) \in Nat
         /\ Cardinality(IF more THEN S \cup {x} ELSE S) = Cardinality(S) + IF more THEN 1 ELSE 0
<1>1. Cardinality(S) \in Nat
  BY FS_CardinalityType
<1>2. IsFiniteSet(S \cup {x}) /\ Cardinality(S \cup {x}) = Cardinality(S) + 1
  BY FS_AddElement
<1>. QED
  BY <1>1, <1>2

\* A set of positions, moved.
LEMMA Shifted ==
  ASSUME NEW S \in SUBSET Nat, IsFiniteSet(S), NEW n \in Nat
  PROVE  LET moved == {k + n : k \in S} IN
           IsFiniteSet(moved) /\ Cardinality(moved) = Cardinality(S)
<1>. DEFINE moved == {k + n : k \in S}
            move == [k \in S |-> k + n]
<1>1. move \in Injection(S, moved) /\ move \in Surjection(S, moved)
  BY DEF Injection, IsInjective, Surjection
<1>. HIDE DEF move, moved
<1>2. ExistsBijection(S, moved)
  BY <1>1 DEF ExistsBijection, Bijection
<1>. QED
  BY <1>2, FS_Bijection DEF moved

\* The positions of a list, as positions of the filter it is chained to.
LEMMA Paired ==
  ASSUME NEW S \in SUBSET Nat, IsFiniteSet(S), NEW d
  PROVE  LET pairs == {<<d, k>> : k \in S} IN
           IsFiniteSet(pairs) /\ Cardinality(pairs) = Cardinality(S)
<1>. DEFINE pairs == {<<d, k>> : k \in S}
            pair == [k \in S |-> <<d, k>>]
<1>1. pair \in Injection(S, pairs) /\ pair \in Surjection(S, pairs)
  BY DEF Injection, IsInjective, Surjection
<1>. HIDE DEF pair, pairs
<1>2. ExistsBijection(S, pairs)
  BY <1>1 DEF ExistsBijection, Bijection
<1>. QED
  BY <1>2, FS_Bijection DEF pairs

LEMMA Together ==
  ASSUME NEW S, IsFiniteSet(S), NEW T, IsFiniteSet(T), S \cap T = {}
  PROVE  /\ IsFiniteSet(S \cup T)
         /\ Cardinality(S) \in Nat /\ Cardinality(T) \in Nat
         /\ Cardinality(S \cup T) = Cardinality(S) + Cardinality(T)
<1>. DEFINE n == Cardinality(S \cap T)
            all == S \cup T
<1>1. Cardinality(S) \in Nat /\ Cardinality(T) \in Nat
  BY FS_CardinalityType
<1>2. n = 0
  BY FS_EmptySet
<1>3. IsFiniteSet(all) /\ Cardinality(all) = Cardinality(S) + Cardinality(T) - n
  BY FS_Union, Zenon
<1>. HIDE DEF n, all
<1>4. Cardinality(all) = Cardinality(S) + Cardinality(T)
  BY <1>1, <1>2, <1>3
<1>. QED
  BY <1>1, <1>3, <1>4 DEF all

LEMMA Finite ==
  ASSUME NEW list \in Seq(Filter), NEW f
  PROVE  /\ {k \in DOMAIN list : list[k] = f} \in SUBSET Nat
         /\ IsFiniteSet({k \in DOMAIN list : list[k] = f})
         /\ Count(list, f) \in Nat
<1>. DEFINE S == {k \in DOMAIN list : list[k] = f}
<1>1. S \in SUBSET (1 .. Len(list)) /\ S \in SUBSET Nat
  OBVIOUS
<1>2. IsFiniteSet(1 .. Len(list))
  BY FS_Interval
<1>. HIDE DEF S
<1>3. IsFiniteSet(S)
  BY <1>1, <1>2, FS_Subset
<1>4. Cardinality(S) \in Nat
  BY <1>3, FS_CardinalityType
<1>. QED
  BY <1>1, <1>3, <1>4 DEF S, Count

LEMMA CountJoined ==
  ASSUME NEW s \in Seq(Filter), NEW t \in Seq(Filter), NEW f
  PROVE  /\ s \o t \in Seq(Filter)
         /\ Count(s \o t, f) = Count(s, f) + Count(t, f)
<1>. DEFINE In(list) == {k \in DOMAIN list : list[k] = f}
            n == Len(s)
            moved == {k + n : k \in In(t)}
            both == s \o t
<1>1. both \in Seq(Filter) /\ n \in Nat /\ Len(both) = n + Len(t) /\ Len(t) \in Nat
      /\ DOMAIN both = 1 .. n + Len(t) /\ DOMAIN s = 1 .. n /\ DOMAIN t = 1 .. Len(t)
      /\ (\A k \in 1 .. n : both[k] = s[k]) /\ (\A k \in 1 .. Len(t) : both[k + n] = t[k])
  OBVIOUS
<1>. HIDE DEF both, n
<1>2. In(both) = In(s) \cup moved /\ In(s) \cap moved = {}
  <2>1. In(both) \subseteq In(s) \cup moved
    <3>. SUFFICES ASSUME NEW k \in In(both) PROVE k \in In(s) \cup moved
      OBVIOUS
    <3>1. CASE k <= n
      BY <1>1, <3>1
    <3>2. CASE k > n
      <4>1. PICK j \in 1 .. Len(t) : k = j + n
        <5>1. k - n \in 1 .. Len(t) /\ k = (k - n) + n
          BY <1>1, <3>2
        <5>. QED
          BY <5>1
      <4>2. j \in In(t)
        BY <1>1, <4>1
      <4>. QED
        BY <4>1, <4>2
    <3>. QED
      BY <1>1, <3>1, <3>2
  <2>2. In(s) \subseteq In(both)
    BY <1>1
  <2>3. moved \subseteq In(both)
    BY <1>1
  <2>4. In(s) \cap moved = {}
    BY <1>1
  <2>. QED
    BY <2>1, <2>2, <2>3, <2>4
<1>3. In(s) \in SUBSET Nat /\ IsFiniteSet(In(s)) /\ In(t) \in SUBSET Nat /\ IsFiniteSet(In(t))
  BY Finite
<1>. HIDE DEF In
<1>4. IsFiniteSet(moved) /\ Cardinality(moved) = Cardinality(In(t))
  BY <1>1, <1>3, Shifted
<1>. HIDE DEF moved
<1>5. Cardinality(In(both)) = Cardinality(In(s)) + Cardinality(In(t))
  BY <1>2, <1>3, <1>4, Together
<1>. QED
  BY <1>1, <1>5 DEF In, both, Count

LEMMA CountOne ==
  ASSUME NEW x \in Filter, NEW f
  PROVE  /\ <<x>> \in Seq(Filter) /\ << >> \in Seq(Filter)
         /\ Count(<<x>>, f) = IF x = f THEN 1 ELSE 0
         /\ Count(<< >>, f) = 0
<1>1. {k \in DOMAIN <<x>> : <<x>>[k] = f} = IF x = f THEN {1} ELSE {}
  OBVIOUS
<1>2. {k \in DOMAIN << >> : << >>[k] = f} = {}
  OBVIOUS
<1>. QED
  BY <1>1, <1>2, FS_EmptySet, FS_Singleton DEF Count

LEMMA CountHead ==
  ASSUME NEW s \in Seq(Filter), s # << >>, NEW f
  PROVE  /\ Head(s) \in Filter /\ Tail(s) \in Seq(Filter)
         /\ Count(s, f) = Count(Tail(s), f) + IF Head(s) = f THEN 1 ELSE 0
<1>. DEFINE tail == Tail(s)
            head == <<Head(s)>>
<1>1. Head(s) \in Filter /\ tail \in Seq(Filter) /\ s = head \o tail
  OBVIOUS
<1>. HIDE DEF tail
<1>2. head \in Seq(Filter) /\ Count(head, f) = IF Head(s) = f THEN 1 ELSE 0
  BY <1>1, CountOne
<1>3. Count(s, f) = Count(head, f) + Count(tail, f)
  <2>. HIDE DEF head
  <2>. QED
    BY <1>1, <1>2, CountJoined
<1>4. Count(tail, f) \in Nat
  BY <1>1, Finite
<1>. QED
  BY <1>1, <1>2, <1>3, <1>4 DEF tail

-------------------------------------------------------------------------------
(* What is reached.                                                        *)

LEMMA ReachedIsLeast ==
  ASSUME NEW objects \in SUBSET Filter, next_ \in [Filter -> Seq(Filter)]
  PROVE  /\ objects \subseteq Reached(objects) /\ Reached(objects) \subseteq Filter
         /\ Closed(Reached(objects))
         /\ \A all \in SUBSET Filter :
              objects \subseteq all /\ Closed(all) => Reached(objects) \subseteq all
<1>. DEFINE R == Reached(objects)
<1>1. objects \subseteq R /\ R \subseteq Filter
  BY DEF Reached
<1>2. ASSUME NEW all \in SUBSET Filter, objects \subseteq all, Closed(all)
      PROVE  R \subseteq all
  BY <1>2 DEF Reached
<1>3. ASSUME NEW f \in R, NEW g \in ToSet(next_[f])
      PROVE  g \in R
  <2>1. g \in Filter
    <3>1. f \in Filter /\ next_[f] \in Seq(Filter)
      BY <1>1, <1>3
    <3>. QED
      BY <1>3, <3>1 DEF ToSet
  <2>2. ASSUME NEW all \in SUBSET Filter, objects \subseteq all, Closed(all)
        PROVE  g \in all
    <3>1. f \in all
      BY <1>2, <2>2
    <3>. QED
      BY <1>3, <2>2, <3>1 DEF Closed
  <2>. QED
    BY <2>1, <2>2 DEF Reached
<1>4. Closed(R)
  BY <1>3 DEF Closed
<1>. QED
  BY <1>1, <1>2, <1>4

LEMMA PartsAreFinite ==
  ASSUME GraphInv, NEW f \in Filter
  PROVE  /\ IsFiniteSet(Holders(f)) /\ Cardinality(Holders(f)) \in Nat
         /\ IsFiniteSet(Links(f)) /\ Cardinality(Links(f)) \in Nat
         /\ Count(dropped, f) \in Nat
         /\ IsFiniteSet(Calls(f)) /\ Cardinality(Calls(f)) \in Nat
         /\ references[f] = Cardinality(Holders(f)) + Cardinality(Links(f))
                              + Count(dropped, f) + Cardinality(Calls(f))
<1>1. IsFiniteSet(Holders(f))
  BY ObjectsAssumption, FS_Subset DEF Holders
<1>2. IsFiniteSet(Calls(f))
  <2>. DEFINE Activation == [filter : Filter, i : Nat]
  <2>0. frames \in Seq(Activation)
    BY DEF GraphInv, TypeOK
  <2>. HIDE DEF Activation
  <2>1. Calls(f) \in SUBSET (1 .. Len(frames)) /\ Len(frames) \in Nat
    BY <2>0 DEF Calls
  <2>2. IsFiniteSet(1 .. Len(frames))
    BY <2>1, FS_Interval
  <2>. QED
    BY <2>1, <2>2, FS_Subset
<1>3. Count(dropped, f) \in Nat
  BY Finite DEF GraphInv, TypeOK
<1>4. IsFiniteSet(Links(f))
      /\ references[f] = Cardinality(Holders(f)) + Cardinality(Links(f))
                           + Count(dropped, f) + Cardinality(Calls(f))
  BY DEF GraphInv, Counted
<1>. QED
  BY <1>1, <1>2, <1>3, <1>4, FS_CardinalityType

\* Whoever refers to an object keeps it ...
LEMMA ReferredExists ==
  ASSUME GraphInv, NEW f \in Filter,
         \/ \E v \in Variable : ptr[v] = f
         \/ \E g \in Filter : \E i \in DOMAIN next_[g] : next_[g][i] = f
         \/ f \in ToSet(dropped)
         \/ f \in Frames
  PROVE  Exists(f)
<1>. DEFINE h == Cardinality(Holders(f))
            l == Cardinality(Links(f))
            d == Count(dropped, f)
            c == Cardinality(Calls(f))
            D == {k \in DOMAIN dropped : dropped[k] = f}
<1>1. h \in Nat /\ l \in Nat /\ d \in Nat /\ c \in Nat /\ references[f] = h + l + d + c
  BY PartsAreFinite
<1>2. (h = 0 => Holders(f) = {}) /\ (l = 0 => Links(f) = {})
      /\ (d = 0 => D = {}) /\ (c = 0 => Calls(f) = {})
  <2>1. IsFiniteSet(D)
    BY Finite DEF GraphInv, TypeOK
  <2>. QED
    BY <2>1, PartsAreFinite, FS_EmptySet DEF Count
<1>3. Holders(f) # {} \/ Links(f) # {} \/ D # {} \/ Calls(f) # {}
  <2>1. CASE \E v \in Variable : ptr[v] = f
    BY <2>1 DEF Holders
  <2>2. CASE \E g \in Filter : \E i \in DOMAIN next_[g] : next_[g][i] = f
    <3>0. PICK g \in Filter : \E i \in DOMAIN next_[g] : next_[g][i] = f
      BY <2>2
    <3>1. PICK i \in DOMAIN next_[g] : next_[g][i] = f
      BY <3>0
    <3>2. i \in Nat
      <4>1. next_[g] \in Seq(Filter)
        BY DEF GraphInv, TypeOK
      <4>. QED
        BY <4>1
    <3>3. <<g, i>> \in Links(f)
      BY <3>1, <3>2 DEF Links
    <3>. QED
      BY <3>3
  <2>3. CASE f \in ToSet(dropped)
    BY <2>3 DEF ToSet
  <2>4. CASE f \in Frames
    BY <2>4 DEF Frames, Calls
  <2>. QED
    BY <2>1, <2>2, <2>3, <2>4
<1>. HIDE DEF h, l, d, c, D
<1>. QED
  BY <1>1, <1>2, <1>3 DEF Exists

\* ... and no other object is kept.
LEMMA ExistsReferred ==
  ASSUME GraphInv, NEW f \in Filter, Exists(f)
  PROVE  \/ \E v \in Variable : ptr[v] = f
         \/ \E g \in Filter : \E i \in DOMAIN next_[g] : next_[g][i] = f
         \/ f \in ToSet(dropped)
         \/ f \in Frames
<1>. DEFINE h == Cardinality(Holders(f))
            l == Cardinality(Links(f))
            d == Count(dropped, f)
            c == Cardinality(Calls(f))
<1>1. Holders(f) # {} \/ Links(f) # {} \/ {k \in DOMAIN dropped : dropped[k] = f} # {}
      \/ Calls(f) # {}
  <2>1. h \in Nat /\ l \in Nat /\ d \in Nat /\ c \in Nat /\ references[f] = h + l + d + c
    BY PartsAreFinite
  <2>2. /\ Holders(f) = {} => h = 0
        /\ Links(f) = {} => l = 0
        /\ {k \in DOMAIN dropped : dropped[k] = f} = {} => d = 0
        /\ Calls(f) = {} => c = 0
    BY FS_EmptySet DEF Count
  <2>. HIDE DEF h, l, d, c
  <2>. QED
    BY <2>1, <2>2 DEF Exists
<1>2. ASSUME Links(f) # {} PROVE \E g \in Filter : \E i \in DOMAIN next_[g] : next_[g][i] = f
  BY <1>2 DEF Links
<1>3. ASSUME Calls(f) # {} PROVE f \in Frames
  BY <1>3 DEF Calls, Frames
<1>4. ASSUME {k \in DOMAIN dropped : dropped[k] = f} # {} PROVE f \in ToSet(dropped)
  BY <1>4 DEF ToSet
<1>5. ASSUME Holders(f) # {} PROVE \E v \in Variable : ptr[v] = f
  BY <1>5 DEF Holders
<1>. QED
  BY <1>1, <1>2, <1>3, <1>4, <1>5


LEMMA RootsAreFilters ==
  ASSUME GraphInv
  PROVE  Objects \in SUBSET Filter /\ Frames \in SUBSET Filter /\ ToSet(dropped) \in SUBSET Filter
<1>1. Objects \in SUBSET Filter
  BY DEF Objects, GraphInv, TypeOK
<1>2. Frames \in SUBSET Filter
  <2>. DEFINE Activation == [filter : Filter, i : Nat]
  <2>1. frames \in Seq(Activation) /\ (\A a \in Activation : a.filter \in Filter)
    BY DEF GraphInv, TypeOK
  <2>. HIDE DEF Activation
  <2>2. \A k \in DOMAIN frames : frames[k] \in Activation
    BY <2>1
  <2>. QED
    BY <2>1, <2>2 DEF Frames
<1>3. ToSet(dropped) \in SUBSET Filter
  BY DEF ToSet, GraphInv, TypeOK
<1>. QED
  BY <1>1, <1>2, <1>3

LEMMA GraphKeeps == GraphInv => NothingDangles
<1>. SUFFICES ASSUME GraphInv PROVE NothingDangles
  OBVIOUS
<1>. DEFINE all == {f \in Filter : Exists(f)}
            roots == Objects \cup Frames \cup ToSet(dropped)
<1>1. next_ \in [Filter -> Seq(Filter)]
  BY DEF GraphInv, TypeOK
<1>2. roots \in SUBSET Filter
  BY RootsAreFilters
<1>3. roots \subseteq all
  <2>. SUFFICES ASSUME NEW f \in roots PROVE Exists(f)
    BY <1>2
  <2>1. f \in Filter
    BY <1>2
  <2>2. CASE f \in Objects
    BY <2>1, <2>2, ReferredExists DEF Objects
  <2>3. CASE f \in Frames \/ f \in ToSet(dropped)
    BY <2>1, <2>3, ReferredExists
  <2>. QED
    BY <2>2, <2>3
<1>4. Closed(all)
  <2>. SUFFICES ASSUME NEW f \in all, NEW g \in ToSet(next_[f]) PROVE g \in all
    BY DEF Closed
  <2>1. f \in Filter /\ next_[f] \in Seq(Filter)
    BY <1>1
  <2>2. PICK i \in DOMAIN next_[f] : next_[f][i] = g
    BY DEF ToSet
  <2>3. g \in Filter
    BY <2>1, <2>2
  <2>4. Exists(g)
    BY <2>1, <2>2, <2>3, ReferredExists
  <2>. QED
    BY <2>3, <2>4
<1>5. all \in SUBSET Filter
  OBVIOUS
<1>. HIDE DEF all, roots
<1>6. Reached(roots) \subseteq all
  BY <1>1, <1>2, <1>3, <1>4, <1>5, ReachedIsLeast
<1>. QED
  BY <1>6 DEF NothingDangles, all, roots

(* An object out of reach that lies less deep than any other is referred to by  *)
(* another one out of reach, which lies less deep.                              *)
LEMMA GraphLeaksNothing == GraphInv => NothingLeaks
<1>. SUFFICES ASSUME GraphInv, Idle,
                     NEW lost \in Filter, Exists(lost), lost \notin Reached(Objects)
              PROVE  FALSE
  BY DEF NothingLeaks
<1>1. next_ \in [Filter -> Seq(Filter)] /\ Objects \in SUBSET Filter
  BY RootsAreFilters DEF GraphInv, TypeOK
<1>2. PICK depth \in [Filter -> Nat] : Deeper(depth)
  BY DEF GraphInv, Acyclic
<1>. DEFINE out == {f \in Filter : Exists(f) /\ f \notin Reached(Objects)}
            depths == {depth[f] : f \in out}
<1>3. PICK f \in out : \A g \in out : depth[f] <= depth[g]
  <2>1. depths \in SUBSET Nat /\ depths # {}
    OBVIOUS
  <2>. HIDE DEF depths
  <2>2. PICK n \in depths : \A m \in depths : n <= m
    BY <2>1, LeastNatural
  <2>. QED
    BY <2>2 DEF depths
<1>4. ToSet(dropped) = {} /\ Frames = {}
  BY DEF Idle, GraphInv, ToSet, Frames
<1>5. f \notin Objects
  BY <1>1, <1>3, ReachedIsLeast
<1>6. ~\E v \in Variable : ptr[v] = f
  <2>1. f # Null
    BY <1>3, ObjectsAssumption
  <2>. QED
    BY <1>5, <2>1 DEF Objects
<1>7. PICK g \in Filter : \E i \in DOMAIN next_[g] : next_[g][i] = f
  BY <1>3, <1>4, <1>6, ExistsReferred
<1>8. PICK i \in DOMAIN next_[g] : next_[g][i] = f
  BY <1>7
<1>9. Exists(g)
  <2>1. next_[g] # << >>
    BY <1>8
  <2>. QED
    BY <2>1 DEF GraphInv, Gone
<1>10. g \notin Reached(Objects)
  <2>1. f \in ToSet(next_[g])
    BY <1>8 DEF ToSet
  <2>. QED
    BY <1>1, <1>3, <2>1, ReachedIsLeast DEF Closed
<1>11. depth[g] < depth[f]
  BY <1>2, <1>8 DEF Deeper
<1>12. depth[f] <= depth[g]
  BY <1>3, <1>9, <1>10
<1>13. depth[f] \in Nat /\ depth[g] \in Nat
  BY <1>2, <1>3
<1>. QED
  BY <1>11, <1>12, <1>13

-------------------------------------------------------------------------------
(* What the parts of a step do to the counts.                                *)

\* An assignment counts its new object once more, until the old one is given up.
LEMMA Referring ==
  ASSUME GraphInv, dropped = << >>, NEW v \in Variable, NEW x \in Filter \cup {Null}, Refer(v, x)
  PROVE  /\ ptr' \in [Variable -> Filter \cup {Null}]
         /\ dropped' \in Seq(Filter)
         /\ \A f \in Filter :
              Cardinality(Holders(f)') + Count(dropped', f) =
                Cardinality(Holders(f)) + Count(dropped, f) + IF x = f THEN 1 ELSE 0
<1>1. /\ ptr \in [Variable -> Filter \cup {Null}]
      /\ ptr' = [ptr EXCEPT ![v] = x]
      /\ dropped' = IF ptr[v] = Null THEN << >> ELSE <<ptr[v]>>
  BY DEF Refer, GraphInv, TypeOK
<1>2. PICK old \in Filter \cup {Null} : old = ptr[v]
  BY <1>1
<1>3. ASSUME NEW f \in Filter
      PROVE  /\ Count(dropped, f) = 0
             /\ Count(dropped', f) = IF old = f THEN 1 ELSE 0
             /\ dropped' \in Seq(Filter)
  <2>1. f # Null
    BY ObjectsAssumption
  <2>2. CASE old = Null
    BY <1>1, <1>2, <2>1, <2>2, CountOne
  <2>3. CASE old # Null
    BY <1>1, <1>2, <2>3, CountOne
  <2>. QED
    BY <2>2, <2>3
<1>4. ASSUME NEW f \in Filter
      PROVE  /\ Cardinality(Holders(f)) = Cardinality(Holders(f) \ {v}) + IF old = f THEN 1 ELSE 0
             /\ Cardinality(Holders(f)') = Cardinality(Holders(f) \ {v}) + IF x = f THEN 1 ELSE 0
             /\ Cardinality(Holders(f) \ {v}) \in Nat
  <2>. DEFINE others == Holders(f) \ {v}
  <2>1. IsFiniteSet(others) /\ v \notin others
    BY PartsAreFinite, FS_RemoveElement
  <2>2. Holders(f) = IF old = f THEN others \cup {v} ELSE others
    BY <1>2 DEF Holders
  <2>3. Holders(f)' = IF x = f THEN others \cup {v} ELSE others
    BY <1>1 DEF Holders
  <2>. HIDE DEF others
  <2>4. \A more \in BOOLEAN :
          /\ Cardinality(others) \in Nat
          /\ Cardinality(IF more THEN others \cup {v} ELSE others)
               = Cardinality(others) + IF more THEN 1 ELSE 0
    BY <2>1, OneMore
  <2>5. Cardinality(Holders(f)) = Cardinality(others) + IF old = f THEN 1 ELSE 0
    BY <2>2, <2>4
  <2>6. Cardinality(Holders(f)') = Cardinality(others) + IF x = f THEN 1 ELSE 0
    BY <2>3, <2>4
  <2>. QED
    BY <2>4, <2>5, <2>6 DEF others
<1>5. dropped' \in Seq(Filter)
  BY <1>1, <1>2, CountOne
<1>6. ASSUME NEW f \in Filter
      PROVE  Cardinality(Holders(f)') + Count(dropped', f) =
               Cardinality(Holders(f)) + Count(dropped, f) + IF x = f THEN 1 ELSE 0
  <2>. DEFINE rest == Cardinality(Holders(f) \ {v})
  <2>1. /\ Count(dropped, f) = 0 /\ Count(dropped', f) = IF old = f THEN 1 ELSE 0
        /\ Cardinality(Holders(f)) = rest + IF old = f THEN 1 ELSE 0
        /\ Cardinality(Holders(f)') = rest + IF x = f THEN 1 ELSE 0
        /\ rest \in Nat
    BY <1>3, <1>4
  <2>. HIDE DEF rest
  <2>. QED
    BY <2>1
<1>. QED
  BY <1>1, <1>5, <1>6

LEMMA LinksStay ==
  ASSUME UNCHANGED next_, NEW f
  PROVE  Links(f)' = Links(f)
BY DEF Links

LEMMA CallsStay ==
  ASSUME UNCHANGED frames, NEW f
  PROVE  Calls(f)' = Calls(f)
BY DEF Calls

LEMMA HoldersStay ==
  ASSUME UNCHANGED ptr, NEW f
  PROVE  Holders(f)' = Holders(f)
BY DEF Holders

\* A call counts its filter once more ...
LEMMA CallBegins ==
  ASSUME GraphInv, NEW g \in Filter, frames' = Append(frames, [filter |-> g, i |-> 0])
  PROVE  /\ frames' \in Seq([filter : Filter, i : Nat])
         /\ \A f \in Filter :
              Cardinality(Calls(f)') = Cardinality(Calls(f)) + IF g = f THEN 1 ELSE 0
<1>. DEFINE Activation == [filter : Filter, i : Nat]
            new == [filter |-> g, i |-> 0]
            n == Len(frames) + 1
<1>1. frames \in Seq(Activation) /\ new \in Activation /\ new.filter = g
  BY DEF GraphInv, TypeOK
<1>. HIDE DEF Activation, new
<1>2. /\ frames' \in Seq(Activation) /\ DOMAIN frames' = 1 .. n /\ frames'[n] = new
      /\ \A k \in DOMAIN frames : frames'[k] = frames[k]
      /\ DOMAIN frames = 1 .. n - 1 /\ n \in Nat \ {0}
  BY <1>1 DEF new
<1>. HIDE DEF n
<1>3. ASSUME NEW f \in Filter
      PROVE  Cardinality(Calls(f)') = Cardinality(Calls(f)) + IF g = f THEN 1 ELSE 0
  <2>1. Calls(f)' = IF g = f THEN Calls(f) \cup {n} ELSE Calls(f)
    BY <1>1, <1>2 DEF Calls
  <2>2. n \notin Calls(f)
    BY <1>2 DEF Calls
  <2>3. IsFiniteSet(Calls(f))
    BY PartsAreFinite
  <2>. QED
    BY <2>1, <2>2, <2>3, OneMore
<1>. QED
  BY <1>2, <1>3 DEF Activation

\* ... until it returns.
LEMMA CallEnds ==
  ASSUME GraphInv, frames # << >>, frames' = Front(frames)
  PROVE  /\ frames' \in Seq([filter : Filter, i : Nat])
         /\ Frame.filter \in Filter
         /\ \A f \in Filter :
              Cardinality(Calls(f)) = Cardinality(Calls(f)') + IF Frame.filter = f THEN 1 ELSE 0
<1>. DEFINE Activation == [filter : Filter, i : Nat]
            n == Len(frames)
<1>1. frames \in Seq(Activation) /\ (\A a \in Activation : a.filter \in Filter)
  BY DEF GraphInv, TypeOK
<1>. HIDE DEF Activation
<1>2. /\ frames' \in Seq(Activation) /\ DOMAIN frames' = 1 .. n - 1
      /\ \A k \in 1 .. n - 1 : frames'[k] = frames[k]
      /\ DOMAIN frames = 1 .. n /\ n \in Nat \ {0} /\ Frame = frames[n] /\ frames[n] \in Activation
  BY <1>1 DEF Front, Frame
<1>. HIDE DEF n
<1>3. ASSUME NEW f \in Filter
      PROVE  Cardinality(Calls(f)) = Cardinality(Calls(f)') + IF Frame.filter = f THEN 1 ELSE 0
  <2>1. Calls(f) = IF Frame.filter = f THEN Calls(f)' \cup {n} ELSE Calls(f)'
    BY <1>2 DEF Calls
  <2>2. n \notin Calls(f)'
    BY <1>2 DEF Calls
  <2>3. IsFiniteSet(Calls(f)')
    <3>1. Calls(f)' \in SUBSET Calls(f)
      BY <1>2 DEF Calls
    <3>. QED
      BY <3>1, PartsAreFinite, FS_Subset
  <2>. QED
    BY <2>1, <2>2, <2>3, OneMore
<1>. QED
  BY <1>1, <1>2, <1>3 DEF Activation

\* In between only its place in the loop changes.
LEMMA CallGoesOn ==
  ASSUME GraphInv, frames # << >>, NEW place \in Nat,
         frames' = [frames EXCEPT ![Len(frames)].i = place]
  PROVE  /\ frames' \in Seq([filter : Filter, i : Nat])
         /\ \A f \in Filter : Calls(f)' = Calls(f)
<1>. DEFINE Activation == [filter : Filter, i : Nat]
            n == Len(frames)
            new == [frames[n] EXCEPT !.i = place]
<1>1. frames \in Seq(Activation)
  BY DEF GraphInv, TypeOK
<1>2. n \in DOMAIN frames /\ frames[n] \in Activation
  <2>. HIDE DEF Activation
  <2>. QED
    BY <1>1
<1>3. new \in Activation /\ new.filter = frames[n].filter
  BY <1>2
<1>4. frames' = [frames EXCEPT ![n] = new]
  OBVIOUS
<1>. HIDE DEF Activation, new
<1>5. /\ frames' \in Seq(Activation) /\ DOMAIN frames' = DOMAIN frames
      /\ \A k \in DOMAIN frames : frames'[k].filter = frames[k].filter
  <2>. HIDE DEF n
  <2>. QED
    BY <1>1, <1>2, <1>3, <1>4
<1>. QED
  BY <1>5 DEF Calls, Activation


-------------------------------------------------------------------------------
(* The steps.                                                              *)

LEMMA AcyclicStays ==
  ASSUME GraphInv, UNCHANGED next_
  PROVE  Acyclic'
BY DEF GraphInv, Acyclic, Deeper

\* New, Assign and Reset.
LEMMA AssignmentStep ==
  ASSUME GraphInv, Idle, UNCHANGED <<next_, callVars>>,
         NEW v \in Variable, NEW x \in Filter \cup {Null}, Refer(v, x),
         references' = [f \in Filter |-> references[f] + IF x = f THEN 1 ELSE 0]
  PROVE  GraphInv'
<1>1. dropped = << >> /\ references \in [Filter -> Nat]
  BY DEF Idle, GraphInv, TypeOK
<1>2. references' \in [Filter -> Nat] /\ \A f \in Filter : references'[f] = 0 => references[f] = 0
  BY <1>1
<1>3. TypeOK'
  BY <1>1, <1>2, Referring DEF GraphInv, TypeOK, callVars
<1>4. Counted'
  <2>. SUFFICES ASSUME NEW f \in Filter
                PROVE  /\ IsFiniteSet(Links(f)')
                       /\ references'[f] = Cardinality(Holders(f)') + Cardinality(Links(f)')
                                             + Count(dropped', f) + Cardinality(Calls(f)')
    BY DEF Counted, Count
  <2>. DEFINE h == Cardinality(Holders(f))
              l == Cardinality(Links(f))
              d == Count(dropped, f)
              c == Cardinality(Calls(f))
              more == IF x = f THEN 1 ELSE 0
              new == Cardinality(Holders(f)') + Count(dropped', f)
              newHolders == Cardinality(Holders(f)')
              newDropped == Count(dropped', f)
  <2>1. Links(f)' = Links(f) /\ Calls(f)' = Calls(f)
    BY LinksStay, CallsStay DEF callVars
  <2>2. IsFiniteSet(Links(f)) /\ h \in Nat /\ l \in Nat /\ d \in Nat /\ c \in Nat
        /\ references[f] = h + l + d + c
    BY PartsAreFinite
  <2>3. newHolders + newDropped = h + d + more
    BY <1>1, Referring
  <2>4. references'[f] = references[f] + more
    OBVIOUS
  <2>5. more \in Nat /\ newHolders \in Nat /\ newDropped \in Nat
    <3>1. newDropped \in Nat
      BY <1>3, Finite DEF TypeOK
    <3>2. newHolders \in Nat
      BY ObjectsAssumption, FS_Subset, FS_CardinalityType DEF Holders
    <3>. QED
      BY <3>1, <3>2
  <2>6. references'[f] = newHolders + l + newDropped + c
    <3>. HIDE DEF h, l, d, c, more, newHolders, newDropped
    <3>. QED
      BY <2>2, <2>3, <2>4, <2>5
  <2>. QED
    BY <2>1, <2>2, <2>6
<1>5. Gone'
  <2>1. \A f \in Filter : references'[f] \in Nat /\ references[f] \in Nat
    BY <1>1, <1>2
  <2>2. \A f \in Filter : ~(references'[f] > 0) => ~(references[f] > 0)
    BY <1>2, <2>1
  <2>. QED
    BY <2>2 DEF Gone, GraphInv, Exists
<1>6. (called = << >> => frames = << >>)'
  BY DEF GraphInv, callVars
<1>. QED
  BY <1>3, <1>4, <1>5, <1>6, AcyclicStays DEF GraphInv

\* Call and CallNext.
LEMMA CallStep ==
  ASSUME GraphInv, UNCHANGED <<next_, ptr, dropped>>, NEW g \in Filter,
         references' = [references EXCEPT ![g] = @ + 1],
         frames' = Append(frames, [filter |-> g, i |-> 0]),
         verdict' = verdict, passing' \in SUBSET Filter,
         called' \in Seq(Filter), called' # << >>
  PROVE  GraphInv'
<1>1. references \in [Filter -> Nat]
  BY DEF GraphInv, TypeOK
<1>2. references' \in [Filter -> Nat] /\ \A f \in Filter : references'[f] = 0 => references[f] = 0
  BY <1>1
<1>3. TypeOK'
  BY <1>2, CallBegins DEF GraphInv, TypeOK
<1>4. Counted'
  <2>. SUFFICES ASSUME NEW f \in Filter
                PROVE  /\ IsFiniteSet(Links(f)')
                       /\ references'[f] = Cardinality(Holders(f)') + Cardinality(Links(f)')
                                             + Count(dropped', f) + Cardinality(Calls(f)')
    BY DEF Counted, Count
  <2>. DEFINE h == Cardinality(Holders(f))
              l == Cardinality(Links(f))
              d == Count(dropped, f)
              c == Cardinality(Calls(f))
              more == IF g = f THEN 1 ELSE 0
              newCalls == Cardinality(Calls(f)')
  <2>1. Links(f)' = Links(f) /\ Holders(f)' = Holders(f) /\ Count(dropped', f) = d
    BY LinksStay, HoldersStay
  <2>2. IsFiniteSet(Links(f)) /\ h \in Nat /\ l \in Nat /\ d \in Nat /\ c \in Nat
        /\ references[f] = h + l + d + c
    BY PartsAreFinite
  <2>3. newCalls = c + more
    BY CallBegins
  <2>4. references'[f] = references[f] + more /\ more \in Nat
    BY <1>1
  <2>5. references'[f] = h + l + d + newCalls
    <3>. HIDE DEF h, l, d, c, more, newCalls
    <3>. QED
      BY <2>2, <2>3, <2>4
  <2>. QED
    BY <2>1, <2>2, <2>5
<1>5. Gone'
  <2>1. \A f \in Filter : references'[f] \in Nat /\ references[f] \in Nat
    BY <1>1, <1>2
  <2>2. \A f \in Filter : ~(references'[f] > 0) => ~(references[f] > 0)
    BY <1>2, <2>1
  <2>. QED
    BY <2>2 DEF Gone, GraphInv, Exists
<1>. QED
  BY <1>3, <1>4, <1>5, AcyclicStays DEF GraphInv

\* TestPasses and GoOn.
LEMMA PlaceStep ==
  ASSUME GraphInv, UNCHANGED <<next_, references, ptr, dropped, passing, called>>,
         frames # << >>, NEW place \in Nat, frames' = [frames EXCEPT ![Len(frames)].i = place],
         verdict' \in {"none", "pass", "fail"}
  PROVE  GraphInv'
<1>1. TypeOK'
  BY CallGoesOn DEF GraphInv, TypeOK
<1>2. Counted'
  <2>. SUFFICES ASSUME NEW f \in Filter
                PROVE  /\ IsFiniteSet(Links(f)')
                       /\ references'[f] = Cardinality(Holders(f)') + Cardinality(Links(f)')
                                             + Count(dropped', f) + Cardinality(Calls(f)')
    BY DEF Counted, Count
  <2>1. Links(f)' = Links(f) /\ Holders(f)' = Holders(f) /\ Count(dropped', f) = Count(dropped, f)
        /\ Calls(f)' = Calls(f)
    BY LinksStay, HoldersStay, CallGoesOn
  <2>. QED
    BY <2>1 DEF GraphInv, Counted
<1>3. Gone'
  BY DEF Gone, GraphInv, Exists
<1>4. (called = << >> => frames = << >>)'
  BY DEF GraphInv
<1>. QED
  BY <1>1, <1>2, <1>3, <1>4, AcyclicStays DEF GraphInv

\* TestFails, EndLoop and ReturnFalse.
LEMMA ReturnStep ==
  ASSUME GraphInv, frames # << >>, dropped = << >>,
         NEW result \in {"pass", "fail"}, ReturnVerdict(result)
  PROVE  GraphInv'
<1>1. /\ verdict' = result /\ frames' = Front(frames) /\ dropped' = <<Frame.filter>>
      /\ UNCHANGED <<next_, references, ptr, passing, called>>
  BY DEF ReturnVerdict
<1>2. PICK g \in Filter : g = Frame.filter
  BY <1>1, CallEnds
<1>3. dropped' = <<g>> /\ dropped' \in Seq(Filter)
  BY <1>1, <1>2, CountOne
<1>4. TypeOK'
  BY <1>1, <1>3, CallEnds DEF GraphInv, TypeOK
<1>5. Counted'
  <2>. SUFFICES ASSUME NEW f \in Filter
                PROVE  /\ IsFiniteSet(Links(f)')
                       /\ references'[f] = Cardinality(Holders(f)') + Cardinality(Links(f)')
                                             + Count(dropped', f) + Cardinality(Calls(f)')
    BY DEF Counted, Count
  <2>. DEFINE h == Cardinality(Holders(f))
              l == Cardinality(Links(f))
              d == Count(dropped, f)
              c == Cardinality(Calls(f))
              less == IF g = f THEN 1 ELSE 0
              newCalls == Cardinality(Calls(f)')
              newDropped == Count(dropped', f)
  <2>1. Links(f)' = Links(f) /\ Holders(f)' = Holders(f)
    BY <1>1, LinksStay, HoldersStay
  <2>2. IsFiniteSet(Links(f)) /\ h \in Nat /\ l \in Nat /\ d \in Nat /\ c \in Nat
        /\ references[f] = h + l + d + c
    BY PartsAreFinite
  <2>3. c = newCalls + less
    BY <1>1, <1>2, CallEnds
  <2>4. d = 0 /\ newDropped = less
    BY <1>3, CountOne
  <2>5. newCalls \in Nat /\ less \in Nat
    <3>1. Calls(f)' \in SUBSET Calls(f)
      <4>1. frames \in Seq([filter : Filter, i : Nat])
        BY DEF GraphInv, TypeOK
      <4>. DEFINE Activation == [filter : Filter, i : Nat]
      <4>. HIDE DEF Activation
      <4>2. \A k \in DOMAIN frames' : k \in DOMAIN frames /\ frames'[k] = frames[k]
        BY <1>1, <4>1 DEF Front, Activation
      <4>. QED
        BY <4>2 DEF Calls
    <3>2. IsFiniteSet(Calls(f)')
      BY <3>1, PartsAreFinite, FS_Subset
    <3>. QED
      BY <3>2, FS_CardinalityType
  <2>6. references'[f] = h + l + newDropped + newCalls
    <3>1. references'[f] = references[f]
      BY <1>1
    <3>. HIDE DEF h, l, d, c, less, newCalls, newDropped
    <3>. QED
      BY <2>2, <2>3, <2>4, <2>5, <3>1
  <2>. QED
    BY <2>1, <2>2, <2>6
<1>6. Gone'
  BY <1>1 DEF Gone, GraphInv, Exists
<1>7. (called = << >> => frames = << >>)'
  BY <1>1 DEF GraphInv
<1>. QED
  BY <1>1, <1>4, <1>5, <1>6, <1>7, AcyclicStays DEF GraphInv


\* What is chained to b, and b, goes deeper than a. None of it leads back to a.
LEMMA ChainStaysAcyclic ==
  ASSUME GraphInv, NEW a \in Filter, NEW b \in Filter, a \notin Reached({b}),
         next_' = [next_ EXCEPT ![a] = Append(@, b)]
  PROVE  Acyclic'
<1>1. next_ \in [Filter -> Seq(Filter)]
  BY DEF GraphInv, TypeOK
<1>2. PICK depth \in [Filter -> Nat] : Deeper(depth)
  BY DEF GraphInv, Acyclic
<1>3. PICK R : R = Reached({b})
  OBVIOUS
<1>4. R \subseteq Filter /\ b \in R /\ a \notin R /\ Closed(R)
  BY <1>1, <1>3, ReachedIsLeast
<1>. DEFINE lower == [f \in Filter |-> IF f \in R THEN depth[f] + depth[a] + 1 ELSE depth[f]]
<1>5. lower \in [Filter -> Nat]
  BY <1>2
<1>6. ASSUME NEW g \in Filter, NEW i \in DOMAIN next_[g]
      PROVE  lower[g] < lower[next_[g][i]]
  <2>. DEFINE f == next_[g][i]
  <2>1. f \in Filter /\ f \in ToSet(next_[g])
    BY <1>1 DEF ToSet
  <2>2. g \in R => f \in R
    BY <1>4, <2>1 DEF Closed
  <2>3. depth[g] < depth[f]
    BY <1>2 DEF Deeper
  <2>4. depth[g] \in Nat /\ depth[f] \in Nat /\ depth[a] \in Nat
    BY <1>2, <2>1
  <2>5. lower[g] = (IF g \in R THEN depth[g] + depth[a] + 1 ELSE depth[g])
        /\ lower[f] = (IF f \in R THEN depth[f] + depth[a] + 1 ELSE depth[f])
    BY <2>1
  <2>. HIDE DEF lower, f
  <2>6. lower[g] < lower[f]
    BY <2>2, <2>3, <2>4, <2>5
  <2>. QED
    BY <2>6 DEF f
<1>7. lower[a] < lower[b]
  <2>1. depth[a] \in Nat /\ depth[b] \in Nat /\ lower[a] = depth[a]
        /\ lower[b] = depth[b] + depth[a] + 1
    BY <1>2, <1>4
  <2>. HIDE DEF lower
  <2>. QED
    BY <2>1
<1>. HIDE DEF lower
<1>8. ASSUME NEW g \in Filter, NEW i \in DOMAIN next_'[g]
      PROVE  lower[g] < lower[next_'[g][i]]
  <2>1. next_[g] \in Seq(Filter)
    BY <1>1
  <2>2. CASE g # a
    <3>1. next_'[g] = next_[g]
      BY <1>1, <2>2
    <3>. QED
      BY <1>6, <3>1
  <2>3. CASE g = a
    <3>1. next_'[g] = Append(next_[g], b)
      BY <1>1, <2>3
    <3>2. CASE i \in DOMAIN next_[g]
      <4>1. next_'[g][i] = next_[g][i]
        BY <2>1, <3>1, <3>2
      <4>. QED
        BY <1>6, <3>2, <4>1
    <3>3. CASE i \notin DOMAIN next_[g]
      <4>1. next_'[g][i] = b
        BY <2>1, <3>1, <3>3
      <4>. QED
        BY <1>7, <2>3, <4>1
    <3>. QED
      BY <3>2, <3>3
  <2>. QED
    BY <2>2, <2>3
<1>9. PICK deep \in [Filter -> Nat] : deep = lower
  BY <1>5
<1>10. Deeper(deep)'
  BY <1>8, <1>9 DEF Deeper
<1>. QED
  BY <1>9, <1>10 DEF Acyclic

LEMMA ChainStep ==
  ASSUME GraphInv, NEW v \in Variable, NEW a \in Variable, NEW b \in Variable, Chain(v, a, b)
  PROVE  GraphInv'
<1>1. /\ dropped = << >> /\ next_ \in [Filter -> Seq(Filter)] /\ references \in [Filter -> Nat]
      /\ UNCHANGED callVars
  BY DEF Chain, Idle, GraphInv, TypeOK
<1>2. PICK left \in Filter, right \in Filter : left = ptr[a] /\ right = ptr[b]
  BY DEF Chain, GraphInv, TypeOK
<1>3. /\ left \notin Reached({right}) /\ Refer(v, left)
      /\ next_' = [next_ EXCEPT ![left] = Append(@, right)]
      /\ references' = [f \in Filter |-> references[f] + (IF f = left THEN 1 ELSE 0)
                                                       + (IF f = right THEN 1 ELSE 0)]
  BY <1>2 DEF Chain, Chained, Referenced
<1>4. Acyclic'
  BY <1>3, ChainStaysAcyclic
<1>5. /\ references' \in [Filter -> Nat]
      /\ \A f \in Filter : references'[f] = 0 => references[f] = 0 /\ f # left
      /\ next_' \in [Filter -> Seq(Filter)] /\ \A f \in Filter : f # left => next_'[f] = next_[f]
  <2>1. references' \in [Filter -> Nat]
        /\ \A f \in Filter : references'[f] = 0 => references[f] = 0 /\ f # left
    BY <1>1, <1>3
  <2>2. PICK longer \in Seq(Filter) : longer = Append(next_[left], right)
    <3>1. next_[left] \in Seq(Filter)
      BY <1>1
    <3>2. Append(next_[left], right) \in Seq(Filter)
      BY <3>1
    <3>. QED
      BY <3>2
  <2>3. next_' = [next_ EXCEPT ![left] = longer]
    BY <1>3, <2>2
  <2>. QED
    BY <1>1, <2>1, <2>3
<1>6. TypeOK'
  <2>1. ptr' \in [Variable -> Filter \cup {Null}] /\ dropped' \in Seq(Filter)
    BY <1>1, <1>3, Referring
  <2>. QED
    BY <1>1, <1>5, <2>1 DEF GraphInv, TypeOK, callVars
<1>7. Gone'
  <2>1. \A f \in Filter : references'[f] \in Nat /\ references[f] \in Nat
    BY <1>1, <1>5
  <2>2. \A f \in Filter : ~(references'[f] > 0) => ~(references[f] > 0) /\ f # left
    BY <1>5, <2>1
  <2>. QED
    BY <1>5, <2>2 DEF Gone, GraphInv, Exists
<1>8. ASSUME NEW f \in Filter
      PROVE  /\ IsFiniteSet(Links(f)')
             /\ Cardinality(Links(f)') = Cardinality(Links(f)) + IF right = f THEN 1 ELSE 0
  <2>. DEFINE n == Len(next_[left]) + 1
              new == <<left, n>>
  <2>1. /\ next_[left] \in Seq(Filter) /\ n \in Nat
        /\ DOMAIN next_[left] = 1 .. n - 1 /\ n \notin 1 .. n - 1
        /\ DOMAIN next_'[left] = (1 .. n - 1) \cup {n} /\ next_'[left][n] = right
        /\ \A i \in 1 .. n - 1 : next_'[left][i] = next_[left][i]
    <3>. DEFINE before == next_[left]
    <3>1. before \in Seq(Filter) /\ next_'[left] = Append(before, right)
      BY <1>1, <1>3
    <3>. HIDE DEF before
    <3>2. /\ Len(before) + 1 \in Nat /\ DOMAIN before = 1 .. (Len(before) + 1) - 1
          /\ Len(before) + 1 \notin 1 .. (Len(before) + 1) - 1
          /\ DOMAIN Append(before, right) = 1 .. Len(before) + 1
          /\ Append(before, right)[Len(before) + 1] = right
          /\ \A i \in 1 .. (Len(before) + 1) - 1 : Append(before, right)[i] = before[i]
      BY <3>1
    <3>3. 1 .. Len(before) + 1 = (1 .. (Len(before) + 1) - 1) \cup {Len(before) + 1}
      BY <3>2
    <3>. QED
      BY <3>1, <3>2, <3>3 DEF before
  <2>. HIDE DEF n
  <2>2. ASSUME NEW l \in Filter \X Nat
        PROVE  l \in Links(f)' <=> l \in Links(f) \/ (right = f /\ l = new)
    <3>1. PICK g \in Filter, i \in Nat : l = <<g, i>>
      OBVIOUS
    <3>2. /\ l \in Links(f) <=> i \in DOMAIN next_[g] /\ next_[g][i] = f
          /\ l \in Links(f)' <=> i \in DOMAIN next_'[g] /\ next_'[g][i] = f
          /\ l = new <=> g = left /\ i = n
      BY <3>1 DEF Links
    <3>3. CASE g = left
      BY <2>1, <3>2, <3>3
    <3>4. CASE g # left
      BY <1>5, <3>2, <3>4
    <3>. QED
      BY <3>3, <3>4
  <2>3. new \in Filter \X Nat
    BY <2>1
  <2>. HIDE DEF new
  <2>4. Links(f)' = IF right = f THEN Links(f) \cup {new} ELSE Links(f)
    <3>1. Links(f)' \subseteq Filter \X Nat /\ Links(f) \subseteq Filter \X Nat
      BY DEF Links
    <3>. QED
      BY <2>2, <2>3, <3>1
  <2>5. new \notin Links(f)
    BY <2>1 DEF Links, new
  <2>6. IsFiniteSet(Links(f))
    BY PartsAreFinite
  <2>. QED
    BY <2>4, <2>5, <2>6, OneMore
<1>9. Counted'
  <2>. SUFFICES ASSUME NEW f \in Filter
                PROVE  /\ IsFiniteSet(Links(f)')
                       /\ references'[f] = Cardinality(Holders(f)') + Cardinality(Links(f)')
                                             + Count(dropped', f) + Cardinality(Calls(f)')
    BY DEF Counted, Count
  <2>. DEFINE h == Cardinality(Holders(f))
              l == Cardinality(Links(f))
              d == Count(dropped, f)
              c == Cardinality(Calls(f))
              first == IF left = f THEN 1 ELSE 0
              second == IF right = f THEN 1 ELSE 0
              newHolders == Cardinality(Holders(f)')
              newLinks == Cardinality(Links(f)')
              newDropped == Count(dropped', f)
  <2>1. Calls(f)' = Calls(f)
    BY <1>1, CallsStay DEF callVars
  <2>2. h \in Nat /\ l \in Nat /\ d \in Nat /\ c \in Nat /\ references[f] = h + l + d + c
    BY PartsAreFinite
  <2>3. newHolders + newDropped = h + d + first
    BY <1>1, <1>3, Referring
  <2>4. references'[f] = references[f] + first + second
    BY <1>3
  <2>5. first \in Nat /\ second \in Nat /\ newHolders \in Nat /\ newDropped \in Nat
    <3>1. newDropped \in Nat
      BY <1>6, Finite DEF TypeOK
    <3>2. newHolders \in Nat
      BY ObjectsAssumption, FS_Subset, FS_CardinalityType DEF Holders
    <3>. QED
      BY <3>1, <3>2
  <2>6. newLinks = l + second
    BY <1>8
  <2>7. references'[f] = newHolders + newLinks + newDropped + c
    <3>. HIDE DEF h, l, d, c, first, second, newHolders, newLinks, newDropped
    <3>. QED
      BY <2>2, <2>3, <2>4, <2>5, <2>6
  <2>. QED
    BY <1>8, <2>1, <2>7
<1>10. (called = << >> => frames = << >>)'
  BY <1>1 DEF GraphInv, callVars
<1>. QED
  BY <1>4, <1>6, <1>7, <1>9, <1>10 DEF GraphInv

\* A deletion turns what the object was chained to into references to give up.
LEMMA UnrefStep ==
  ASSUME GraphInv, Unref
  PROVE  GraphInv'
<1>1. /\ dropped \in Seq(Filter) /\ dropped # << >> /\ next_ \in [Filter -> Seq(Filter)]
      /\ references \in [Filter -> Nat] /\ UNCHANGED <<ptr, callVars>>
  BY DEF Unref, GraphInv, TypeOK
<1>2. PICK gone \in Filter : gone = Head(dropped)
  BY <1>1
<1>3. PICK rest \in Seq(Filter) : rest = Tail(dropped)
  <2>1. Tail(dropped) \in Seq(Filter)
    BY <1>1, CountHead
  <2>. QED
    BY <2>1
<1>4. PICK count \in Nat : count = references[gone]
  BY <1>1
<1>. DEFINE last == count = 1
<1>5. /\ references' = [references EXCEPT ![gone] = @ - 1]
      /\ next_' = IF last THEN [next_ EXCEPT ![gone] = << >>] ELSE next_
      /\ dropped' = (IF last THEN next_[gone] ELSE << >>) \o rest
  BY <1>2, <1>3, <1>4 DEF Unref, DeletedNext
<1>6. ASSUME NEW f \in Filter
      PROVE  Count(dropped, f) = Count(rest, f) + IF gone = f THEN 1 ELSE 0
  BY <1>1, <1>2, <1>3, CountHead
<1>7. references[gone] > 0
  <2>1. gone \in ToSet(dropped)
    BY <1>1, <1>2 DEF ToSet
  <2>. QED
    BY <2>1, ReferredExists DEF Exists
<1>8. references' \in [Filter -> Nat]
      /\ \A f \in Filter : references'[f] = references[f] - IF gone = f THEN 1 ELSE 0
  <2>1. PICK left \in Nat : left = references[gone] - 1
    <3>1. references[gone] \in Nat
      BY <1>1
    <3>2. references[gone] - 1 \in Nat
      BY <1>7, <3>1
    <3>. QED
      BY <3>2
  <2>2. references' = [references EXCEPT ![gone] = left]
    BY <1>5, <2>1
  <2>3. references' \in [Filter -> Nat]
        /\ \A f \in Filter : references'[f] = IF f = gone THEN left ELSE references[f]
    BY <1>1, <2>2
  <2>. QED
    BY <1>1, <2>1, <2>3
<1>9. /\ next_' \in [Filter -> Seq(Filter)]
      /\ \A f \in Filter : next_'[f] = IF last /\ f = gone THEN << >> ELSE next_[f]
  <2>1. << >> \in Seq(Filter)
    BY <1>2, CountOne
  <2>. QED
    BY <1>1, <1>5, <2>1
<1>10. next_[gone] \in Seq(Filter) /\ << >> \in Seq(Filter)
  BY <1>1, <1>2, CountOne
<1>11. dropped' \in Seq(Filter)
       /\ \A f \in Filter :
            Count(dropped', f) = Count(rest, f) + IF last THEN Count(next_[gone], f) ELSE 0
  <2>1. CASE last
    <3>1. dropped' = next_[gone] \o rest
      BY <1>5, <2>1
    <3>2. \A f \in Filter : Count(next_[gone], f) \in Nat /\ Count(rest, f) \in Nat
      BY <1>10, Finite
    <3>. QED
      BY <1>10, <2>1, <3>1, <3>2, CountJoined
  <2>2. CASE ~last
    <3>1. dropped' = rest
      BY <1>5, <2>2
    <3>2. \A f \in Filter : Count(rest, f) \in Nat
      BY Finite
    <3>. QED
      BY <2>2, <3>1, <3>2
  <2>. QED
    BY <2>1, <2>2
<1>12. TypeOK'
  BY <1>1, <1>8, <1>9, <1>11 DEF GraphInv, TypeOK, callVars
<1>13. ASSUME NEW f \in Filter
       PROVE  /\ IsFiniteSet(Links(f)')
              /\ Cardinality(Links(f)') \in Nat
              /\ Cardinality(Links(f)) =
                   Cardinality(Links(f)') + IF last THEN Count(next_[gone], f) ELSE 0
  <2>1. CASE ~last
    <3>1. UNCHANGED next_
      BY <1>5, <2>1
    <3>. QED
      BY <2>1, <3>1, PartsAreFinite, LinksStay
  <2>2. CASE last
    <3>. DEFINE places == {k \in DOMAIN next_[gone] : next_[gone][k] = f}
                away == {<<gone, k>> : k \in places}
    <3>1. places \in SUBSET Nat /\ IsFiniteSet(places) /\ Cardinality(places) = Count(next_[gone], f)
      BY <1>10, Finite DEF Count
    <3>2. IsFiniteSet(away) /\ Cardinality(away) = Count(next_[gone], f)
      <4>. HIDE DEF places
      <4>. QED
        BY <3>1, Paired
    <3>3. ASSUME NEW l \in Filter \X Nat
          PROVE  /\ l \in Links(f) <=> l \in Links(f)' \/ l \in away
                 /\ ~(l \in Links(f)' /\ l \in away)
      <4>1. PICK g \in Filter, i \in Nat : l = <<g, i>>
        OBVIOUS
      <4>2. /\ l \in Links(f) <=> i \in DOMAIN next_[g] /\ next_[g][i] = f
            /\ l \in Links(f)' <=> i \in DOMAIN next_'[g] /\ next_'[g][i] = f
            /\ l \in away <=> g = gone /\ i \in DOMAIN next_[gone] /\ next_[gone][i] = f
        BY <4>1 DEF Links
      <4>3. CASE g = gone
        <5>1. next_'[g] = << >>
          BY <1>9, <2>2, <4>3
        <5>2. i \notin DOMAIN next_'[g]
          BY <5>1
        <5>. QED
          BY <4>2, <4>3, <5>2
      <4>4. CASE g # gone
        <5>1. next_'[g] = next_[g]
          BY <1>9, <4>4
        <5>. QED
          BY <4>2, <4>4, <5>1
      <4>. QED
        BY <4>3, <4>4
    <3>4. Links(f)' \subseteq Filter \X Nat /\ Links(f) \subseteq Filter \X Nat
          /\ away \subseteq Filter \X Nat
      BY <1>10, <3>1 DEF Links
    <3>. HIDE DEF away, places
    <3>5. Links(f) = Links(f)' \cup away /\ Links(f)' \cap away = {}
      BY <3>3, <3>4
    <3>6. IsFiniteSet(Links(f)')
      <4>1. Links(f)' \in SUBSET Links(f)
        BY <3>5
      <4>. QED
        BY <4>1, PartsAreFinite, FS_Subset
    <3>7. Cardinality(Links(f)') \in Nat
          /\ Cardinality(Links(f)) = Cardinality(Links(f)') + Cardinality(away)
      BY <3>2, <3>5, <3>6, Together
    <3>. QED
      BY <2>2, <3>2, <3>6, <3>7
  <2>. QED
    BY <2>1, <2>2
<1>14. Counted'
  <2>. SUFFICES ASSUME NEW f \in Filter
                PROVE  /\ IsFiniteSet(Links(f)')
                       /\ references'[f] = Cardinality(Holders(f)') + Cardinality(Links(f)')
                                             + Count(dropped', f) + Cardinality(Calls(f)')
    BY DEF Counted, Count
  <2>. DEFINE h == Cardinality(Holders(f))
              l == Cardinality(Links(f))
              d == Count(dropped, f)
              c == Cardinality(Calls(f))
              r == Count(rest, f)
              less == IF gone = f THEN 1 ELSE 0
              moved == IF last THEN Count(next_[gone], f) ELSE 0
              newLinks == Cardinality(Links(f)')
              newDropped == Count(dropped', f)
  <2>1. Holders(f)' = Holders(f) /\ Calls(f)' = Calls(f)
    BY <1>1, HoldersStay, CallsStay DEF callVars
  <2>2. h \in Nat /\ l \in Nat /\ d \in Nat /\ c \in Nat /\ references[f] = h + l + d + c
    BY PartsAreFinite
  <2>3. r \in Nat /\ less \in Nat /\ moved \in Nat
    BY <1>10, Finite
  <2>4. d = r + less /\ newDropped = r + moved /\ newLinks \in Nat /\ l = newLinks + moved
        /\ references'[f] = references[f] - less
    BY <1>6, <1>8, <1>11, <1>13
  <2>5. references'[f] = h + newLinks + newDropped + c
    <3>. HIDE DEF h, l, d, c, r, less, moved, newLinks, newDropped
    <3>. QED
      BY <2>2, <2>3, <2>4
  <2>. QED
    BY <1>13, <2>1, <2>5
<1>15. Gone'
  <2>. SUFFICES ASSUME NEW f \in Filter, ~(references'[f] > 0) PROVE next_'[f] = << >>
    BY DEF Gone, Exists
  <2>1. CASE f = gone
    <3>1. references[gone] = 1
      BY <1>1, <1>7, <1>8, <2>1
    <3>. QED
      BY <1>4, <1>9, <2>1, <3>1
  <2>2. CASE f # gone
    <3>1. ~(references[f] > 0)
      BY <1>1, <1>8, <2>2
    <3>2. next_[f] = << >>
      BY <3>1 DEF GraphInv, Gone, Exists
    <3>. QED
      BY <1>9, <2>2, <3>2
  <2>. QED
    BY <2>1, <2>2
<1>16. Acyclic'
  <2>1. PICK depth \in [Filter -> Nat] : Deeper(depth)
    BY DEF GraphInv, Acyclic
  <2>2. ASSUME NEW g \in Filter, NEW i \in DOMAIN next_'[g]
        PROVE  depth[g] < depth[next_'[g][i]]
    <3>1. next_'[g] = next_[g]
      BY <1>9
    <3>. QED
      BY <2>1, <2>2, <3>1 DEF Deeper
  <2>3. Deeper(depth)'
    BY <2>2 DEF Deeper
  <2>. QED
    BY <2>3 DEF Acyclic
<1>17. (called = << >> => frames = << >>)'
  BY <1>1 DEF GraphInv, callVars
<1>. QED
  BY <1>12, <1>14, <1>15, <1>16, <1>17 DEF GraphInv


LEMMA GraphStep ==
  ASSUME GraphInv, [Next]_vars
  PROVE  GraphInv'
<1>1. /\ references \in [Filter -> Nat] /\ ptr \in [Variable -> Filter \cup {Null}]
      /\ next_ \in [Filter -> Seq(Filter)] /\ called \in Seq(Filter)
      /\ frames \in Seq([filter : Filter, i : Nat])
      /\ called = << >> => frames = << >>
  BY DEF GraphInv, TypeOK
<1>2. ASSUME frames # << >>
      PROVE  Frame.filter \in Filter /\ Frame.i \in Nat
  <2>. DEFINE Activation == [filter : Filter, i : Nat]
  <2>1. frames \in Seq(Activation) /\ \A a \in Activation : a.filter \in Filter /\ a.i \in Nat
    BY <1>1
  <2>. HIDE DEF Activation
  <2>2. frames[Len(frames)] \in Activation
    BY <1>2, <2>1
  <2>. QED
    BY <2>1, <2>2 DEF Frame
<1>3. CASE \E v \in Variable : New(v)
  <2>1. PICK v \in Variable : New(v)
    BY <1>3
  <2>2. PICK f \in Filter : ~Exists(f) /\ references' = [references EXCEPT ![f] = 1] /\ Refer(v, f)
    BY <2>1 DEF New
  <2>3. references' = [g \in Filter |-> references[g] + IF f = g THEN 1 ELSE 0]
    <3>1. references' \in [Filter -> Nat]
          /\ \A g \in Filter : references'[g] = references[g] + IF f = g THEN 1 ELSE 0
      BY <1>1, <2>2 DEF Exists
    <3>. QED
      BY <1>1, <3>1
  <2>. QED
    BY <2>1, <2>2, <2>3, AssignmentStep DEF New
<1>4. CASE \E v, w \in Variable : Assign(v, w)
  <2>1. PICK v \in Variable, w \in Variable : Assign(v, w)
    BY <1>4
  <2>2. PICK f \in Filter : f = ptr[w]
    BY <1>1, <2>1 DEF Assign
  <2>3. Refer(v, f) /\ references' = [references EXCEPT ![f] = @ + 1]
    BY <2>1, <2>2 DEF Assign
  <2>4. references' = [g \in Filter |-> references[g] + IF f = g THEN 1 ELSE 0]
    <3>1. references' \in [Filter -> Nat]
          /\ \A g \in Filter : references'[g] = references[g] + IF f = g THEN 1 ELSE 0
      BY <1>1, <2>3
    <3>. QED
      BY <1>1, <3>1
  <2>. QED
    BY <2>1, <2>3, <2>4, AssignmentStep DEF Assign
<1>5. CASE \E v \in Variable : Reset(v)
  <2>1. PICK v \in Variable : Reset(v)
    BY <1>5
  <2>2. references' = [g \in Filter |-> references[g] + IF Null = g THEN 1 ELSE 0]
    <3>1. references' = references /\ references = [g \in Filter |-> references[g]]
      BY <1>1, <2>1 DEF Reset
    <3>2. \A g \in Filter : references[g] + (IF Null = g THEN 1 ELSE 0) = references[g]
      BY <1>1, ObjectsAssumption
    <3>. QED
      BY <3>1, <3>2
  <2>. QED
    BY <2>1, <2>2, AssignmentStep DEF Reset
<1>6. CASE \E v, a, b \in Variable : Chain(v, a, b)
  BY <1>6, ChainStep
<1>7. CASE \E v \in Variable : Call(v)
  <2>1. PICK v \in Variable : Call(v)
    BY <1>7
  <2>2. PICK f \in Filter : f = ptr[v]
    BY <1>1, <2>1 DEF Call
  <2>3. /\ references' = [references EXCEPT ![f] = @ + 1]
        /\ frames' = <<[filter |-> f, i |-> 0]>>
        /\ called' = <<f>>
        /\ passing' \in SUBSET Reached({f})
        /\ UNCHANGED <<next_, ptr, dropped, verdict>> /\ frames = << >>
    BY <1>1, <2>1, <2>2 DEF Call, Idle
  <2>4. frames' = Append(frames, [filter |-> f, i |-> 0])
    BY <2>3
  <2>5. passing' \in SUBSET Filter
    <3>1. Reached({f}) \subseteq Filter
      BY DEF Reached
    <3>. QED
      BY <2>3, <3>1
  <2>6. called' \in Seq(Filter) /\ called' # << >>
    BY <2>3, CountOne
  <2>. QED
    BY <2>3, <2>4, <2>5, <2>6, CallStep
<1>8. CASE Unref
  BY <1>8, UnrefStep
<1>9. CASE TestFails \/ EndLoop \/ ReturnFalse
  <2>1. /\ frames # << >> /\ dropped = << >>
        /\ ReturnVerdict("pass") \/ ReturnVerdict("fail")
    BY <1>9 DEF TestFails, EndLoop, ReturnFalse, AtTest, InLoop, Running, NextFailed
  <2>. QED
    BY <2>1, ReturnStep
<1>10. CASE TestPasses
  <2>1. frames # << >> /\ frames' = [frames EXCEPT ![Len(frames)].i = 1]
        /\ UNCHANGED <<next_, references, ptr, dropped, verdict, passing, called>>
    BY <1>10 DEF TestPasses, AtTest, Running, CalledBase
  <2>2. verdict' \in {"none", "pass", "fail"}
    BY <2>1 DEF GraphInv, TypeOK
  <2>. QED
    BY <2>1, <2>2, PlaceStep
<1>11. CASE GoOn
  <2>1. frames # << >> /\ frames' = [frames EXCEPT ![Len(frames)].i = @ + 1] /\ verdict' = "none"
        /\ UNCHANGED <<next_, references, ptr, dropped, passing, called>>
    BY <1>11 DEF GoOn, NextPassed
  <2>2. PICK place \in Nat : place = Frame.i + 1
    BY <1>2, <2>1
  <2>3. frames' = [frames EXCEPT ![Len(frames)].i = place]
    <3>. DEFINE n == Len(frames)
    <3>1. frames' = [frames EXCEPT ![n].i = frames[n].i + 1] /\ place = frames[n].i + 1
      BY <2>1, <2>2 DEF Frame
    <3>. HIDE DEF n
    <3>. QED
      BY <3>1, Zenon DEF n
  <2>. QED
    BY <2>1, <2>2, <2>3, PlaceStep
<1>12. CASE CallNext
  <2>1. frames # << >> /\ Frame.i > 0 /\ Frame.i <= Len(next_[Frame.filter])
    BY <1>12 DEF CallNext, InLoop, Running
  <2>2. PICK f \in Filter : f = next_[Frame.filter][Frame.i]
    <3>. DEFINE i == Frame.i
                list == next_[Frame.filter]
    <3>1. list \in Seq(Filter) /\ i \in Nat /\ i > 0 /\ i <= Len(list)
      BY <1>1, <1>2, <2>1
    <3>. HIDE DEF i, list
    <3>2. list[i] \in Filter
      BY <3>1
    <3>. QED
      BY <3>2 DEF i, list
  <2>3. /\ references' = [references EXCEPT ![f] = @ + 1]
        /\ frames' = Append(frames, [filter |-> f, i |-> 0])
        /\ called' = Append(called, f)
        /\ UNCHANGED <<next_, ptr, dropped, verdict, passing>>
    BY <1>12, <2>2 DEF CallNext
  <2>4. called' \in Seq(Filter) /\ called' # << >>
    <3>1. called \in Seq(Filter) /\ called' = Append(called, f)
      BY <1>1, <2>3
    <3>. QED
      BY <3>1
  <2>5. passing' \in SUBSET Filter
    BY <2>3 DEF GraphInv, TypeOK
  <2>. QED
    BY <2>3, <2>4, <2>5, CallStep
<1>13. CASE TakeVerdict \/ UNCHANGED vars
  <2>1. /\ UNCHANGED <<next_, references, ptr, dropped, frames>>
        /\ verdict' \in {"none", "pass", "fail"} /\ passing' \in SUBSET Filter
        /\ called' \in Seq(Filter) /\ (called' = << >> => frames' = << >>)
    <3>1. CASE TakeVerdict
      BY <3>1 DEF TakeVerdict
    <3>2. CASE UNCHANGED vars
      BY <3>2 DEF vars, callVars, GraphInv, TypeOK
    <3>. QED
      BY <1>13, <3>1, <3>2
  <2>2. TypeOK'
    BY <2>1 DEF GraphInv, TypeOK
  <2>3. Counted'
    BY <2>1 DEF GraphInv, Counted, Holders, Links, Calls, Count
  <2>4. Gone'
    BY <2>1 DEF GraphInv, Gone, Exists
  <2>. QED
    BY <2>1, <2>2, <2>3, <2>4, AcyclicStays DEF GraphInv
<1>. QED
  BY <1>3, <1>4, <1>5, <1>6, <1>7, <1>8, <1>9, <1>10, <1>11, <1>12, <1>13 DEF Next, Step

LEMMA GraphStarts == Init => GraphInv
<1>. SUFFICES ASSUME Init PROVE GraphInv
  OBVIOUS
<1>1. \A f : Holders(f) \subseteq {v \in Variable : Null = f} /\ Links(f) = {} /\ Calls(f) = {}
  BY DEF Init, Holders, Links, Calls
<1>2. \A f \in Filter : Holders(f) = {}
  BY <1>1, ObjectsAssumption
<1>3. \A f \in Filter : Count(dropped, f) = 0
  BY CountOne DEF Init
<1>4. \A f \in Filter : references[f] = 0 /\ next_[f] = << >>
  BY DEF Init
<1>5. TypeOK
  BY DEF Init, TypeOK
<1>6. Counted
  <2>. SUFFICES ASSUME NEW f \in Filter
                PROVE  /\ IsFiniteSet(Links(f))
                       /\ references[f] = Cardinality(Holders(f)) + Cardinality(Links(f))
                                            + Count(dropped, f) + Cardinality(Calls(f))
    BY DEF Counted
  <2>1. Holders(f) = {} /\ Links(f) = {} /\ Calls(f) = {}
    BY <1>1, <1>2
  <2>2. IsFiniteSet(Links(f)) /\ Cardinality(Holders(f)) = 0 /\ Cardinality(Links(f)) = 0
        /\ Cardinality(Calls(f)) = 0
    BY <2>1, FS_EmptySet
  <2>. QED
    BY <1>3, <1>4, <2>2
<1>7. Gone
  BY <1>4 DEF Gone
<1>8. Acyclic
  <2>1. [f \in Filter |-> 0] \in [Filter -> Nat]
    OBVIOUS
  <2>2. Deeper([f \in Filter |-> 0])
    <3>1. \A g \in Filter : DOMAIN next_[g] = {}
      BY <1>4
    <3>. QED
      BY <3>1 DEF Deeper
  <2>. QED
    BY <2>1, <2>2 DEF Acyclic
<1>. QED
  BY <1>5, <1>6, <1>7, <1>8 DEF GraphInv, Init

-------------------------------------------------------------------------------
\* The counts are exact and no filter is chained behind itself, after every
\* assignment, in every call and in the middle of every deletion.
THEOREM GraphInvariant == Spec => []GraphInv
<1>1. GraphInv /\ [Next]_vars => GraphInv'
  BY GraphStep
<1>. QED
  BY <1>1, GraphStarts, PTL DEF Spec

\* Whatever a variable, a call in progress or a deletion still reaches exists: a
\* chain that goes away takes only what it alone refers to (~Filter and the
\* reference counts of filter.cpp).
THEOREM NothingReachedIsDeleted == Spec => []NothingDangles
<1>. QED
  BY GraphInvariant, GraphKeeps, PTL

\* Between the calls and assignments of the application every object it no longer
\* reaches has been deleted.
THEOREM NothingElseIsKept == Spec => []NothingLeaks
<1>. QED
  BY GraphInvariant, GraphLeaksNothing, PTL

================================================================================
