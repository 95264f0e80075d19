--------------------------- MODULE ModuleStackProofs ---------------------------
(***************************************************************************)
(* The module stack stays well linked for every set of module classes, and *)
(* implements the registry of modules: what TLC finds for three classes in *)
(* ModuleStack.cfg, proved.                                                *)
(***************************************************************************)
EXTENDS ModuleStack, FiniteSetTheorems, SequenceTheorems, WellFoundedInduction, TLAPS

(* A sequence of modules without repetition is one of Lists: it is not      *)
(* longer than there are modules.                                          *)
LEMMA RepetitionFreeIsList ==
  ASSUME NEW s \in Seq(Module),
         \A i, j \in 1 .. Len(s) : s[i] = s[j] => i = j
  PROVE  s \in Lists
<1>1. Len(s) \in Nat /\ s \in [1 .. Len(s) -> Module]
  OBVIOUS
<1>2. s \in Injection(1 .. Len(s), Module)
  BY <1>1 DEF Injection, IsInjective
<1>3. Cardinality(1 .. Len(s)) <= Cardinality(Module)
  BY <1>2, FS_Injection, ModuleIsFinite
<1>4. Cardinality(1 .. Len(s)) = Len(s)
  BY <1>1, FS_Interval
<1>5. Cardinality(Module) \in Nat
  BY FS_CardinalityType, ModuleIsFinite
<1>. QED
  BY <1>1, <1>3, <1>4, <1>5 DEF Lists

\* Each of those lists is a finite sequence of modules.
LEMMA ListIsSequence ==
  ASSUME NEW s \in Lists
  PROVE  s \in Seq(Module) /\ Len(s) \in Nat
BY FS_CardinalityType, ModuleIsFinite DEF Lists

(* What WellLinked says of one list.                                       *)
Linked(s) ==
  Represents(s) /\ Owned(s) /\ Constructing(s) /\ Destructing(s) /\ Visiting(s)

\* Initially there is no module, and the list is empty.
THEOREM InitWellLinked == Init => TypeOK /\ WellLinked
<1>. SUFFICES ASSUME Init PROVE TypeOK /\ WellLinked
  OBVIOUS
<1>1. TypeOK
  BY DEF Init, TypeOK, Pointer
<1>2. << >> \in Lists
  <2>. DEFINE s == << >>
  <2>1. s \in Seq(Module) /\ Len(s) = 0
    BY EmptySeq
  <2>. HIDE DEF s
  <2>2. \A i, j \in 1 .. Len(s) : s[i] = s[j] => i = j
    BY <2>1
  <2>3. s \in Lists
    BY <2>1, <2>2, RepetitionFreeIsList
  <2>. QED
    BY <2>3 DEF s
<1>3. Linked(<< >>)
  BY DEF Init, Linked, Represents, Owned, Listed, Constructing, Destructing, Visiting
<1>. QED
  BY <1>1, <1>2, <1>3 DEF WellLinked, Linked

(* One action after the other keeps the types. The links are those of a    *)
(* list, which is why the constructor's walk never leaves the list.        *)
LEMMA TypeStep ==
  ASSUME TypeOK, WellLinked, [Next]_vars
  PROVE  TypeOK'
<1>. USE DEF TypeOK, Pointer
<1>1. ASSUME NEW m \in Module, Use(m) PROVE TypeOK'
  BY <1>1, NullIsNoModule DEF Use, Unlinked
<1>2. CASE WalkToTail
  BY <1>2 DEF WalkToTail
<1>3. CASE LinkAtTail
  BY <1>3 DEF LinkAtTail
<1>4. CASE SetInstance
  BY <1>4 DEF SetInstance
<1>5. ASSUME NEW m \in Module, Dispose(m) PROVE TypeOK'
  BY <1>5 DEF Dispose
<1>6. CASE WalkToThis
  BY <1>6 DEF WalkToThis
<1>7. CASE UnlinkThis
  BY <1>7 DEF UnlinkThis, StackWithout, LinksWithout
<1>8. CASE ClearInstance
  BY <1>8 DEF ClearInstance
<1>9. CASE Traverse
  BY <1>9 DEF Traverse
<1>10. CASE Visit
  BY <1>10 DEF Visit
<1>11. CASE Return
  BY <1>11 DEF Return
<1>12. CASE UNCHANGED vars
  BY <1>12 DEF vars
<1>. QED
  BY <1>1, <1>2, <1>3, <1>4, <1>5, <1>6, <1>7, <1>8, <1>9, <1>10, <1>11, <1>12
  DEF Next, Call, Step

(***************************************************************************)
(* What every step does to the list: it keeps it, appends one module that   *)
(* was not on it, or takes one out.                                        *)
(***************************************************************************)
LEMMA UseStep ==
  ASSUME TypeOK, NEW s \in Seq(Module), Linked(s), NEW m \in Module, Use(m)
  PROVE  \/ Linked(s)'
         \/ ~Listed(m, s) /\ Linked(Append(s, m))'
<1>. USE DEF Linked, Use, Unlinked, TypeOK, Pointer
<1>1. ~Listed(m, s)
  BY NullIsNoModule DEF Owned
<1>2. CASE stack = Null
  <2>1. s = << >>
    BY <1>2, NullIsNoModule DEF Represents
  <2>2. Append(s, m) = <<m>> /\ Len(<<m>>) = 1
    BY <2>1
  <2>3. Linked(<<m>>)'
    BY <1>2, <2>1, NullIsNoModule
    DEF Represents, Owned, Listed, Constructing, Destructing, Visiting
  <2>. QED
    BY <1>1, <2>2, <2>3
<1>3. CASE stack # Null
  <2>1. Len(s) > 0 /\ stack = s[1]
    BY <1>3 DEF Represents
  <2>2. Represents(s)'
    BY <1>1, <1>3 DEF Represents, Listed
  <2>3. Owned(s)'
    BY <1>3, NullIsNoModule DEF Owned, Listed
  <2>4. Constructing(s)'
    BY <1>1, <1>3, <2>1 DEF Constructing, Listed
  <2>5. Destructing(s)' /\ Visiting(s)'
    BY <1>3 DEF Destructing, Visiting
  <2>. QED
    BY <2>2, <2>3, <2>4, <2>5
<1>. QED
  BY <1>2, <1>3

\* The constructor goes to the next module of the list.
LEMMA WalkToTailStep ==
  ASSUME TypeOK, NEW s \in Seq(Module), Linked(s), WalkToTail
  PROVE  Linked(s)'
<1>. USE DEF Linked, WalkToTail, TypeOK, Pointer
<1>1. PICK i \in 1 .. Len(s) : s[i] = module
  BY DEF Constructing, Listed
<1>2. i < Len(s) /\ module' = s[i + 1]
  BY <1>1 DEF Represents
<1>3. Represents(s)' /\ Owned(s)' /\ Destructing(s)' /\ Visiting(s)'
  BY DEF Represents, Owned, Listed, Destructing, Visiting
<1>4. Constructing(s)'
  BY <1>1, <1>2 DEF Constructing, Listed
<1>. QED
  BY <1>3, <1>4

(***************************************************************************)
(* What appending does to a sequence, as the provers need it spelled out.   *)
(***************************************************************************)
LEMMA Appended ==
  ASSUME NEW S, NEW q \in Seq(S), NEW e \in S
  PROVE  /\ Append(q, e) \in Seq(S) /\ Len(Append(q, e)) = Len(q) + 1
         /\ \A k \in 1 .. Len(q) : Append(q, e)[k] = q[k]
         /\ Append(q, e)[Len(q) + 1] = e
         /\ \A k \in 1 .. Len(Append(q, e)) : k \in 1 .. Len(q) \/ k = Len(q) + 1
         /\ Len(q) \in Nat
  OBVIOUS

\* The constructor appends to the last module of the list.
LEMMA LinkAtTailStep ==
  ASSUME TypeOK, NEW s \in Seq(Module), Linked(s), LinkAtTail,
         NEW m \in Module, m = this
  PROVE  ~Listed(m, s) /\ Linked(Append(s, m))'
<1>. USE DEF Linked, LinkAtTail, TypeOK, Pointer
<1>. DEFINE t == Append(s, m)
<1>1. ~Listed(m, s) /\ next_[m] = Null
  BY DEF Constructing
<1>2. PICK i \in 1 .. Len(s) : s[i] = module
  BY DEF Constructing, Listed
<1>3. i = Len(s)
  BY <1>2, NullIsNoModule DEF Represents
<1>4. /\ t \in Seq(Module) /\ Len(t) = Len(s) + 1
      /\ \A k \in 1 .. Len(s) : t[k] = s[k]
      /\ t[Len(s) + 1] = m
      /\ \A k \in 1 .. Len(t) : k \in 1 .. Len(s) \/ k = Len(s) + 1
      /\ Len(s) \in Nat
  BY ONLY s \in Seq(Module), m \in Module, Appended
<1>. HIDE DEF t
<1>5. Represents(t)'
  <2>1. ASSUME NEW j \in 1 .. Len(t), NEW k \in 1 .. Len(t), t[j] = t[k]
        PROVE  j = k
    <3>1. /\ j \in 1 .. Len(s) \/ j = Len(s) + 1
          /\ k \in 1 .. Len(s) \/ k = Len(s) + 1
      BY <1>4
    <3>2. \A l \in 1 .. Len(s) : t[l] # m
      BY <1>1, <1>4 DEF Listed
    <3>3. \A l, n \in 1 .. Len(s) : s[l] = s[n] => l = n
      BY DEF Represents
    <3>. QED
      BY <1>4, <2>1, <3>1, <3>2, <3>3
  <2>2. stack' = t[1] /\ t # << >>
    BY <1>2, <1>4 DEF Represents
  <2>3. \A k \in 1 .. Len(t) : next_'[t[k]] = IF k = Len(t) THEN Null ELSE t[k + 1]
    BY <1>1, <1>2, <1>3, <1>4 DEF Represents, Listed
  <2>. QED
    BY <2>1, <2>2, <2>3 DEF Represents
<1>6. \A k \in Module : Listed(k, t) <=> (Listed(k, s) \/ k = m)
  <2>1. 1 .. Len(s) \subseteq 1 .. Len(t) /\ Len(s) + 1 \in 1 .. Len(t)
    BY <1>4
  <2>. QED
    BY <1>4, <2>1 DEF Listed
<1>7. Owned(t)'
  BY <1>6 DEF Owned, Listed
<1>8. Constructing(t)'
  BY <1>4 DEF Constructing, Listed
<1>9. Destructing(t)' /\ Visiting(t)'
  BY DEF Destructing, Visiting
<1>. QED
  BY <1>1, <1>5, <1>7, <1>8, <1>9 DEF t

\* The instance pointer is set: the module is in use.
LEMMA SetInstanceStep ==
  ASSUME TypeOK, NEW s \in Seq(Module), Linked(s), SetInstance
  PROVE  Linked(s)'
BY NullIsNoModule
DEF Linked, SetInstance, TypeOK, Pointer, Represents, Owned, Listed, Constructing,
    Destructing, Visiting

\* The instance is to be deleted: the destructor begins.
LEMMA DisposeStep ==
  ASSUME TypeOK, NEW s \in Seq(Module), Linked(s), NEW m \in Module, Dispose(m)
  PROVE  Linked(s)'
<1>. USE DEF Linked, Dispose, TypeOK, Pointer
<1>1. Listed(m, s) /\ instance[m] = m
  BY NullIsNoModule DEF Owned
<1>2. Represents(s)' /\ Owned(s)' /\ Constructing(s)' /\ Visiting(s)'
  BY NullIsNoModule DEF Represents, Owned, Listed, Constructing, Visiting
<1>3. PICK j \in 1 .. Len(s) : s[j] = m
  BY <1>1 DEF Listed
<1>4. 1 \in 1 .. Len(s) /\ j \in 1 .. Len(s) /\ module' = s[1]
  BY <1>3 DEF Represents
<1>5. Destructing(s)'
  BY <1>1, <1>3, <1>4 DEF Destructing
<1>. QED
  BY <1>2, <1>5

\* The destructor goes on, and knows the predecessor of where it is.
LEMMA WalkToThisStep ==
  ASSUME TypeOK, NEW s \in Seq(Module), Linked(s), WalkToThis
  PROVE  Linked(s)'
<1>. USE DEF Linked, WalkToThis, TypeOK, Pointer
<1>1. PICK i \in 1 .. Len(s) :
        module = s[i] /\ \E j \in i .. Len(s) : s[j] = this
  BY DEF Destructing
<1>2. PICK j \in i .. Len(s) : s[j] = this
  BY <1>1
<1>3. j > i /\ i + 1 \in 1 .. Len(s) /\ j \in i + 1 .. Len(s)
  BY <1>1, <1>2
<1>4. module' = s[i + 1] /\ previous' = s[(i + 1) - 1] /\ i + 1 # 1
  BY <1>1, <1>3 DEF Represents
<1>5. Represents(s)' /\ Owned(s)' /\ Constructing(s)' /\ Visiting(s)'
  BY DEF Represents, Owned, Listed, Constructing, Visiting
<1>6. Destructing(s)'
  BY <1>2, <1>3, <1>4 DEF Destructing
<1>. QED
  BY <1>5, <1>6

(* The list without its i-th module.                                       *)
Without(s, i) == [k \in 1 .. Len(s) - 1 |-> IF k < i THEN s[k] ELSE s[k + 1]]

\* The destructor takes its module out of the list.
LEMMA UnlinkThisStep ==
  ASSUME TypeOK, NEW s \in Seq(Module), Linked(s), UnlinkThis
  PROVE  \E i \in 1 .. Len(s) : s[i] = this /\ Linked(Without(s, i))'
<1>. USE DEF Linked, UnlinkThis, StackWithout, LinksWithout, TypeOK, Pointer
<1>1. PICK i \in 1 .. Len(s) :
        module = s[i] /\ previous = IF i = 1 THEN Null ELSE s[i - 1]
  BY DEF Destructing
<1>2. s[i] = this /\ module = this
  BY <1>1, NullIsNoModule
<1>. DEFINE t == Without(s, i)
<1>3. /\ t \in Seq(Module) /\ Len(t) = Len(s) - 1
      /\ \A k \in 1 .. Len(t) : t[k] = IF k < i THEN s[k] ELSE s[k + 1]
  BY <1>1 DEF Without
<1>. HIDE DEF t
<1>4. Represents(t)'
  <2>1. \A j, k \in 1 .. Len(t) : t[j] = t[k] => j = k
    BY <1>1, <1>3 DEF Represents
  <2>2. stack' = IF t = << >> THEN Null ELSE t[1]
    BY <1>1, <1>2, <1>3, NullIsNoModule DEF Represents
  <2>3. ASSUME NEW k \in 1 .. Len(t)
        PROVE  next_'[t[k]] = IF k = Len(t) THEN Null ELSE t[k + 1]
    <3>1. t[k] # previous => next_'[t[k]] = next_[t[k]]
      BY <1>2, <1>3
    <3>. DEFINE n == Len(s)
    <3>0. /\ n \in Nat /\ k \in 1 .. n /\ k + 1 \in 1 .. n /\ i \in 1 .. n
          /\ k + 1 = n <=> k = Len(t)
          /\ \A j \in 1 .. n : next_[s[j]] = IF j = n THEN Null ELSE s[j + 1]
          /\ \A j, l \in 1 .. n : s[j] = s[l] => j = l
      BY <1>1, <1>3, <2>3 DEF Represents
    <3>. HIDE DEF n
    <3>2. CASE k < i - 1
      <4>1. t[k] = s[k] /\ t[k + 1] = s[k + 1] /\ k # Len(t)
        BY SMTT(30), <1>1, <1>3, <2>3, <3>2, <3>0
      <4>2. i - 1 \in 1 .. n /\ s[k] # s[i - 1] /\ i # 1
        BY <3>0, <3>2
      <4>. QED
        BY <1>1, <3>0, <3>1, <3>2, <4>1, <4>2
    <3>3. CASE k = i - 1
      BY <1>1, <1>2, <1>3, <2>3, <3>3, NullIsNoModule DEF Represents
    <3>4. CASE k >= i
      <4>1. t[k] = s[k + 1] /\ (k # Len(t) => t[k + 1] = s[k + 2])
        BY SMTT(30), <1>1, <1>3, <2>3, <3>4, <3>0
      <4>2. s[k + 1] # previous
        <5>1. CASE i = 1
          BY <1>1, <3>0, <5>1, NullIsNoModule DEF n
        <5>2. CASE i # 1
          <6>1. i - 1 \in 1 .. n /\ k + 1 # i - 1
            BY <3>0, <3>4, <5>2
          <6>. QED
            BY <1>1, <3>0, <5>2, <6>1
        <5>. QED
          BY <5>1, <5>2
      <4>3. next_[s[k + 1]] = IF k + 1 = n THEN Null ELSE s[k + 2]
        <5>1. (k + 1) + 1 = k + 2
          BY <3>0
        <5>. QED
          BY <3>0, <5>1
      <4>. QED
        BY <3>0, <3>1, <4>1, <4>2, <4>3
    <3>. QED
      BY <1>1, <1>3, <2>3, <3>2, <3>3, <3>4
  <2>. QED
    BY <2>1, <2>2, <2>3 DEF Represents
<1>5. \A m \in Module : Listed(m, t) <=> (Listed(m, s) /\ m # this)
  <2>1. ASSUME NEW m \in Module, Listed(m, t) PROVE Listed(m, s) /\ m # this
    BY <1>1, <1>2, <1>3, <2>1 DEF Represents, Listed
  <2>2. ASSUME NEW m \in Module, Listed(m, s), m # this PROVE Listed(m, t)
    <3>1. PICK j \in 1 .. Len(s) : s[j] = m
      BY <2>2 DEF Listed
    <3>2. CASE j < i
      <4>1. j \in 1 .. Len(t) /\ t[j] = m
        BY <1>1, <1>3, <3>1, <3>2
      <4>. QED
        BY <4>1 DEF Listed
    <3>3. CASE j > i
      <4>1. j - 1 \in 1 .. Len(t) /\ t[j - 1] = m
        BY <1>1, <1>3, <3>1, <3>3
      <4>. QED
        BY <4>1 DEF Listed
    <3>. QED
      BY <1>1, <1>2, <2>2, <3>1, <3>2, <3>3
  <2>. QED
    BY <2>1, <2>2
<1>6. Owned(t)'
  BY <1>5 DEF Owned, Listed
<1>7. Constructing(t)' /\ Visiting(t)'
  BY DEF Constructing, Visiting
<1>8. Destructing(t)'
  BY <1>2, <1>5 DEF Destructing, Listed
<1>. QED
  BY <1>1, <1>2, <1>4, <1>6, <1>7, <1>8 DEF t

\* The instance pointer is cleared: the module can be used again.
LEMMA ClearInstanceStep ==
  ASSUME TypeOK, NEW s \in Seq(Module), Linked(s), ClearInstance
  PROVE  Linked(s)'
BY NullIsNoModule
DEF Linked, ClearInstance, TypeOK, Pointer, Represents, Owned, Listed, Constructing,
    Destructing, Visiting

\* A traversal begins at the head.
LEMMA TraverseStep ==
  ASSUME TypeOK, NEW s \in Seq(Module), Linked(s), Traverse
  PROVE  Linked(s)'
BY DEF Linked, Traverse, TypeOK, Pointer, Represents, Owned, Listed, Constructing,
       Destructing, Visiting

\* It goes on to the next module and has seen one more.
LEMMA VisitStep ==
  ASSUME TypeOK, NEW s \in Seq(Module), Linked(s), Visit
  PROVE  Linked(s)'
<1>. USE DEF Linked, Visit, TypeOK, Pointer
<1>1. Len(visited) < Len(s) /\ module = s[Len(visited) + 1]
  BY DEF Visiting
<1>2. Represents(s)' /\ Owned(s)' /\ Constructing(s)' /\ Destructing(s)'
  BY DEF Represents, Owned, Listed, Constructing, Destructing
<1>3. Visiting(s)'
  BY <1>1 DEF Visiting, Represents
<1>. QED
  BY <1>2, <1>3

\* It returns at the end of the list.
LEMMA ReturnStep ==
  ASSUME TypeOK, NEW s \in Seq(Module), Linked(s), Return
  PROVE  Linked(s)'
BY DEF Linked, Return, TypeOK, Pointer, Represents, Owned, Listed, Constructing,
       Destructing, Visiting

\* Nothing happens.
LEMMA StutterStep ==
  ASSUME TypeOK, NEW s \in Seq(Module), Linked(s), UNCHANGED vars
  PROVE  Linked(s)'
BY DEF vars, Linked, Represents, Owned, Listed, Constructing, Destructing, Visiting

\* All steps together: keep, append or take out.
LEMMA ListStep ==
  ASSUME TypeOK, NEW s \in Seq(Module), Linked(s), [Next]_vars
  PROVE  \/ Linked(s)'
         \/ \E m \in Module : ~Listed(m, s) /\ Linked(Append(s, m))'
         \/ \E i \in 1 .. Len(s) : Linked(Without(s, i))'
<1>1. ASSUME LinkAtTail
      PROVE  \E m \in Module : ~Listed(m, s) /\ Linked(Append(s, m))'
  <2>1. PICK m \in Module : m = this
    BY <1>1 DEF LinkAtTail, TypeOK, Pointer
  <2>. QED
    BY <1>1, <2>1, LinkAtTailStep
<1>2. ASSUME UnlinkThis PROVE \E i \in 1 .. Len(s) : Linked(Without(s, i))'
  BY <1>2, UnlinkThisStep
<1>. QED
  BY <1>1, <1>2, UseStep, WalkToTailStep, SetInstanceStep, DisposeStep, WalkToThisStep,
     ClearInstanceStep, TraverseStep, VisitStep, ReturnStep, StutterStep
  DEF Next, Call, Step

(* Linked lists are repetition free, so that the next state's list is one   *)
(* of Lists again.                                                         *)
LEMMA WellLinkedSequence ==
  WellLinked <=> \E s \in Seq(Module) : Linked(s)
<1>1. ASSUME NEW s \in Lists, Linked(s) PROVE \E t \in Seq(Module) : Linked(t)
  BY <1>1, ListIsSequence
<1>2. ASSUME NEW s \in Seq(Module), Linked(s) PROVE s \in Lists
  BY <1>2, RepetitionFreeIsList DEF Linked, Represents
<1>. QED
  BY <1>1, <1>2 DEF WellLinked, Linked

\* Every step keeps the types and the links.
THEOREM StepWellLinked ==
  ASSUME TypeOK, WellLinked, [Next]_vars
  PROVE  TypeOK' /\ WellLinked'
<1>1. PICK s \in Seq(Module) : Linked(s)
  BY WellLinkedSequence
<1>2. ASSUME NEW t \in Seq(Module), Linked(t)' PROVE WellLinked'
  <2>1. t \in Lists
    BY <1>2, RepetitionFreeIsList DEF Linked, Represents
  <2>. QED
    BY <1>2, <2>1 DEF WellLinked, Linked
<1>3. \A m \in Module : Append(s, m) \in Seq(Module)
  OBVIOUS
<1>4. \A i \in 1 .. Len(s) : Without(s, i) \in Seq(Module)
  BY DEF Without
<1>5. WellLinked'
  BY <1>1, <1>2, <1>3, <1>4, ListStep
<1>. QED
  BY <1>5, TypeStep

(* Whatever the application calls, in whatever order, the links of the      *)
(* module objects form one finite list of the objects in use               *)
(* (module.ipp:22-58).                                                     *)
THEOREM StackIsWellLinked == Spec => [](TypeOK /\ WellLinked)
<1>. DEFINE Inv == TypeOK /\ WellLinked
<1>1. Init => Inv
  BY InitWellLinked
<1>2. Inv /\ [Next]_vars => Inv'
  BY StepWellLinked
<1>. QED
  BY <1>1, <1>2, PTL DEF Spec

\* The pointers have their types in every state that can be reached.
THEOREM StackTypeCorrect == Spec => []TypeOK
BY StackIsWellLinked, PTL

\* Between any two steps, in the middle of use() and dispose() too, the links are
\* a list without a cycle of exactly the modules that are linked.
THEOREM ListIsWellLinked == Spec => []WellLinked
BY StackIsWellLinked, PTL

(* A traversal that returns has called every module in use, none twice and  *)
(* nothing else (functions.cpp:27-32, 38-47).                              *)
THEOREM TraversalsAreComplete == Spec => TraversalComplete
<1>. DEFINE Complete ==
       /\ \A m \in Module : instance[m] # Null <=> Listed(m, visited)
       /\ \A i, j \in 1 .. Len(visited) : visited[i] = visited[j] => i = j
<1>1. TypeOK /\ WellLinked /\ Return => Complete
  <2>. SUFFICES ASSUME TypeOK, WellLinked, Return PROVE Complete
    OBVIOUS
  <2>1. PICK s \in Seq(Module) : Linked(s)
    BY WellLinkedSequence
  <2>2. /\ Len(visited) \in Nat /\ Len(visited) = Len(s)
        /\ \A i \in 1 .. Len(s) : visited[i] = s[i]
    BY <2>1, NullIsNoModule DEF Linked, Visiting, Return, TypeOK
  <2>3. \A m \in Module : Listed(m, visited) <=> Listed(m, s)
    BY <2>2 DEF Listed
  <2>4. \A m \in Module : instance[m] = IF Listed(m, s) THEN m ELSE Null
    BY <2>1, NullIsNoModule DEF Return, TypeOK, Linked, Owned
  <2>5. \A m \in Module : instance[m] # Null <=> Listed(m, visited)
    BY <2>3, <2>4, NullIsNoModule
  <2>6. \A i, j \in 1 .. Len(visited) : visited[i] = visited[j] => i = j
    BY <2>1, <2>2 DEF Linked, Represents
  <2>. QED
    BY <2>5, <2>6
<1>2. Spec => [](TypeOK /\ WellLinked)
  BY StackIsWellLinked
<1>. QED
  BY <1>1, <1>2, PTL DEF Spec, TraversalComplete

(***************************************************************************)
(* Refinement. The links determine the sequence they form, so that          *)
(* Registered, chosen among the sequences they represent, is that one.      *)
(***************************************************************************)
LEMMA LeastNatural ==
  ASSUME NEW D \in SUBSET Nat, D # {}
  PROVE  \E k \in D : \A j \in D : k <= j
<1>1. PICK k \in D : \A j \in D : ~ (<<j, k>> \in OpToRel(<, Nat))
  BY NatLessThanWellFounded, WFMin, Zenon
<1>2. \A j \in D : ~ (j < k)
  BY <1>1 DEF OpToRel
<1>. QED
  BY <1>2

\* Two sequences the links represent agree as far as both go ...
LEMMA AgreeOnPrefix ==
  ASSUME TypeOK,
         NEW s \in Seq(Module), NEW t \in Seq(Module), Represents(s), Represents(t),
         NEW n \in Nat, n <= Len(s), n <= Len(t)
  PROVE  \A k \in 1 .. n : s[k] = t[k]
<1>. DEFINE D == {k \in 1 .. n : s[k] # t[k]}
<1>1. SUFFICES ASSUME D # {} PROVE FALSE
  OBVIOUS
<1>2. PICK k \in D : \A j \in D : k <= j
  <2>1. D \in SUBSET Nat
    OBVIOUS
  <2>. HIDE DEF D
  <2>. QED
    BY <1>1, <2>1, LeastNatural
<1>3. CASE k = 1
  BY <1>2, <1>3 DEF Represents
<1>4. CASE k # 1
  <2>1. k - 1 \in 1 .. n /\ k - 1 \notin D
    BY <1>2, <1>4
  <2>2. s[k - 1] = t[k - 1]
    BY <2>1
  <2>3. next_[s[k - 1]] = s[k] /\ next_[t[k - 1]] = t[k]
    BY <1>2, <2>1 DEF Represents
  <2>. QED
    BY <1>2, <2>2, <2>3
<1>. QED
  BY <1>3, <1>4

\* ... and are equally long: the links represent at most one.
LEMMA RepresentedOnce ==
  ASSUME TypeOK,
         NEW s \in Seq(Module), NEW t \in Seq(Module), Represents(s), Represents(t)
  PROVE  s = t
<1>1. ASSUME NEW u \in Seq(Module), NEW v \in Seq(Module),
             Represents(u), Represents(v), Len(u) < Len(v)
      PROVE  FALSE
  <2>1. CASE Len(u) = 0
    BY <1>1, <2>1, NullIsNoModule DEF Represents
  <2>2. CASE Len(u) # 0
    <3>1. Len(u) \in 1 .. Len(u) /\ Len(u) \in 1 .. Len(v) /\ Len(u) + 1 \in 1 .. Len(v)
      BY <1>1, <2>2
    <3>2. u[Len(u)] = v[Len(u)]
      BY <1>1, <3>1, AgreeOnPrefix
    <3>3. next_[u[Len(u)]] = Null
      BY <1>1, <3>1 DEF Represents
    <3>4. next_[v[Len(u)]] = v[Len(u) + 1]
      <4>1. \A i \in 1 .. Len(v) :
              next_[v[i]] = IF i = Len(v) THEN Null ELSE v[i + 1]
        BY <1>1 DEF Represents
      <4>2. Len(u) # Len(v)
        BY <1>1
      <4>. QED
        BY <3>1, <4>1, <4>2
    <3>. QED
      BY <3>1, <3>2, <3>3, <3>4, NullIsNoModule
  <2>. QED
    BY <2>1, <2>2
<1>2. Len(s) = Len(t)
  BY <1>1
<1>3. \A k \in 1 .. Len(s) : s[k] = t[k]
  BY <1>2, AgreeOnPrefix
<1>. QED
  BY <1>2, <1>3

ReadsAs == \A s \in Seq(Module) : TypeOK /\ Represents(s) => Registered = s

\* The refinement mapping is the sequence the links represent.
LEMMA RegisteredIs == ReadsAs
<1>. SUFFICES ASSUME TypeOK, NEW s \in Seq(Module), Represents(s)
              PROVE  Registered = s
  BY DEF ReadsAs
<1>1. s \in Lists
  BY RepetitionFreeIsList DEF Represents
<1>2. \A t \in Lists : Represents(t) => t = s
  BY ListIsSequence, RepresentedOnce
<1>. QED
  BY <1>1, <1>2 DEF Registered

\* Both modules mean the same by a sequence without its element i.
LEMMA WithoutIsRemoveAt ==
  ASSUME NEW s \in Seq(Module), NEW i \in 1 .. Len(s)
  PROVE  Without(s, i) = Registry!RemoveAt(s, i)
<1>. DEFINE a == SubSeq(s, 1, i - 1)
            b == SubSeq(s, i + 1, Len(s))
            c == a \o b
            w == Without(s, i)
<1>1. Len(s) \in Nat /\ i \in Nat /\ 1 <= i /\ i <= Len(s)
  OBVIOUS
<1>2. /\ a \in Seq(Module) /\ Len(a) = i - 1
      /\ \A k \in 1 .. i - 1 : a[k] = s[k]
  OBVIOUS
<1>3. /\ b \in Seq(Module) /\ Len(b) = Len(s) - i
      /\ \A k \in 1 .. Len(s) - i : b[k] = s[i + k]
  OBVIOUS
<1>. HIDE DEF a, b
<1>4. /\ c \in Seq(Module) /\ Len(c) = Len(a) + Len(b)
      /\ \A k \in 1 .. Len(a) + Len(b) :
           c[k] = IF k <= Len(a) THEN a[k] ELSE b[k - Len(a)]
  BY <1>2, <1>3, ConcatProperties, Zenon
<1>. HIDE DEF c
<1>5. /\ w \in Seq(Module) /\ Len(w) = Len(s) - 1
      /\ \A k \in 1 .. Len(s) - 1 : w[k] = IF k < i THEN s[k] ELSE s[k + 1]
  BY DEF Without
<1>. HIDE DEF w
<1>6. Len(w) = Len(c)
  BY <1>1, <1>2, <1>3, <1>4, <1>5
<1>7. ASSUME NEW k \in 1 .. Len(w) PROVE w[k] = c[k]
  <2>1. k \in 1 .. Len(s) - 1 /\ k \in 1 .. Len(a) + Len(b)
    BY <1>4, <1>5, <1>6
  <2>2. CASE k < i
    BY <1>1, <1>2, <1>4, <1>5, <2>1, <2>2
  <2>3. CASE k >= i
    <3>1. k - Len(a) \in 1 .. Len(s) - i /\ i + (k - Len(a)) = k + 1
      BY <1>1, <1>2, <2>1, <2>3
    <3>2. c[k] = b[k - Len(a)] /\ w[k] = s[k + 1]
      BY <1>1, <1>2, <1>4, <1>5, <2>1, <2>3
    <3>. QED
      BY <1>3, <3>1, <3>2
  <2>. QED
    BY <1>1, <2>1, <2>2, <2>3
<1>8. w = c
  BY <1>4, <1>5, <1>6, <1>7, SeqEqual, Zenon
<1>. QED
  BY <1>8 DEF a, b, c, w, Registry!RemoveAt

\* Every step of the list is one of the registry or a stutter.
LEMMA RegistryStep ==
  ASSUME TypeOK, WellLinked, [Next]_vars
  PROVE  [Registry!Next]_Registered
<1>1. PICK s \in Seq(Module) : Linked(s)
  BY WellLinkedSequence
<1>2. Registered = s
  BY <1>1, RegisteredIs DEF Linked, ReadsAs
<1>3. TypeOK'
  BY TypeStep
<1>4. ASSUME NEW t \in Seq(Module), Linked(t)' PROVE Registered' = t
  <2>1. ReadsAs'
    BY RegisteredIs, PTL
  <2>. QED
    BY <1>3, <1>4, <2>1 DEF ReadsAs, Linked
<1>5. CASE Linked(s)'
  BY <1>2, <1>4, <1>5
<1>6. ASSUME NEW m \in Module, ~Listed(m, s), Linked(Append(s, m))'
      PROVE  Registry!Next
  <2>1. Append(s, m) \in Seq(Module)
    OBVIOUS
  <2>2. Registered' = Append(s, m)
    BY <1>4, <1>6, <2>1
  <2>. QED
    BY <1>2, <1>6, <2>2 DEF Listed, Registry!Next, Registry!Register, Registry!IsRegistered
<1>7. ASSUME NEW i \in 1 .. Len(s), Linked(Without(s, i))'
      PROVE  Registry!Next
  <2>1. Without(s, i) \in Seq(Module)
    BY DEF Without
  <2>2. Registered' = Registry!RemoveAt(s, i)
    BY <1>4, <1>7, <2>1, WithoutIsRemoveAt
  <2>. QED
    BY <1>2, <2>2 DEF Registry!Next, Registry!Unregister
<1>. QED
  BY <1>1, <1>5, <1>6, <1>7, ListStep

(* The linked list implements the registry: use() appends a module that was *)
(* not registered, dispose() takes one out and leaves the others in their   *)
(* order, and nothing else a call does shows (module.ipp:22-58).            *)
THEOREM StackImplementsRegistry == Spec => ImplementsRegistry
<1>1. Init => Registry!Init
  <2>. SUFFICES ASSUME Init PROVE Registry!Init
    OBVIOUS
  <2>1. TypeOK /\ Represents(<< >>)
    BY InitWellLinked DEF Init, Represents
  <2>2. Registered = << >>
    BY <2>1, RegisteredIs, EmptySeq DEF ReadsAs
  <2>. QED
    BY <2>2 DEF Registry!Init
<1>2. TypeOK /\ WellLinked /\ [Next]_vars => [Registry!Next]_Registered
  BY RegistryStep
<1>3. Spec => [](TypeOK /\ WellLinked)
  BY StackIsWellLinked
<1>. QED
  BY <1>1, <1>2, <1>3, PTL DEF Spec, ImplementsRegistry, Registry!Spec

================================================================================
