---------------------------- MODULE DiscoveryProofs ----------------------------
(***************************************************************************)
(* What a discovery selects, for every set of modules, findings and filter  *)
(* chains, and what an announcement publishes: what TLC checks in           *)
(* DiscoveryGPU.cfg and DiscoveryNet.cfg, proved.                           *)
(***************************************************************************)
EXTENDS Discovery, SequenceTheorems, FiniteSetTheorems, WellFoundedInduction, TLAPS

\* A set of naturals that is not empty has a least element.
LEMMA LeastNatural ==
  ASSUME NEW D \in SUBSET Nat, D # {}
  PROVE  \E k \in D : \A j \in D : k <= j
<1>1. PICK k \in D : \A j \in D : ~ (<<j, k>> \in OpToRel(<, Nat))
  BY NatLessThanWellFounded, WFMin, Zenon
<1>2. \A j \in D : ~ (j < k)
  BY <1>1 DEF OpToRel
<1>. QED
  BY <1>2

-------------------------------------------------------------------------------
(* Lemmas about infos and filters.                                          *)

\* The duplicate filter finds the first equal info when it does not pass.
LEMMA FindFirst ==
  ASSUME NEW current \in Seq(Info), NEW c \in Info, ~DuplicatePasses(current, c)
  PROVE  /\ FirstSame(current, c) \in DOMAIN current
         /\ Same(current[FirstSame(current, c)], c)
<1>. DEFINE D == {i \in DOMAIN current : Same(current[i], c)}
<1>1. D \in SUBSET Nat /\ D # {}
  BY DEF DuplicatePasses
<1>. HIDE DEF D
<1>2. PICK k \in D : \A j \in D : k <= j
  BY <1>1, LeastNatural
<1>3. /\ k \in DOMAIN current /\ Same(current[k], c)
      /\ \A j \in 1 .. k - 1 : ~Same(current[j], c)
  BY <1>2 DEF D
<1>. QED
  BY <1>3 DEF FirstSame

\* Merging changes nothing of the info but its flags.
LEMMA MergeOne ==
  ASSUME Resource = "GPU", NEW info \in Info, NEW flags \in SUBSET Value
  PROVE  LET merged == [info EXCEPT !.flags = flags] IN
           /\ merged \in Info
           /\ merged.flags = flags
           /\ Key(merged) = Key(info)
           /\ merged.id = info.id /\ merged.session = info.session
           /\ merged.place = info.place
BY DEF Info, GPUInfo, Key, GPUKey, NodeKey

\* Merging changes nothing but the flags of that first info.
LEMMA MergeAll ==
  ASSUME NEW current \in Seq(Info), NEW c \in Info, ~DuplicatePasses(current, c)
  PROVE  LET merged == FlagsMerged(current, c)
             k == FirstSame(current, c)
         IN  /\ merged \in Seq(Info)
             /\ Len(merged) = Len(current)
             /\ DOMAIN merged = DOMAIN current
             /\ \A i \in DOMAIN current :
                  /\ Key(merged[i]) = Key(current[i])
                  /\ merged[i].id = current[i].id
                  /\ merged[i].session = current[i].session
                  /\ Resource = "GPU" =>
                       /\ merged[i].place = current[i].place
                       /\ merged[i].flags = IF i = k THEN current[i].flags \cup c.flags
                                            ELSE current[i].flags
<1>1. CASE Resource = "GPU"
  <2>. DEFINE k == FirstSame(current, c)
              flags == current[k].flags \cup c.flags
              one == [current[k] EXCEPT !.flags = flags]
  <2>1. k \in DOMAIN current /\ current[k] \in Info
    BY FindFirst
  <2>2. flags \in SUBSET Value
    BY <1>1, <2>1 DEF Info, GPUInfo
  <2>3. /\ one \in Info /\ one.flags = flags /\ Key(one) = Key(current[k])
        /\ one.id = current[k].id /\ one.session = current[k].session
        /\ one.place = current[k].place
    BY <1>1, <2>1, <2>2, MergeOne
  <2>4. FlagsMerged(current, c) = [current EXCEPT ![k] = one]
    BY <1>1 DEF FlagsMerged
  <2>. HIDE DEF one, flags
  <2>. DEFINE merged == FlagsMerged(current, c)
  <2>5. /\ merged \in Seq(Info) /\ Len(merged) = Len(current)
        /\ \A i \in 1 .. Len(current) :
             merged[i] = IF i = k THEN one ELSE current[i]
    <3>. HIDE DEF k
    <3>. QED
      BY <2>1, <2>3, <2>4
  <2>6. DOMAIN merged = DOMAIN current /\ DOMAIN current = 1 .. Len(current)
    BY <2>5
  <2>. HIDE DEF merged, k
  <2>7. ASSUME NEW i \in DOMAIN current
        PROVE  /\ Key(merged[i]) = Key(current[i])
               /\ merged[i].id = current[i].id
               /\ merged[i].session = current[i].session
               /\ merged[i].place = current[i].place
               /\ merged[i].flags = IF i = k THEN current[i].flags \cup c.flags
                                    ELSE current[i].flags
    BY <2>3, <2>5, <2>6 DEF flags
  <2>. QED
    BY <2>5, <2>6, <2>7 DEF merged, k
<1>2. CASE Resource # "GPU"
  BY <1>2 DEF FlagsMerged
<1>. QED
  BY <1>1, <1>2

\* The filters that look at the candidate alone look at its key.
LEMMA WantedByKey ==
  ASSUME NEW a \in Info, NEW b \in Info, Same(a, b), chain \in Seq(Filter)
  PROVE  Wanted(a) <=> Wanted(b)
<1>1. /\ a.nodeName = b.nodeName /\ a.session = b.session /\ a.type = b.type
      /\ Resource = "GPU" => a.place = b.place
      /\ Resource = "Net" => a.card = b.card
  BY ResourceAssumption DEF Same, Key, GPUKey, NetKey, NodeKey
<1>2. ASSUME NEW f \in Filter, f.test \notin {"Duplicate", "Mirror"}
      PROVE  Passes(f, << >>, a) <=> Passes(f, << >>, b)
  <2>1. CASE f.test = "Session"
    BY <1>1, <2>1 DEF Passes, SessionPasses
  <2>2. CASE f.test = "GPU"
    BY <1>1, <2>2 DEF Passes, GPUPasses
  <2>3. CASE f.test = "Net"
    BY <1>1, <2>3, ResourceAssumption DEF Passes, NetPasses
  <2>. QED
    BY <1>2, <2>1, <2>2, <2>3 DEF Filter
<1>. QED
  BY <1>2 DEF Wanted

\* They pass whatever was selected before.
LEMMA StatelessPasses ==
  ASSUME NEW f \in Filter, f.test \notin {"Duplicate", "Mirror"},
         NEW current \in Seq(Info), NEW c \in Info
  PROVE  Passes(f, current, c) <=> Passes(f, << >>, c)
BY DEF Passes, Filter

\* An accepted candidate is wanted, and no duplicate or mirror of a selected info.
LEMMA AcceptedIs ==
  ASSUME chain \in Seq(Filter), NEW current \in Seq(Info), NEW c \in Info,
         Accepts(chain, current, c)
  PROVE  /\ Wanted(c)
         /\ Has(chain, "Duplicate") => DuplicatePasses(current, c)
         /\ Has(chain, "Mirror") => MirrorPasses(current, c)
<1>1. \A i \in DOMAIN chain : chain[i] \in Filter /\ Passes(chain[i], current, c)
  BY DEF Accepts
<1>2. Wanted(c)
  BY <1>1, StatelessPasses DEF Wanted
<1>3. Has(chain, "Duplicate") => DuplicatePasses(current, c)
  BY <1>1 DEF Has, Passes
<1>4. Has(chain, "Mirror") => MirrorPasses(current, c)
  BY <1>1 DEF Has, Passes
<1>. QED
  BY <1>2, <1>3, <1>4

\* A wanted info is refused because of an equal one, or of a mirrored one.
LEMMA RefusedIs ==
  ASSUME chain \in Seq(Filter), NEW current \in Seq(Info), NEW c \in Info,
         ~Accepts(chain, current, c), Wanted(c)
  PROVE  \/ Has(chain, "Duplicate") /\ ~DuplicatePasses(current, c)
         \/ Has(chain, "Mirror") /\ ~MirrorPasses(current, c)
<1>1. PICK i \in DOMAIN chain : ~Passes(chain[i], current, c)
  BY DEF Accepts
<1>2. chain[i] \in Filter
  OBVIOUS
<1>3. chain[i].test \in {"Duplicate", "Mirror"}
  BY <1>1, <1>2, StatelessPasses DEF Wanted
<1>. QED
  BY <1>1, <1>3 DEF Passes, Has

\* Without a mirror filter an equal info is not only refused but merged.
LEMMA DuplicateMerges ==
  ASSUME chain \in Seq(Filter), NEW current \in Seq(Info), NEW c \in Info,
         Wanted(c), ~DuplicatePasses(current, c),
         Has(chain, "Duplicate"), ~Has(chain, "Mirror")
  PROVE  Merges(chain, current, c)
<1>. DEFINE D == {i \in DOMAIN chain : chain[i].test = "Duplicate"}
<1>1. D \in SUBSET Nat /\ D # {}
  BY DEF Has
<1>. HIDE DEF D
<1>2. PICK k \in D : \A j \in D : k <= j
  BY <1>1, LeastNatural
<1>3. k \in DOMAIN chain /\ chain[k].test = "Duplicate"
  BY <1>2 DEF D
<1>4. ASSUME NEW j \in 1 .. k - 1 PROVE Passes(chain[j], current, c)
  <2>1. j \in DOMAIN chain /\ chain[j] \in Filter /\ chain[j].test # "Duplicate"
    BY <1>2, <1>3 DEF D
  <2>2. chain[j].test # "Mirror"
    BY <2>1 DEF Has
  <2>. QED
    BY <2>1, <2>2, StatelessPasses DEF Wanted
<1>. QED
  BY <1>3, <1>4 DEF Merges

-------------------------------------------------------------------------------
(* The inductive invariant.                                                 *)

\* A merge may only hit an info the chain wants: with it, an unwanted
\* candidate is never equal to a selected one.
SelectedWanted == \A i \in DOMAIN result : Wanted(result[i])

Selection ==
  OneOfAKind /\ FlagsAccumulate /\ MirrorsDropped /\ NothingLost /\ SelectedWanted

Silence ==
  outer # 0 /\ pc = "test" => (registered[at] = DnsSd => infos = << >>)

DiscoveryInv == TypeOK /\ Selection /\ NoEcho /\ Silence

\* Nothing selected, nothing to show: a discovery begins.
LEMMA SelectionEmpty ==
  ASSUME LocalsOK', result' = << >>, examined' = << >>
  PROVE  Selection'
BY DEF Selection, OneOfAKind, FlagsAccumulate, MirrorsDropped, NothingLost, SelectedWanted

\* Steps that select and examine nothing.
LEMMA SelectionKept ==
  ASSUME Selection, UNCHANGED <<chain, result, examined>>
  PROVE  Selection'
BY DEF Selection, OneOfAKind, FlagsAccumulate, MirrorsDropped, NothingLost, SelectedWanted,
       Wanted, FlagsSeen, SeenAs

\* What the candidate adds to the sightings of an info.
LEMMA Sighting ==
  ASSUME LocalsOK, NextCandidate, NEW c \in Info, c = Head(infos),
         NEW n \in Nat, n = Len(examined) + 1
  PROVE  /\ examined' \in Seq([from : Module, info : Info])
         /\ DOMAIN examined' = DOMAIN examined \cup {n}
         /\ \A i \in DOMAIN examined : examined'[i] = examined[i]
         /\ examined'[n].info = c
         /\ examined'[n].from = registered[at]
         /\ n \notin DOMAIN examined
         /\ UNCHANGED chain
<1>. DEFINE e == [from |-> registered[at], info |-> c]
<1>1. registered[at] \in Module
  BY DEF LocalsOK, NextCandidate, Registry!TypeOK
<1>2. e \in [from : Module, info : Info]
  BY <1>1
<1>3. examined' = Append(examined, e) /\ chain' = chain
  BY DEF NextCandidate
<1>4. e.info = c /\ e.from = registered[at]
  OBVIOUS
<1>. HIDE DEF e
<1>. QED
  BY <1>2, <1>3, <1>4 DEF LocalsOK

\* One more candidate adds its flags to those of its equals, and no others.
LEMMA FlagsSighted ==
  ASSUME LocalsOK, NextCandidate, NEW c \in Info, c = Head(infos), NEW x \in Info
  PROVE  FlagsSeen(x)' = IF Same(c, x) THEN FlagsSeen(x) \cup c.flags ELSE FlagsSeen(x)
<1>. DEFINE n == Len(examined) + 1
<1>1. n \in Nat
  BY DEF LocalsOK
<1>2. /\ DOMAIN examined' = DOMAIN examined \cup {n}
      /\ \A i \in DOMAIN examined : examined'[i] = examined[i]
      /\ examined'[n].info = c
      /\ n \notin DOMAIN examined
  BY <1>1, Sighting
<1>. HIDE DEF n
<1>3. SeenAs(x)' = IF Same(c, x) THEN SeenAs(x) \cup {n} ELSE SeenAs(x)
  BY <1>2 DEF SeenAs
<1>4. \A i \in SeenAs(x) : examined'[i].info.flags = examined[i].info.flags
  BY <1>2 DEF SeenAs
<1>. QED
  BY <1>2, <1>3, <1>4 DEF FlagsSeen

\* The next candidate is an info, and infos are left to follow it.
LEMMA CandidateIsInfo ==
  ASSUME LocalsOK, NextCandidate
  PROVE  Head(infos) \in Info /\ infos' \in Seq(Info)
BY DEF LocalsOK, NextCandidate

\* With duplicates filtered and mirrors not, an info that is wanted and not
\* among the selected ones has never been seen.
LEMMA NewIsUnseen ==
  ASSUME LocalsOK, Selection, NEW c \in Info, Wanted(c),
         DuplicatePasses(result, c), ~Has(chain, "Mirror")
  PROVE  SeenAs(c) = {}
<1>. SUFFICES ASSUME NEW i \in DOMAIN examined, Same(examined[i].info, c) PROVE FALSE
  BY DEF SeenAs
<1>1. examined[i].info \in Info
  <2>. DEFINE R == [from : Module, info : Info]
  <2>1. examined \in Seq(R)
    BY DEF LocalsOK
  <2>2. \A r \in R : r.info \in Info
    OBVIOUS
  <2>. HIDE DEF R
  <2>. QED
    BY <2>1, <2>2
<1>2. Wanted(examined[i].info)
  BY <1>1, WantedByKey DEF LocalsOK
<1>3. PICK j \in DOMAIN result : Same(result[j], examined[i].info)
  BY <1>2 DEF Selection, NothingLost
<1>. QED
  BY <1>3 DEF Same, DuplicatePasses

\* The candidate passes the chain and is appended to the result.
LEMMA SelectStep ==
  ASSUME LocalsOK, Selection, SelectCandidate
  PROVE  Selection'
<1>. DEFINE c == Head(infos)
            n == Len(examined) + 1
            k == Len(result) + 1
<1>. USE DEF SelectCandidate
<1>1. c \in Info /\ n \in Nat /\ k \in Nat /\ result \in Seq(Info) /\ chain \in Seq(Filter)
  BY CandidateIsInfo DEF LocalsOK
<1>2. /\ examined' \in Seq([from : Module, info : Info])
      /\ DOMAIN examined' = DOMAIN examined \cup {n}
      /\ \A i \in DOMAIN examined : examined'[i] = examined[i]
      /\ examined'[n].info = c
      /\ chain' = chain
  BY <1>1, Sighting
<1>3. /\ Wanted(c)
      /\ Has(chain, "Duplicate") => DuplicatePasses(result, c)
      /\ Has(chain, "Mirror") => MirrorPasses(result, c)
  BY <1>1, AcceptedIs
<1>4. result' = Append(result, c)
  OBVIOUS
<1>. HIDE DEF c, n
<1>5. /\ result' \in Seq(Info)
      /\ DOMAIN result' = DOMAIN result \cup {k}
      /\ \A i \in DOMAIN result : result'[i] = result[i]
      /\ result'[k] = c
      /\ k \notin DOMAIN result
  BY <1>1, <1>4
<1>. HIDE DEF k
<1>6. \A x : Wanted(x)' <=> Wanted(x)
  BY <1>2 DEF Wanted
<1>7. OneOfAKind'
  BY <1>2, <1>3, <1>5 DEF Selection, OneOfAKind, DuplicatePasses, Same
<1>8. FlagsAccumulate'
  <2>. SUFFICES ASSUME Resource = "GPU", Has(chain, "Duplicate"), ~Has(chain, "Mirror"),
                       NEW i \in DOMAIN result', NEW x \in Info, x = result'[i]
                PROVE  x.flags = FlagsSeen(x)'
    <3>1. \A i \in DOMAIN result' : result'[i] \in Info
      BY <1>5
    <3>2. \A i \in DOMAIN result', x \in Info :
            x = result'[i] => (FlagsSeen(x)' = FlagsSeen(result[i])')
      BY DEF FlagsSeen, SeenAs
    <3>. QED
      BY <1>2, <3>1, <3>2 DEF FlagsAccumulate, Has
  <2>1. CASE i \in DOMAIN result
    <3>1. ~Same(c, x) /\ x = result[i]
      BY <1>3, <1>5, <2>1 DEF DuplicatePasses, Same
    <3>2. FlagsSeen(x)' = FlagsSeen(x)
      BY <1>1, <3>1, FlagsSighted DEF c
    <3>. QED
      BY <2>1, <3>1, <3>2 DEF Selection, FlagsAccumulate
  <2>2. CASE i = k
    <3>1. x = c /\ SeenAs(c) = {}
      BY <1>1, <1>3, <1>5, <2>2, NewIsUnseen
    <3>2. FlagsSeen(x) = {}
      BY <3>1 DEF FlagsSeen
    <3>3. FlagsSeen(x)' = FlagsSeen(x) \cup c.flags
      BY <1>1, <3>1, FlagsSighted DEF c, Same
    <3>. QED
      BY <3>1, <3>2, <3>3
  <2>. QED
    BY <1>5, <2>1, <2>2
<1>9. MirrorsDropped'
  BY <1>2, <1>3, <1>5 DEF Selection, MirrorsDropped, MirrorPasses, Reflects
<1>10. NothingLost'
  BY <1>2, <1>5, <1>6 DEF Selection, NothingLost, Same
<1>11. SelectedWanted'
  BY <1>3, <1>5, <1>6 DEF Selection, SelectedWanted
<1>. QED
  BY <1>7, <1>8, <1>9, <1>10, <1>11 DEF Selection

\* The duplicate filter drops the candidate and merges its flags.
LEMMA MergeStep ==
  ASSUME LocalsOK, Selection, MergeCandidate
  PROVE  Selection' /\ result' \in Seq(Info)
<1>. DEFINE c == Head(infos)
            n == Len(examined) + 1
            k == FirstSame(result, c)
<1>. USE DEF MergeCandidate
<1>1. c \in Info /\ n \in Nat /\ result \in Seq(Info) /\ chain \in Seq(Filter)
  BY CandidateIsInfo DEF LocalsOK
<1>2. /\ examined' \in Seq([from : Module, info : Info])
      /\ DOMAIN examined' = DOMAIN examined \cup {n}
      /\ \A i \in DOMAIN examined : examined'[i] = examined[i]
      /\ examined'[n].info = c
      /\ chain' = chain
  BY <1>1, Sighting
<1>3. ~DuplicatePasses(result, c)
  BY DEF Merges
<1>4. k \in DOMAIN result /\ Same(result[k], c)
  BY <1>1, <1>3, FindFirst
<1>5. /\ result' \in Seq(Info)
      /\ DOMAIN result' = DOMAIN result
      /\ \A i \in DOMAIN result :
           /\ Key(result'[i]) = Key(result[i])
           /\ result'[i].id = result[i].id
           /\ result'[i].session = result[i].session
           /\ Resource = "GPU" =>
                /\ result'[i].place = result[i].place
                /\ result'[i].flags = IF i = k THEN result[i].flags \cup c.flags
                                      ELSE result[i].flags
  BY <1>1, <1>3, MergeAll
<1>. HIDE DEF c, n, k
<1>6. \A x : Wanted(x)' <=> Wanted(x)
  BY <1>2 DEF Wanted
<1>7. OneOfAKind'
  BY <1>2, <1>5 DEF Selection, OneOfAKind, Same
<1>8. FlagsAccumulate'
  <2>. SUFFICES ASSUME Resource = "GPU", Has(chain, "Duplicate"), ~Has(chain, "Mirror"),
                       NEW i \in DOMAIN result, NEW x \in Info, x = result'[i]
                PROVE  x.flags = FlagsSeen(x)'
    <3>1. \A i \in DOMAIN result' : result'[i] \in Info
      BY <1>5
    <3>2. \A i \in DOMAIN result', x \in Info :
            x = result'[i] => (FlagsSeen(x)' = FlagsSeen(result[i])')
      BY DEF FlagsSeen, SeenAs
    <3>. QED
      BY <1>2, <1>5, <3>1, <3>2 DEF FlagsAccumulate, Has
  <2>1. result[i] \in Info /\ Same(result[i], x)
    <3>1. \A j \in DOMAIN result : result[j] \in Info
      BY <1>1
    <3>. QED
      BY <1>5, <3>1 DEF Same
  <2>2. \A z \in Info :
          FlagsSeen(z)' = IF Same(c, z) THEN FlagsSeen(z) \cup c.flags ELSE FlagsSeen(z)
    BY <1>1, FlagsSighted DEF c
  <2>3. FlagsSeen(x)' = IF i = k THEN FlagsSeen(result[i]) \cup c.flags
                        ELSE FlagsSeen(result[i])
    <3>1. \A u, v \in Info : Same(u, v) => FlagsSeen(u) = FlagsSeen(v)
      BY DEF FlagsSeen, SeenAs, Same
    <3>2. FlagsSeen(x) = FlagsSeen(result[i])
      BY <2>1, <3>1
    <3>3. Same(c, x) <=> i = k
      BY <1>4, <2>1 DEF Selection, OneOfAKind, Same
    <3>. QED
      BY <2>2, <3>2, <3>3
  <2>4. result[i].flags = FlagsSeen(result[i])
    BY DEF Selection, FlagsAccumulate
  <2>. QED
    BY <1>5, <2>3, <2>4
<1>9. MirrorsDropped'
  <2>. SUFFICES ASSUME Resource = "GPU", Has(chain, "Mirror"),
                       NEW i \in DOMAIN result, NEW j \in DOMAIN result,
                       Reflects(result'[i], result'[j])
                PROVE  i = j
    BY <1>2, <1>5 DEF MirrorsDropped, Has
  <2>1. Reflects(result[i], result[j])
    BY <1>5 DEF Reflects
  <2>. QED
    BY <2>1 DEF Selection, MirrorsDropped
<1>10. NothingLost'
  <2>. DEFINE Covered(info) ==
         \E j \in DOMAIN result :
           \/ Same(result'[j], info)
           \/ Resource = "GPU" /\ Has(chain, "Mirror") /\ Reflects(result'[j], info)
  <2>1. ASSUME NEW i \in DOMAIN examined, Wanted(examined[i].info)
        PROVE  Covered(examined[i].info)
    <3>1. PICK j \in DOMAIN result :
            \/ Same(result[j], examined[i].info)
            \/ /\ Resource = "GPU" /\ Has(chain, "Mirror")
               /\ Reflects(result[j], examined[i].info)
      BY <2>1 DEF Selection, NothingLost
    <3>2. CASE Same(result[j], examined[i].info)
      BY <1>5, <3>2 DEF Same
    <3>3. CASE /\ Resource = "GPU" /\ Has(chain, "Mirror")
               /\ Reflects(result[j], examined[i].info)
      BY <1>5, <3>3 DEF Reflects
    <3>. QED
      BY <3>1, <3>2, <3>3
  <2>2. Covered(c)
    BY <1>4, <1>5 DEF Same
  <2>. HIDE DEF Covered
  <2>3. \A i \in DOMAIN examined' :
          Wanted(examined'[i].info) => Covered(examined'[i].info)
    BY <1>2, <2>1, <2>2
  <2>. QED
    BY <1>2, <1>5, <1>6, <2>3 DEF NothingLost, Covered, Has
<1>11. SelectedWanted'
  <2>1. \A i \in DOMAIN result : result'[i] \in Info /\ result[i] \in Info
    BY <1>1, <1>5
  <2>. QED
    BY <1>1, <1>5, <1>6, <2>1, WantedByKey DEF Selection, SelectedWanted, Same
<1>. QED
  BY <1>5, <1>7, <1>8, <1>9, <1>10, <1>11 DEF Selection

\* Another filter drops the candidate.
LEMMA DropStep ==
  ASSUME LocalsOK, Selection, DropCandidate
  PROVE  Selection'
<1>. DEFINE c == Head(infos)
            n == Len(examined) + 1
<1>. USE DEF DropCandidate
<1>1. c \in Info /\ n \in Nat /\ result \in Seq(Info) /\ chain \in Seq(Filter)
  BY CandidateIsInfo DEF LocalsOK
<1>2. /\ examined' \in Seq([from : Module, info : Info])
      /\ DOMAIN examined' = DOMAIN examined \cup {n}
      /\ \A i \in DOMAIN examined : examined'[i] = examined[i]
      /\ examined'[n].info = c
      /\ chain' = chain /\ result' = result
  BY <1>1, Sighting
<1>3. ~Accepts(chain, result, c) /\ ~Merges(chain, result, c)
  OBVIOUS
<1>4. Wanted(c) => \/ ~DuplicatePasses(result, c)
                   \/ Has(chain, "Mirror") /\ ~MirrorPasses(result, c)
  BY <1>1, <1>3, RefusedIs
<1>. HIDE DEF c, n
<1>6. \A x : Wanted(x)' <=> Wanted(x)
  BY <1>2 DEF Wanted
<1>7. OneOfAKind' /\ MirrorsDropped' /\ SelectedWanted'
  BY <1>2, <1>6 DEF Selection, OneOfAKind, MirrorsDropped, SelectedWanted
<1>8. FlagsAccumulate'
  <2>. SUFFICES ASSUME Resource = "GPU", Has(chain, "Duplicate"), ~Has(chain, "Mirror"),
                       NEW i \in DOMAIN result
                PROVE  result[i].flags = FlagsSeen(result[i])'
    BY <1>2 DEF FlagsAccumulate
  <2>1. PICK x \in Info : x = result[i]
    BY <1>1
  <2>2. ~Same(c, x)
    <3>. SUFFICES ASSUME Same(c, x) PROVE FALSE
      OBVIOUS
    <3>1. Wanted(x)
      BY <2>1 DEF Selection, SelectedWanted
    <3>2. Wanted(c)
      BY <1>1, <3>1, WantedByKey
    <3>3. ~DuplicatePasses(result, c)
      BY <2>1 DEF DuplicatePasses, Same
    <3>. QED
      BY <1>1, <1>3, <3>2, <3>3, DuplicateMerges
  <2>3. FlagsSeen(x)' = FlagsSeen(x)
    BY <1>1, <2>2, FlagsSighted DEF c
  <2>4. FlagsSeen(x)' = FlagsSeen(result[i])'
    BY <1>2, <2>1 DEF FlagsSeen, SeenAs
  <2>. QED
    BY <2>1, <2>3, <2>4 DEF Selection, FlagsAccumulate
<1>9. NothingLost'
  BY <1>2, <1>4, <1>6
  DEF Selection, NothingLost, DuplicatePasses, MirrorPasses
<1>. QED
  BY <1>7, <1>8, <1>9 DEF Selection

-------------------------------------------------------------------------------
(* Every step preserves the invariant.                                      *)

\* Taking a module out of the stack leaves a sequence of modules.
LEMMA RemoveAtIsSequence ==
  ASSUME NEW s \in Seq(Module), NEW i \in DOMAIN s
  PROVE  Registry!RemoveAt(s, i) \in Seq(Module)
<1>1. SubSeq(s, 1, i - 1) \in Seq(Module) /\ SubSeq(s, i + 1, Len(s)) \in Seq(Module)
  OBVIOUS
<1>. QED
  BY <1>1, ConcatProperties DEF Registry!RemoveAt

\* The application uses or disposes of a module between two calls.
LEMMA ChangeStackStep ==
  ASSUME LocalsOK, ChangeStack
  PROVE  LocalsOK'
<1>1. Registry!TypeOK'
  <2>1. ASSUME NEW m \in Module, Registry!Register(m) PROVE Registry!TypeOK'
    BY <2>1 DEF LocalsOK, Registry!Register, Registry!TypeOK
  <2>2. ASSUME NEW m \in Module, Registry!Unregister(m) PROVE Registry!TypeOK'
    BY <2>2, RemoveAtIsSequence DEF LocalsOK, Registry!Unregister, Registry!TypeOK
  <2>. QED
    BY <2>1, <2>2 DEF ChangeStack, Registry!Next
<1>. QED
  BY <1>1 DEF LocalsOK, ChangeStack, loopVars, discoverVars

\* Examining a candidate appends an info to the history.
LEMMA ExaminedStep ==
  ASSUME LocalsOK, NextCandidate
  PROVE  examined' \in Seq([from : Module, info : Info])
<1>. DEFINE n == Len(examined) + 1
<1>1. n \in Nat
  BY DEF LocalsOK
<1>. HIDE DEF n
<1>2. PICK c \in Info : c = Head(infos)
  BY CandidateIsInfo
<1>. QED
  BY <1>1, <1>2, Sighting DEF n

\* Every step keeps the types.
LEMMA LocalsStep ==
  ASSUME LocalsOK, Selection, Next
  PROVE  LocalsOK'
<1>. USE DEF stackVars, loopVars, discoverVars, publishVars, Registry!TypeOK
<1>1. CASE ChangeStack
  BY <1>1, ChangeStackStep
<1>2. ASSUME NEW c \in Chains, CallDiscover(c) PROVE LocalsOK'
  BY <1>2, ChainsAssumption DEF LocalsOK, CallDiscover, StartDiscovery, StartOfStack
<1>3. ASSUME NEW s \in Sessions, CallAnnounce(s) PROVE LocalsOK'
  BY <1>3 DEF LocalsOK, CallAnnounce
<1>4. CASE QueryModule
  <2>1. registered[at] \in Module /\ at \in DOMAIN registered
    BY <1>4 DEF LocalsOK, QueryModule
  <2>2. Answered(registered[at]) \subseteq Seq(Info)
    <3>1. \A m \in Module : Findings[m] \subseteq Seq(Info)
      BY FindingsAssumption
    <3>2. {<< >>} \subseteq Seq(Info)
      BY EmptySeq
    <3>3. Answered(registered[at]) \in {{<< >>}, Findings[registered[at]]}
      BY DEF Answered
    <3>. QED
      BY <2>1, <3>1, <3>2, <3>3
  <2>. QED
    BY <1>4, <2>1, <2>2 DEF LocalsOK, QueryModule
<1>5. CASE NextCandidate /\ result' \in Seq(Info)
  BY <1>5, CandidateIsInfo, ExaminedStep DEF LocalsOK, NextCandidate
<1>6. CASE SelectCandidate
  BY <1>5, <1>6, CandidateIsInfo DEF SelectCandidate, LocalsOK
<1>7. CASE MergeCandidate
  BY <1>5, <1>7, MergeStep DEF MergeCandidate
<1>8. CASE DropCandidate
  BY <1>5, <1>8 DEF DropCandidate, LocalsOK
<1>9. CASE NextModule
  BY <1>9 DEF LocalsOK, NextModule, ModuleBehind
<1>10. CASE ReturnInfos
  BY <1>10 DEF LocalsOK, ReturnInfos, EndDiscovery, Discovered
<1>11. CASE PrintModule
  BY <1>11 DEF LocalsOK, PrintModule
<1>12. CASE DiscoverToAnnounce
  <2>1. <<Duplicate>> \in Seq(Filter)
    BY DEF Duplicate, Filter
  <2>. QED
    BY <1>12, <2>1 DEF LocalsOK, DiscoverToAnnounce, StartDiscovery, StartOfStack
<1>13. CASE StopAnnouncing
  BY <1>13 DEF LocalsOK, StopAnnouncing, Discovered
<1>14. CASE PublishNothing
  BY <1>14 DEF LocalsOK, PublishNothing, EndDiscovery
<1>15. CASE PublishSucceeds
  BY <1>15 DEF LocalsOK, PublishSucceeds, Publish, EndDiscovery
<1>16. CASE PublishFails
  BY <1>16 DEF LocalsOK, PublishFails, Publish, EndDiscovery, ReturnBool
<1>17. CASE ReturnTrue
  BY <1>17 DEF LocalsOK, ReturnTrue, ReturnBool
<1>. QED
  BY <1>1, <1>2, <1>3, <1>4, <1>6, <1>7, <1>8, <1>9, <1>10, <1>11, <1>12, <1>13,
     <1>14, <1>15, <1>16, <1>17
  DEF Next, Call, Step

\* Every step keeps what the filters promise.
LEMMA SelectionStep ==
  ASSUME LocalsOK, Selection, Next
  PROVE  Selection'
<1>. USE DEF discoverVars
<1>1. LocalsOK'
  BY LocalsStep
<1>2. CASE UNCHANGED <<chain, result, examined>>
  BY <1>2, SelectionKept
<1>3. CASE result' = << >> /\ examined' = << >>
  BY <1>1, <1>3, SelectionEmpty
<1>4. CASE SelectCandidate \/ MergeCandidate \/ DropCandidate
  BY <1>4, SelectStep, MergeStep, DropStep
<1>5. ASSUME NEW c \in Chains, CallDiscover(c) PROVE Selection'
  BY <1>3, <1>5 DEF CallDiscover, StartDiscovery
<1>6. ASSUME NEW s \in Sessions, CallAnnounce(s) PROVE Selection'
  BY <1>2, <1>6 DEF CallAnnounce
<1>7. CASE ChangeStack \/ QueryModule \/ NextModule \/ PrintModule \/ StopAnnouncing
             \/ ReturnTrue
  BY <1>2, <1>7
  DEF ChangeStack, QueryModule, NextModule, PrintModule, StopAnnouncing, ReturnTrue
<1>8. CASE ReturnInfos \/ DiscoverToAnnounce \/ PublishNothing \/ PublishSucceeds
             \/ PublishFails
  BY <1>3, <1>8
  DEF ReturnInfos, DiscoverToAnnounce, PublishNothing, PublishSucceeds, PublishFails,
      Publish, EndDiscovery, StartDiscovery
<1>. QED
  BY <1>4, <1>5, <1>6, <1>7, <1>8 DEF Next, Call, Step

\* Every step keeps an announcement from examining what the network said.
LEMMA SilenceStep ==
  ASSUME LocalsOK, LocalsOK', SilentToAnnounce, NoEcho, Silence, Next
  PROVE  SilentToAnnounce' /\ NoEcho' /\ Silence'
<1>. USE DEF stackVars, loopVars, discoverVars, publishVars, SilentToAnnounce
<1>0. ASSUME examined' = << >>, outer' = 0 \/ pc' # "test"
      PROVE  NoEcho' /\ Silence'
  BY <1>0 DEF NoEcho, Silence
<1>1. CASE ChangeStack
  BY <1>1 DEF ChangeStack, NoEcho, Silence
<1>2. ASSUME NEW c \in Chains, CallDiscover(c)
      PROVE  SilentToAnnounce' /\ NoEcho' /\ Silence'
  BY <1>2 DEF LocalsOK, CallDiscover, StartDiscovery, NoEcho, Silence
<1>3. ASSUME NEW s \in Sessions, CallAnnounce(s)
      PROVE  SilentToAnnounce' /\ NoEcho' /\ Silence'
  BY <1>3 DEF LocalsOK, CallAnnounce, NoEcho, Silence
<1>4. CASE QueryModule
  <2>1. SilentToAnnounce' /\ NoEcho'
    BY <1>4 DEF QueryModule, NoEcho
  <2>2. outer # 0 /\ registered[at] = DnsSd => infos' = << >>
    BY <1>4 DEF QueryModule, Answered
  <2>. QED
    BY <1>4, <2>1, <2>2 DEF QueryModule, Silence
<1>5. CASE NextCandidate
  <2>1. SilentToAnnounce'
    BY <1>5 DEF NextCandidate
  <2>2. Silence'
    BY <1>5 DEF NextCandidate, Silence
  <2>3. NoEcho'
    <3>. SUFFICES ASSUME outer # 0, NEW i \in DOMAIN examined' PROVE examined'[i].from # DnsSd
      BY <1>5 DEF NoEcho, NextCandidate
    <3>. DEFINE n == Len(examined) + 1
    <3>1. n \in Nat
      BY DEF LocalsOK
    <3>. HIDE DEF n
    <3>2. PICK c \in Info : c = Head(infos)
      BY <1>5, CandidateIsInfo
    <3>3. /\ DOMAIN examined' = DOMAIN examined \cup {n}
          /\ \A j \in DOMAIN examined : examined'[j] = examined[j]
          /\ examined'[n].from = registered[at]
      BY <1>5, <3>1, <3>2, Sighting DEF n
    <3>4. registered[at] # DnsSd
      BY <1>5 DEF NextCandidate, Silence
    <3>. QED
      BY <3>3, <3>4 DEF NoEcho
  <2>. QED
    BY <2>1, <2>2, <2>3
<1>6. CASE SelectCandidate \/ MergeCandidate \/ DropCandidate
  BY <1>5, <1>6 DEF SelectCandidate, MergeCandidate, DropCandidate
<1>7. CASE NextModule
  BY <1>7 DEF NextModule, NoEcho, Silence
<1>8. CASE ReturnInfos
  BY <1>0, <1>8 DEF ReturnInfos, EndDiscovery
<1>9. CASE PrintModule
  BY <1>9 DEF PrintModule, LocalsOK, NoEcho, Silence
<1>10. CASE DiscoverToAnnounce
  BY <1>0, <1>10 DEF DiscoverToAnnounce, StartDiscovery, LocalsOK
<1>11. CASE StopAnnouncing
  BY <1>11 DEF StopAnnouncing, Reset, NoEcho, Silence
<1>12. CASE PublishNothing
  BY <1>0, <1>12 DEF PublishNothing, EndDiscovery
<1>13. CASE PublishSucceeds
  BY <1>0, <1>13 DEF PublishSucceeds, Publish, EndDiscovery
<1>14. CASE PublishFails
  BY <1>0, <1>14 DEF PublishFails, Publish, EndDiscovery, ReturnBool
<1>15. CASE ReturnTrue
  BY <1>15 DEF ReturnTrue, ReturnBool, NoEcho, Silence
<1>. QED
  BY <1>1, <1>2, <1>3, <1>4, <1>6, <1>7, <1>8, <1>9, <1>10, <1>11, <1>12, <1>13, <1>14, <1>15
  DEF Next, Call, Step

\* The invariant holds initially ...
LEMMA InvInit == Init => DiscoveryInv
<1>. SUFFICES ASSUME Init PROVE DiscoveryInv
  OBVIOUS
<1>1. LocalsOK
  BY EmptySeq DEF Init, LocalsOK, Registry!Init, Registry!TypeOK
<1>2. Selection
  BY DEF Init, Selection, OneOfAKind, FlagsAccumulate, MirrorsDropped, NothingLost,
         SelectedWanted
<1>3. SilentToAnnounce /\ NoEcho /\ Silence /\ returned \in BOOLEAN
  BY DEF Init, SilentToAnnounce, NoEcho, Silence
<1>. QED
  BY <1>1, <1>2, <1>3 DEF DiscoveryInv, TypeOK

\* ... and every step keeps it.
LEMMA InvStep == DiscoveryInv /\ [Next]_vars => DiscoveryInv'
<1>. SUFFICES ASSUME DiscoveryInv, [Next]_vars PROVE DiscoveryInv'
  OBVIOUS
<1>1. ASSUME Next, returned' \in BOOLEAN PROVE DiscoveryInv'
  BY <1>1, LocalsStep, SelectionStep, SilenceStep DEF DiscoveryInv, TypeOK
<1>2. ASSUME Next PROVE returned' \in BOOLEAN
  BY <1>2
  DEF DiscoveryInv, TypeOK, Next, Call, Step, ChangeStack, CallDiscover, CallAnnounce,
      QueryModule, NextCandidate, SelectCandidate, MergeCandidate, DropCandidate, NextModule,
      ReturnInfos, PrintModule, DiscoverToAnnounce, StopAnnouncing, PublishNothing,
      PublishSucceeds, PublishFails, Publish, ReturnBool, ReturnTrue, publishVars
<1>3. CASE UNCHANGED vars
  <2>1. LocalsOK' /\ SilentToAnnounce' /\ returned' \in BOOLEAN /\ NoEcho' /\ Silence'
    BY <1>3
    DEF vars, DiscoveryInv, TypeOK, LocalsOK, SilentToAnnounce, NoEcho, Silence,
        Registry!TypeOK
  <2>2. Selection'
    BY <1>3, SelectionKept DEF vars, DiscoveryInv
  <2>. QED
    BY <2>1, <2>2 DEF DiscoveryInv, TypeOK
<1>. QED
  BY <1>1, <1>2, <1>3

\* Hence it holds in every state that discoveries and announcements reach.
THEOREM Invariance == Spec => []DiscoveryInv
BY InvInit, InvStep, PTL DEF Spec

(* Types, and that the dns_sd module's flag is set exactly during its own    *)
(* discovery (gpu/dns_sd/module.cpp:93-95, net/dns_sd/module.cpp:93-95).    *)
THEOREM TypesAreRight == Spec => []TypeOK
BY Invariance, PTL DEF DiscoveryInv

(* A duplicate filter anywhere in a chain leaves one info of a kind          *)
(* (filter.cpp:93-113).                                                    *)
THEOREM DuplicatesAreFiltered == Spec => []OneOfAKind
BY Invariance, PTL DEF DiscoveryInv, Selection

(* No flag of a dropped sighting is lost (filter.cpp:100-103).              *)
THEOREM FlagsAreMerged == Spec => []FlagsAccumulate
BY Invariance, PTL DEF DiscoveryInv, Selection

(* No two selected GPUs are mirrors of each other (filter.cpp:117-131).     *)
THEOREM MirrorsAreFiltered == Spec => []MirrorsDropped
BY Invariance, PTL DEF DiscoveryInv, Selection

(* Filters drop only what they are there to drop (functions.cpp:35-49,      *)
(* filter.cpp:57-287).                                                     *)
THEOREM WantedIsRepresented == Spec => []NothingLost
BY Invariance, PTL DEF DiscoveryInv, Selection

(* An announcement contains nothing heard from the network                  *)
(* (gpu/dns_sd/module.cpp:93-95, 136-137).                                 *)
THEOREM NetworkIsNotEchoed == Spec => []NoEcho
BY Invariance, PTL DEF DiscoveryInv

-------------------------------------------------------------------------------
(* The order of the selected infos.                                         *)

\* The position of a member of a set of naturals.
Rank(D, i) == Cardinality({j \in D : j <= i})

LEMMA RankIsPosition ==
  ASSUME NEW D \in SUBSET Nat, IsFiniteSet(D), NEW i \in D
  PROVE  Rank(D, i) \in 1 .. Cardinality(D)
<1>. DEFINE upto == {j \in D : j <= i}
<1>1. IsFiniteSet(upto) /\ Cardinality(upto) <= Cardinality(D)
  BY FS_Subset
<1>2. Cardinality(upto) \in Nat /\ Cardinality(D) \in Nat
  BY <1>1, FS_CardinalityType
<1>3. Cardinality(upto) # 0
  <2>1. i \in upto
    OBVIOUS
  <2>. HIDE DEF upto
  <2>. QED
    BY <1>1, <2>1, FS_EmptySet
<1>. QED
  BY <1>1, <1>2, <1>3 DEF Rank

\* One more member behind all others has the last position.
LEMMA RankOfLast ==
  ASSUME NEW D \in SUBSET Nat, IsFiniteSet(D), NEW n \in Nat, \A i \in D : i < n
  PROVE  /\ Cardinality(D \cup {n}) = Cardinality(D) + 1
         /\ Rank(D \cup {n}, n) = Cardinality(D) + 1
         /\ \A i \in D : Rank(D \cup {n}, i) = Rank(D, i)
<1>1. n \notin D
  OBVIOUS
<1>2. Cardinality(D \cup {n}) = Cardinality(D) + 1
  BY <1>1, FS_AddElement
<1>3. {j \in D \cup {n} : j <= n} = D \cup {n}
  <2>1. \A j \in D \cup {n} : j <= n
    OBVIOUS
  <2>. QED
    BY <2>1
<1>4. \A i \in D : {j \in D \cup {n} : j <= i} = {j \in D : j <= i}
  OBVIOUS
<1>. QED
  BY <1>2, <1>3, <1>4 DEF Rank

\* What is selected has been seen.
SelectedSeen ==
  \A k \in DOMAIN result : \E i \in DOMAIN examined : Same(examined[i].info, result[k])

Order == FirstsInOrder /\ SelectedSeen

\* The first of its kind, or all if duplicates are not filtered.
IsNew(c) ==
  /\ Wanted(c)
  /\ Has(chain, "Duplicate") => \A i \in DOMAIN examined : ~Same(examined[i].info, c)

\* The sightings to keep are numbered.
LEMMA FirstsFinite ==
  ASSUME LocalsOK
  PROVE  /\ Firsts \in SUBSET Nat /\ IsFiniteSet(Firsts)
         /\ \A i \in Firsts : i < Len(examined) + 1
         /\ Len(examined) \in Nat /\ DOMAIN examined = 1 .. Len(examined)
<1>1. Len(examined) \in Nat /\ DOMAIN examined = 1 .. Len(examined)
  BY DEF LocalsOK
<1>2. Firsts \in SUBSET (1 .. Len(examined))
  BY <1>1 DEF Firsts
<1>3. IsFiniteSet(1 .. Len(examined))
  BY <1>1, FS_Interval
<1>4. IsFiniteSet(Firsts)
  BY <1>2, <1>3, FS_Subset
<1>. QED
  BY <1>1, <1>2, <1>4

\* The next candidate is one of them if it is new.
LEMMA FirstsStep ==
  ASSUME LocalsOK, NextCandidate
  PROVE  Firsts' = IF IsNew(Head(infos)) THEN Firsts \cup {Len(examined) + 1} ELSE Firsts
<1>. DEFINE c == Head(infos)
            n == Len(examined) + 1
<1>1. c \in Info /\ n \in Nat
  BY CandidateIsInfo, FirstsFinite
<1>2. /\ DOMAIN examined' = DOMAIN examined \cup {n}
      /\ \A i \in DOMAIN examined : examined'[i] = examined[i]
      /\ examined'[n].info = c
      /\ n \notin DOMAIN examined
      /\ chain' = chain
  BY <1>1, Sighting
<1>3. 1 .. n - 1 = DOMAIN examined /\ \A i \in DOMAIN examined : 1 .. i - 1 \subseteq DOMAIN examined
  BY FirstsFinite
<1>. HIDE DEF c, n
<1>4. \A x : Wanted(x)' <=> Wanted(x)
  BY <1>2 DEF Wanted
<1>5. \A i \in DOMAIN examined : i \in Firsts' <=> i \in Firsts
  BY <1>2, <1>3, <1>4 DEF Firsts
<1>6. n \in Firsts' <=> IsNew(c)
  BY <1>2, <1>3, <1>4 DEF Firsts, IsNew
<1>7. Firsts' \subseteq DOMAIN examined \cup {n} /\ Firsts \subseteq DOMAIN examined
  BY <1>2 DEF Firsts
<1>8. Firsts' = IF IsNew(c) THEN Firsts \cup {n} ELSE Firsts
  BY <1>5, <1>6, <1>7
<1>. QED
  BY <1>8 DEF c, n

\* Where they are in the result.
LEMMA FirstsAt ==
  ASSUME LocalsOK, FirstsInOrder, ~Has(chain, "Mirror"), NEW i \in Firsts
  PROVE  /\ Rank(Firsts, i) \in DOMAIN result
         /\ i \in DOMAIN examined
         /\ Same(result[Rank(Firsts, i)], examined[i].info)
         /\ result[Rank(Firsts, i)].id = examined[i].info.id
<1>1. Rank(Firsts, i) \in 1 .. Cardinality(Firsts)
  BY FirstsFinite, RankIsPosition
<1>2. i \in DOMAIN examined
  BY DEF Firsts
<1>3. DOMAIN result = 1 .. Len(result)
  BY DEF LocalsOK
<1>. QED
  BY <1>1, <1>2, <1>3 DEF FirstsInOrder, InOrder, Rank

\* A new info is appended ...
LEMMA OrderSelected ==
  ASSUME LocalsOK, Selection, Order, SelectCandidate
  PROVE  Order'
<1>. DEFINE c == Head(infos)
            n == Len(examined) + 1
            k == Len(result) + 1
<1>. USE DEF SelectCandidate
<1>1. c \in Info /\ n \in Nat /\ k \in Nat /\ result \in Seq(Info) /\ chain \in Seq(Filter)
  BY CandidateIsInfo, FirstsFinite DEF LocalsOK
<1>2. /\ DOMAIN examined' = DOMAIN examined \cup {n}
      /\ \A i \in DOMAIN examined : examined'[i] = examined[i]
      /\ examined'[n].info = c
      /\ chain' = chain
  BY <1>1, Sighting
<1>3. /\ Wanted(c)
      /\ Has(chain, "Duplicate") => DuplicatePasses(result, c)
  BY <1>1, AcceptedIs
<1>4. /\ Len(result') = k
      /\ DOMAIN result' = DOMAIN result \cup {k}
      /\ DOMAIN result = 1 .. Len(result)
      /\ \A i \in DOMAIN result : result'[i] = result[i]
      /\ result'[k] = c
  <2>1. result' = Append(result, c)
    OBVIOUS
  <2>. HIDE DEF c
  <2>. QED
    BY <1>1, <2>1
<1>5. SelectedSeen'
  <2>. HIDE DEF c, n, k
  <2>. QED
    BY <1>2, <1>4 DEF Order, SelectedSeen, Same
<1>6. FirstsInOrder'
  <2>. SUFFICES ASSUME ~Has(chain, "Mirror") PROVE FirstsInOrder'
    BY <1>2 DEF FirstsInOrder, InOrder
  <2>1. IsNew(c)
    BY <1>1, <1>3, NewIsUnseen DEF IsNew, SeenAs
  <2>2. Firsts' = Firsts \cup {n}
    BY <2>1, FirstsStep
  <2>3. Len(result) = Cardinality(Firsts)
    BY DEF Order, FirstsInOrder, InOrder
  <2>4. /\ Cardinality(Firsts') = k /\ Rank(Firsts', n) = k
        /\ \A i \in Firsts : Rank(Firsts', i) = Rank(Firsts, i)
    BY <1>1, <2>2, <2>3, FirstsFinite, RankOfLast
  <2>5. ASSUME NEW i \in Firsts
        PROVE  /\ Rank(Firsts, i) \in DOMAIN result
               /\ i \in DOMAIN examined
               /\ Same(result[Rank(Firsts, i)], examined[i].info)
               /\ result[Rank(Firsts, i)].id = examined[i].info.id
    BY FirstsAt DEF Order
  <2>. HIDE DEF c, n, k
  <2>6. ASSUME NEW i \in Firsts'
        PROVE  /\ Same(result'[Rank(Firsts', i)], examined'[i].info)
               /\ result'[Rank(Firsts', i)].id = examined'[i].info.id
    <3>1. CASE i \in Firsts
      BY <1>2, <1>4, <2>4, <2>5, <3>1
    <3>2. CASE i = n
      BY <1>2, <1>4, <2>4, <3>2 DEF Same
    <3>. QED
      BY <2>2, <3>1, <3>2
  <2>. QED
    BY <1>4, <2>4, <2>6 DEF FirstsInOrder, InOrder, Rank
<1>. QED
  BY <1>5, <1>6 DEF Order

\* ... and one that is not new changes neither how many are selected nor their order.
LEMMA OrderKept ==
  ASSUME LocalsOK, Order, NextCandidate, ~Has(chain, "Mirror") => ~IsNew(Head(infos)),
         Len(result') = Len(result), DOMAIN result' = DOMAIN result,
         \A i \in DOMAIN result : Same(result'[i], result[i]) /\ result'[i].id = result[i].id
  PROVE  Order'
<1>. DEFINE c == Head(infos)
            n == Len(examined) + 1
<1>1. c \in Info /\ n \in Nat /\ result \in Seq(Info)
  BY CandidateIsInfo, FirstsFinite DEF LocalsOK
<1>2. /\ DOMAIN examined' = DOMAIN examined \cup {n}
      /\ \A i \in DOMAIN examined : examined'[i] = examined[i]
      /\ chain' = chain
  BY <1>1, Sighting
<1>3. SelectedSeen'
  <2>. HIDE DEF n
  <2>1. ASSUME NEW k \in DOMAIN result
        PROVE  \E i \in DOMAIN examined' : Same(examined'[i].info, result'[k])
    <3>1. PICK i \in DOMAIN examined : Same(examined[i].info, result[k])
      BY DEF Order, SelectedSeen
    <3>2. Same(result'[k], result[k])
      OBVIOUS
    <3>. QED
      BY <1>2, <3>1, <3>2 DEF Same
  <2>. QED
    BY <2>1 DEF SelectedSeen
<1>4. FirstsInOrder'
  <2>. SUFFICES ASSUME ~Has(chain, "Mirror") PROVE FirstsInOrder'
    BY <1>2 DEF FirstsInOrder, InOrder
  <2>1. Firsts' = Firsts
    BY FirstsStep
  <2>2. Len(result) = Cardinality(Firsts)
    BY DEF Order, FirstsInOrder, InOrder
  <2>3. ASSUME NEW i \in Firsts
        PROVE  /\ Rank(Firsts, i) \in DOMAIN result
               /\ i \in DOMAIN examined
               /\ Same(result[Rank(Firsts, i)], examined[i].info)
               /\ result[Rank(Firsts, i)].id = examined[i].info.id
    BY FirstsAt DEF Order
  <2>4. ASSUME NEW i \in Firsts
        PROVE  Same(result[Rank(Firsts, i)], examined[i].info)
                 => Same(result'[Rank(Firsts, i)], examined[i].info)
    BY <2>3 DEF Same
  <2>5. \A i \in Firsts' :
          /\ Same(result'[Rank(Firsts', i)], examined'[i].info)
          /\ result'[Rank(Firsts', i)].id = examined'[i].info.id
    BY <1>2, <2>1, <2>3, <2>4
  <2>. QED
    BY <2>1, <2>2, <2>5 DEF FirstsInOrder, InOrder, Rank
<1>. QED
  BY <1>3, <1>4 DEF Order

\* A merged candidate is equal to one that was seen.
LEMMA OrderMerged ==
  ASSUME LocalsOK, Order, MergeCandidate
  PROVE  Order'
<1>. DEFINE c == Head(infos)
<1>. USE DEF MergeCandidate
<1>1. c \in Info /\ result \in Seq(Info)
  BY CandidateIsInfo DEF LocalsOK
<1>2. ~DuplicatePasses(result, c) /\ Has(chain, "Duplicate")
  BY DEF Merges, Has
<1>3. /\ Len(result') = Len(result) /\ DOMAIN result' = DOMAIN result
      /\ \A i \in DOMAIN result :
           Key(result'[i]) = Key(result[i]) /\ result'[i].id = result[i].id
  BY <1>1, <1>2, MergeAll
<1>4. ~IsNew(c)
  <2>1. PICK k \in DOMAIN result : Same(result[k], c)
    BY <1>2 DEF DuplicatePasses
  <2>2. PICK i \in DOMAIN examined : Same(examined[i].info, result[k])
    BY DEF Order, SelectedSeen
  <2>. QED
    BY <1>2, <2>1, <2>2 DEF IsNew, Same
<1>. QED
  BY <1>3, <1>4, OrderKept DEF Same

\* A candidate that is dropped is not wanted, or else equal to one that was seen.
LEMMA OrderDropped ==
  ASSUME LocalsOK, Order, DropCandidate
  PROVE  Order'
<1>. DEFINE c == Head(infos)
<1>. USE DEF DropCandidate
<1>1. c \in Info /\ result \in Seq(Info) /\ chain \in Seq(Filter)
  BY CandidateIsInfo DEF LocalsOK
<1>2. ASSUME ~Has(chain, "Mirror"), IsNew(c) PROVE FALSE
  <2>1. Has(chain, "Duplicate") /\ ~DuplicatePasses(result, c)
    BY <1>1, <1>2, RefusedIs DEF IsNew
  <2>2. PICK k \in DOMAIN result : Same(result[k], c)
    BY <2>1 DEF DuplicatePasses
  <2>3. PICK i \in DOMAIN examined : Same(examined[i].info, result[k])
    BY DEF Order, SelectedSeen
  <2>. QED
    BY <1>2, <2>1, <2>2, <2>3 DEF IsNew, Same
<1>. QED
  BY <1>2, OrderKept DEF Same

\* A discovery begins without sightings, and without a selection.
LEMMA OrderEmpty ==
  ASSUME result = << >>, examined = << >>
  PROVE  Order
<1>1. Firsts = {}
  BY DEF Firsts
<1>. QED
  BY <1>1, FS_EmptySet DEF Order, FirstsInOrder, InOrder, SelectedSeen

\* Every step keeps the order.
LEMMA OrderStep ==
  ASSUME DiscoveryInv, Order, [Next]_vars
  PROVE  Order'
<1>. USE DEF discoverVars
<1>1. CASE UNCHANGED <<chain, result, examined>>
  BY <1>1 DEF Order, FirstsInOrder, InOrder, SelectedSeen, Firsts, Wanted
<1>2. CASE result' = << >> /\ examined' = << >>
  <2>1. Firsts' = {}
    BY <1>2 DEF Firsts
  <2>. QED
    BY <1>2, <2>1, FS_EmptySet DEF Order, FirstsInOrder, InOrder, SelectedSeen
<1>3. CASE SelectCandidate \/ MergeCandidate \/ DropCandidate
  BY <1>3, OrderSelected, OrderMerged, OrderDropped DEF DiscoveryInv, TypeOK
<1>4. ASSUME NEW c \in Chains, CallDiscover(c) PROVE Order'
  BY <1>2, <1>4 DEF CallDiscover, StartDiscovery
<1>5. ASSUME NEW s \in Sessions, CallAnnounce(s) PROVE Order'
  BY <1>1, <1>5 DEF CallAnnounce
<1>6. CASE ChangeStack \/ QueryModule \/ NextModule \/ PrintModule \/ StopAnnouncing
             \/ ReturnTrue \/ UNCHANGED vars
  BY <1>1, <1>6
  DEF ChangeStack, QueryModule, NextModule, PrintModule, StopAnnouncing, ReturnTrue, vars
<1>7. CASE ReturnInfos \/ DiscoverToAnnounce \/ PublishNothing \/ PublishSucceeds
             \/ PublishFails
  BY <1>2, <1>7
  DEF ReturnInfos, DiscoverToAnnounce, PublishNothing, PublishSucceeds, PublishFails,
      Publish, EndDiscovery, StartDiscovery
<1>. QED
  BY <1>3, <1>4, <1>5, <1>6, <1>7 DEF Next, Call, Step

(* The selected infos are the first wanted sightings, each once, in the order *)
(* the modules found them and with the node ID of the first                  *)
(* (functions.cpp:35-49, filter.cpp:93-113).                                *)
THEOREM FirstsAreKept == Spec => []FirstsInOrder
<1>1. Init => Order
  BY OrderEmpty DEF Init
<1>2. DiscoveryInv /\ Order /\ [Next]_vars => Order'
  BY OrderStep
<1>. QED
  BY <1>1, <1>2, Invariance, PTL DEF Spec, Order

-------------------------------------------------------------------------------
(* What an announcement hands over.                                         *)

\* The chain of every announcement.
AnnounceChain == outer # 0 /\ pc \in {"query", "test", "publish"} => chain = <<Duplicate>>

\* Every step keeps it.
LEMMA AnnounceChainStep ==
  ASSUME LocalsOK, AnnounceChain, [Next]_vars
  PROVE  AnnounceChain'
<1>. USE DEF AnnounceChain, stackVars, loopVars, discoverVars, publishVars
<1>1. CASE ChangeStack \/ ReturnInfos \/ PrintModule \/ PublishNothing \/ PublishSucceeds
             \/ PublishFails \/ ReturnTrue
  BY <1>1 DEF ChangeStack, ReturnInfos, PrintModule, PublishNothing, PublishSucceeds,
              PublishFails, Publish, ReturnBool, ReturnTrue, LocalsOK
<1>2. CASE (\E c \in Chains : CallDiscover(c)) \/ \E s \in Sessions : CallAnnounce(s)
  BY <1>2 DEF CallDiscover, CallAnnounce
<1>3. CASE QueryModule \/ NextModule \/ StopAnnouncing \/ UNCHANGED vars
  BY <1>3 DEF QueryModule, NextModule, StopAnnouncing, Discovered, vars
<1>4. CASE SelectCandidate \/ MergeCandidate \/ DropCandidate
  BY <1>4 DEF SelectCandidate, MergeCandidate, DropCandidate, NextCandidate
<1>5. CASE DiscoverToAnnounce
  BY <1>5 DEF DiscoverToAnnounce, StartDiscovery
<1>. QED
  BY <1>1, <1>2, <1>3, <1>4, <1>5 DEF Next, Call, Step

\* A member of a set of naturals comes behind those that are less.
LEMMA RankGrows ==
  ASSUME NEW D \in SUBSET Nat, IsFiniteSet(D), NEW i \in D, NEW j \in D, i < j
  PROVE  Rank(D, i) < Rank(D, j)
<1>. DEFINE upto(n) == {l \in D : l <= n}
<1>1. IsFiniteSet(upto(i)) /\ IsFiniteSet(upto(j) \ {j})
  BY FS_Subset
<1>2. IsFiniteSet(upto(j)) /\ j \in upto(j)
  BY FS_Subset
<1>3. upto(i) \subseteq upto(j) \ {j}
  <2>1. \A l \in D : l <= i => l <= j /\ l # j
    OBVIOUS
  <2>. QED
    BY <2>1
<1>. HIDE DEF upto
<1>4. Cardinality(upto(i)) <= Cardinality(upto(j) \ {j})
  BY <1>1, <1>3, FS_Subset
<1>5. Cardinality(upto(j) \ {j}) = Cardinality(upto(j)) - 1
  BY <1>2, FS_RemoveElement
<1>6. Cardinality(upto(i)) \in Nat /\ Cardinality(upto(j)) \in Nat
  BY <1>1, <1>2, FS_CardinalityType
<1>7. Rank(D, i) = Cardinality(upto(i)) /\ Rank(D, j) = Cardinality(upto(j))
  BY DEF Rank, upto
<1>. QED
  BY <1>4, <1>5, <1>6, <1>7

\* Every position is the one of a member.
LEMMA RankReaches ==
  ASSUME NEW D \in SUBSET Nat, IsFiniteSet(D), NEW p \in 1 .. Cardinality(D)
  PROVE  \E i \in D : Rank(D, i) = p
<1>. DEFINE f == [i \in D |-> Rank(D, i)]
            T == 1 .. Cardinality(D)
<1>1. \A i \in D : Rank(D, i) \in T
  BY RankIsPosition
<1>2. \A i, j \in D : Rank(D, i) = Rank(D, j) => i = j
  <2>. SUFFICES ASSUME NEW i \in D, NEW j \in D, i # j PROVE Rank(D, i) # Rank(D, j)
    OBVIOUS
  <2>1. i < j \/ j < i
    OBVIOUS
  <2>2. Rank(D, i) \in Nat /\ Rank(D, j) \in Nat
    BY <1>1, FS_CardinalityType
  <2>. QED
    BY <2>1, <2>2, RankGrows
<1>3. f \in Injection(D, T)
  BY <1>1, <1>2 DEF Injection, IsInjective
<1>4. IsFiniteSet(T) /\ Cardinality(T) = Cardinality(D)
  BY FS_CardinalityType, FS_Interval
<1>5. f \in Surjection(D, T)
  BY <1>3, <1>4, FS_Injection, Zenon
<1>. QED
  BY <1>5 DEF Surjection

\* Without one member, those behind it are one position further in front.
LEMMA RankWithout ==
  ASSUME NEW D \in SUBSET Nat, IsFiniteSet(D), NEW i \in D
  PROVE  /\ Cardinality(D \ {i}) = Cardinality(D) - 1
         /\ \A j \in D : j < i => Rank(D \ {i}, j) = Rank(D, j) /\ Rank(D, j) < Rank(D, i)
         /\ \A j \in D : j > i => /\ Rank(D \ {i}, j) = Rank(D, j) - 1
                                  /\ Rank(D, j) > Rank(D, i)
<1>1. Cardinality(D \ {i}) = Cardinality(D) - 1
  BY FS_RemoveElement
<1>2. ASSUME NEW j \in D, j < i PROVE Rank(D \ {i}, j) = Rank(D, j)
  <2>1. {l \in D \ {i} : l <= j} = {l \in D : l <= j}
    BY <1>2
  <2>. QED
    BY <2>1 DEF Rank
<1>3. ASSUME NEW j \in D, j > i PROVE Rank(D \ {i}, j) = Rank(D, j) - 1
  <2>. DEFINE upto == {l \in D : l <= j}
  <2>1. {l \in D \ {i} : l <= j} = upto \ {i} /\ i \in upto
    BY <1>3
  <2>2. IsFiniteSet(upto)
    BY FS_Subset
  <2>. HIDE DEF upto
  <2>3. Cardinality(upto \ {i}) = Cardinality(upto) - 1
    BY <2>1, <2>2, FS_RemoveElement
  <2>. QED
    BY <2>1, <2>3 DEF Rank, upto
<1>4. \A j \in D : Rank(D, j) \in Nat
  BY RankIsPosition, FS_CardinalityType
<1>. QED
  BY <1>1, <1>2, <1>3, RankGrows

\* The first of the infos that is a loopback interface, if one is, is taken out.
LEMMA PayloadIs ==
  ASSUME NEW list \in Seq(Info)
  PROVE  \/ Payload(list) = list /\ \A q \in DOMAIN list : ~IsLoopback(list[q])
         \/ \E p \in DOMAIN list :
              /\ IsLoopback(list[p]) /\ \A q \in 1 .. p - 1 : ~IsLoopback(list[q])
              /\ Len(Payload(list)) = Len(list) - 1
              /\ \A q \in 1 .. p - 1 : Payload(list)[q] = list[q]
              /\ \A q \in p + 1 .. Len(list) : Payload(list)[q - 1] = list[q]
<1>. DEFINE I == {q \in 1 .. Len(list) : IsLoopback(list[q])}
<1>1. DOMAIN list = 1 .. Len(list) /\ Len(list) \in Nat /\ I \in SUBSET Nat
  OBVIOUS
<1>2. CASE I = {}
  <2>1. ~ \E q \in 1 .. Len(list) : IsLoopback(list[q])
    BY <1>2
  <2>. QED
    BY <1>1, <2>1 DEF Payload, RemoveFirstMatch
<1>3. CASE I # {}
  <2>. DEFINE p == SelectInSeq(list, IsLoopback)
  <2>1. p = Min(I)
    BY <1>3 DEF SelectInSeq
  <2>2. PICK m \in I : \A q \in I : m <= q
    BY <1>1, <1>3, LeastNatural, Zenon
  <2>3. p = m
    <3>1. Min(I) \in I /\ \A q \in I : Min(I) <= q
      BY <2>2 DEF Min
    <3>. QED
      BY <1>1, <2>1, <2>2, <3>1
  <2>4. Payload(list) = RemoveAt(list, p)
    BY <1>3 DEF Payload, RemoveFirstMatch
  <2>5. Payload(list) = SubSeq(list, 1, m - 1) \o SubSeq(list, m + 1, Len(list))
    BY <2>3, <2>4 DEF RemoveAt
  <2>6. m \in 1 .. Len(list) /\ IsLoopback(list[m]) /\ \A q \in 1 .. m - 1 : ~IsLoopback(list[q])
    <3>1. m \in 1 .. Len(list) /\ IsLoopback(list[m])
      OBVIOUS
    <3>2. ASSUME NEW q \in 1 .. m - 1 PROVE ~IsLoopback(list[q])
      BY <1>1, <2>2, <3>1
    <3>. QED
      BY <3>1, <3>2
  <2>. HIDE DEF I, p
  <2>. DEFINE a == SubSeq(list, 1, m - 1)
              b == SubSeq(list, m + 1, Len(list))
  <2>7. /\ a \in Seq(Info) /\ Len(a) = m - 1
        /\ \A q \in 1 .. m - 1 : a[q] = list[q]
    <3>1. 1 \in Int /\ m - 1 \in Int /\ \A q \in 1 .. m - 1 : list[q] \in Info
      BY <1>1, <2>6
    <3>2. /\ a \in Seq(Info) /\ Len(a) = IF 1 <= m - 1 THEN m - 1 - 1 + 1 ELSE 0
          /\ \A q \in 1 .. m - 1 - 1 + 1 : a[q] = list[1 + q - 1]
      BY <3>1, SubSeqProperties
    <3>. HIDE DEF a
    <3>. QED
      BY <1>1, <2>6, <3>2
  <2>8. /\ b \in Seq(Info) /\ Len(b) = Len(list) - m
        /\ \A q \in 1 .. Len(list) - m : b[q] = list[m + q]
    <3>1. /\ m + 1 \in Int /\ Len(list) \in Int
          /\ \A q \in m + 1 .. Len(list) : list[q] \in Info
      BY <1>1, <2>6
    <3>2. /\ b \in Seq(Info)
          /\ Len(b) = IF m + 1 <= Len(list) THEN Len(list) - (m + 1) + 1 ELSE 0
          /\ \A q \in 1 .. Len(list) - (m + 1) + 1 : b[q] = list[m + 1 + q - 1]
      BY <3>1, SubSeqProperties
    <3>. HIDE DEF b
    <3>3. Len(b) = Len(list) - m
      <4>1. m \in Int /\ Len(list) \in Int /\ m <= Len(list)
        BY <1>1, <2>6
      <4>2. Len(b) = IF m + 1 <= Len(list) THEN Len(list) - (m + 1) + 1 ELSE 0
        BY <3>2
      <4>. QED
        BY <4>1, <4>2
    <3>4. ASSUME NEW q \in 1 .. Len(list) - m PROVE b[q] = list[m + q]
      <4>1. q \in 1 .. Len(list) - (m + 1) + 1 /\ m + 1 + q - 1 = m + q
        BY <1>1, <2>6
      <4>2. b[q] = list[m + 1 + q - 1]
        BY <3>2, <4>1
      <4>. QED
        BY <4>1, <4>2
    <3>. QED
      BY <3>2, <3>3, <3>4
  <2>9. Payload(list) = a \o b
    BY <2>5
  <2>. HIDE DEF a, b
  <2>10. /\ Len(a \o b) = Len(a) + Len(b)
         /\ \A q \in 1 .. Len(a) + Len(b) :
              (a \o b)[q] = IF q <= Len(a) THEN a[q] ELSE b[q - Len(a)]
    BY <2>7, <2>8, ConcatProperties
  <2>11. ASSUME NEW q \in 1 .. m - 1 PROVE (a \o b)[q] = list[q]
    <3>1. q \in 1 .. Len(a) + Len(b) /\ q <= Len(a) /\ a[q] = list[q]
      BY <1>1, <2>6, <2>7, <2>8
    <3>. QED
      BY <2>10, <3>1
  <2>12. ASSUME NEW q \in m + 1 .. Len(list) PROVE (a \o b)[q - 1] = list[q]
    <3>1. /\ q - 1 \in 1 .. Len(a) + Len(b) /\ ~(q - 1 <= Len(a))
          /\ q - 1 - Len(a) = q - m /\ q - m \in 1 .. Len(list) - m /\ m + (q - m) = q
      BY <1>1, <2>6, <2>7, <2>8
    <3>. QED
      BY <2>8, <2>10, <3>1
  <2>13. Len(a \o b) = Len(list) - 1
    BY <1>1, <2>6, <2>7, <2>8, <2>10
  <2>. QED
    BY <1>1, <2>6, <2>9, <2>11, <2>12, <2>13
<1>. QED
  BY <1>2, <1>3

\* Equal infos are loopback interfaces both or neither.
LEMMA LoopbackBoth ==
  ASSUME NEW a, NEW b, Same(a, b)
  PROVE  IsLoopback(a) <=> IsLoopback(b)
BY DEF Same, Key, NetKey, IsLoopback

\* What is left of the selected infos are the sightings without the first loopback.
LEMMA PayloadInOrder ==
  ASSUME LocalsOK, InOrder(result, Firsts)
  PROVE  InOrder(Payload(result), Firsts \ FirstLoopback)
<1>. DEFINE D == Firsts
<1>1. /\ D \in SUBSET Nat /\ IsFiniteSet(D) /\ result \in Seq(Info)
      /\ DOMAIN result = 1 .. Cardinality(D) /\ Len(result) = Cardinality(D)
      /\ Cardinality(D) \in Nat
  BY FirstsFinite, FS_CardinalityType DEF LocalsOK, InOrder
<1>2. \A i \in D : /\ Rank(D, i) \in DOMAIN result
                   /\ Same(result[Rank(D, i)], examined[i].info)
                   /\ result[Rank(D, i)].id = examined[i].info.id
  BY <1>1, RankIsPosition DEF InOrder, Rank
<1>3. \A i \in D : IsLoopback(result[Rank(D, i)]) <=> IsLoopback(examined[i].info)
  BY <1>2, LoopbackBoth
<1>. DEFINE E == D \ FirstLoopback
<1>4. FirstLoopback = {i \in D : /\ IsLoopback(examined[i].info)
                                 /\ \A j \in D : IsLoopback(examined[j].info) => i <= j}
  BY DEF FirstLoopback
<1>. HIDE DEF D
<1>7. E = D \ FirstLoopback
  OBVIOUS
<1>. SUFFICES /\ Len(Payload(result)) = Cardinality(E)
              /\ \A i \in E : /\ Same(Payload(result)[Rank(E, i)], examined[i].info)
                              /\ Payload(result)[Rank(E, i)].id = examined[i].info.id
  BY DEF InOrder, Rank, D
<1>. HIDE DEF E
<1>5. CASE Payload(result) = result /\ \A q \in DOMAIN result : ~IsLoopback(result[q])
  <2>1. FirstLoopback = {} /\ E = D
    BY <1>2, <1>3, <1>4, <1>5, <1>7
  <2>. QED
    BY <1>1, <1>2, <1>5, <2>1
<1>6. ASSUME NEW p \in DOMAIN result,
             IsLoopback(result[p]), \A q \in 1 .. p - 1 : ~IsLoopback(result[q]),
             Len(Payload(result)) = Len(result) - 1,
             \A q \in 1 .. p - 1 : Payload(result)[q] = result[q],
             \A q \in p + 1 .. Len(result) : Payload(result)[q - 1] = result[q]
      PROVE  /\ Len(Payload(result)) = Cardinality(E)
             /\ \A i \in E : /\ Same(Payload(result)[Rank(E, i)], examined[i].info)
                             /\ Payload(result)[Rank(E, i)].id = examined[i].info.id
  <2>1. PICK n \in D : Rank(D, n) = p
    BY <1>1, RankReaches
  <2>2. /\ Cardinality(D \ {n}) = Cardinality(D) - 1
        /\ \A j \in D : j < n => Rank(D \ {n}, j) = Rank(D, j) /\ Rank(D, j) < p
        /\ \A j \in D : j > n => Rank(D \ {n}, j) = Rank(D, j) - 1 /\ Rank(D, j) > p
    BY <1>1, <2>1, RankWithout
  <2>3. IsLoopback(examined[n].info)
    BY <1>3, <1>6, <2>1
  <2>4. \A j \in D : IsLoopback(examined[j].info) => n <= j
    <3>. SUFFICES ASSUME NEW j \in D, j < n PROVE ~IsLoopback(examined[j].info)
      BY <1>1
    <3>1. Rank(D, j) \in 1 .. p - 1
      BY <1>1, <1>2, <2>2
    <3>. QED
      BY <1>3, <1>6, <3>1
  <2>5. FirstLoopback = {n}
    <3>1. ASSUME NEW i \in FirstLoopback PROVE i = n
      <4>1. i \in D /\ i <= n
        BY <1>4, <2>3
      <4>2. n <= i
        BY <1>4, <2>4
      <4>. QED
        BY <1>1, <4>1, <4>2
    <3>2. n \in FirstLoopback
      BY <1>4, <2>3, <2>4
    <3>. QED
      BY <3>1, <3>2
  <2>6. E = D \ {n}
    BY <1>7, <2>5
  <2>7. /\ Cardinality(E) = Cardinality(D) - 1
        /\ \A j \in D : j < n => Rank(E, j) = Rank(D, j) /\ Rank(D, j) < p
        /\ \A j \in D : j > n => Rank(E, j) = Rank(D, j) - 1 /\ Rank(D, j) > p
    BY <2>2, <2>6, Zenon
  <2>8. ASSUME NEW i \in E
        PROVE  Payload(result)[Rank(E, i)] = result[Rank(D, i)]
    <3>1. i \in D /\ (i < n \/ i > n) /\ Rank(D, i) \in 1 .. Len(result)
      BY <1>1, <1>2, <2>6
    <3>2. CASE i < n
      <4>1. Rank(E, i) = Rank(D, i) /\ Rank(D, i) \in 1 .. p - 1
        BY <1>1, <2>7, <3>1, <3>2
      <4>. QED
        BY <1>6, <4>1
    <3>3. CASE i > n
      <4>1. Rank(E, i) = Rank(D, i) - 1 /\ Rank(D, i) \in p + 1 .. Len(result)
        BY <1>1, <2>7, <3>1, <3>3
      <4>. QED
        BY <1>6, <4>1
    <3>. QED
      BY <3>1, <3>2, <3>3
  <2>9. E \subseteq D
    BY <2>6
  <2>. QED
    BY <1>1, <1>2, <1>6, <2>8, <2>9, <2>7
<1>. QED
  BY <1>1, <1>5, <1>6, PayloadIs

\* The step that ends an announcement.
LEMMA PublishesInOrder ==
  ASSUME DiscoveryInv, Order, AnnounceChain, Next, pc = "publish", examined # << >>
  PROVE  InOrder(published'.infos, Firsts \ FirstLoopback)
<1>1. LocalsOK /\ chain = <<Duplicate>>
  BY DEF DiscoveryInv, TypeOK, LocalsOK, AnnounceChain
<1>2. ~Has(chain, "Mirror") /\ \A c : Wanted(c)
  BY <1>1 DEF Has, Wanted, Duplicate
<1>3. InOrder(result, Firsts)
  BY <1>2 DEF Order, FirstsInOrder
<1>4. result # << >>
  <2>1. 1 \in DOMAIN examined
    BY <1>1 DEF LocalsOK
  <2>2. \E j \in DOMAIN result : TRUE
    BY <1>2, <2>1 DEF DiscoveryInv, Selection, NothingLost
  <2>. QED
    BY <2>2
<1>5. PublishSucceeds \/ PublishFails
  BY <1>4
  DEF Next, Call, Step, ChangeStack, CallDiscover, CallAnnounce, QueryModule, SelectCandidate,
      MergeCandidate, DropCandidate, NextCandidate, NextModule, ReturnInfos, Discovered,
      PrintModule, DiscoverToAnnounce, StopAnnouncing, PublishNothing, ReturnTrue
<1>6. published'.infos = Payload(result)
  <2>1. published' = [session |-> session, infos |-> Payload(result)]
    BY <1>5 DEF PublishSucceeds, PublishFails, Publish
  <2>. QED
    BY <2>1
<1>. QED
  BY <1>1, <1>3, <1>6, PayloadInOrder

(* An announcement hands its service each info the local modules found, the  *)
(* first sighting of each and in order, but for the first loopback interface *)
(* (net/dns_sd/module.cpp:92-106, gpu/dns_sd/module.cpp:91-97).              *)
THEOREM AnnouncementsAreFull == Spec => AnnouncedInFull
<1>1. Init => Order /\ AnnounceChain
  BY OrderEmpty DEF Init, AnnounceChain
<1>2. DiscoveryInv /\ Order /\ AnnounceChain /\ [Next]_vars => (Order /\ AnnounceChain)'
  BY OrderStep, AnnounceChainStep DEF DiscoveryInv, TypeOK
<1>3. DiscoveryInv /\ Order /\ AnnounceChain /\ [Next]_vars
      => [pc = "publish" /\ examined # << >> =>
            InOrder(published'.infos, Firsts \ FirstLoopback)]_vars
  BY PublishesInOrder
<1>. QED
  BY <1>1, <1>2, <1>3, Invariance, PTL DEF Spec, AnnouncedInFull

================================================================================
