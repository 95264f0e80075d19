--------------------------- MODULE LocalModulesProofs ---------------------------
(***************************************************************************)
(* What the wgl, cgl and sys modules find and give back, for any drivers,     *)
(* displays and lists of the system.                                        *)
(***************************************************************************)
EXTENDS MCLocalModules, FiniteSetTheorems, WellFoundedInduction, TLAPS

\* A set of naturals that is not empty has a least element.
LEMMA LeastNumber ==
  ASSUME NEW S \in SUBSET Nat, S # {}
  PROVE  \E l \in S : \A k \in S : l <= k
<1>1. PICK l \in S : \A k \in S : ~ (<<k, l>> \in OpToRel(<, Nat))
  BY NatLessThanWellFounded, WFMin, Zenon
<1>2. \A k \in S : ~ (k < l)
  BY <1>1 DEF OpToRel
<1>. QED
  BY <1>2

-------------------------------------------------------------------------------
(* cgl: the main display when it is asked for is one of those that were.     *)

CGLInv ==
  /\ cglPc = "idle" => displayIDs = << >>
  /\ cglPc = "listed" => displayIDs \in Seq(Display) /\ main \in cglMains
  /\ cgl!MainDisplayFound

\* What is listed are displays.
LEMMA ListedAreDisplays ==
  ASSUME NEW list \in Seq(Display), NEW n \in Nat, n <= Len(list)
  PROVE  SubSeq(list, 1, n) \in Seq(Display)
OBVIOUS

LEMMA ArrangementsAreSequences ==
  ASSUME NEW list \in cgl!Arrangements
  PROVE  list \in Seq(Display)
<1>1. cgl!Cardinality(Display) = Cardinality(Display)
  BY DEF cgl!Cardinality, Cardinality
<1>2. PICK n \in 1 .. Cardinality(Display) : list \in cgl!Injection(1 .. n, Display)
  BY <1>1 DEF cgl!Arrangements
<1>3. n \in Nat /\ list \in [1 .. n -> Display]
  BY <1>2, DisplaysAssumption, FS_CardinalityType DEF cgl!Injection
<1>. QED
  BY <1>3

\* The loop finds the main display where it is first listed, if it is.
LEMMA PositionOfMain ==
  ASSUME displayIDs \in Seq(Display)
  PROVE  \/ cgl!Position = 0 /\ main \notin cgl!ToSet(displayIDs)
         \/ cgl!Position \in DOMAIN displayIDs /\ displayIDs[cgl!Position] = main
<1>. DEFINE found == {l \in 1 .. Len(displayIDs) : displayIDs[l] = main}
<1>1. cgl!Position = IF found # {} THEN cgl!Min(found) ELSE 0
  BY DEF cgl!Position, cgl!SelectInSeq
<1>2. CASE found = {}
  BY <1>1, <1>2 DEF cgl!ToSet
<1>3. CASE found # {}
  <2>1. found \in SUBSET Nat
    OBVIOUS
  <2>2. \E l \in found : \A k \in found : l <= k
    <3>. HIDE DEF found
    <3>. QED
      BY <1>3, <2>1, LeastNumber, Zenon
  <2>3. cgl!Min(found) \in found
    BY <2>2 DEF cgl!Min
  <2>4. cgl!Position \in found
    BY <1>1, <1>3, <2>3
  <2>. QED
    BY <2>4
<1>. QED
  BY <1>2, <1>3

\* Every step of the cgl module keeps it.
LEMMA CGLStep ==
  ASSUME online \in Seq(Display), CGLInv, [cgl!Next]_cglVars
  PROVE  online' \in Seq(Display) /\ CGLInv'
<1>1. CASE cgl!CannotList
  <2>1. displayIDs' = << >> /\ UNCHANGED online /\ cglPc' = "returned"
    BY <1>1 DEF cgl!CannotList, CGLInv
  <2>. QED
    BY <2>1 DEF CGLInv, cgl!MainDisplayFound
<1>2. CASE cgl!ListOnline
  <2>. DEFINE n == IF Len(online) < MaxGPUs THEN Len(online) ELSE MaxGPUs
  <2>1. /\ UNCHANGED <<online, main>> /\ cglPc' = "listed" /\ cglMains' = {main}
        /\ displayIDs' = SubSeq(online, 1, n)
    BY <1>2 DEF cgl!ListOnline
  <2>2. n \in Nat /\ n <= Len(online)
    BY DisplaysAssumption
  <2>. HIDE DEF n
  <2>3. displayIDs' \in Seq(Display)
    BY <2>1, <2>2, ListedAreDisplays
  <2>. QED
    BY <2>1, <2>3 DEF CGLInv, cgl!MainDisplayFound
<1>3. CASE cgl!Rearrange
  <2>1. /\ online' \in cgl!Arrangements
        /\ UNCHANGED <<cglPc, displayIDs, cglResult>>
        /\ cglMains' = IF cglPc = "listed" THEN cglMains \cup {main'} ELSE cglMains
    BY <1>3 DEF cgl!Rearrange
  <2>2. online' \in Seq(Display)
    BY <2>1, ArrangementsAreSequences
  <2>. QED
    BY <2>1, <2>2 DEF CGLInv, cgl!MainDisplayFound
<1>4. CASE cgl!FindMain
  <2>1. /\ UNCHANGED <<online, main, displayIDs, cglMains>>
        /\ cglPc = "listed" /\ cglPc' = "returned"
        /\ cglResult' = IF cgl!Position = 0 THEN << >>
                        ELSE <<[display |-> displayIDs[cgl!Position], device |-> cgl!Position - 1]>>
    BY <1>4 DEF cgl!FindMain
  <2>2. displayIDs \in Seq(Display) /\ main \in cglMains
    BY <2>1 DEF CGLInv
  <2>3. CASE cgl!Position = 0 /\ main \notin cgl!ToSet(displayIDs)
    BY <2>1, <2>2, <2>3 DEF CGLInv, cgl!MainDisplayFound
  <2>4. CASE cgl!Position \in DOMAIN displayIDs /\ displayIDs[cgl!Position] = main
    <3>1. cgl!Position # 0 /\ main \in cgl!ToSet(displayIDs)
      BY <2>2, <2>4 DEF cgl!ToSet
    <3>. DEFINE info == [display |-> displayIDs[cgl!Position], device |-> cgl!Position - 1]
    <3>2. cglResult' = <<info>> /\ info.display = main
      BY <2>1, <2>4, <3>1
    <3>. HIDE DEF info
    <3>3. Len(<<info>>) = 1 /\ DOMAIN <<info>> = {1} /\ <<info>>[1] = info
      OBVIOUS
    <3>. QED
      BY <2>1, <2>2, <3>1, <3>2, <3>3 DEF CGLInv, cgl!MainDisplayFound
  <2>. QED
    BY <2>2, <2>3, <2>4, PositionOfMain
<1>5. CASE cgl!Done
  <2>1. UNCHANGED online /\ displayIDs' = << >> /\ cglPc' = "idle"
    BY <1>5 DEF cgl!Done
  <2>. QED
    BY <2>1 DEF CGLInv, cgl!MainDisplayFound
<1>6. CASE UNCHANGED cglVars
  BY <1>6 DEF cglVars, CGLInv, cgl!MainDisplayFound
<1>. QED
  BY <1>1, <1>2, <1>3, <1>4, <1>5, <1>6 DEF cgl!Next, cgl!Step

(* However the user rearranges the displays between the two questions, at      *)
(* most one is returned, one of those listed that was the main one during the  *)
(* discovery; and if all that were are listed, one is returned                *)
(* (gpu/cgl/module.cpp:52-83).                                               *)
THEOREM MainDisplayIsFound == LocalSpec => []MainDisplayFound
<1>1. LocalInit => online \in Seq(Display) /\ CGLInv
  <2>. SUFFICES ASSUME cgl!Init PROVE online \in Seq(Display) /\ CGLInv
    BY DEF LocalInit
  <2>1. online \in cgl!Arrangements
    BY DEF cgl!Init
  <2>. QED
    BY <2>1, ArrangementsAreSequences DEF cgl!Init, CGLInv, cgl!MainDisplayFound
<1>2. online \in Seq(Display) /\ CGLInv /\ [LocalNext]_allVars
      => (online \in Seq(Display) /\ CGLInv)'
  <2>1. [LocalNext]_allVars => [cgl!Next]_cglVars
    BY DEF LocalNext, Alone, allVars
  <2>. QED
    BY <2>1, CGLStep
<1>3. CGLInv => MainDisplayFound
  BY DEF CGLInv, MainDisplayFound
<1>. QED
  BY <1>1, <1>2, <1>3, PTL DEF LocalSpec

-------------------------------------------------------------------------------
(* wgl: what is acquired and released of the system.                        *)

Loops == {"affinity", "display", "association"}

\* What the acquisitions before the n-th have gained.
GainedBefore(n) ==
  CASE n = 1 -> {}
    [] n = 2 -> {"class"}
    [] n \in 3 .. 5 -> {"class", "window", "dc"}
    [] OTHER -> {"class", "window", "dc", "context"}

Forgotten == IF failed = "ChoosePixelFormat" THEN {"dc"} ELSE {}

\* On the way out after a failure the context is the application's all the time.
ReleasingSome ==
  /\ current = before
  /\ \/ /\ releases = <<"dc", "window", "class">>
        /\ held = {"dc", "window", "class"} /\ failed # "ChoosePixelFormat"
     \/ releases = <<"window", "class">> /\ held = {"window", "class"} \cup Forgotten
     \/ releases = <<"class">> /\ held = {"class"} \cup Forgotten
     \/ releases = << >> /\ held = Forgotten

\* Else it is the last to be restored.
ReleasingAll ==
  /\ oldContext = before
  /\ \/ releases = wgl!Releases /\ held = {"context", "dc", "window", "class"}
     \/ releases = <<"dc", "window", "class", "restore">> /\ held = {"dc", "window", "class"}
     \/ releases = <<"window", "class", "restore">> /\ held = {"window", "class"}
     \/ releases = <<"class", "restore">> /\ held = {"class"}
     \/ releases = <<"restore">> /\ held = {}
     \/ releases = << >> /\ held = {} /\ current = before

ReleaseInv ==
  /\ wglPc \in {"idle", "acquire", "release", "returned"} \cup Loops
  /\ wglPc \in {"idle", "acquire"} =>
       failed = "none" /\ step \in 1 .. 6 /\ held = GainedBefore(step) /\ wglResult = << >> /\ device = 1
  /\ wglPc = "idle" => step = 1
  /\ wglPc = "acquire" => current = before
  /\ wglPc = "release" =>
       /\ IF failed = "none" THEN ReleasingAll ELSE ReleasingSome
       /\ wglResult = << >> /\ device = 1
  /\ failed # "none" => wglPc \in {"release", "returned"} /\ wglResult = << >>
  /\ wgl!Released

\* What remains of the releases.
LEMMA Tails ==
  /\ Tail(<<"context", "dc", "window", "class", "restore">>) = <<"dc", "window", "class", "restore">>
  /\ Tail(<<"dc", "window", "class", "restore">>) = <<"window", "class", "restore">>
  /\ Tail(<<"window", "class", "restore">>) = <<"class", "restore">>
  /\ Tail(<<"class", "restore">>) = <<"restore">>
  /\ Tail(<<"restore">>) = << >>
  /\ Tail(<<"dc", "window", "class">>) = <<"window", "class">>
  /\ Tail(<<"window", "class">>) = <<"class">>
  /\ Tail(<<"class">>) = << >>
OBVIOUS

\* One release of a call that failed.
LEMMA ReleaseSome ==
  ASSUME ReleasingSome, wgl!Release
  PROVE  ReleasingSome'
<1>1. /\ releases # << >> /\ releases' = Tail(releases)
      /\ UNCHANGED <<oldContext, failed, before>>
      /\ held' = IF wgl!CanRelease(Head(releases)) THEN held \ {Head(releases)} ELSE held
      /\ Head(releases) \notin {"restore", "context"} => UNCHANGED current
  BY DEF wgl!Release
<1>2. CASE /\ releases = <<"dc", "window", "class">>
           /\ held = {"dc", "window", "class"} /\ failed # "ChoosePixelFormat"
  <2>1. Head(releases) = "dc" /\ releases' = <<"window", "class">>
    BY <1>1, <1>2, Tails
  <2>2. wgl!CanRelease("dc")
    BY <1>2 DEF wgl!CanRelease
  <2>3. held' = {"window", "class"}
    BY <1>1, <1>2, <2>1, <2>2
  <2>. QED
    BY <1>1, <1>2, <2>1, <2>3 DEF ReleasingSome, Forgotten
<1>3. CASE releases = <<"window", "class">> /\ held = {"window", "class"} \cup Forgotten
  <2>1. Head(releases) = "window" /\ releases' = <<"class">>
    BY <1>1, <1>3, Tails
  <2>2. wgl!CanRelease("window")
    BY DEF wgl!CanRelease
  <2>3. held' = {"class"} \cup Forgotten
    BY <1>1, <1>3, <2>1, <2>2 DEF Forgotten
  <2>. QED
    BY <1>1, <1>3, <2>1, <2>3 DEF ReleasingSome, Forgotten
<1>4. CASE releases = <<"class">> /\ held = {"class"} \cup Forgotten
  <2>1. Head(releases) = "class" /\ releases' = << >>
    BY <1>1, <1>4, Tails
  <2>2. wgl!CanRelease("class")
    BY <1>4 DEF wgl!CanRelease, Forgotten
  <2>3. held' = Forgotten
    BY <1>1, <1>4, <2>1, <2>2 DEF Forgotten
  <2>. QED
    BY <1>1, <1>4, <2>1, <2>3 DEF ReleasingSome, Forgotten
<1>. QED
  BY <1>1, <1>2, <1>3, <1>4 DEF ReleasingSome

\* One release of a call that did not.
LEMMA ReleaseAll ==
  ASSUME ReleasingAll, wgl!Release
  PROVE  ReleasingAll'
<1>1. /\ releases # << >> /\ releases' = Tail(releases)
      /\ UNCHANGED <<oldContext, before>>
      /\ held' = IF wgl!CanRelease(Head(releases)) THEN held \ {Head(releases)} ELSE held
      /\ Head(releases) = "restore" => current' = oldContext
  BY DEF wgl!Release
<1>2. CASE releases = wgl!Releases /\ held = {"context", "dc", "window", "class"}
  <2>1. Head(releases) = "context" /\ releases' = <<"dc", "window", "class", "restore">>
    BY <1>1, <1>2, Tails DEF wgl!Releases
  <2>2. wgl!CanRelease("context")
    BY DEF wgl!CanRelease
  <2>3. held' = {"dc", "window", "class"}
    BY <1>1, <1>2, <2>1, <2>2
  <2>. QED
    BY <1>1, <2>1, <2>3 DEF ReleasingAll
<1>3. CASE releases = <<"dc", "window", "class", "restore">> /\ held = {"dc", "window", "class"}
  <2>1. Head(releases) = "dc" /\ releases' = <<"window", "class", "restore">>
    BY <1>1, <1>3, Tails
  <2>2. wgl!CanRelease("dc")
    BY <1>3 DEF wgl!CanRelease
  <2>3. held' = {"window", "class"}
    BY <1>1, <1>3, <2>1, <2>2
  <2>. QED
    BY <1>1, <2>1, <2>3 DEF ReleasingAll
<1>4. CASE releases = <<"window", "class", "restore">> /\ held = {"window", "class"}
  <2>1. Head(releases) = "window" /\ releases' = <<"class", "restore">>
    BY <1>1, <1>4, Tails
  <2>2. wgl!CanRelease("window")
    BY DEF wgl!CanRelease
  <2>3. held' = {"class"}
    BY <1>1, <1>4, <2>1, <2>2
  <2>. QED
    BY <1>1, <2>1, <2>3 DEF ReleasingAll
<1>5. CASE releases = <<"class", "restore">> /\ held = {"class"}
  <2>1. Head(releases) = "class" /\ releases' = <<"restore">>
    BY <1>1, <1>5, Tails
  <2>2. wgl!CanRelease("class")
    BY <1>5 DEF wgl!CanRelease
  <2>3. held' = {}
    BY <1>1, <1>5, <2>1, <2>2
  <2>. QED
    BY <1>1, <2>1, <2>3 DEF ReleasingAll
<1>6. CASE releases = <<"restore">> /\ held = {}
  <2>1. Head(releases) = "restore" /\ releases' = << >>
    BY <1>1, <1>6, Tails
  <2>2. held' = {} /\ current' = oldContext
    BY <1>1, <1>6, <2>1
  <2>. QED
    BY <1>1, <2>1, <2>2 DEF ReleasingAll
<1>. QED
  BY <1>1, <1>2, <1>3, <1>4, <1>5, <1>6 DEF ReleasingAll

\* Every step of the wgl module keeps it.
LEMMA ReleaseStep ==
  ASSUME ReleaseInv, [wgl!Next]_wglVars
  PROVE  ReleaseInv'
<1>. USE DEF Loops
<1>1. CASE wgl!Discover
  <2>1. /\ wglPc = "idle" /\ wglPc' = "acquire" /\ before' = current'
        /\ UNCHANGED <<step, held, failed, device, wglResult>>
    BY <1>1 DEF wgl!Discover
  <2>. QED
    BY <2>1 DEF ReleaseInv, wgl!Released
<1>2. CASE wgl!Acquire
  <2>1. /\ wglPc = "acquire" /\ step \in 1 .. 5 /\ step' = step + 1
        /\ held' = held \cup wgl!Gained(wgl!Acquisitions[step])
        /\ UNCHANGED <<wglPc, current, before, failed, device, wglResult>>
    BY <1>2 DEF wgl!Acquire, ReleaseInv, wgl!Acquisitions
  <2>2. held' = GainedBefore(step')
    <3>1. held = GainedBefore(step)
      BY <2>1 DEF ReleaseInv
    <3>2. CASE step = 1
      <4>1. wgl!Gained(wgl!Acquisitions[step]) = {"class"}
        BY <3>2 DEF wgl!Gained, wgl!Acquisitions
      <4>. QED
        BY <2>1, <3>1, <3>2, <4>1 DEF GainedBefore
    <3>3. CASE step = 2
      <4>1. wgl!Gained(wgl!Acquisitions[step]) = {"window", "dc"}
        BY <3>3 DEF wgl!Gained, wgl!Acquisitions
      <4>. QED
        BY <2>1, <3>1, <3>3, <4>1 DEF GainedBefore
    <3>4. CASE step \in {3, 4}
      <4>1. wgl!Gained(wgl!Acquisitions[step]) = {}
        BY <3>4 DEF wgl!Gained, wgl!Acquisitions
      <4>. QED
        BY <2>1, <3>1, <3>4, <4>1 DEF GainedBefore
    <3>5. CASE step = 5
      <4>1. wgl!Gained(wgl!Acquisitions[step]) = {"context"}
        BY <3>5 DEF wgl!Gained, wgl!Acquisitions
      <4>. QED
        BY <2>1, <3>1, <3>5, <4>1 DEF GainedBefore
    <3>. QED
      BY <2>1, <3>2, <3>3, <3>4, <3>5
  <2>. QED
    BY <2>1, <2>2 DEF ReleaseInv, wgl!Released
<1>3. CASE wgl!AcquisitionFails
  <2>1. /\ wglPc = "acquire" /\ step \in 1 .. 5
        /\ failed' = wgl!Acquisitions[step]
        /\ releases' = wgl!ReleasesAfter(wgl!Acquisitions[step])
        /\ wglPc' = "release"
        /\ UNCHANGED <<held, current, before, device, wglResult>>
        /\ held = GainedBefore(step) /\ current = before /\ wglResult = << >> /\ device = 1
    BY <1>3 DEF wgl!AcquisitionFails, ReleaseInv, wgl!Acquisitions
  <2>2. ReleasingSome' /\ failed' # "none"
    <3>1. CASE step = 1
      <4>1. failed' = "RegisterClass" /\ releases' = << >>
        BY <2>1, <3>1 DEF wgl!ReleasesAfter, wgl!Acquisitions
      <4>. QED
        BY <2>1, <3>1, <4>1 DEF ReleasingSome, Forgotten, GainedBefore
    <3>2. CASE step = 2
      <4>1. failed' = "CreateWindow" /\ releases' = <<"class">>
        BY <2>1, <3>2 DEF wgl!ReleasesAfter, wgl!Acquisitions
      <4>. QED
        BY <2>1, <3>2, <4>1 DEF ReleasingSome, Forgotten, GainedBefore
    <3>3. CASE step = 3
      <4>1. failed' = "ChoosePixelFormat" /\ releases' = <<"window", "class">>
        BY <2>1, <3>3 DEF wgl!ReleasesAfter, wgl!Acquisitions
      <4>2. held' = {"window", "class"} \cup {"dc"}
        BY <2>1, <3>3 DEF GainedBefore
      <4>. QED
        BY <2>1, <4>1, <4>2 DEF ReleasingSome, Forgotten
    <3>4. CASE step \in {4, 5}
      <4>1. failed' \in {"SetPixelFormat", "CreateContext"} /\ releases' = <<"dc", "window", "class">>
        BY <2>1, <3>4 DEF wgl!ReleasesAfter, wgl!Acquisitions
      <4>. QED
        BY <2>1, <3>4, <4>1 DEF ReleasingSome, Forgotten, GainedBefore
    <3>. QED
      BY <2>1, <3>1, <3>2, <3>3, <3>4
  <2>. QED
    BY <2>1, <2>2 DEF ReleaseInv, wgl!Released
<1>4. CASE wgl!LoadFunctions
  <2>1. /\ wglPc = "acquire" /\ step > 5 /\ oldContext' = current
        /\ releases' = wgl!Releases /\ wglPc' = "release"
        /\ UNCHANGED <<held, failed, before, device, wglResult>>
    BY <1>4 DEF wgl!LoadFunctions, wgl!Acquisitions
  <2>2. held' = {"context", "dc", "window", "class"} /\ failed' = "none" /\ oldContext' = before'
    BY <2>1 DEF ReleaseInv, GainedBefore
  <2>3. ReleasingAll'
    BY <2>1, <2>2 DEF ReleasingAll, wgl!Releases
  <2>. QED
    BY <2>1, <2>2, <2>3 DEF ReleaseInv, wgl!Released
<1>5. CASE wgl!Release
  <2>1. wglPc = "release" /\ UNCHANGED <<wglPc, failed, device, wglResult>>
    BY <1>5 DEF wgl!Release
  <2>2. IF failed' = "none" THEN ReleasingAll' ELSE ReleasingSome'
    BY <1>5, <2>1, ReleaseSome, ReleaseAll DEF ReleaseInv
  <2>. QED
    BY <2>1, <2>2 DEF ReleaseInv, wgl!Released
<1>6. CASE wgl!EndRelease
  <2>1. /\ wglPc = "release" /\ releases = << >>
        /\ UNCHANGED <<current, before, held, failed, device, wglResult>>
        /\ wglPc' \in {"returned"} \cup Loops /\ (failed # "none" => wglPc' = "returned")
    BY <1>6 DEF wgl!EndRelease, wgl!tempVars
  <2>2. current = before /\ held = Forgotten
    BY <2>1 DEF ReleaseInv, ReleasingAll, ReleasingSome, wgl!Releases, Forgotten
  <2>. QED
    BY <2>1, <2>2 DEF ReleaseInv, wgl!Released, Forgotten
<1>7. CASE wgl!FindGPU \/ wgl!EndAffinity \/ wgl!EnumDispProc \/ wgl!EndDisplay
           \/ wgl!FindID \/ wgl!EndAssociation
  <2>1. /\ wglPc \in Loops /\ wglPc' \in {"returned"} \cup Loops
        /\ UNCHANGED <<current, before, held, failed>>
    BY <1>7 DEF wgl!FindGPU, wgl!EndAffinity, wgl!EnumDispProc, wgl!EndDisplay,
                wgl!FindID, wgl!EndAssociation, wgl!tempVars
  <2>. QED
    BY <2>1 DEF ReleaseInv, wgl!Released
<1>8. CASE wgl!Done
  BY <1>8 DEF wgl!Done, ReleaseInv, GainedBefore, wgl!Released
<1>9. CASE UNCHANGED wglVars
  BY <1>9 DEF wglVars, ReleaseInv, wgl!Released, ReleasingAll, ReleasingSome, Forgotten
<1>. QED
  BY <1>1, <1>2, <1>3, <1>4, <1>5, <1>6, <1>7, <1>8, <1>9 DEF wgl!Next, wgl!Step

-------------------------------------------------------------------------------
(* wgl: what is found.                                                     *)

WGLInfo == [type : {"WGLn", "WGLa", "WGL"}, device : Nat, size : {"own", "default"}]

\* How many of the first n monitors work.
Works(n) == Cardinality({k \in 1 .. n : driver.monitors[k]})

AllWork == Works(Len(driver.monitors))

\* Every GPU in front of the loop has been found.
FoundGPUs(n) ==
  /\ n <= Len(wgl!GPUs)
  /\ Len(wglResult) = n
  /\ \A k \in 1 .. n :
       wgl!GPUs[k].device /\ wglResult[k] = wgl!WGLn(k - 1, wgl!GPUs[k].attached)

FoundMonitors(n) ==
  /\ n <= Len(driver.monitors)
  /\ Len(wglResult) = Works(n)
  /\ \A k \in 1 .. Works(n) : wglResult[k] = wgl!WGL(k - 1)

\* ... and every monitor.
FoundIDs(n) ==
  /\ n <= Len(wgl!IDs)
  /\ Len(wglResult) = AllWork + n
  /\ \A k \in 1 .. AllWork : wglResult[k] = wgl!WGL(k - 1)
  /\ \A k \in 1 .. n : wglResult[AllWork + k] = wgl!WGLa(wgl!IDs[k])

FoundInv ==
  /\ driver \in Drivers
  /\ enumGpus \in BOOLEAN /\ getGPUIDs \in BOOLEAN
  /\ device \in Nat \ {0}
  /\ wglResult \in Seq(WGLInfo)
  /\ wglPc = "affinity" => enumGpus /\ FoundGPUs(device - 1)
  /\ wglPc = "display" => ~enumGpus /\ FoundMonitors(device - 1)
  /\ wglPc = "association" => ~enumGpus /\ getGPUIDs /\ FoundIDs(device - 1)
  /\ wgl!GPUsFound

\* What the lists of a driver are.
LEMMA DriverTyped ==
  ASSUME driver \in Drivers
  PROVE  /\ wgl!GPUs \in Seq([device : BOOLEAN, attached : BOOLEAN])
         /\ driver.monitors \in Seq(BOOLEAN)
         /\ wgl!IDs \in Seq(Nat)
         /\ \A k, l \in DOMAIN wgl!IDs : wgl!IDs[k] = wgl!IDs[l] => k = l
         /\ driver.association => wgl!IDs = driver.ids
         /\ driver.affinity => wgl!GPUs = driver.gpus
<1>1. PICK d \in Drivers : d = driver
  OBVIOUS
<1>. QED
  BY <1>1, DriversAssumption DEF wgl!GPUs, wgl!IDs

\* The infos of the three types.
LEMMA InfosTyped ==
  /\ \A k \in Nat, attached \in BOOLEAN :
       /\ wgl!WGLn(k, attached) \in WGLInfo
       /\ wgl!WGLn(k, attached).type = "WGLn" /\ wgl!WGLn(k, attached).device = k
  /\ \A k \in Nat :
       /\ wgl!WGL(k) \in WGLInfo
       /\ wgl!WGL(k).type = "WGL" /\ wgl!WGL(k).device = k
  /\ \A id \in Nat :
       /\ wgl!WGLa(id) \in WGLInfo
       /\ wgl!WGLa(id).type = "WGLa" /\ wgl!WGLa(id).device = id
BY DEF wgl!WGLn, wgl!WGL, wgl!WGLa, WGLInfo

\* The monitors that work are counted one by one.
LEMMA WorksStep ==
  ASSUME NEW n \in Nat
  PROVE  /\ Works(n) \in Nat
         /\ Works(0) = 0
         /\ Works(n + 1) = IF driver.monitors[n + 1] THEN Works(n) + 1 ELSE Works(n)
<1>. DEFINE at(m) == {k \in 1 .. m : driver.monitors[k]}
<1>1. IsFiniteSet(at(n))
  <2>1. IsFiniteSet(1 .. n)
    BY FS_Interval
  <2>. QED
    BY <2>1, FS_Subset
<1>2. Cardinality(at(n)) \in Nat
  BY <1>1, FS_CardinalityType
<1>3. at(0) = {}
  OBVIOUS
<1>4. at(n + 1) = IF driver.monitors[n + 1] THEN at(n) \cup {n + 1} ELSE at(n)
  OBVIOUS
<1>5. n + 1 \notin at(n)
  OBVIOUS
<1>6. Cardinality(at(n) \cup {n + 1}) = Cardinality(at(n)) + 1
  BY <1>1, <1>5, FS_AddElement
<1>7. Cardinality({}) = 0
  BY FS_EmptySet
<1>. QED
  BY <1>2, <1>3, <1>4, <1>6, <1>7 DEF Works

\* When the loop over the GPUs has ended they are those of the reference.
LEMMA ReferenceOfGPUs ==
  ASSUME driver \in Drivers, enumGpus, driver.affinity, wglResult \in Seq(WGLInfo),
         NEW n \in Nat, FoundGPUs(n), n + 1 \in DOMAIN wgl!GPUs => ~wgl!GPUs[n + 1].device
  PROVE  wglResult = wgl!Reference
<1>. DEFINE gpus == driver.gpus
<1>1. gpus = wgl!GPUs /\ gpus \in Seq([device : BOOLEAN, attached : BOOLEAN])
  BY DriverTyped
<1>. HIDE DEF gpus
<1>2. /\ n <= Len(gpus) /\ \A k \in 1 .. n : gpus[k].device
      /\ n + 1 \in DOMAIN gpus => ~gpus[n + 1].device
  BY <1>1 DEF FoundGPUs
<1>3. wgl!UpTo(gpus) = 1 .. n
  <2>1. ASSUME NEW k \in DOMAIN gpus, k > n
        PROVE  ~\A l \in 1 .. k : gpus[l].device
    <3>1. n + 1 \in 1 .. k /\ n + 1 \in DOMAIN gpus
      BY <1>1, <2>1
    <3>. QED
      BY <1>2, <3>1
  <2>. QED
    BY <1>1, <1>2, <2>1 DEF wgl!UpTo
<1>4. wgl!Reference = [k \in 1 .. n |-> wgl!WGLn(k - 1, gpus[k].attached)]
  BY <1>3 DEF wgl!Reference, gpus
<1>5. /\ DOMAIN wglResult = 1 .. n
      /\ \A k \in 1 .. n : wglResult[k] = wgl!WGLn(k - 1, gpus[k].attached)
  BY <1>1 DEF FoundGPUs
<1>. QED
  BY <1>4, <1>5

\* ... as are the monitors and the GPUs with an ID.
LEMMA ReferenceOfMonitors ==
  ASSUME driver \in Drivers, ~enumGpus, wglResult \in Seq(WGLInfo),
         NEW m \in Nat, {l \in DOMAIN driver.ids : getGPUIDs} = 1 .. m,
         Len(wglResult) = AllWork + m,
         \A k \in 1 .. AllWork : wglResult[k] = wgl!WGL(k - 1),
         \A k \in 1 .. m : wglResult[AllWork + k] = wgl!WGLa(driver.ids[k])
  PROVE  wglResult = wgl!Reference
<1>. DEFINE first == [k \in 1 .. AllWork |-> wgl!WGL(k - 1)]
            second == [k \in 1 .. m |-> wgl!WGLa(driver.ids[k])]
<1>1. AllWork \in Nat
  <2>1. Len(driver.monitors) \in Nat
    BY DriverTyped
  <2>. QED
    BY <2>1, WorksStep DEF AllWork
<1>2. wgl!Cardinality(wgl!Working(driver.monitors)) = AllWork
  <2>1. wgl!Working(driver.monitors) = {k \in 1 .. Len(driver.monitors) : driver.monitors[k]}
    BY DriverTyped DEF wgl!Working
  <2>2. wgl!Cardinality({k \in 1 .. Len(driver.monitors) : driver.monitors[k]})
          = Cardinality({k \in 1 .. Len(driver.monitors) : driver.monitors[k]})
    BY DEF wgl!Cardinality, Cardinality
  <2>. QED
    BY <2>1, <2>2 DEF AllWork, Works
<1>3. wgl!Reference = first \o second
  BY <1>2 DEF wgl!Reference
<1>4. first \in Seq(WGLInfo) /\ Len(first) = AllWork
  <2>1. \A k \in 1 .. AllWork : k - 1 \in Nat
    BY <1>1
  <2>. QED
    BY <1>1, <2>1, InfosTyped
<1>5. second \in Seq(WGLInfo) /\ Len(second) = m
  <2>1. \A k \in 1 .. m : AllWork + k \in DOMAIN wglResult
    BY <1>1
  <2>2. \A k \in 1 .. m : wgl!WGLa(driver.ids[k]) \in WGLInfo
    BY <2>1
  <2>. QED
    BY <2>2
<1>6. \A k \in 1 .. AllWork : first[k] = wglResult[k]
  OBVIOUS
<1>7. \A k \in 1 .. m : second[k] = wglResult[AllWork + k]
  OBVIOUS
<1>. HIDE DEF first, second
<1>. DEFINE both == first \o second
<1>8. both \in Seq(WGLInfo) /\ Len(both) = AllWork + m
  BY <1>4, <1>5
<1>9. \A k \in 1 .. AllWork : wglResult[k] = both[k]
  BY <1>1, <1>4, <1>5, <1>6
<1>10. \A k \in 1 .. m : wglResult[AllWork + k] = both[AllWork + k]
  <2>1. \A k \in 1 .. m : both[Len(first) + k] = second[k]
    BY <1>4, <1>5
  <2>. QED
    BY <1>4, <1>7, <2>1
<1>. HIDE DEF both
<1>11. ASSUME NEW k \in 1 .. AllWork + m PROVE wglResult[k] = both[k]
  <2>1. k \in 1 .. AllWork \/ (k - AllWork \in 1 .. m /\ AllWork + (k - AllWork) = k)
    BY <1>1
  <2>. QED
    BY <1>9, <1>10, <2>1
<1>12. wglResult = both
  BY <1>1, <1>8, <1>11
<1>. QED
  BY <1>3, <1>12 DEF both

AllFound ==
  /\ (enumGpus => driver.affinity) /\ (getGPUIDs => driver.association) => wglResult = wgl!Reference
  /\ \A k, l \in DOMAIN wglResult :
       wglResult[k].type = wglResult[l].type /\ wglResult[k].device = wglResult[l].device => k = l

\* The ends of the loops.
LEMMA GPUsAreAllFound ==
  ASSUME FoundInv, enumGpus, NEW n \in Nat, FoundGPUs(n),
         n + 1 \in DOMAIN wgl!GPUs => ~wgl!GPUs[n + 1].device
  PROVE  AllFound
<1>1. driver.affinity => wglResult = wgl!Reference
  BY ReferenceOfGPUs DEF FoundInv
<1>2. \A k \in DOMAIN wglResult : wglResult[k].device = k - 1
  <2>1. ASSUME NEW k \in 1 .. n PROVE wgl!GPUs[k].attached \in BOOLEAN
    <3>. DEFINE GPU == [device : BOOLEAN, attached : BOOLEAN]
                gpus == wgl!GPUs
    <3>1. gpus \in Seq(GPU) /\ n <= Len(gpus)
      BY DriverTyped DEF FoundInv, FoundGPUs
    <3>2. gpus[k] \in GPU => gpus[k].attached \in BOOLEAN
      OBVIOUS
    <3>. HIDE DEF GPU, gpus
    <3>3. k \in 1 .. Len(gpus)
      BY <3>1
    <3>4. gpus[k] \in GPU
      BY <3>1, <3>3
    <3>. QED
      BY <3>2, <3>4 DEF gpus
  <2>2. DOMAIN wglResult = 1 .. n
    BY DEF FoundInv, FoundGPUs
  <2>3. ASSUME NEW k \in 1 .. n PROVE wglResult[k].device = k - 1
    <3>1. wglResult[k] = wgl!WGLn(k - 1, wgl!GPUs[k].attached)
      BY DEF FoundGPUs
    <3>. QED
      BY <2>1, <3>1, InfosTyped
  <2>. QED
    BY <2>2, <2>3
<1>3. \A k \in DOMAIN wglResult : k \in Nat
  BY DEF FoundInv
<1>. QED
  BY <1>1, <1>2, <1>3 DEF AllFound

LEMMA MonitorsAreAllFound ==
  ASSUME FoundInv, ~enumGpus, NEW m \in Nat, NEW ids \in Seq(Nat), m <= Len(ids),
         driver.association => ids = driver.ids,
         \A k, l \in DOMAIN ids : ids[k] = ids[l] => k = l,
         getGPUIDs => m = Len(ids), ~getGPUIDs => m = 0,
         Len(wglResult) = AllWork + m,
         \A k \in 1 .. AllWork : wglResult[k] = wgl!WGL(k - 1),
         \A k \in 1 .. m : wglResult[AllWork + k] = wgl!WGLa(ids[k])
  PROVE  AllFound
<1>1. AllWork \in Nat /\ driver \in Drivers /\ wglResult \in Seq(WGLInfo)
  <2>1. Len(driver.monitors) \in Nat
    BY DriverTyped DEF FoundInv
  <2>. QED
    BY <2>1, WorksStep DEF AllWork, FoundInv
<1>2. ASSUME getGPUIDs => driver.association
      PROVE  wglResult = wgl!Reference
  <2>1. {l \in DOMAIN driver.ids : getGPUIDs} = 1 .. m
    <3>1. CASE getGPUIDs
      BY <1>2, <3>1
    <3>2. CASE ~getGPUIDs
      BY <3>2
    <3>. QED
      BY <3>1, <3>2
  <2>2. \A k \in 1 .. m : wglResult[AllWork + k] = wgl!WGLa(driver.ids[k])
    BY <1>2
  <2>. QED
    BY <1>1, <2>1, <2>2, ReferenceOfMonitors
<1>3. ASSUME NEW k \in 1 .. AllWork
      PROVE  wglResult[k].type = "WGL" /\ wglResult[k].device = k - 1
  <2>1. k - 1 \in Nat
    BY <1>1
  <2>. QED
    BY <2>1, InfosTyped
<1>4. ASSUME NEW k \in 1 .. m
      PROVE  wglResult[AllWork + k].type = "WGLa" /\ wglResult[AllWork + k].device = ids[k]
  <2>1. ids[k] \in Nat
    OBVIOUS
  <2>. QED
    BY <2>1, InfosTyped
<1>5. ASSUME NEW k \in DOMAIN wglResult
      PROVE  \/ k \in 1 .. AllWork
             \/ \E l \in 1 .. m : k = AllWork + l
  <2>1. k \in 1 .. AllWork \/ (k - AllWork \in 1 .. m /\ k = AllWork + (k - AllWork))
    BY <1>1
  <2>. QED
    BY <2>1
<1>6. ASSUME NEW k \in DOMAIN wglResult, NEW l \in DOMAIN wglResult,
             wglResult[k].type = wglResult[l].type, wglResult[k].device = wglResult[l].device
      PROVE  k = l
  <2>1. CASE k \in 1 .. AllWork /\ l \in 1 .. AllWork
    <3>1. k - 1 = l - 1
      BY <1>3, <1>6, <2>1
    <3>. QED
      BY <1>1, <2>1, <3>1
  <2>2. CASE k \notin 1 .. AllWork /\ l \notin 1 .. AllWork
    <3>1. PICK a \in 1 .. m : k = AllWork + a
      BY <1>5, <2>2
    <3>2. PICK b \in 1 .. m : l = AllWork + b
      BY <1>5, <2>2
    <3>3. ids[a] = ids[b]
      BY <1>4, <1>6, <3>1, <3>2
    <3>. QED
      BY <3>1, <3>2, <3>3
  <2>3. CASE k \in 1 .. AllWork /\ l \notin 1 .. AllWork
    BY <1>3, <1>4, <1>5, <1>6, <2>3
  <2>4. CASE k \notin 1 .. AllWork /\ l \in 1 .. AllWork
    BY <1>3, <1>4, <1>5, <1>6, <2>4
  <2>. QED
    BY <2>1, <2>2, <2>3, <2>4
<1>. QED
  BY <1>2, <1>6 DEF AllFound

\* One more GPU, monitor or ID.
LEMMA FindGPUStep ==
  ASSUME FoundInv, wgl!FindGPU
  PROVE  /\ wglResult' \in Seq(WGLInfo)
         /\ \A n \in Nat : n = device' - 1 => FoundGPUs(n)'
<1>1. PICK n \in Nat : n = device - 1
  BY DEF FoundInv
<1>2. PICK info : info = wgl!WGLn(n, wgl!GPUs[n + 1].attached)
  OBVIOUS
<1>3. /\ device = n + 1 /\ device' = n + 2 /\ UNCHANGED driver /\ wgl!GPUs' = wgl!GPUs
      /\ n + 1 \in DOMAIN wgl!GPUs /\ wgl!GPUs[n + 1].device
      /\ wglResult \in Seq(WGLInfo) /\ wglResult' = Append(wglResult, info)
      /\ FoundGPUs(n)
  BY <1>1, <1>2 DEF wgl!FindGPU, FoundInv, wgl!GPUs
<1>4. n + 1 <= Len(wgl!GPUs) /\ info \in WGLInfo
  <2>. DEFINE GPU == [device : BOOLEAN, attached : BOOLEAN]
              gpus == wgl!GPUs
  <2>1. gpus \in Seq(GPU) /\ n + 1 \in DOMAIN gpus
    BY <1>3, DriverTyped DEF FoundInv
  <2>2. gpus[n + 1] \in GPU => gpus[n + 1].attached \in BOOLEAN
    OBVIOUS
  <2>. HIDE DEF GPU, gpus
  <2>3. gpus[n + 1] \in GPU /\ n + 1 <= Len(gpus)
    BY <2>1
  <2>. QED
    BY <1>2, <2>2, <2>3, InfosTyped DEF gpus
<1>5. /\ wglResult' \in Seq(WGLInfo) /\ Len(wglResult') = n + 1
      /\ \A k \in 1 .. n : wglResult'[k] = wglResult[k]
      /\ wglResult'[n + 1] = info
  BY <1>3, <1>4 DEF FoundGPUs
<1>6. ASSUME NEW k \in 1 .. n + 1
      PROVE  wgl!GPUs[k].device /\ wglResult'[k] = wgl!WGLn(k - 1, wgl!GPUs[k].attached)
  <2>1. CASE k = n + 1
    BY <1>2, <1>3, <1>5, <2>1
  <2>2. CASE k \in 1 .. n
    BY <1>3, <1>5, <2>2 DEF FoundGPUs
  <2>. QED
    BY <2>1, <2>2
<1>7. ASSUME NEW m \in Nat, m = device' - 1 PROVE FoundGPUs(m)'
  <2>0. m = n + 1
    BY <1>3, <1>7
  <2>1. \A k : wgl!WGLn(k - 1, wgl!GPUs[k].attached)' = wgl!WGLn(k - 1, wgl!GPUs[k].attached)
    BY <1>3 DEF wgl!WGLn
  <2>2. n + 1 <= Len(wgl!GPUs)'
    BY <1>3, <1>4
  <2>3. \A k \in 1 .. n + 1 : wgl!GPUs'[k].device
    BY <1>3, <1>6
  <2>4. \A k \in 1 .. n + 1 : wglResult'[k] = wgl!WGLn(k - 1, wgl!GPUs[k].attached)'
    BY <1>6, <2>1
  <2>. QED
    BY <1>5, <2>0, <2>2, <2>3, <2>4 DEF FoundGPUs
<1>. QED
  BY <1>5, <1>7

LEMMA FindMonitorStep ==
  ASSUME FoundInv, wgl!EnumDispProc, FoundMonitors(device - 1)
  PROVE  /\ wglResult' \in Seq(WGLInfo)
         /\ \A n \in Nat : n = device' - 1 => FoundMonitors(n)'
<1>1. PICK n \in Nat : n = device - 1
  BY DEF FoundInv
<1>2. PICK w \in Nat : w = Works(n)
  BY WorksStep
<1>3. /\ device = n + 1 /\ device' = n + 2 /\ UNCHANGED driver
      /\ wglResult \in Seq(WGLInfo) /\ Len(wglResult) = w
      /\ wglResult' = IF driver.monitors[n + 1] THEN Append(wglResult, wgl!WGL(w)) ELSE wglResult
      /\ \A k \in 1 .. w : wglResult[k] = wgl!WGL(k - 1)
  BY <1>1, <1>2 DEF wgl!EnumDispProc, FoundInv, FoundMonitors
<1>4. n + 1 <= Len(driver.monitors)
  <2>1. driver.monitors \in Seq(BOOLEAN) /\ n + 1 \in DOMAIN driver.monitors
    BY <1>3, DriverTyped DEF FoundInv, wgl!EnumDispProc
  <2>. QED
    BY <2>1
<1>5. PICK v \in Nat : v = Works(n + 1)
  BY WorksStep
<1>6. v = (IF driver.monitors[n + 1] THEN w + 1 ELSE w) /\ Works(n + 1)' = v
  <2>1. Works(n + 1)' = Works(n + 1)
    BY <1>3 DEF Works
  <2>. QED
    BY <1>2, <1>5, <2>1, WorksStep
<1>7. wgl!WGL(w) \in WGLInfo
  BY InfosTyped
<1>8. /\ wglResult' \in Seq(WGLInfo) /\ Len(wglResult') = v
      /\ \A k \in 1 .. v : wglResult'[k] = wgl!WGL(k - 1)
  <2>1. CASE driver.monitors[n + 1]
    <3>1. wglResult' = Append(wglResult, wgl!WGL(w)) /\ v = w + 1
      BY <1>3, <1>6, <2>1
    <3>2. wglResult'[w + 1] = wgl!WGL(w) /\ (w + 1) - 1 = w
      BY <1>3, <3>1
    <3>3. \A k \in 1 .. w : wglResult'[k] = wgl!WGL(k - 1)
      BY <1>3, <3>1
    <3>4. wglResult' \in Seq(WGLInfo) /\ Len(wglResult') = v
      BY <1>3, <1>7, <3>1
    <3>5. \A k \in 1 .. v : k \in 1 .. w \/ k = w + 1
      BY <3>1
    <3>. QED
      BY <3>2, <3>3, <3>4, <3>5
  <2>2. CASE ~driver.monitors[n + 1]
    BY <1>3, <1>6, <2>2
  <2>. QED
    BY <2>1, <2>2
<1>9. FoundMonitors(n + 1)'
  BY <1>3, <1>4, <1>6, <1>8 DEF FoundMonitors, wgl!WGL
<1>. QED
  BY <1>1, <1>3, <1>8, <1>9

LEMMA FindIDStep ==
  ASSUME FoundInv, wgl!FindID, FoundIDs(device - 1)
  PROVE  /\ wglResult' \in Seq(WGLInfo)
         /\ \A n \in Nat : n = device' - 1 => FoundIDs(n)'
<1>1. PICK n \in Nat : n = device - 1
  BY DEF FoundInv
<1>2. PICK w \in Nat : w = AllWork
  <2>1. Len(driver.monitors) \in Nat
    BY DriverTyped DEF FoundInv
  <2>. QED
    BY <2>1, WorksStep DEF AllWork
<1>3. PICK info : info = wgl!WGLa(wgl!IDs[n + 1])
  OBVIOUS
<1>4. /\ device = n + 1 /\ device' = n + 2 /\ UNCHANGED driver
      /\ AllWork' = w /\ wgl!IDs' = wgl!IDs
      /\ wglResult \in Seq(WGLInfo) /\ wglResult' = Append(wglResult, info)
      /\ FoundIDs(n)
  BY <1>1, <1>2, <1>3 DEF wgl!FindID, FoundInv, wgl!IDs, AllWork, Works
<1>5. n + 1 <= Len(wgl!IDs) /\ info \in WGLInfo
  <2>1. wgl!IDs \in Seq(Nat) /\ n + 1 \in DOMAIN wgl!IDs
    BY <1>4, DriverTyped DEF FoundInv, wgl!FindID
  <2>2. wgl!IDs[n + 1] \in Nat /\ n + 1 <= Len(wgl!IDs)
    BY <2>1
  <2>. QED
    BY <1>3, <2>2, InfosTyped
<1>6. /\ wglResult' \in Seq(WGLInfo) /\ Len(wglResult') = w + (n + 1)
      /\ \A k \in 1 .. w + n : wglResult'[k] = wglResult[k]
      /\ wglResult'[w + (n + 1)] = info
  <2>1. Len(wglResult) = w + n
    BY <1>2, <1>4 DEF FoundIDs
  <2>2. PICK m \in Nat : m = w + n
    BY <1>2
  <2>3. /\ wglResult' \in Seq(WGLInfo) /\ Len(wglResult') = m + 1
        /\ \A k \in 1 .. m : wglResult'[k] = wglResult[k]
        /\ wglResult'[m + 1] = info
    BY <1>4, <1>5, <2>1, <2>2
  <2>. QED
    BY <2>2, <2>3
<1>7. ASSUME NEW k \in 1 .. w
      PROVE  wglResult'[k] = wgl!WGL(k - 1)
  BY <1>2, <1>4, <1>6 DEF FoundIDs
<1>8. ASSUME NEW k \in 1 .. n + 1
      PROVE  wglResult'[w + k] = wgl!WGLa(wgl!IDs[k])
  <2>1. CASE k = n + 1
    BY <1>3, <1>6, <2>1
  <2>2. CASE k \in 1 .. n
    BY <1>2, <1>4, <1>6, <2>2 DEF FoundIDs
  <2>. QED
    BY <2>1, <2>2
<1>9. FoundIDs(n + 1)'
  BY <1>4, <1>5, <1>6, <1>7, <1>8 DEF FoundIDs, wgl!WGL, wgl!WGLa
<1>. QED
  BY <1>1, <1>4, <1>6, <1>9

\* What is found stays found while the driver and the functions stay.
LEMMA FoundStays ==
  ASSUME UNCHANGED <<driver, enumGpus, getGPUIDs, wglResult>>
  PROVE  /\ AllFound <=> AllFound'
         /\ \A n \in Nat : FoundGPUs(n) => FoundGPUs(n)'
         /\ \A n \in Nat : FoundMonitors(n) => FoundMonitors(n)'
         /\ \A n \in Nat : FoundIDs(n) => FoundIDs(n)'
<1>1. /\ wgl!GPUs' = wgl!GPUs /\ wgl!IDs' = wgl!IDs /\ wgl!Reference' = wgl!Reference
      /\ \A n : Works(n)' = Works(n)
      /\ AllWork' = AllWork
  BY DEF wgl!GPUs, wgl!IDs, wgl!Reference, Works, AllWork
<1>2. AllFound <=> AllFound'
  BY <1>1 DEF AllFound
<1>3. ASSUME NEW n \in Nat
      PROVE  /\ FoundGPUs(n) => FoundGPUs(n)'
             /\ FoundMonitors(n) => FoundMonitors(n)'
             /\ FoundIDs(n) => FoundIDs(n)'
  BY <1>1 DEF FoundGPUs, FoundMonitors, FoundIDs, wgl!WGL, wgl!WGLa, wgl!WGLn
<1>. QED
  BY <1>2, <1>3

\* Every step of the wgl module keeps what is found.
LEMMA FoundStep ==
  ASSUME ReleaseInv, FoundInv, [wgl!Next]_wglVars
  PROVE  FoundInv'
<1>0. wgl!GPUsFound <=>
        (wglPc = "returned" /\ failed = "none" => AllFound) /\ (failed # "none" => wglResult = << >>)
  BY DEF wgl!GPUsFound, AllFound
<1>1. ASSUME wglPc' # "returned", failed' # "none" => wglResult' = << >>
      PROVE  wgl!GPUsFound'
  BY <1>1 DEF wgl!GPUsFound
<1>2. UNCHANGED <<driver, enumGpus, getGPUIDs, wglResult>> =>
        /\ AllFound <=> AllFound'
        /\ \A n \in Nat : FoundGPUs(n) => FoundGPUs(n)'
        /\ \A n \in Nat : FoundMonitors(n) => FoundMonitors(n)'
        /\ \A n \in Nat : FoundIDs(n) => FoundIDs(n)'
  BY FoundStays
<1>3. CASE wgl!Discover
  <2>1. /\ driver' \in Drivers /\ wglPc' = "acquire" /\ failed = "none"
        /\ UNCHANGED <<enumGpus, getGPUIDs, failed, device, wglResult>>
    BY <1>3 DEF wgl!Discover, wgl!staticVars, ReleaseInv
  <2>. QED
    BY <1>1, <2>1 DEF FoundInv
<1>4. CASE wgl!Acquire \/ wgl!AcquisitionFails \/ wgl!LoadFunctions \/ wgl!Release
  <2>1. /\ wglPc' \in {"acquire", "release"} /\ wglResult = << >> /\ device = 1
        /\ UNCHANGED <<driver, device, wglResult>>
        /\ enumGpus' \in BOOLEAN /\ getGPUIDs' \in BOOLEAN
    <3>1. CASE wgl!LoadFunctions
      <4>1. enumGpus' \in BOOLEAN /\ getGPUIDs' \in BOOLEAN
        BY Zenon, <3>1 DEF wgl!LoadFunctions
      <4>. QED
        BY <3>1, <4>1 DEF wgl!LoadFunctions, ReleaseInv
    <3>2. CASE wgl!Acquire \/ wgl!AcquisitionFails \/ wgl!Release
      BY <3>2 DEF wgl!Acquire, wgl!AcquisitionFails, wgl!Release, wgl!staticVars, ReleaseInv, FoundInv
    <3>. QED
      BY <1>4, <3>1, <3>2
  <2>2. wgl!GPUsFound'
    BY <1>1, <2>1
  <2>. QED
    BY <2>1, <2>2 DEF FoundInv
<1>5. CASE wgl!EndRelease
  <2>1. /\ wglPc' = (IF failed # "none" THEN "returned" ELSE IF enumGpus THEN "affinity" ELSE "display")
        /\ UNCHANGED <<driver, enumGpus, getGPUIDs, failed, device, wglResult>>
        /\ wglResult = << >> /\ device = 1
    BY <1>5 DEF wgl!EndRelease, wgl!staticVars, wgl!tempVars, ReleaseInv, FoundInv
  <2>2. FoundGPUs(0)
    <3>1. Len(wgl!GPUs) \in Nat
      BY DriverTyped DEF FoundInv
    <3>. QED
      BY <2>1, <3>1 DEF FoundGPUs
  <2>3. FoundMonitors(0)
    <3>1. Len(driver.monitors) \in Nat
      BY DriverTyped DEF FoundInv
    <3>2. Works(0) = 0
      BY WorksStep
    <3>. QED
      BY <2>1, <3>1, <3>2 DEF FoundMonitors
  <2>4. FoundGPUs(device - 1)' /\ FoundMonitors(device - 1)'
    <3>1. device' - 1 = 0 /\ 0 \in Nat
      BY <2>1
    <3>2. FoundGPUs(0)' /\ FoundMonitors(0)'
      BY <1>2, <2>1, <2>2, <2>3, <3>1
    <3>. QED
      BY <3>1, <3>2
  <2>5. wgl!GPUsFound'
    BY <2>1 DEF wgl!GPUsFound
  <2>. QED
    BY <2>1, <2>4, <2>5 DEF FoundInv
<1>6. CASE wgl!FindGPU
  <2>1. /\ wglPc = "affinity" /\ device' = device + 1
        /\ UNCHANGED <<driver, enumGpus, getGPUIDs, wglPc, failed>>
    BY <1>6 DEF wgl!FindGPU, wgl!staticVars, wgl!tempVars
  <2>2. device' - 1 \in Nat /\ device' \in Nat \ {0}
    BY <2>1 DEF FoundInv
  <2>3. wglResult' \in Seq(WGLInfo) /\ FoundGPUs(device - 1)'
    BY <1>6, <2>2, FindGPUStep
  <2>4. wgl!GPUsFound'
    BY <1>1, <2>1 DEF ReleaseInv
  <2>. QED
    BY <2>1, <2>2, <2>3, <2>4 DEF FoundInv
<1>7. CASE wgl!EnumDispProc
  <2>1. /\ wglPc = "display" /\ device' = device + 1
        /\ UNCHANGED <<driver, enumGpus, getGPUIDs, wglPc, failed>>
    BY <1>7 DEF wgl!EnumDispProc, wgl!staticVars, wgl!tempVars
  <2>2. device' - 1 \in Nat /\ device' \in Nat \ {0}
    BY <2>1 DEF FoundInv
  <2>3. wglResult' \in Seq(WGLInfo) /\ FoundMonitors(device - 1)'
    BY <1>7, <2>1, <2>2, FindMonitorStep DEF FoundInv
  <2>4. wgl!GPUsFound'
    BY <1>1, <2>1 DEF ReleaseInv
  <2>. QED
    BY <2>1, <2>2, <2>3, <2>4 DEF FoundInv
<1>8. CASE wgl!FindID
  <2>1. /\ wglPc = "association" /\ device' = device + 1
        /\ UNCHANGED <<driver, enumGpus, getGPUIDs, wglPc, failed>>
    BY <1>8 DEF wgl!FindID, wgl!staticVars, wgl!tempVars
  <2>2. device' - 1 \in Nat /\ device' \in Nat \ {0}
    BY <2>1 DEF FoundInv
  <2>3. wglResult' \in Seq(WGLInfo) /\ FoundIDs(device - 1)'
    BY <1>8, <2>1, <2>2, FindIDStep DEF FoundInv
  <2>4. wgl!GPUsFound'
    BY <1>1, <2>1 DEF ReleaseInv
  <2>. QED
    BY <2>1, <2>2, <2>3, <2>4 DEF FoundInv
<1>9. CASE wgl!EndAffinity
  <2>1. /\ wglPc = "affinity" /\ wglPc' = "returned"
        /\ device \in DOMAIN wgl!GPUs => ~wgl!GPUs[device].device
        /\ UNCHANGED <<driver, enumGpus, getGPUIDs, failed, device, wglResult>>
    BY <1>9 DEF wgl!EndAffinity, wgl!staticVars, wgl!tempVars
  <2>2. PICK n \in Nat : device = n + 1 /\ FoundGPUs(n) /\ enumGpus
    <3>1. device - 1 \in Nat /\ device = (device - 1) + 1
      BY DEF FoundInv
    <3>. QED
      BY <2>1, <3>1 DEF FoundInv
  <2>3. AllFound
    BY <2>1, <2>2, GPUsAreAllFound
  <2>4. wgl!GPUsFound'
    BY <1>2, <2>1, <2>3 DEF wgl!GPUsFound, AllFound, FoundInv
  <2>. QED
    BY <2>1, <2>4 DEF FoundInv
<1>10. CASE wgl!EndDisplay
  <2>1. /\ wglPc = "display" /\ device > Len(driver.monitors) /\ device' = 1
        /\ wglPc' = IF getGPUIDs THEN "association" ELSE "returned"
        /\ UNCHANGED <<driver, enumGpus, getGPUIDs, failed, wglResult>>
    BY <1>10 DEF wgl!EndDisplay, wgl!AlsoAsksForIDs, wgl!staticVars, wgl!tempVars
  <2>2. driver.monitors \in Seq(BOOLEAN) /\ wgl!IDs \in Seq(Nat)
    BY DriverTyped DEF FoundInv
  <2>3. /\ ~enumGpus /\ Len(wglResult) = AllWork
        /\ \A k \in 1 .. AllWork : wglResult[k] = wgl!WGL(k - 1)
    <3>1. FoundMonitors(device - 1) /\ ~enumGpus /\ device \in Nat \ {0}
      BY <2>1 DEF FoundInv
    <3>2. device - 1 <= Len(driver.monitors) /\ Len(driver.monitors) \in Nat
      BY <2>2, <3>1 DEF FoundMonitors
    <3>3. device - 1 = Len(driver.monitors)
      BY <2>1, <3>1, <3>2
    <3>. QED
      BY <3>1, <3>3 DEF FoundMonitors, AllWork
  <2>4. AllWork \in Nat
    <3>1. Len(driver.monitors) \in Nat
      BY <2>2
    <3>. QED
      BY <3>1, WorksStep DEF AllWork
  <2>5. CASE getGPUIDs
    <3>1. FoundIDs(0)
      BY <2>2, <2>3, <2>4 DEF FoundIDs
    <3>2. device' - 1 = 0 /\ 0 \in Nat
      BY <2>1
    <3>3. FoundIDs(0)'
      BY <1>2, <2>1, <3>1, <3>2
    <3>4. wgl!GPUsFound'
      BY <1>1, <2>1, <2>5 DEF ReleaseInv
    <3>. QED
      BY <2>1, <2>3, <2>5, <3>2, <3>3, <3>4 DEF FoundInv
  <2>6. CASE ~getGPUIDs
    <3>. DEFINE ids == wgl!IDs
                m == 0
    <3>1. /\ ids \in Seq(Nat) /\ m \in Nat /\ m <= Len(ids)
          /\ driver.association => ids = driver.ids
          /\ \A k, l \in DOMAIN ids : ids[k] = ids[l] => k = l
      BY <2>2, DriverTyped DEF FoundInv
    <3>2. /\ Len(wglResult) = AllWork + m
          /\ \A k \in 1 .. AllWork : wglResult[k] = wgl!WGL(k - 1)
          /\ \A k \in 1 .. m : wglResult[AllWork + k] = wgl!WGLa(ids[k])
      BY <2>3, <2>4
    <3>3. AllFound
      <4>1. getGPUIDs => m = Len(ids)
        BY <2>6
      <4>2. ~getGPUIDs => m = 0
        OBVIOUS
      <4>. HIDE DEF ids, m
      <4>. QED
        BY <2>3, <3>1, <3>2, <4>1, <4>2, MonitorsAreAllFound
    <3>4. wgl!GPUsFound'
      BY <1>2, <2>1, <3>3 DEF wgl!GPUsFound, AllFound, ReleaseInv
    <3>. QED
      BY <2>1, <2>6, <3>4 DEF FoundInv
  <2>. QED
    BY <2>5, <2>6
<1>11. CASE wgl!EndAssociation
  <2>1. /\ wglPc = "association" /\ device > Len(wgl!IDs) /\ wglPc' = "returned"
        /\ UNCHANGED <<driver, enumGpus, getGPUIDs, failed, device, wglResult>>
    BY <1>11 DEF wgl!EndAssociation, wgl!staticVars, wgl!tempVars
  <2>2. wgl!IDs \in Seq(Nat) /\ Len(wgl!IDs) \in Nat
    BY DriverTyped DEF FoundInv
  <2>3. /\ ~enumGpus /\ getGPUIDs /\ FoundIDs(Len(wgl!IDs))
    <3>1. FoundIDs(device - 1) /\ ~enumGpus /\ getGPUIDs /\ device \in Nat \ {0}
      BY <2>1 DEF FoundInv
    <3>2. device - 1 = Len(wgl!IDs)
      BY <2>1, <2>2, <3>1 DEF FoundIDs
    <3>. QED
      BY <3>1, <3>2
  <2>4. AllFound
    <3>. DEFINE ids == wgl!IDs
                m == Len(ids)
    <3>1. /\ ids \in Seq(Nat) /\ m \in Nat /\ m <= Len(ids)
          /\ driver.association => ids = driver.ids
          /\ \A k, l \in DOMAIN ids : ids[k] = ids[l] => k = l
      BY <2>2, DriverTyped DEF FoundInv
    <3>2. /\ Len(wglResult) = AllWork + m
          /\ \A k \in 1 .. AllWork : wglResult[k] = wgl!WGL(k - 1)
          /\ \A k \in 1 .. m : wglResult[AllWork + k] = wgl!WGLa(ids[k])
      BY <2>3 DEF FoundIDs
    <3>. HIDE DEF ids
    <3>. QED
      BY <2>3, <3>1, <3>2, MonitorsAreAllFound
  <2>5. wgl!GPUsFound'
    BY <1>2, <2>1, <2>4 DEF wgl!GPUsFound, AllFound, ReleaseInv
  <2>. QED
    BY <2>1, <2>5 DEF FoundInv
<1>12. CASE wgl!Done
  BY <1>12 DEF wgl!Done, wgl!staticVars, FoundInv, wgl!GPUsFound
<1>13. CASE UNCHANGED wglVars
  <2>1. UNCHANGED <<driver, enumGpus, getGPUIDs, wglPc, failed, device, wglResult>>
    BY <1>13 DEF wglVars
  <2>2. wgl!GPUsFound'
    BY <1>2, <2>1 DEF FoundInv, wgl!GPUsFound, AllFound
  <2>3. device \in Nat \ {0} => device - 1 \in Nat /\ device' - 1 = device - 1
    BY <2>1
  <2>. QED
    BY <1>2, <2>1, <2>2, <2>3 DEF FoundInv
<1>. QED
  BY <1>3, <1>4, <1>5, <1>6, <1>7, <1>8, <1>9, <1>10, <1>11, <1>12, <1>13 DEF wgl!Next, wgl!Step

(* Whichever driver a call meets, it finds the GPUs the functions enumerate,   *)
(* or else the monitors and the GPUs with an ID, and none twice                *)
(* (gpu/wgl/module.cpp:181-298).                                             *)
THEOREM GPUsAreFound == LocalSpec => []GPUsFound
<1>1. LocalInit => ReleaseInv /\ FoundInv
  <2>. SUFFICES ASSUME wgl!Init PROVE ReleaseInv /\ FoundInv
    BY DEF LocalInit
  <2>1. ReleaseInv
    BY DEF wgl!Init, ReleaseInv, GainedBefore, wgl!Released
  <2>2. FoundInv
    <3>1. driver \in Drivers /\ wglPc = "idle" /\ device = 1
      BY DEF wgl!Init
    <3>2. enumGpus \in BOOLEAN /\ getGPUIDs \in BOOLEAN
      BY Zenon DEF wgl!Init
    <3>3. wglResult = << >> /\ failed = "none"
      BY DEF wgl!Init
    <3>. QED
      BY <3>1, <3>2, <3>3 DEF FoundInv, wgl!GPUsFound
  <2>. QED
    BY <2>1, <2>2
<1>2. ReleaseInv /\ FoundInv /\ [LocalNext]_allVars => (ReleaseInv /\ FoundInv)'
  <2>1. [LocalNext]_allVars => [wgl!Next]_wglVars
    BY DEF LocalNext, Alone, allVars
  <2>. QED
    BY <2>1, ReleaseStep, FoundStep
<1>3. FoundInv => GPUsFound
  BY DEF FoundInv, GPUsFound
<1>. QED
  BY <1>1, <1>2, <1>3, PTL DEF LocalSpec

-------------------------------------------------------------------------------
(* sys: what the addresses of an interface say of it.                       *)

Types == {"ETHERNET", "INFINIBAND", "LOOPBACK", "UNKNOWN"}

NetInfo ==
  [type : Types, up : BOOLEAN, hostname : Answer, hwAddress : Answer,
   inetAddress : Answer, inet6Address : Answer, linkspeed : Answer]

\* Infos of the same fields are the same.
LEMMA SameInfo ==
  ASSUME NEW a \in NetInfo, NEW b \in NetInfo,
         a.type = b.type, a.up = b.up, a.hostname = b.hostname, a.hwAddress = b.hwAddress,
         a.inetAddress = b.inetAddress, a.inet6Address = b.inet6Address, a.linkspeed = b.linkspeed
  PROVE  a = b
BY DEF NetInfo

\* The type of any hardware.
LEMMA TypeIsType ==
  ASSUME NEW hatype
  PROVE  net!Type(hatype) \in Types
BY DEF net!Type, Types

LEMMA NewInfoIs ==
  LET new == net!NewInfo IN
    /\ new \in NetInfo
    /\ new.type = "UNKNOWN" /\ new.up = FALSE /\ new.hostname = Unset /\ new.hwAddress = Unset
    /\ new.inetAddress = Unset /\ new.inet6Address = Unset /\ new.linkspeed = Unset
BY DEF net!NewInfo, NetInfo, Types, Answer

\* The last of some positions behind which there is one more.
LEMMA LastIsNew ==
  ASSUME NEW list, NEW n \in Nat, NEW some \in SUBSET (1 .. n)
  PROVE  net!LastOf(list, some \cup {n + 1}) = list[n + 1]
<1>1. \A k \in some : k \in Nat /\ k <= n
  OBVIOUS
<1>. DEFINE all == some \cup {n + 1}
            isLast(k) == \A l \in all : l <= k
            last == CHOOSE k \in all : isLast(k)
<1>2. n + 1 \in all /\ isLast(n + 1) /\ \A k \in all : k \in Nat
  BY <1>1
<1>3. last \in all /\ isLast(last)
  <2>. HIDE DEF all, isLast
  <2>. QED
    BY <1>2
<1>4. last = n + 1
  <2>. HIDE DEF last
  <2>. QED
    BY <1>1, <1>2, <1>3
<1>. QED
  BY <1>4 DEF net!LastOf

\* What an address adds to an info, field by field.
LEMMA AddedIs ==
  ASSUME NEW info \in NetInfo, NEW a,
         a.up \in BOOLEAN /\ a.number \in Answer /\ a.host \in Answer
  PROVE  LET new == net!Added(info, a) IN
           /\ new \in NetInfo
           /\ new.up = a.up /\ new.linkspeed = info.linkspeed
           /\ new.type = IF a.family = "PACKET" THEN net!Type(a.host) ELSE info.type
           /\ new.hwAddress = IF a.family = "PACKET" THEN a.number ELSE info.hwAddress
           /\ new.hostname = IF a.family = "INET" /\ a.host # Unset THEN a.host ELSE info.hostname
           /\ new.inetAddress =
                IF a.family = "INET" /\ a.number # Unset THEN a.number ELSE info.inetAddress
           /\ new.inet6Address =
                IF a.family = "INET6" /\ a.number # Unset THEN a.number ELSE info.inet6Address
<1>1. net!Type(a.host) \in Types
  BY TypeIsType
<1>2. CASE a.family = "INET"
  BY <1>2 DEF net!Added, net!IfSet, NetInfo
<1>3. CASE a.family = "INET6"
  BY <1>3 DEF net!Added, net!IfSet, NetInfo
<1>4. CASE a.family = "PACKET"
  BY <1>1, <1>4 DEF net!Added, NetInfo
<1>5. CASE a.family \notin {"INET", "INET6", "PACKET"}
  BY <1>5 DEF net!Added, NetInfo
<1>. QED
  BY <1>2, <1>3, <1>4, <1>5

\* What one more address says is what it adds.
LEMMA SaidIsAdded ==
  ASSUME NEW n \in Nat, NEW some \in SUBSET (1 .. n), net!Said(some) \in NetInfo,
         NEW a \in Address, ifaddr[n + 1] = a
  PROVE  /\ net!Said(some \cup {n + 1}) = net!Added(net!Said(some), a)
         /\ net!Said(some \cup {n + 1}) \in NetInfo
<1>. DEFINE all == some \cup {n + 1}
            old == net!Said(some)
            new == net!Said(all)
            added == net!Added(old, a)
<1>1. a.up \in BOOLEAN /\ a.number \in Answer /\ a.host \in Answer
  BY InterfacesAssumption
<1>2. \A family : /\ net!OfFamily(family, some) \in SUBSET (1 .. n)
                  /\ net!OfFamily(family, all) =
                       IF a.family = family THEN net!OfFamily(family, some) \cup {n + 1}
                       ELSE net!OfFamily(family, some)
  BY DEF net!OfFamily
<1>3. \A family : /\ net!Numbered(family, some) \in SUBSET (1 .. n)
                  /\ net!Numbered(family, all) =
                       IF a.family = family /\ a.number # Unset
                       THEN net!Numbered(family, some) \cup {n + 1}
                       ELSE net!Numbered(family, some)
  BY DEF net!OfFamily, net!Numbered
<1>4. /\ net!Named(some) \in SUBSET (1 .. n)
      /\ net!Named(all) = IF a.family = "INET" /\ a.host # Unset
                          THEN net!Named(some) \cup {n + 1} ELSE net!Named(some)
  BY DEF net!OfFamily, net!Named
<1>5. ASSUME NEW part \in SUBSET (1 .. n)
      PROVE  /\ net!LastOf(ifaddr, part \cup {n + 1}) = a
             /\ net!Number(part \cup {n + 1}) = a.number
             /\ net!Host(part \cup {n + 1}) = a.host
             /\ part \cup {n + 1} # {}
  <2>1. net!LastOf(ifaddr, part \cup {n + 1}) = a
    BY LastIsNew
  <2>. QED
    BY <2>1 DEF net!Number, net!Host
<1>6. /\ old.up = (IF some = {} THEN FALSE ELSE net!LastOf(ifaddr, some).up)
      /\ old.type = (IF net!OfFamily("PACKET", some) = {} THEN "UNKNOWN"
                     ELSE net!Type(net!Host(net!OfFamily("PACKET", some))))
      /\ old.hostname = net!Host(net!Named(some))
      /\ old.hwAddress = net!Number(net!OfFamily("PACKET", some))
      /\ old.inetAddress = net!Number(net!Numbered("INET", some))
      /\ old.inet6Address = net!Number(net!Numbered("INET6", some))
      /\ old.linkspeed = Unset
  BY DEF net!Said
<1>7. /\ new.up = (IF all = {} THEN FALSE ELSE net!LastOf(ifaddr, all).up)
      /\ new.type = (IF net!OfFamily("PACKET", all) = {} THEN "UNKNOWN"
                     ELSE net!Type(net!Host(net!OfFamily("PACKET", all))))
      /\ new.hostname = net!Host(net!Named(all))
      /\ new.hwAddress = net!Number(net!OfFamily("PACKET", all))
      /\ new.inetAddress = net!Number(net!Numbered("INET", all))
      /\ new.inet6Address = net!Number(net!Numbered("INET6", all))
      /\ new.linkspeed = Unset
  BY DEF net!Said
<1>8. /\ added \in NetInfo
      /\ added.up = a.up /\ added.linkspeed = old.linkspeed
      /\ added.type = (IF a.family = "PACKET" THEN net!Type(a.host) ELSE old.type)
      /\ added.hwAddress = (IF a.family = "PACKET" THEN a.number ELSE old.hwAddress)
      /\ added.hostname = (IF a.family = "INET" /\ a.host # Unset THEN a.host ELSE old.hostname)
      /\ added.inetAddress =
           (IF a.family = "INET" /\ a.number # Unset THEN a.number ELSE old.inetAddress)
      /\ added.inet6Address =
           (IF a.family = "INET6" /\ a.number # Unset THEN a.number ELSE old.inet6Address)
  BY <1>1, AddedIs
<1>. HIDE DEF new, old, added, all
<1>9. new.up = added.up /\ new.linkspeed = added.linkspeed
  BY <1>5, <1>6, <1>7, <1>8 DEF all
<1>10. new.type = added.type /\ new.hwAddress = added.hwAddress
  <2>. DEFINE part == net!OfFamily("PACKET", some)
  <2>1. /\ part \in SUBSET (1 .. n)
        /\ net!OfFamily("PACKET", all) = IF a.family = "PACKET" THEN part \cup {n + 1} ELSE part
    BY <1>2
  <2>2. /\ net!Number(part \cup {n + 1}) = a.number
        /\ net!Host(part \cup {n + 1}) = a.host
        /\ part \cup {n + 1} # {}
    BY <1>5, <2>1
  <2>. HIDE DEF part
  <2>3. CASE a.family = "PACKET"
    BY <1>7, <1>8, <2>1, <2>2, <2>3
  <2>4. CASE a.family # "PACKET"
    BY <1>6, <1>7, <1>8, <2>1, <2>4 DEF part
  <2>. QED
    BY <2>3, <2>4
<1>11. new.inetAddress = added.inetAddress /\ new.inet6Address = added.inet6Address
  <2>1. \A family : net!Number(net!Numbered(family, all)) =
                     IF a.family = family /\ a.number # Unset THEN a.number
                     ELSE net!Number(net!Numbered(family, some))
    <3>1. ASSUME NEW family PROVE net!Number(net!Numbered(family, some) \cup {n + 1}) = a.number
      BY <1>3, <1>5
    <3>. QED
      BY <1>3, <3>1
  <2>. QED
    BY <1>6, <1>7, <1>8, <2>1
<1>12. new.hostname = added.hostname
  <2>. DEFINE part == net!Named(some)
  <2>1. /\ part \in SUBSET (1 .. n)
        /\ net!Named(all) = IF a.family = "INET" /\ a.host # Unset THEN part \cup {n + 1} ELSE part
    BY <1>4 DEF all
  <2>2. net!Host(part \cup {n + 1}) = a.host
    BY <1>5, <2>1
  <2>3. net!Host(part) = old.hostname
    BY <1>6
  <2>. HIDE DEF part
  <2>. QED
    BY <1>7, <1>8, <2>1, <2>2, <2>3
<1>13. new \in NetInfo
  <2>1. /\ added.type \in Types /\ added.up \in BOOLEAN /\ added.hostname \in Answer
        /\ added.hwAddress \in Answer /\ added.inetAddress \in Answer
        /\ added.inet6Address \in Answer /\ added.linkspeed \in Answer
    BY <1>8 DEF NetInfo
  <2>2. /\ new.type \in Types /\ new.up \in BOOLEAN /\ new.hostname \in Answer
        /\ new.hwAddress \in Answer /\ new.inetAddress \in Answer
        /\ new.inet6Address \in Answer /\ new.linkspeed \in Answer
    BY <1>9, <1>10, <1>11, <1>12, <2>1
  <2>. QED
    BY <2>2 DEF new, NetInfo, net!Said
<1>14. new = added
  BY <1>8, <1>9, <1>10, <1>11, <1>12, <1>13, SameInfo
<1>. QED
  BY <1>13, <1>14 DEF new, old, added, all

Inet(a, positions) == {k \in positions : a.addresses[k].family = "INET"}

LastNumber(a, some) == IF some = {} THEN Unset ELSE net!LastOf(a.addresses, some).number

\* An adapter, field by field.
LEMMA AdapterIs ==
  ASSUME NEW a \in Adapter
  PROVE  /\ net!OfAdapter(a) \in NetInfo
         /\ net!OfAdapter(a).inetAddress = Unset /\ net!OfAdapter(a).inet6Address = Unset
<1>1. a.up \in BOOLEAN /\ a.hwAddress \in Answer /\ a.linkspeed \in Answer
  BY InterfacesAssumption
<1>2. ASSUME NEW new \in NetInfo, new.inetAddress = Unset, new.inet6Address = Unset,
             NEW type \in Types
      PROVE  LET info == [new EXCEPT !.type = type, !.up = a.up, !.hwAddress = a.hwAddress,
                                     !.linkspeed = a.linkspeed]
             IN  info \in NetInfo /\ info.inetAddress = Unset /\ info.inet6Address = Unset
  BY <1>1, <1>2 DEF NetInfo
<1>3. (IF a.type \in {"ETHERNET", "LOOPBACK"} THEN a.type ELSE net!NewInfo.type) \in Types
  BY NewInfoIs DEF Types
<1>. QED
  BY <1>2, <1>3, NewInfoIs DEF net!OfAdapter

\* ... and with some of its addresses.
LEMMA AdapterAtIs ==
  ASSUME NEW a \in Adapter, NEW positions,
         LastNumber(a, Inet(a, positions)) \in Answer,
         LastNumber(a, positions \ Inet(a, positions)) \in Answer
  PROVE  LET at == net!OfAdapterAt(a, positions) IN
           /\ at \in NetInfo
           /\ at.inetAddress = LastNumber(a, Inet(a, positions))
           /\ at.inet6Address = LastNumber(a, positions \ Inet(a, positions))
           /\ at.type = net!OfAdapter(a).type /\ at.up = net!OfAdapter(a).up
           /\ at.hostname = net!OfAdapter(a).hostname /\ at.hwAddress = net!OfAdapter(a).hwAddress
           /\ at.linkspeed = net!OfAdapter(a).linkspeed
<1>. DEFINE inet == LastNumber(a, Inet(a, positions))
            inet6 == LastNumber(a, positions \ Inet(a, positions))
<1>1. net!OfAdapterAt(a, positions) =
        [net!OfAdapter(a) EXCEPT !.inetAddress = inet, !.inet6Address = inet6]
  BY DEF net!OfAdapterAt, LastNumber, Inet
<1>. DEFINE info == net!OfAdapter(a)
            at == net!OfAdapterAt(a, positions)
<1>2. inet \in Answer /\ inet6 \in Answer /\ info \in NetInfo
  BY AdapterIs
<1>. HIDE DEF inet, inet6, info, at
<1>3. at = [info EXCEPT !.inetAddress = inet, !.inet6Address = inet6]
  BY <1>1 DEF at, info
<1>4. /\ at \in NetInfo /\ at.inetAddress = inet /\ at.inet6Address = inet6
      /\ at.type = info.type /\ at.up = info.up /\ at.hostname = info.hostname
      /\ at.hwAddress = info.hwAddress /\ at.linkspeed = info.linkspeed
  BY <1>2, <1>3 DEF NetInfo
<1>. QED
  BY <1>4 DEF at, info, inet, inet6

\* Without an address it is the adapter.
LEMMA AdapterAtNone ==
  ASSUME NEW a \in Adapter
  PROVE  net!OfAdapterAt(a, {}) = net!OfAdapter(a)
<1>1. Unset \in Answer /\ Inet(a, {}) = {} /\ LastNumber(a, {}) = Unset
  BY DEF Answer, Inet, LastNumber
<1>2. {} \ Inet(a, {}) = {}
  OBVIOUS
<1>. DEFINE at == net!OfAdapterAt(a, {})
            info == net!OfAdapter(a)
<1>3. /\ at \in NetInfo /\ at.inetAddress = Unset /\ at.inet6Address = Unset
      /\ at.type = info.type /\ at.up = info.up /\ at.hostname = info.hostname
      /\ at.hwAddress = info.hwAddress /\ at.linkspeed = info.linkspeed
  BY <1>1, <1>2, AdapterAtIs
<1>4. info \in NetInfo /\ info.inetAddress = Unset /\ info.inet6Address = Unset
  BY AdapterIs
<1>. HIDE DEF at, info
<1>5. at = info
  BY <1>3, <1>4, SameInfo
<1>. QED
  BY <1>5 DEF at, info

\* What one more address adds to it.
LEMMA AdapterAtNext ==
  ASSUME NEW a \in Adapter, NEW n \in Nat, n + 1 \in DOMAIN a.addresses,
         net!OfAdapterAt(a, 1 .. n) \in NetInfo,
         LastNumber(a, Inet(a, 1 .. n)) \in Answer,
         LastNumber(a, (1 .. n) \ Inet(a, 1 .. n)) \in Answer
  PROVE  /\ net!OfAdapterAt(a, 1 .. n + 1) =
              net!WithAddress(net!OfAdapterAt(a, 1 .. n), a.addresses[n + 1])
         /\ net!OfAdapterAt(a, 1 .. n + 1) \in NetInfo
         /\ LastNumber(a, Inet(a, 1 .. n + 1)) \in Answer
         /\ LastNumber(a, (1 .. n + 1) \ Inet(a, 1 .. n + 1)) \in Answer
<1>. DEFINE address == a.addresses[n + 1]
            old == 1 .. n
            all == 1 .. n + 1
<1>1. address.number \in Answer
  <2>. DEFINE list == a.addresses
              Each == [family : {"INET", "INET6"}, number : Answer]
  <2>1. list \in Seq(Each) /\ n + 1 \in DOMAIN list
    BY InterfacesAssumption
  <2>. HIDE DEF list, Each
  <2>2. list[n + 1] \in Each
    BY <2>1
  <2>. QED
    BY <2>2 DEF list, Each
<1>2. all = old \cup {n + 1} /\ n + 1 \notin old
  OBVIOUS
<1>3. /\ Inet(a, all) = (IF address.family = "INET" THEN Inet(a, old) \cup {n + 1} ELSE Inet(a, old))
      /\ all \ Inet(a, all) = (IF address.family = "INET" THEN old \ Inet(a, old)
                               ELSE (old \ Inet(a, old)) \cup {n + 1})
      /\ Inet(a, old) \in SUBSET (1 .. n) /\ old \ Inet(a, old) \in SUBSET (1 .. n)
  <2>. HIDE DEF all
  <2>. QED
    BY <1>2 DEF Inet
<1>4. ASSUME NEW part \in SUBSET (1 .. n)
      PROVE  LastNumber(a, part \cup {n + 1}) = address.number
  BY LastIsNew DEF LastNumber
<1>5. /\ LastNumber(a, Inet(a, all)) =
           (IF address.family = "INET" THEN address.number ELSE LastNumber(a, Inet(a, old)))
      /\ LastNumber(a, all \ Inet(a, all)) =
           (IF address.family = "INET" THEN LastNumber(a, old \ Inet(a, old)) ELSE address.number)
  <2>1. /\ LastNumber(a, Inet(a, old) \cup {n + 1}) = address.number
        /\ LastNumber(a, (old \ Inet(a, old)) \cup {n + 1}) = address.number
    BY <1>3, <1>4
  <2>. HIDE DEF address, all, old
  <2>. QED
    BY <1>3, <2>1
<1>6. /\ LastNumber(a, Inet(a, all)) \in Answer
      /\ LastNumber(a, all \ Inet(a, all)) \in Answer
  BY <1>1, <1>5
<1>. DEFINE at(positions) == net!OfAdapterAt(a, positions)
            with == net!WithAddress(at(old), address)
<1>7. ASSUME NEW info \in NetInfo
      PROVE  LET new == net!WithAddress(info, address) IN
               /\ new \in NetInfo
               /\ new.inetAddress = (IF address.family = "INET" THEN address.number ELSE info.inetAddress)
               /\ new.inet6Address = (IF address.family = "INET" THEN info.inet6Address ELSE address.number)
               /\ new.type = info.type /\ new.up = info.up /\ new.hostname = info.hostname
               /\ new.hwAddress = info.hwAddress /\ new.linkspeed = info.linkspeed
  <2>. HIDE DEF address
  <2>. QED
    BY <1>1 DEF net!WithAddress, NetInfo
<1>8. with = at(all) /\ at(all) \in NetInfo
  <2>. DEFINE info == net!OfAdapter(a)
              new == at(all)
              earlier == at(old)
  <2>1. /\ new \in NetInfo
        /\ new.inetAddress = LastNumber(a, Inet(a, all))
        /\ new.inet6Address = LastNumber(a, all \ Inet(a, all))
        /\ new.type = info.type /\ new.up = info.up /\ new.hostname = info.hostname
        /\ new.hwAddress = info.hwAddress /\ new.linkspeed = info.linkspeed
    BY <1>6, AdapterAtIs
  <2>2. /\ earlier \in NetInfo
        /\ earlier.inetAddress = LastNumber(a, Inet(a, old))
        /\ earlier.inet6Address = LastNumber(a, old \ Inet(a, old))
        /\ earlier.type = info.type /\ earlier.up = info.up /\ earlier.hostname = info.hostname
        /\ earlier.hwAddress = info.hwAddress /\ earlier.linkspeed = info.linkspeed
    BY AdapterAtIs
  <2>3. /\ with \in NetInfo
        /\ with.inetAddress = (IF address.family = "INET" THEN address.number ELSE earlier.inetAddress)
        /\ with.inet6Address = (IF address.family = "INET" THEN earlier.inet6Address ELSE address.number)
        /\ with.type = earlier.type /\ with.up = earlier.up /\ with.hostname = earlier.hostname
        /\ with.hwAddress = earlier.hwAddress /\ with.linkspeed = earlier.linkspeed
    BY <1>7, <2>2
  <2>. HIDE DEF with, new, earlier, info, address, all, old
  <2>4. with.inetAddress = new.inetAddress /\ with.inet6Address = new.inet6Address
    BY <1>5, <2>1, <2>2, <2>3
  <2>5. with = new
    BY <2>1, <2>2, <2>3, <2>4, SameInfo
  <2>. QED
    BY <2>1, <2>5 DEF new
<1>. QED
  BY <1>6, <1>8


-------------------------------------------------------------------------------
(* sys: what is held while a call runs.                                     *)

NetPhases == {"idle", "size", "list", "gather", "returned"}

HeldInv ==
  /\ build \in net!Builds /\ netPc \in NetPhases
  /\ netPc # "returned" => netFailed = "nowhere"
  /\ netPc = "idle" => netHeld = {}
  /\ netPc = "size" => build = "Windows" /\ netHeld = {"sockets"}
  /\ netPc = "list" => /\ build \in {"Windows", "ioctl"}
                       /\ netHeld = IF build = "Windows" THEN {"sockets", "buffer"} ELSE {"socket"}
  /\ net!GivenBack

LEMMA HeldStep ==
  HeldInv /\ [net!Next]_netVars => HeldInv'
<1>. SUFFICES ASSUME HeldInv, [net!Next]_netVars PROVE HeldInv'
  OBVIOUS
<1>. USE DEF HeldInv, NetPhases, net!GivenBack, net!Builds
<1>1. CASE net!CannotBegin
  BY <1>1 DEF net!CannotBegin, net!Fail
<1>2. CASE net!Begin
  <2>1. /\ net!First[build] = (IF build = "getifaddrs" THEN "ifaddrs"
                               ELSE IF build = "Windows" THEN "sockets" ELSE "socket")
        /\ net!Then[build] = (IF build = "getifaddrs" THEN "gather"
                              ELSE IF build = "Windows" THEN "size" ELSE "list")
    BY DEF net!First, net!Then
  <2>. QED
    BY <1>2, <2>1 DEF net!Begin
<1>3. CASE net!SizeFails
  BY <1>3 DEF net!SizeFails, net!Fail
<1>4. CASE net!Allocate
  BY <1>4 DEF net!Allocate
<1>5. CASE net!ListFails
  BY <1>5 DEF net!ListFails, net!Fail, net!FreedOnFailure
<1>6. CASE net!List
  BY <1>6 DEF net!List
<1>7. CASE net!SkipNull \/ net!Gather
  BY <1>7 DEF net!SkipNull, net!Gather, net!AtEntry
<1>8. CASE net!GatherAdapter \/ net!GatherAddress \/ net!NextAdapter
  BY <1>8 DEF net!GatherAdapter, net!GatherAddress, net!NextAdapter, net!AtEntry
<1>9. CASE net!GatherItem
  BY <1>9 DEF net!GatherItem, net!AtEntry
<1>10. CASE net!Return
  BY <1>10 DEF net!Return
<1>11. CASE net!Done
  BY <1>11 DEF net!Done
<1>12. CASE UNCHANGED netVars
  BY <1>12 DEF netVars
<1>. QED
  BY <1>1, <1>2, <1>3, <1>4, <1>5, <1>6, <1>7, <1>8, <1>9, <1>10, <1>11, <1>12
     DEF net!Next, net!Step

(* Of what a discovery acquired two things are left when it returns, and nothing *)
(* else, whichever call of the system fails: wgl gives back all it loads and      *)
(* creates but the device context after ChoosePixelFormat() failed                *)
(* (gpu/wgl/module.cpp:75-180), and sys its lists, buffers and sockets but          *)
(* WSAStartup() when the adapters cannot be listed (net/sys/module.cpp:84-240).   *)
THEOREM AllIsGivenBack == LocalSpec => []GivenBack
<1>1. LocalInit => ReleaseInv /\ HeldInv
  <2>1. ASSUME wgl!Init PROVE ReleaseInv
    BY <2>1 DEF wgl!Init, ReleaseInv, GainedBefore, wgl!Released
  <2>2. ASSUME net!Init PROVE HeldInv
    BY <2>2 DEF net!Init, HeldInv, NetPhases, net!GivenBack
  <2>. QED
    BY <2>1, <2>2 DEF LocalInit
<1>2. ReleaseInv /\ HeldInv /\ [LocalNext]_allVars => (ReleaseInv /\ HeldInv)'
  <2>1. [LocalNext]_allVars => [wgl!Next]_wglVars /\ [net!Next]_netVars
    BY DEF LocalNext, Alone, allVars
  <2>. QED
    BY <2>1, ReleaseStep, HeldStep
<1>3. ReleaseInv /\ HeldInv => GivenBack
  BY DEF ReleaseInv, HeldInv, GivenBack
<1>. QED
  BY <1>1, <1>2, <1>3, PTL DEF LocalSpec


-------------------------------------------------------------------------------
(* sys: what was gathered of the list so far.                                *)

LEMMA ListsAreSequences ==
  ASSUME build \in net!Builds, NEW Each, NEW list \in net!Lists(Each)
  PROVE  list \in Seq(Each)
<1>1. MaxList[build] \in Nat
  BY InterfacesAssumption
<1>2. PICK n \in 0 .. MaxList[build] : list \in [1 .. n -> Each]
  BY DEF net!Lists
<1>3. n \in Nat
  BY <1>1
<1>. QED
  BY <1>2, <1>3

LEMMA SaidNothing ==
  /\ net!Said({}) = net!NewInfo
  /\ net!NewInfo \in NetInfo
<1>1. /\ \A family : net!OfFamily(family, {}) = {} /\ net!Numbered(family, {}) = {}
      /\ net!Named({}) = {}
      /\ net!Number({}) = Unset /\ net!Host({}) = Unset
  BY DEF net!OfFamily, net!Numbered, net!Named, net!Number, net!Host
<1>. QED
  BY <1>1, NewInfoIs DEF net!Said, net!NewInfo

\* The addresses of an interface that were looked at.
Before(name) == {k \in net!Of(name) : k < ifa}
NamesBefore == {ifaddr[k].name : k \in {l \in 1 .. ifa - 1 : ~ifaddr[l].null}}

\* Of each interface what these say is known.
InfosSoFar ==
  /\ ifaddr \in Seq(Address) /\ ifa \in 1 .. Len(ifaddr) + 1
  /\ DOMAIN infos = NamesBefore
  /\ \A name, some : some = Before(name) =>
       net!InfoOf(name) \in NetInfo /\ net!InfoOf(name) = net!Said(some)

\* Each adapter before ifa, and of that at ifa the addresses before addr.
AdaptersSoFar ==
  /\ ifaddr \in Seq(Adapter) /\ ifa \in 1 .. Len(ifaddr) + 1
  /\ netResult \in Seq(NetInfo) /\ Len(netResult) = IF addr = 0 THEN ifa - 1 ELSE ifa
  /\ \A k, a : k \in 1 .. ifa - 1 /\ a = ifaddr[k] => netResult[k] = net!AdapterReference(a)
  /\ \A a, n : addr > 0 /\ a = ifaddr[ifa] /\ n = addr - 1 =>
       /\ ifa <= Len(ifaddr) /\ n <= Len(a.addresses)
       /\ LastNumber(a, Inet(a, 1 .. n)) \in Answer
       /\ LastNumber(a, (1 .. n) \ Inet(a, 1 .. n)) \in Answer
       /\ netResult[ifa] = net!OfAdapterAt(a, 1 .. n)

ItemsSoFar ==
  /\ ifaddr \in Seq(Item) /\ ifa \in 1 .. Len(ifaddr) + 1
  /\ Len(netResult) = ifa - 1 /\ netResult = [k \in 1 .. ifa - 1 |-> net!OfItem(ifaddr[k])]

GatherInv ==
  /\ build \in net!Builds
  /\ ifa \in Nat /\ addr \in Nat
  /\ build # "Windows" \/ netPc # "gather" => addr = 0
  /\ netPc \in {"idle", "size", "list"} =>
       ifaddr = << >> /\ ifa = 1 /\ infos = << >> /\ netResult = << >>
  /\ netPc = "gather" => CASE build = "getifaddrs" -> InfosSoFar
                           [] build = "Windows" -> AdaptersSoFar
                           [] build = "ioctl" -> ItemsSoFar
  /\ net!AllGathered

\* What addresses say of an interface depends on the list alone.
LEMMA SaidStays ==
  ifaddr' = ifaddr => \A some : net!Said(some)' = net!Said(some)
BY DEF net!Said, net!Number, net!Host, net!Numbered, net!Named, net!OfFamily, net!LastOf

LEMMA ReferenceStays ==
  ifaddr' = ifaddr => \A name : net!Reference(name)' = net!Reference(name)
<1>. SUFFICES ASSUME ifaddr' = ifaddr, NEW name
              PROVE  net!Reference(name)' = net!Reference(name)
  OBVIOUS
<1>1. PICK some : some = net!Of(name)
  OBVIOUS
<1>2. some = net!Of(name)'
  BY <1>1 DEF net!Of
<1>3. net!Said(some)' = net!Said(some)
  BY SaidStays
<1>4. net!Reference(name)' = net!Said(some)'
  BY <1>2 DEF net!Reference, net!Said, net!Number, net!Host, net!Numbered, net!Named,
              net!OfFamily, net!LastOf
<1>. QED
  BY <1>1, <1>3, <1>4 DEF net!Reference

LEMMA InfosStay ==
  UNCHANGED <<ifaddr, ifa, infos>> /\ InfosSoFar => InfosSoFar'
<1>. SUFFICES ASSUME UNCHANGED <<ifaddr, ifa, infos>>, InfosSoFar
              PROVE  InfosSoFar'
  OBVIOUS
<1>1. NamesBefore' = NamesBefore /\ \A name : Before(name)' = Before(name)
  BY DEF NamesBefore, Before, net!Of
<1>2. \A name : net!InfoOf(name)' = net!InfoOf(name)
  BY DEF net!InfoOf, net!NewInfo
<1>3. \A some : net!Said(some)' = net!Said(some)
  BY SaidStays
<1>4. \A name, some : some = Before(name)' =>
        net!InfoOf(name)' \in NetInfo /\ net!InfoOf(name)' = net!Said(some)'
  BY <1>1, <1>2, <1>3 DEF InfosSoFar
<1>. QED
  BY <1>1, <1>4 DEF InfosSoFar, NetInfo

LEMMA SkipNullStep ==
  ASSUME InfosSoFar, net!SkipNull
  PROVE  InfosSoFar'
<1>1. /\ ifaddr' = ifaddr /\ infos' = infos /\ ifa' = ifa + 1
      /\ ifa <= Len(ifaddr) /\ ifaddr[ifa].null
  BY DEF net!SkipNull, net!AtEntry, net!Entry
<1>2. ifaddr \in Seq(Address) /\ ifa \in 1 .. Len(ifaddr) + 1
  BY DEF InfosSoFar
<1>3. ifaddr' \in Seq(Address) /\ ifa' \in 1 .. Len(ifaddr') + 1
  BY <1>1, <1>2
<1>4. NamesBefore' = NamesBefore
  <2>1. {l \in 1 .. (ifa + 1) - 1 : ~ifaddr[l].null} = {l \in 1 .. ifa - 1 : ~ifaddr[l].null}
    BY <1>1, <1>2
  <2>. QED
    BY <1>1, <2>1 DEF NamesBefore
<1>5. ASSUME NEW name PROVE Before(name)' = Before(name)
  BY <1>1, <1>2 DEF Before, net!Of
<1>6. ASSUME NEW name PROVE net!InfoOf(name)' = net!InfoOf(name)
  BY <1>1 DEF net!InfoOf
<1>7. DOMAIN infos' = NamesBefore'
  BY <1>1, <1>4 DEF InfosSoFar
<1>8. ASSUME NEW name, NEW some, some = Before(name)'
      PROVE  net!InfoOf(name)' \in NetInfo /\ net!InfoOf(name)' = net!Said(some)'
  <2>1. net!InfoOf(name) \in NetInfo /\ net!InfoOf(name) = net!Said(some)
    BY <1>5, <1>8 DEF InfosSoFar
  <2>2. net!Said(some)' = net!Said(some)
    BY <1>1, SaidStays
  <2>. QED
    BY <1>6, <2>1, <2>2
<1>. QED
  BY <1>3, <1>7, <1>8 DEF InfosSoFar, NetInfo


LEMMA GatherStep ==
  ASSUME InfosSoFar, net!Gather
  PROVE  InfosSoFar'
<1>. DEFINE a == ifaddr[ifa]
<1>1. /\ ifaddr' = ifaddr /\ ifa' = ifa + 1
      /\ ifa <= Len(ifaddr) /\ ~a.null
      /\ infos' = [name \in DOMAIN infos \cup {a.name} |->
                     IF name = a.name THEN net!Added(net!InfoOf(name), a) ELSE infos[name]]
  BY DEF net!Gather, net!AtEntry, net!Entry
<1>2. ifaddr \in Seq(Address) /\ ifa \in Nat \ {0} /\ a \in Address
  BY <1>1 DEF InfosSoFar
<1>3. ifaddr' \in Seq(Address) /\ ifa' \in 1 .. Len(ifaddr') + 1
  BY <1>1, <1>2
<1>4. DOMAIN infos = NamesBefore
  BY DEF InfosSoFar
<1>5. NamesBefore' = NamesBefore \cup {a.name}
  <2>. DEFINE old == {l \in 1 .. ifa - 1 : ~ifaddr[l].null}
              new == {l \in 1 .. (ifa + 1) - 1 : ~ifaddr[l].null}
  <2>1. new = old \cup {ifa}
    BY <1>1, <1>2
  <2>. HIDE DEF old, new
  <2>2. {ifaddr[k].name : k \in new} = {ifaddr[k].name : k \in old} \cup {a.name}
    BY <2>1
  <2>. QED
    BY <1>1, <2>2 DEF NamesBefore, old, new
<1>6. DOMAIN infos' = NamesBefore'
  BY <1>1, <1>4, <1>5
<1>7. ASSUME NEW name
      PROVE  Before(name)' = IF name = a.name THEN Before(name) \cup {ifa} ELSE Before(name)
  BY <1>1, <1>2 DEF Before, net!Of
<1>8. ASSUME NEW name
      PROVE  net!InfoOf(name)' =
               IF name = a.name THEN net!Added(net!InfoOf(name), a) ELSE net!InfoOf(name)
  <2>1. CASE name = a.name
    <3>1. name \in DOMAIN infos' /\ infos'[name] = net!Added(net!InfoOf(name), a)
      <4>. HIDE DEF a
      <4>. QED
        BY <1>1, <2>1
    <3>. QED
      BY <2>1, <3>1 DEF net!InfoOf
  <2>2. CASE name # a.name
    <3>1. /\ name \in DOMAIN infos' <=> name \in DOMAIN infos
          /\ name \in DOMAIN infos => infos'[name] = infos[name]
      <4>. HIDE DEF a
      <4>. QED
        BY <1>1, <2>2
    <3>. QED
      BY <2>2, <3>1 DEF net!InfoOf, net!NewInfo
  <2>. QED
    BY <2>1, <2>2
<1>9. ASSUME NEW name, NEW some, some = Before(name)'
      PROVE  net!InfoOf(name)' \in NetInfo /\ net!InfoOf(name)' = net!Said(some)'
  <2>1. PICK old : old = Before(name)
    OBVIOUS
  <2>2. net!InfoOf(name) \in NetInfo /\ net!InfoOf(name) = net!Said(old)
    BY <2>1 DEF InfosSoFar
  <2>3. net!Said(some)' = net!Said(some)
    BY <1>1, SaidStays
  <2>4. CASE name = a.name
    <3>1. PICK n \in Nat : n + 1 = ifa
      BY <1>2
    <3>2. old \in SUBSET (1 .. n) /\ some = old \cup {n + 1}
      <4>1. old \in SUBSET (1 .. n)
        BY <1>2, <2>1, <3>1 DEF Before, net!Of
      <4>. QED
        BY <1>7, <1>9, <2>1, <2>4, <3>1, <4>1
    <3>3. PICK address \in Address : address = a
      BY <1>2
    <3>4. ifaddr[n + 1] = address
      BY <3>1, <3>3
    <3>. HIDE DEF a
    <3>5. /\ net!Said(some) = net!Added(net!Said(old), address)
          /\ net!Said(some) \in NetInfo
      BY <2>2, <3>2, <3>4, SaidIsAdded
    <3>. QED
      BY <1>8, <2>2, <2>3, <2>4, <3>3, <3>5
  <2>5. CASE name # a.name
    BY <1>7, <1>8, <1>9, <2>1, <2>2, <2>3, <2>5
  <2>. QED
    BY <2>4, <2>5
<1>. QED
  BY <1>3, <1>6, <1>9 DEF InfosSoFar, NetInfo


LEMMA GatherAdapterStep ==
  ASSUME AdaptersSoFar, addr \in Nat, net!GatherAdapter
  PROVE  AdaptersSoFar'
<1>. DEFINE info == net!OfAdapter(ifaddr[ifa])
<1>1. /\ ifaddr' = ifaddr /\ ifa' = ifa /\ addr = 0 /\ addr' = 1
      /\ ifa <= Len(ifaddr) /\ netResult' = Append(netResult, info)
  BY DEF net!GatherAdapter, net!AtEntry, net!Entry
<1>2. /\ ifaddr \in Seq(Adapter) /\ ifa \in Nat \ {0} /\ ifaddr[ifa] \in Adapter
      /\ netResult \in Seq(NetInfo) /\ Len(netResult) = ifa - 1
  BY <1>1 DEF AdaptersSoFar
<1>3. info \in NetInfo
  BY <1>2, AdapterIs
<1>4. /\ netResult' \in Seq(NetInfo) /\ Len(netResult') = ifa
      /\ \A k \in 1 .. ifa - 1 : netResult'[k] = netResult[k]
      /\ netResult'[ifa] = info
  <2>. HIDE DEF info
  <2>. DEFINE Each == NetInfo
  <2>. HIDE DEF Each
  <2>. QED
    BY <1>1, <1>2, <1>3 DEF Each
<1>5. ASSUME NEW k, NEW a, k \in 1 .. ifa - 1, a = ifaddr[k]
      PROVE  netResult'[k] = net!AdapterReference(a)
  BY <1>4, <1>5 DEF AdaptersSoFar
<1>6. ASSUME NEW a, NEW n, a = ifaddr[ifa], n = 0
      PROVE  /\ n <= Len(a.addresses)
             /\ LastNumber(a, Inet(a, 1 .. n)) \in Answer
             /\ LastNumber(a, (1 .. n) \ Inet(a, 1 .. n)) \in Answer
             /\ netResult'[ifa] = net!OfAdapterAt(a, 1 .. n)
  <2>1. 1 .. n = {}
    BY <1>6
  <2>2. Inet(a, {}) = {} /\ LastNumber(a, {}) \in Answer
    BY DEF Inet, LastNumber, Answer
  <2>3. netResult'[ifa] = net!OfAdapterAt(a, {})
    BY <1>2, <1>4, <1>6, AdapterAtNone
  <2>4. Len(a.addresses) \in Nat
    <3>. DEFINE list == a.addresses
                Each == [family : {"INET", "INET6"}, number : Answer]
    <3>1. list \in Seq(Each)
      BY <1>2, <1>6, InterfacesAssumption
    <3>. HIDE DEF list, Each
    <3>2. Len(list) \in Nat
      BY <3>1
    <3>. QED
      BY <3>2 DEF list
  <2>. HIDE DEF info
  <2>5. {} \ {} = {}
    OBVIOUS
  <2>6. n <= Len(a.addresses)
    BY <1>6, <2>4
  <2>. QED
    BY <2>1, <2>2, <2>3, <2>5, <2>6
<1>. QED
  <2>1. addr' - 1 = 0 /\ addr' # 0
    BY <1>1
  <2>. HIDE DEF info
  <2>2. /\ ifaddr' \in Seq(Adapter) /\ ifa' \in 1 .. Len(ifaddr') + 1
        /\ Len(netResult') = IF addr' = 0 THEN ifa' - 1 ELSE ifa'
    BY <1>1, <1>2, <1>4, <2>1
  <2>3. \A k, a : k \in 1 .. ifa' - 1 /\ a = ifaddr'[k] => netResult'[k] = net!AdapterReference(a)
    BY <1>1, <1>5
  <2>4. \A a, n : a = ifaddr'[ifa'] /\ n = addr' - 1 =>
          /\ ifa' <= Len(ifaddr') /\ n <= Len(a.addresses)
          /\ LastNumber(a, Inet(a, 1 .. n)) \in Answer
          /\ LastNumber(a, (1 .. n) \ Inet(a, 1 .. n)) \in Answer
          /\ netResult'[ifa'] = net!OfAdapterAt(a, 1 .. n)
    BY <1>1, <1>6, <2>1
  <2>. QED
    BY <1>4, <2>2, <2>3, <2>4 DEF AdaptersSoFar

LEMMA GatherAddressStep ==
  ASSUME AdaptersSoFar, addr \in Nat, net!GatherAddress
  PROVE  AdaptersSoFar'
<1>. DEFINE new == net!WithAddress(net!Last(netResult), ifaddr[ifa].addresses[addr])
<1>1. /\ ifaddr' = ifaddr /\ ifa' = ifa /\ addr' = addr + 1
      /\ ifa <= Len(ifaddr) /\ addr \in DOMAIN ifaddr[ifa].addresses
      /\ netResult' = Append(net!Front(netResult), new)
  BY DEF net!GatherAddress, net!AtEntry, net!Entry, net!Extend
<1>2. PICK a \in Adapter : a = ifaddr[ifa]
  BY <1>1 DEF AdaptersSoFar
<1>3. /\ Len(a.addresses) \in Nat /\ DOMAIN a.addresses = 1 .. Len(a.addresses)
  <2>. DEFINE list == a.addresses
              Each == [family : {"INET", "INET6"}, number : Answer]
  <2>1. list \in Seq(Each)
    BY InterfacesAssumption
  <2>. HIDE DEF list, Each
  <2>2. Len(list) \in Nat /\ DOMAIN list = 1 .. Len(list)
    BY <2>1
  <2>. QED
    BY <2>2 DEF list
<1>4. addr > 0 /\ addr <= Len(a.addresses)
  BY <1>1, <1>2, <1>3
<1>5. PICK n \in Nat : n + 1 = addr
  BY <1>4
<1>6. /\ ifaddr \in Seq(Adapter) /\ ifa \in Nat \ {0}
      /\ netResult \in Seq(NetInfo) /\ Len(netResult) = ifa
  BY <1>4 DEF AdaptersSoFar
<1>7. /\ LastNumber(a, Inet(a, 1 .. n)) \in Answer
      /\ LastNumber(a, (1 .. n) \ Inet(a, 1 .. n)) \in Answer
      /\ netResult[ifa] = net!OfAdapterAt(a, 1 .. n)
  <2>1. n = addr - 1
    BY <1>5
  <2>2. \A b, m : b = ifaddr[ifa] /\ m = addr - 1 =>
          /\ LastNumber(b, Inet(b, 1 .. m)) \in Answer
          /\ LastNumber(b, (1 .. m) \ Inet(b, 1 .. m)) \in Answer
          /\ netResult[ifa] = net!OfAdapterAt(b, 1 .. m)
    BY <1>4 DEF AdaptersSoFar
  <2>. QED
    BY <1>2, <2>1, <2>2
<1>8. net!Last(netResult) = net!OfAdapterAt(a, 1 .. n) /\ net!OfAdapterAt(a, 1 .. n) \in NetInfo
  BY <1>6, <1>7 DEF net!Last
<1>9. n + 1 \in DOMAIN a.addresses
  BY <1>3, <1>4, <1>5
<1>10. /\ new = net!OfAdapterAt(a, 1 .. n + 1) /\ new \in NetInfo
       /\ LastNumber(a, Inet(a, 1 .. n + 1)) \in Answer
       /\ LastNumber(a, (1 .. n + 1) \ Inet(a, 1 .. n + 1)) \in Answer
  BY <1>2, <1>5, <1>7, <1>8, <1>9, AdapterAtNext
<1>. HIDE DEF new
<1>11. /\ netResult' \in Seq(NetInfo) /\ Len(netResult') = ifa
       /\ \A k \in 1 .. ifa - 1 : netResult'[k] = netResult[k]
       /\ netResult'[ifa] = new
  <2>. DEFINE Each == NetInfo
              front == net!Front(netResult)
  <2>. HIDE DEF Each
  <2>1. /\ front \in Seq(Each) /\ Len(front) = ifa - 1
        /\ \A k \in 1 .. ifa - 1 : front[k] = netResult[k]
    BY <1>6 DEF Each, net!Front
  <2>. HIDE DEF front
  <2>2. new \in Each /\ netResult' = Append(front, new)
    BY <1>1, <1>10 DEF Each, front
  <2>. QED
    BY <1>6, <2>1, <2>2 DEF Each
<1>12. /\ ifaddr' \in Seq(Adapter) /\ ifa' \in 1 .. Len(ifaddr') + 1
       /\ Len(netResult') = IF addr' = 0 THEN ifa' - 1 ELSE ifa'
  BY <1>1, <1>6, <1>11
<1>13. \A k, b : k \in 1 .. ifa' - 1 /\ b = ifaddr'[k] => netResult'[k] = net!AdapterReference(b)
  BY <1>1, <1>11 DEF AdaptersSoFar
<1>14. \A b, m : b = ifaddr'[ifa'] /\ m = addr' - 1 =>
         /\ ifa' <= Len(ifaddr') /\ m <= Len(b.addresses)
         /\ LastNumber(b, Inet(b, 1 .. m)) \in Answer
         /\ LastNumber(b, (1 .. m) \ Inet(b, 1 .. m)) \in Answer
         /\ netResult'[ifa'] = net!OfAdapterAt(b, 1 .. m)
  <2>1. addr' - 1 = n + 1 /\ n + 1 <= Len(a.addresses)
    BY <1>1, <1>4, <1>5
  <2>. QED
    BY <1>1, <1>2, <1>10, <1>11, <2>1
<1>. QED
  BY <1>11, <1>12, <1>13, <1>14 DEF AdaptersSoFar

LEMMA NextAdapterStep ==
  ASSUME AdaptersSoFar, addr \in Nat, net!NextAdapter
  PROVE  AdaptersSoFar'
<1>1. /\ ifaddr' = ifaddr /\ ifa' = ifa + 1 /\ addr' = 0 /\ netResult' = netResult
      /\ ifa <= Len(ifaddr) /\ addr > Len(ifaddr[ifa].addresses)
  BY DEF net!NextAdapter, net!AtEntry, net!Entry
<1>2. PICK a \in Adapter : a = ifaddr[ifa]
  BY <1>1 DEF AdaptersSoFar
<1>3. /\ Len(a.addresses) \in Nat /\ DOMAIN a.addresses = 1 .. Len(a.addresses)
  <2>. DEFINE list == a.addresses
              Each == [family : {"INET", "INET6"}, number : Answer]
  <2>1. list \in Seq(Each)
    BY InterfacesAssumption
  <2>. HIDE DEF list, Each
  <2>2. Len(list) \in Nat /\ DOMAIN list = 1 .. Len(list)
    BY <2>1
  <2>. QED
    BY <2>2 DEF list
<1>4. PICK n \in Nat : n = addr - 1
  BY <1>1, <1>2, <1>3
<1>5. addr > 0 /\ n = Len(a.addresses) /\ netResult[ifa] = net!OfAdapterAt(a, 1 .. n)
  <2>1. addr > 0
    BY <1>4
  <2>2. n <= Len(a.addresses) /\ netResult[ifa] = net!OfAdapterAt(a, 1 .. n)
    BY <1>2, <1>4, <2>1 DEF AdaptersSoFar
  <2>. QED
    BY <1>1, <1>2, <1>3, <1>4, <2>1, <2>2
<1>6. netResult[ifa] = net!AdapterReference(a)
  BY <1>3, <1>5 DEF net!AdapterReference
<1>7. /\ ifaddr \in Seq(Adapter) /\ ifa \in Nat \ {0}
      /\ netResult \in Seq(NetInfo) /\ Len(netResult) = ifa
  BY <1>5 DEF AdaptersSoFar
<1>8. /\ ifaddr' \in Seq(Adapter) /\ ifa' \in 1 .. Len(ifaddr') + 1
      /\ netResult' \in Seq(NetInfo) /\ Len(netResult') = IF addr' = 0 THEN ifa' - 1 ELSE ifa'
  BY <1>1, <1>7
<1>9. \A k, b : k \in 1 .. ifa' - 1 /\ b = ifaddr'[k] => netResult'[k] = net!AdapterReference(b)
  <2>1. ASSUME NEW k \in 1 .. ifa' - 1, NEW b, b = ifaddr'[k]
        PROVE  netResult'[k] = net!AdapterReference(b)
    <3>1. CASE k = ifa
      BY <1>1, <1>2, <1>6, <2>1, <3>1
    <3>2. CASE k # ifa
      <4>1. k \in 1 .. ifa - 1
        BY <1>1, <1>7, <3>2
      <4>. QED
        BY <1>1, <2>1, <4>1 DEF AdaptersSoFar
    <3>. QED
      BY <3>1, <3>2
  <2>. QED
    BY <2>1
<1>. QED
  BY <1>1, <1>8, <1>9 DEF AdaptersSoFar

LEMMA GatherItemStep ==
  ASSUME ItemsSoFar, net!GatherItem
  PROVE  ItemsSoFar'
<1>1. /\ ifaddr' = ifaddr /\ ifa' = ifa + 1 /\ ifa <= Len(ifaddr)
      /\ netResult' = Append(netResult, net!OfItem(ifaddr[ifa]))
  BY DEF net!GatherItem, net!AtEntry, net!Entry
<1>2. /\ ifaddr \in Seq(Item) /\ ifa \in Nat \ {0}
      /\ netResult = [k \in 1 .. ifa - 1 |-> net!OfItem(ifaddr[k])]
  BY DEF ItemsSoFar
<1>3. /\ Len(netResult') = ifa
      /\ netResult' = [k \in 1 .. ifa |-> net!OfItem(ifaddr[k])]
  BY <1>1, <1>2
<1>. QED
  BY <1>1, <1>2, <1>3 DEF ItemsSoFar


\* An empty list begins what is gathered, in each build.
LEMMA NothingSoFar ==
  ASSUME ifa = 1, addr = 0, infos = << >>, netResult = << >>
  PROVE  /\ ifaddr \in Seq(Address) => InfosSoFar
         /\ ifaddr \in Seq(Adapter) => AdaptersSoFar
         /\ ifaddr \in Seq(Item) => ItemsSoFar
<1>1. 1 .. ifa - 1 = {} /\ ifa \in Nat \ {0} /\ \A k \in Nat : 1 \in 1 .. k + 1
  OBVIOUS
<1>2. DOMAIN infos = {} /\ Len(netResult) = 0 /\ netResult \in Seq(NetInfo)
  <2>. DEFINE Each == NetInfo
  <2>. HIDE DEF Each
  <2>1. << >> \in Seq(Each) /\ Len(<< >>) = 0
    OBVIOUS
  <2>. QED
    BY <2>1 DEF Each
<1>3. ASSUME ifaddr \in Seq(Address) PROVE InfosSoFar
  <2>1. \A name : Before(name) = {}
    BY <1>3 DEF Before, net!Of
  <2>2. \A name : net!InfoOf(name) = net!NewInfo
    BY <1>2 DEF net!InfoOf
  <2>3. NamesBefore = {}
    BY <1>1 DEF NamesBefore
  <2>4. Len(ifaddr) \in Nat
    BY <1>3
  <2>. QED
    BY <1>1, <1>2, <1>3, <2>1, <2>2, <2>3, <2>4, SaidNothing DEF InfosSoFar
<1>4. ASSUME ifaddr \in Seq(Adapter) PROVE AdaptersSoFar
  <2>1. Len(ifaddr) \in Nat
    BY <1>4
  <2>. QED
    BY <1>1, <1>2, <1>4, <2>1 DEF AdaptersSoFar
<1>5. ASSUME ifaddr \in Seq(Item) PROVE ItemsSoFar
  <2>1. Len(ifaddr) \in Nat
    BY <1>5
  <2>. DEFINE gathered == [k \in 1 .. ifa - 1 |-> net!OfItem(ifaddr[k])]
              empty == [k \in {} |-> net!OfItem(ifaddr[k])]
  <2>2. empty = << >>
    OBVIOUS
  <2>3. gathered = empty
    BY <1>1
  <2>. QED
    BY <1>1, <1>2, <1>5, <2>1, <2>2, <2>3 DEF ItemsSoFar
<1>. QED
  BY <1>3, <1>4, <1>5

\* An empty list is all gathered when nothing is.
LEMMA NothingIsGathered ==
  ASSUME build \in net!Builds, ifaddr = << >>, netResult = << >>
  PROVE  net!AllGathered
<1>1. DOMAIN ifaddr = {} /\ DOMAIN netResult = {}
  OBVIOUS
<1>. DEFINE adapters == [k \in {} |-> net!AdapterReference(ifaddr[k])]
            items == [k \in {} |-> net!OfItem(ifaddr[k])]
<1>2. adapters = << >> /\ items = << >>
  OBVIOUS
<1>3. /\ [k \in DOMAIN ifaddr |-> net!AdapterReference(ifaddr[k])] = << >>
      /\ [k \in DOMAIN ifaddr |-> net!OfItem(ifaddr[k])] = << >>
  BY <1>1, <1>2
<1>4. {ifaddr[k].name : k \in {l \in DOMAIN ifaddr : ~ifaddr[l].null}} = {}
  BY <1>1
<1>. QED
  BY <1>1, <1>3, <1>4 DEF net!AllGathered, net!Builds

\* At the end of the list, everything is.
LEMMA AllAreGathered ==
  ASSUME build \in net!Builds, ifa > Len(ifaddr),
         build = "getifaddrs" => InfosSoFar /\ netResult = infos,
         build = "Windows" => AdaptersSoFar /\ addr = 0,
         build = "ioctl" => ItemsSoFar
  PROVE  net!AllGathered
<1>1. ASSUME build = "getifaddrs"
      PROVE  /\ DOMAIN netResult = {ifaddr[k].name : k \in {l \in DOMAIN ifaddr : ~ifaddr[l].null}}
             /\ \A name \in DOMAIN netResult : netResult[name] = net!Reference(name)
  <2>1. InfosSoFar /\ netResult = infos
    BY <1>1
  <2>2. Len(ifaddr) \in Nat /\ ifa \in Nat /\ DOMAIN ifaddr = 1 .. ifa - 1 /\ ifa - 1 = Len(ifaddr)
    BY <2>1 DEF InfosSoFar
  <2>3. DOMAIN netResult = {ifaddr[k].name : k \in {l \in DOMAIN ifaddr : ~ifaddr[l].null}}
    BY <2>1, <2>2 DEF InfosSoFar, NamesBefore
  <2>4. ASSUME NEW name \in DOMAIN netResult
        PROVE  netResult[name] = net!Reference(name)
    <3>1. Before(name) = net!Of(name)
      <4>1. \A k \in 1 .. Len(ifaddr) : k < ifa
        BY <2>2
      <4>. QED
        BY <4>1 DEF Before, net!Of
    <3>2. net!InfoOf(name) = net!Said(Before(name))
      BY <2>1 DEF InfosSoFar
    <3>3. netResult[name] = net!InfoOf(name)
      BY <2>1, <2>4 DEF net!InfoOf
    <3>. QED
      BY <3>1, <3>2, <3>3 DEF net!Reference
  <2>. QED
    BY <2>3, <2>4
<1>2. ASSUME build = "Windows"
      PROVE  netResult = [k \in DOMAIN ifaddr |-> net!AdapterReference(ifaddr[k])]
  <2>1. AdaptersSoFar /\ addr = 0
    BY <1>2
  <2>2. /\ DOMAIN ifaddr = 1 .. ifa - 1
        /\ netResult \in Seq(NetInfo) /\ Len(netResult) = ifa - 1
    BY <2>1 DEF AdaptersSoFar
  <2>3. netResult = [k \in 1 .. ifa - 1 |-> netResult[k]]
    <3>. DEFINE Each == NetInfo
    <3>. HIDE DEF Each
    <3>1. netResult \in Seq(Each)
      BY <2>2 DEF Each
    <3>. QED
      BY <2>2, <3>1
  <2>4. \A k \in 1 .. ifa - 1 : netResult[k] = net!AdapterReference(ifaddr[k])
    BY <2>1 DEF AdaptersSoFar
  <2>. QED
    BY <2>2, <2>3, <2>4
<1>3. ASSUME build = "ioctl"
      PROVE  netResult = [k \in DOMAIN ifaddr |-> net!OfItem(ifaddr[k])]
  <2>1. /\ DOMAIN ifaddr = 1 .. ifa - 1
        /\ netResult = [k \in 1 .. ifa - 1 |-> net!OfItem(ifaddr[k])]
    BY <1>3 DEF ItemsSoFar
  <2>. QED
    BY <2>1
<1>. QED
  BY <1>1, <1>2, <1>3 DEF net!AllGathered, net!Builds

LEMMA GatheringStep ==
  ASSUME HeldInv, GatherInv, [net!Next]_netVars
  PROVE  GatherInv'
<1>. DEFINE Base == build \in net!Builds /\ ifa \in Nat /\ addr \in Nat
            SoFar == CASE build = "getifaddrs" -> InfosSoFar
                       [] build = "Windows" -> AdaptersSoFar
                       [] build = "ioctl" -> ItemsSoFar
            Nothing == ifaddr = << >> /\ ifa = 1 /\ infos = << >> /\ netResult = << >>
<1>0. /\ Base
      /\ build # "Windows" \/ netPc # "gather" => addr = 0
      /\ netPc \in {"idle", "size", "list"} => Nothing
      /\ netPc = "gather" => SoFar
      /\ netPc \in NetPhases
  BY DEF GatherInv, HeldInv
<1>1. CASE net!CannotBegin \/ net!SizeFails \/ net!ListFails
  <2>1. /\ netPc \in {"idle", "size", "list"} /\ netPc' = "returned"
        /\ UNCHANGED <<build, ifaddr, ifa, addr, infos, netResult>>
    BY <1>1 DEF net!CannotBegin, net!SizeFails, net!ListFails, net!Fail, net!listVars
  <2>2. net!AllGathered
    BY <1>0, <2>1, NothingIsGathered
  <2>3. net!AllGathered'
    <3>1. (build \in net!Builds)' /\ (ifaddr = << >>)' /\ (netResult = << >>)'
      BY <1>0, <2>1 DEF net!Builds
    <3>. QED
      BY <3>1, NothingIsGathered, PTL
  <2>. QED
    BY <1>0, <2>1, <2>3 DEF GatherInv, net!Builds
<1>2. CASE net!Begin
  <2>1. /\ netPc = "idle" /\ build' = build /\ ifa' = ifa /\ addr' = addr /\ infos' = infos
        /\ netResult' = netResult
        /\ build = "getifaddrs" => ifaddr' \in net!Lists(Address)
        /\ build # "getifaddrs" => ifaddr' = ifaddr
        /\ netPc' = net!Then[build]
    BY <1>2 DEF net!Begin
  <2>2. net!Then[build] = (IF build = "getifaddrs" THEN "gather"
                           ELSE IF build = "Windows" THEN "size" ELSE "list")
    BY <1>0 DEF net!Then, net!Builds
  <2>3. netPc' # "returned"
    BY <2>1, <2>2
  <2>4. CASE build = "getifaddrs"
    <3>1. (ifaddr \in Seq(Address))'
      BY <1>0, <2>1, <2>4, ListsAreSequences
    <3>2. (ifa = 1)' /\ (addr = 0)' /\ (infos = << >>)' /\ (netResult = << >>)'
      BY <1>0, <2>1
    <3>3. InfosSoFar'
      BY <3>1, <3>2, NothingSoFar, PTL
    <3>. QED
      BY <1>0, <2>1, <2>2, <2>3, <2>4, <3>2, <3>3 DEF GatherInv, net!Builds, net!AllGathered
  <2>5. CASE build # "getifaddrs"
    BY <1>0, <2>1, <2>2, <2>3, <2>5 DEF GatherInv, net!Builds, net!AllGathered
  <2>. QED
    BY <2>4, <2>5
<1>3. CASE net!Allocate
  BY <1>0, <1>3 DEF net!Allocate, GatherInv, net!Builds, net!AllGathered, net!listVars
<1>4. CASE net!List
  <2>1. /\ netPc = "list" /\ netPc' = "gather"
        /\ ifaddr' \in net!Lists(IF build = "Windows" THEN Adapter ELSE Item)
        /\ UNCHANGED <<build, ifa, addr, infos, netResult>>
    BY <1>4 DEF net!List
  <2>2. build \in {"Windows", "ioctl"}
    BY <2>1 DEF HeldInv
  <2>3. (ifa = 1)' /\ (addr = 0)' /\ (infos = << >>)' /\ (netResult = << >>)'
    BY <1>0, <2>1
  <2>4. build = "Windows" => AdaptersSoFar'
    <3>1. ASSUME build = "Windows" PROVE (ifaddr \in Seq(Adapter))'
      BY <1>0, <2>1, <3>1, ListsAreSequences
    <3>. QED
      BY <2>3, <3>1, NothingSoFar, PTL
  <2>5. build = "ioctl" => ItemsSoFar'
    <3>1. ASSUME build = "ioctl" PROVE (ifaddr \in Seq(Item))'
      BY <1>0, <2>1, <3>1, ListsAreSequences
    <3>. QED
      BY <2>3, <3>1, NothingSoFar, PTL
  <2>. QED
    BY <1>0, <2>1, <2>2, <2>3, <2>4, <2>5 DEF GatherInv, net!Builds, net!AllGathered
<1>5. CASE net!SkipNull \/ net!Gather
  <2>1. /\ netPc = "gather" /\ netPc' = "gather" /\ build = "getifaddrs"
        /\ build' = build /\ addr' = addr /\ ifa' = ifa + 1
    BY <1>5 DEF net!SkipNull, net!Gather, net!AtEntry
  <2>2. InfosSoFar'
    BY <1>0, <1>5, <2>1, SkipNullStep, GatherStep
  <2>. QED
    BY <1>0, <2>1, <2>2 DEF GatherInv, net!AllGathered, net!Builds
<1>6. CASE net!GatherAdapter \/ net!GatherAddress \/ net!NextAdapter
  <2>1. /\ netPc = "gather" /\ netPc' = "gather" /\ build = "Windows" /\ build' = build
        /\ addr' \in {0, 1, addr + 1} /\ ifa' \in {ifa, ifa + 1}
    BY <1>6 DEF net!GatherAdapter, net!GatherAddress, net!NextAdapter, net!AtEntry
  <2>2. AdaptersSoFar'
    BY <1>0, <1>6, <2>1, GatherAdapterStep, GatherAddressStep, NextAdapterStep
  <2>. QED
    BY <1>0, <2>1, <2>2 DEF GatherInv, net!AllGathered, net!Builds
<1>7. CASE net!GatherItem
  <2>1. /\ netPc = "gather" /\ netPc' = "gather" /\ build = "ioctl" /\ build' = build
        /\ addr' = addr /\ ifa' = ifa + 1
    BY <1>7 DEF net!GatherItem, net!AtEntry
  <2>2. ItemsSoFar'
    BY <1>0, <1>7, <2>1, GatherItemStep
  <2>. QED
    BY <1>0, <2>1, <2>2 DEF GatherInv, net!AllGathered, net!Builds
<1>8. CASE net!Return
  <2>1. /\ netPc = "gather" /\ netPc' = "returned" /\ ifa > Len(ifaddr)
        /\ netResult' = IF build = "getifaddrs" THEN infos ELSE netResult
        /\ UNCHANGED <<build, ifaddr, ifa, addr, infos>>
    BY <1>8 DEF net!Return, net!listVars
  <2>2. ASSUME build = "Windows" PROVE AdaptersSoFar /\ addr = 0
    <3>1. AdaptersSoFar
      BY <1>0, <2>1, <2>2
    <3>2. ASSUME addr > 0 PROVE ifa <= Len(ifaddr)
      <4>1. PICK a, n : a = ifaddr[ifa] /\ n = addr - 1
        OBVIOUS
      <4>. QED
        BY <3>1, <3>2, <4>1 DEF AdaptersSoFar
    <3>3. Len(ifaddr) \in Nat
      BY <3>1 DEF AdaptersSoFar
    <3>. QED
      BY <1>0, <2>1, <3>1, <3>2, <3>3
  <2>3. /\ build = "getifaddrs" => InfosSoFar' /\ (netResult = infos)'
        /\ build = "Windows" => AdaptersSoFar'
        /\ build = "ioctl" => ItemsSoFar'
    <3>1. build = "getifaddrs" => InfosSoFar' /\ (netResult = infos)'
      <4>1. InfosSoFar => InfosSoFar'
        BY <2>1, InfosStay
      <4>. QED
        BY <1>0, <2>1, <4>1
    <3>2. build = "Windows" => AdaptersSoFar'
      BY <2>1, <2>2 DEF AdaptersSoFar
    <3>3. build = "ioctl" => ItemsSoFar'
      BY <1>0, <2>1 DEF ItemsSoFar
    <3>. QED
      BY <3>1, <3>2, <3>3
  <2>4. addr' = 0
    BY <1>0, <2>1, <2>2
  <2>5. net!AllGathered'
    <3>1. /\ (build \in net!Builds)' /\ (ifa > Len(ifaddr))'
          /\ (build = "getifaddrs" => InfosSoFar /\ netResult = infos)'
          /\ (build = "Windows" => AdaptersSoFar /\ addr = 0)'
          /\ (build = "ioctl" => ItemsSoFar)'
      BY <1>0, <2>1, <2>3, <2>4 DEF net!Builds
    <3>. QED
      BY <3>1, AllAreGathered, PTL
  <2>. QED
    BY <1>0, <2>1, <2>4, <2>5 DEF GatherInv, net!Builds
<1>9. CASE net!Done
  <2>1. /\ netPc = "returned" /\ netPc' = "idle" /\ ifaddr' = << >> /\ ifa' = 1
        /\ infos' = << >> /\ netResult' = << >> /\ build' = build /\ addr' = addr
    BY <1>9 DEF net!Done, net!NoInfos
  <2>. QED
    BY <1>0, <2>1 DEF GatherInv, net!AllGathered, net!Builds
<1>10. CASE UNCHANGED netVars
  <2>1. UNCHANGED <<build, netPc, ifaddr, ifa, addr, infos, netResult>>
    BY <1>10 DEF netVars
  <2>2. InfosSoFar => InfosSoFar'
    BY <2>1, InfosStay
  <2>3. (AdaptersSoFar => AdaptersSoFar') /\ (ItemsSoFar => ItemsSoFar')
    BY <2>1 DEF AdaptersSoFar, ItemsSoFar
  <2>4. net!AllGathered'
    BY <2>1, ReferenceStays DEF GatherInv, net!AllGathered
  <2>. QED
    BY <1>0, <2>1, <2>2, <2>3, <2>4 DEF GatherInv, net!Builds
<1>. QED
  BY <1>1, <1>2, <1>3, <1>4, <1>5, <1>6, <1>7, <1>8, <1>9, <1>10 DEF net!Next, net!Step

(* In every build, each interface with an address is found once, with what the  *)
(* last address of each kind says of it and however the addresses of others lie  *)
(* between, and adapters and items in their order (net/sys/module.cpp:76-362).   *)
THEOREM InterfacesAreGathered == LocalSpec => []AllGathered
<1>1. LocalInit => HeldInv /\ GatherInv
  <2>. SUFFICES ASSUME net!Init PROVE HeldInv /\ GatherInv
    BY DEF LocalInit
  <2>1. HeldInv
    BY DEF net!Init, HeldInv, NetPhases, net!GivenBack
  <2>2. GatherInv
    BY DEF net!Init, GatherInv, net!NoInfos, net!AllGathered
  <2>. QED
    BY <2>1, <2>2
<1>2. HeldInv /\ GatherInv /\ [LocalNext]_allVars => (HeldInv /\ GatherInv)'
  <2>1. [LocalNext]_allVars => [net!Next]_netVars
    BY DEF LocalNext, Alone, allVars
  <2>. QED
    BY <2>1, HeldStep, GatheringStep
<1>3. GatherInv => AllGathered
  BY DEF GatherInv, AllGathered
<1>. QED
  BY <1>1, <1>2, <1>3, PTL DEF LocalSpec

=================================================================================
