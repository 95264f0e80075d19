--------------------------- MODULE GLXDiscoveryProofs ---------------------------
(***************************************************************************)
(* What the glx module finds, for any X servers, displays and changes of     *)
(* them, as TLC checks it in LocalModules.cfg.                              *)
(***************************************************************************)
EXTENDS GLXDiscovery, TLAPS

Flag == {"DEFAULT", "VIRTUALGL", "VIRTUALGL_DISPLAY", "VNC"}

Info == [port : Nat, device : Nat, size : STRING \cup {NoSize}, flags : SUBSET Flag]

(* Types.                                                                  *)
Typed ==
  /\ servers \in [Known -> ServerStates]
  /\ display \in Displays
  /\ vgl \in BOOLEAN
  /\ vglDisplay \in VGLDisplays
  /\ apple \in BOOLEAN
  /\ pc \in {"idle", "default", "probe", "returned"}
  /\ i \in Nat /\ j \in Nat
  /\ defaultInfo \in Info
  /\ result \in Seq(Info)
  /\ calm \in BOOLEAN
  /\ pc \in {"idle", "default"} =>
       i = 0 /\ j = 0 /\ result = << >> /\ defaultInfo = Blank

\* Screens are numbered from 0, and every server of a name is one of the known.
LEMMA NameTyped ==
  ASSUME Typed, NEW name \in DisplayName, [host |-> name.host, port |-> name.port] \in Known
  PROVE  /\ ServerOf(name) \in ServerStates
         /\ ServerOf(name).screens \in Seq(STRING \ {NoSize})
         /\ Screen(name) \in Nat
         /\ Opens(name) =>
              /\ Screen(name) + 1 \in DOMAIN ServerOf(name).screens
              /\ GPUInfo(name) \in Info
              /\ GPUInfo(name).size # NoSize
<1>1. ServerOf(name) \in ServerStates
  BY DEF Typed, ServerOf
<1>2. ServerOf(name).screens \in Seq(STRING \ {NoSize})
  BY <1>1, ServersHaveScreens
<1>3. Screen(name) \in Nat /\ name.port \in Nat
  BY DEF DisplayName, Screen, NoScreen
<1>4. Flags(name) \in SUBSET Flag
  BY Zenon DEF Flags, Flag
<1>. DEFINE screens == ServerOf(name).screens
            k == Screen(name) + 1
<1>5. ASSUME Opens(name)
      PROVE  k \in DOMAIN screens /\ screens[k] \in STRING \ {NoSize}
  <2>1. Screen(name) < Len(screens)
    BY <1>5 DEF Opens
  <2>. HIDE DEF screens
  <2>2. screens \in Seq(STRING \ {NoSize})
    BY <1>2 DEF screens
  <2>. QED
    BY <1>3, <2>1, <2>2
<1>. HIDE DEF screens, k
<1>6. Opens(name) => GPUInfo(name) \in Info /\ GPUInfo(name).size # NoSize
  BY <1>3, <1>4, <1>5 DEF GPUInfo, Info, screens, k
<1>. QED
  BY <1>1, <1>2, <1>3, <1>5, <1>6 DEF screens, k

\* The names that are opened.
LEMMA ProbedTyped ==
  ASSUME Typed, NEW p \in Ports, NEW d \in Nat
  PROVE  /\ Name(ThisHost, p, d) \in DisplayName
         /\ [host |-> ThisHost, port |-> p] \in Known
         /\ Screen(Name(ThisHost, p, d)) = d
         /\ p \in Nat
BY PortsAssumption DEF Ports, Name, DisplayName, Known, Screen, NoScreen

LEMMA DisplayTyped ==
  ASSUME Typed, display # NoDisplay
  PROVE  /\ display \in DisplayName
         /\ [host |-> display.host, port |-> display.port] \in Known
BY DisplaysHaveServers DEF Typed, Known

\* Of a GPU that is found.
LEMMA FlagsAre ==
  ASSUME NEW name
  PROVE  /\ "DEFAULT" \notin Flags(name)
         /\ "VIRTUALGL_DISPLAY" \in Flags(name) <=> vgl /\ Redirected(name)
<1>. DEFINE a == IF vgl THEN {"VIRTUALGL"} ELSE {}
            b == IF vgl /\ Redirected(name) THEN {"VIRTUALGL_DISPLAY"} ELSE {}
            c == IF ServerOf(name).vnc THEN {"VNC"} ELSE {}
<1>1. Flags(name) = a \cup b \cup c
  BY DEF Flags
<1>2. "DEFAULT" \notin a \cup b \cup c
  OBVIOUS
<1>3. "VIRTUALGL_DISPLAY" \in a \cup b \cup c <=> vgl /\ Redirected(name)
  OBVIOUS
<1>. QED
  BY <1>1, <1>2, <1>3

\* The default display's GPU, but for its flags.
LEMMA DefaultIsInfo ==
  ASSUME NEW info \in Info
  PROVE  LET d == DefaultFlagged(info) IN
           /\ d \in Info
           /\ d.port = info.port /\ d.device = info.device /\ d.size = info.size
           /\ d.flags = {"DEFAULT"}
<1>1. {"DEFAULT"} \in SUBSET Flag
  BY DEF Flag
<1>. QED
  BY <1>1 DEF DefaultFlagged, Info

LEMMA BlankIsInfo ==
  Blank \in Info /\ Blank.size = NoSize /\ Blank.flags = {}
BY DEF Blank, Info

\* Initially, nothing is found.
LEMMA InitTyped == Init => Typed
<1>1. Blank \in Info /\ << >> \in Seq(Info)
  BY BlankIsInfo
<1>. QED
  BY <1>1 DEF Init, Typed

\* Every step keeps the types.
LEMMA TypedStep ==
  ASSUME Typed, [Next]_vars
  PROVE  Typed'
<1>. USE DEF Typed, envVars
<1>1. CASE Discover
  BY <1>1 DEF Discover
<1>2. CASE FindDefault
  <2>1. GPUInfo(display) \in Info
    BY <1>2, DisplayTyped, NameTyped DEF FindDefault, DefaultOpens
  <2>2. defaultInfo' \in Info
    BY <1>2, <2>1, DefaultIsInfo DEF FindDefault
  <2>3. result' \in Seq(Info)
    BY <1>2, <2>2 DEF FindDefault
  <2>. QED
    BY <1>2, <2>2, <2>3 DEF FindDefault
<1>3. CASE FindScreen
  <2>1. GPUInfo(Probed) \in Info
    BY <1>3, ProbedTyped, NameTyped DEF FindScreen, Probed, Name
  <2>2. result' \in Seq(Info)
    BY <1>3, <2>1 DEF FindScreen
  <2>. QED
    BY <1>3, <2>2 DEF FindScreen
<1>4. CASE FindNoDefault \/ NextServer \/ Return
  BY <1>4 DEF FindNoDefault, NextServer, PortBehind, FirstScreen, Return
<1>5. CASE Done
  BY <1>5, BlankIsInfo DEF Done
<1>6. ASSUME NEW s \in DOMAIN servers, ServerChanges(s) PROVE Typed'
  BY <1>6 DEF ServerChanges
<1>7. CASE UNCHANGED vars
  BY <1>7 DEF vars
<1>. QED
  BY <1>1, <1>2, <1>3, <1>4, <1>5, <1>6, <1>7 DEF Next, Step

-------------------------------------------------------------------------------
(* What is found whatever the servers do meanwhile.                        *)

IsDefault(info) == "DEFAULT" \in info.flags

\* The loops have been at its screen.
Passed(p, d) == p < i \/ (p = i /\ d < j)

OfProbe(info) ==
  /\ info.port \in Ports
  /\ Passed(info.port, info.device)
  /\ ~Same(info, defaultInfo)
  /\ "VIRTUALGL_DISPLAY" \in info.flags <=>
       vgl /\ Redirected(Name(ThisHost, info.port, info.device))

\* The default display comes first, and the screens that are probed are never
\* probed again.
Probing ==
  /\ defaultInfo = Blank \/ (result # << >> /\ result[1] = defaultInfo /\ IsDefault(defaultInfo))
  /\ \A k \in DOMAIN result :
       IF IsDefault(result[k])
       THEN k = 1 /\ result[k].flags = {"DEFAULT"} /\ result[k] = defaultInfo
       ELSE OfProbe(result[k])
  /\ \A k, l \in DOMAIN result :
       /\ ~IsDefault(result[k]) /\ ~IsDefault(result[l])
       /\ result[k].port = result[l].port /\ result[k].device = result[l].device
       => k = l

\* Nothing is found between calls.
LEMMA ProbingNothing ==
  ASSUME Typed, result = << >>, defaultInfo = Blank
  PROVE  Probing
BY DEF Probing

\* A screen that is opened becomes the last of the result unless it is the default.
LEMMA FindScreenAppends ==
  ASSUME Typed, FindScreen
  PROVE  LET info == GPUInfo(Probed) IN
           /\ info \in Info /\ info.port = i /\ info.device = j /\ info.size # NoSize
           /\ ~IsDefault(info)
           /\ "VIRTUALGL_DISPLAY" \in info.flags <=> vgl /\ Redirected(Name(ThisHost, i, j))
           /\ IF IsNew(info)
              THEN /\ DOMAIN result' = DOMAIN result \cup {Len(result) + 1}
                   /\ \A k \in DOMAIN result : result'[k] = result[k]
                   /\ result'[Len(result) + 1] = info
                   /\ Len(result) + 1 \notin DOMAIN result
              ELSE result' = result
<1>. DEFINE info == GPUInfo(Probed)
<1>1. info \in Info /\ info.size # NoSize /\ i \in Ports /\ Opens(Probed)
  BY ProbedTyped, NameTyped DEF FindScreen, Probed, Name, Typed
<1>2. info.port = i /\ info.device = j
  BY <1>1, ProbedTyped DEF GPUInfo, Probed, Name, Typed
<1>3. info.flags = Flags(Probed)
  BY DEF GPUInfo
<1>4. /\ ~IsDefault(info)
      /\ "VIRTUALGL_DISPLAY" \in info.flags <=> vgl /\ Redirected(Name(ThisHost, i, j))
  BY <1>3, FlagsAre DEF IsDefault, Probed
<1>5. result \in Seq(Info) /\ result' = IF IsNew(info) THEN Append(result, info) ELSE result
  BY DEF FindScreen, Typed
<1>. HIDE DEF info
<1>6. IF IsNew(info)
      THEN /\ DOMAIN result' = DOMAIN result \cup {Len(result) + 1}
           /\ \A k \in DOMAIN result : result'[k] = result[k]
           /\ result'[Len(result) + 1] = info
           /\ Len(result) + 1 \notin DOMAIN result
      ELSE result' = result
  BY <1>1, <1>5
<1>. QED
  BY <1>1, <1>2, <1>4, <1>6 DEF info

\* The loops go on: what was passed stays passed.
LEMMA OfProbeStays ==
  ASSUME Typed, UNCHANGED <<envVars, defaultInfo>>, i' \in Nat, j' \in Nat,
         \/ i' = i /\ j' = j
         \/ i' = i /\ j' = j + 1
         \/ i' = i + 1
  PROVE  \A info \in Info : OfProbe(info) => OfProbe(info)'
<1>1. \A p, d \in Nat : Passed(p, d) => Passed(p, d)'
  BY DEF Typed, Passed
<1>2. \A name : Redirected(name)' <=> Redirected(name)
  BY DEF Redirected, envVars
<1>. QED
  BY <1>1, <1>2 DEF OfProbe, envVars, Info

\* Every step keeps it.
LEMMA ProbingStep ==
  ASSUME Typed, Typed', Probing, [Next]_vars
  PROVE  Probing'
<1>. USE DEF envVars
<1>0. \A k \in DOMAIN result : result[k] \in Info
  BY DEF Typed
<1>1. ASSUME UNCHANGED <<envVars, defaultInfo, result>>, \A info \in Info : OfProbe(info) => OfProbe(info)'
      PROVE  Probing'
  BY <1>0, <1>1 DEF Probing
<1>2. CASE Discover \/ FindNoDefault \/ Return \/ UNCHANGED vars
           \/ \E s \in DOMAIN servers : ServerChanges(s)
  <2>1. UNCHANGED <<envVars, defaultInfo, result, i, j>>
    BY <1>2 DEF Discover, FindNoDefault, Return, vars, ServerChanges
  <2>. QED
    BY <1>1, <2>1, OfProbeStays DEF Typed
<1>3. CASE NextServer
  <2>1. UNCHANGED <<envVars, defaultInfo, result>> /\ i' = i + 1
    BY <1>3 DEF NextServer, PortBehind
  <2>. QED
    BY <1>1, <2>1, OfProbeStays DEF Typed
<1>4. CASE FindDefault
  <2>1. GPUInfo(display) \in Info
    BY <1>4, DisplayTyped, NameTyped DEF FindDefault, DefaultOpens
  <2>2. defaultInfo'.flags = {"DEFAULT"} /\ result' = <<defaultInfo'>>
    BY <1>4, <2>1, DefaultIsInfo DEF FindDefault
  <2>3. DOMAIN result' = {1} /\ result'[1] = defaultInfo' /\ result' # << >>
    BY <2>2
  <2>. QED
    BY <2>2, <2>3 DEF Probing, IsDefault
<1>5. CASE FindScreen
  <2>0. PICK info \in Info, p \in Nat, d \in Nat, n \in Nat :
          info = GPUInfo(Probed) /\ p = i /\ d = j /\ n = Len(result) + 1
    <3>1. GPUInfo(Probed) \in Info
      BY <1>5, FindScreenAppends
    <3>2. i \in Nat /\ j \in Nat /\ Len(result) + 1 \in Nat
      BY DEF Typed
    <3>. QED
      BY <3>1, <3>2
  <2>1. /\ info.port = p /\ info.device = d
        /\ ~IsDefault(info)
        /\ "VIRTUALGL_DISPLAY" \in info.flags <=> vgl /\ Redirected(Name(ThisHost, p, d))
        /\ IF IsNew(info)
           THEN /\ DOMAIN result' = DOMAIN result \cup {n}
                /\ \A k \in DOMAIN result : result'[k] = result[k]
                /\ result'[n] = info
                /\ n \notin DOMAIN result
           ELSE result' = result
    BY <1>5, <2>0, FindScreenAppends
  <2>2. UNCHANGED <<envVars, defaultInfo>> /\ i' = i /\ j' = j + 1 /\ p \in Ports
    BY <1>5, <2>0 DEF FindScreen
  <2>3. \A old \in Info : OfProbe(old) => OfProbe(old)'
    BY <2>2, OfProbeStays DEF Typed
  <2>4. CASE ~IsNew(info)
    BY <1>1, <2>1, <2>2, <2>3, <2>4
  <2>5. CASE IsNew(info)
    <3>1. OfProbe(info)'
      <4>1. Redirected(Name(ThisHost, p, d))' <=> Redirected(Name(ThisHost, p, d))
        BY <2>2 DEF Redirected
      <4>2. Passed(p, d)'
        BY <2>0, <2>2 DEF Passed, Typed
      <4>3. ~Same(info, defaultInfo)
        BY <2>5 DEF IsNew
      <4>4. OfProbe(info)' <=>
              /\ p \in Ports /\ Passed(p, d)' /\ ~Same(info, defaultInfo)
              /\ "VIRTUALGL_DISPLAY" \in info.flags <=> vgl /\ Redirected(Name(ThisHost, p, d))'
        BY <2>1, <2>2 DEF OfProbe
      <4>. QED
        BY <2>1, <2>2, <4>1, <4>2, <4>3, <4>4
    <3>2. ASSUME NEW k \in DOMAIN result, ~IsDefault(result[k])
          PROVE  ~(result[k].port = p /\ result[k].device = d)
      <4>1. Passed(result[k].port, result[k].device)
        BY <3>2 DEF Probing, OfProbe
      <4>. QED
        BY <2>0, <4>1 DEF Passed
    <3>3. defaultInfo # Blank => n # 1 /\ result' # << >> /\ result'[1] = defaultInfo
      <4>1. defaultInfo # Blank => result # << >> /\ result[1] = defaultInfo
        BY DEF Probing
      <4>2. result # << >> => 1 \in DOMAIN result
        BY DEF Typed
      <4>. QED
        BY <2>1, <2>5, <4>1, <4>2
    <3>4. ASSUME NEW k \in DOMAIN result'
          PROVE  IF IsDefault(result'[k])
                 THEN k = 1 /\ result'[k].flags = {"DEFAULT"} /\ result'[k] = defaultInfo'
                 ELSE OfProbe(result[k])'
      <4>1. CASE k = n
        <5>1. result'[k] = info
          BY <2>1, <2>5, <4>1
        <5>. QED
          BY <2>1, <3>1, <5>1 DEF OfProbe, IsDefault
      <4>2. CASE k \in DOMAIN result
        <5>1. PICK old \in Info : old = result[k] /\ old = result'[k]
          BY <1>0, <2>1, <2>5, <4>2
        <5>2. IF IsDefault(old) THEN k = 1 /\ old.flags = {"DEFAULT"} /\ old = defaultInfo
              ELSE OfProbe(old)
          BY <4>2, <5>1 DEF Probing
        <5>3. OfProbe(old) => OfProbe(old)'
          BY <2>3
        <5>. QED
          BY <2>2, <5>1, <5>2, <5>3 DEF OfProbe, IsDefault
      <4>. QED
        BY <2>1, <2>5, <4>1, <4>2
    <3>5. \A k, l \in DOMAIN result' :
            /\ ~IsDefault(result'[k]) /\ ~IsDefault(result'[l])
            /\ result'[k].port = result'[l].port /\ result'[k].device = result'[l].device
            => k = l
      BY <2>1, <2>5, <3>2 DEF Probing
    <3>6. defaultInfo' = Blank \/ (result' # << >> /\ result'[1] = defaultInfo' /\ IsDefault(defaultInfo'))
      BY <2>2, <3>3 DEF Probing
    <3>. QED
      BY <3>4, <3>5, <3>6 DEF Probing
  <2>. QED
    BY <2>4, <2>5
<1>6. CASE Done
  BY <1>6, ProbingNothing DEF Done, Probing
<1>. QED
  BY <1>2, <1>3, <1>4, <1>5, <1>6 DEF Next, Step

\* Of two infos of one screen.
LEMMA OnlyTwiceOfSize == Typed /\ Probing => OnlyDefaultTwice
<1>. SUFFICES ASSUME Typed, Probing, NEW k \in DOMAIN result, NEW l \in DOMAIN result,
                     k < l, result[k].port = result[l].port, result[k].device = result[l].device
              PROVE  k = 1 /\ result[k].flags = {"DEFAULT"} /\ result[k].size # result[l].size
  BY DEF OnlyDefaultTwice
<1>1. k \in Nat /\ l \in Nat /\ k >= 1
  BY DEF Typed
<1>2. ~IsDefault(result[l])
  BY <1>1 DEF Probing
<1>3. IsDefault(result[k])
  BY <1>1, <1>2 DEF Probing
<1>4. k = 1 /\ result[k].flags = {"DEFAULT"} /\ result[k] = defaultInfo /\ OfProbe(result[l])
  BY <1>2, <1>3 DEF Probing
<1>. QED
  BY <1>4 DEF OfProbe, Same

(* In any state of any call, two infos of one screen are the default display and *)
(* the screen with another size (glx/module.cpp:119-160).                    *)
THEOREM OnlyDefaultIsTwice == Spec => []OnlyDefaultTwice
<1>1. Init => Typed /\ Probing
  BY InitTyped, ProbingNothing DEF Init
<1>2. Typed /\ Probing /\ [Next]_vars => (Typed /\ Probing)'
  BY TypedStep, ProbingStep
<1>. QED
  BY <1>1, <1>2, OnlyTwiceOfSize, PTL DEF Spec

-------------------------------------------------------------------------------
(* The display VirtualGL redirects to.                                     *)

\* Two names of the same fields are the same.
LEMMA SameName ==
  ASSUME NEW name \in DisplayName, NEW p \in Nat, NEW d \in Nat \cup {NoScreen}
  PROVE  name = Name(ThisHost, p, d) <=>
           name.host = ThisHost /\ name.port = p /\ name.screen = d
BY DEF DisplayName, Name

\* A screen is the one VirtualGL redirects to if its numbers are.
LEMMA RedirectedIs ==
  ASSUME vglDisplay \in DisplayName, NEW p \in Nat, NEW d \in Nat
  PROVE  Redirected(Name(ThisHost, p, d)) <=>
           vglDisplay.host = ThisHost /\ vglDisplay.port = p /\ Screen(vglDisplay) = d
<1>. DEFINE name == Name(ThisHost, p, d)
            with == [vglDisplay EXCEPT !.screen = 0]
<1>1. /\ name.screen = d /\ name # Name(ThisHost, 0, NoScreen)
      /\ vglDisplay.screen \in Nat \cup {NoScreen} /\ d # NoScreen
  BY DEF Name, NoScreen, DisplayName
<1>2. HasScreen(name) <=> d < TwoDigits
  BY <1>1, PortsAssumption DEF HasScreen
<1>3. HasScreen(vglDisplay) <=> vglDisplay.screen # NoScreen /\ vglDisplay.screen < TwoDigits
  BY <1>1, PortsAssumption DEF HasScreen, NoScreen
<1>4. Redirected(name) <=>
        IF HasScreen(name) /\ ~HasScreen(vglDisplay)
        THEN vglDisplay.screen = NoScreen /\ with = name
        ELSE vglDisplay = name
  BY <1>1 DEF Redirected
<1>5. vglDisplay = name <=>
        vglDisplay.host = ThisHost /\ vglDisplay.port = p /\ vglDisplay.screen = d
  BY SameName
<1>6. /\ with \in DisplayName
      /\ with.host = vglDisplay.host /\ with.port = vglDisplay.port /\ with.screen = 0
  BY DEF DisplayName
<1>7. with = name <=> vglDisplay.host = ThisHost /\ vglDisplay.port = p /\ d = 0
  <2>. HIDE DEF with
  <2>. QED
    BY <1>6, SameName
<1>. HIDE DEF name, with
<1>8. Screen(vglDisplay) = IF vglDisplay.screen = NoScreen THEN 0 ELSE vglDisplay.screen
  BY DEF Screen
<1>9. 0 < TwoDigits /\ TwoDigits \in Nat /\ NoScreen = -1
  BY PortsAssumption DEF NoScreen
<1>10. CASE vglDisplay.screen = NoScreen
  BY <1>1, <1>2, <1>3, <1>4, <1>5, <1>7, <1>8, <1>9, <1>10 DEF name
<1>11. CASE vglDisplay.screen # NoScreen
  BY <1>1, <1>2, <1>3, <1>4, <1>5, <1>7, <1>8, <1>9, <1>11 DEF name
<1>. QED
  BY <1>10, <1>11

(* Whatever the names of the displays look like, the flag of the display      *)
(* VirtualGL redirects to is on one GPU at most and on none that VGL_DISPLAY  *)
(* does not name; the one it names has it unless that is the GPU of DISPLAY,  *)
(* whose flags are overwritten (gpu/glx/module.cpp:60-85, 130).              *)
THEOREM RedirectedToOne == Spec => []OneRedirection
<1>1. Init => Typed /\ Probing
  BY InitTyped, ProbingNothing DEF Init
<1>2. Typed /\ Probing /\ [Next]_vars => (Typed /\ Probing)'
  BY TypedStep, ProbingStep
<1>3. Typed /\ Probing => OneRedirection
  <2>. SUFFICES ASSUME Typed, Probing PROVE OneRedirection
    OBVIOUS
  <2>1. ASSUME NEW k \in DOMAIN result, ~IsDefault(result[k])
        PROVE  "VIRTUALGL_DISPLAY" \in result[k].flags <=>
                 /\ vgl /\ vglDisplay.host = ThisHost
                 /\ vglDisplay.port = result[k].port /\ Screen(vglDisplay) = result[k].device
    <3>1. result[k].port \in Nat /\ result[k].device \in Nat
      <4>1. result[k] \in Info
        BY DEF Typed
      <4>. QED
        BY <4>1 DEF Info
    <3>2. vglDisplay \in DisplayName
      BY DisplaysHaveServers DEF Typed
    <3>3. "VIRTUALGL_DISPLAY" \in result[k].flags <=>
            vgl /\ Redirected(Name(ThisHost, result[k].port, result[k].device))
      BY <2>1 DEF Probing, OfProbe
    <3>. QED
      BY <3>1, <3>2, <3>3, RedirectedIs
  <2>2. ASSUME NEW k \in DOMAIN result, "VIRTUALGL_DISPLAY" \in result[k].flags
        PROVE  ~IsDefault(result[k])
    BY <2>2 DEF Probing
  <2>3. ASSUME NEW k \in DOMAIN result, NEW l \in DOMAIN result,
               IsFlagged(result[k]), IsFlagged(result[l])
        PROVE  k = l
    <3>1. ~IsDefault(result[k]) /\ ~IsDefault(result[l])
      BY <2>2, <2>3 DEF IsFlagged
    <3>2. result[k].port = result[l].port /\ result[k].device = result[l].device
      BY <2>1, <2>3, <3>1 DEF IsFlagged
    <3>. QED
      BY <3>1, <3>2 DEF Probing
  <2>. QED
    BY <2>1, <2>2, <2>3 DEF OneRedirection, OfVGLDisplay, IsFlagged, IsDefault
<1>. QED
  BY <1>1, <1>2, <1>3, PTL DEF Spec

-------------------------------------------------------------------------------
(* What is found while the servers stay as they are.                       *)

ScreenOf(info) == Name(ThisHost, info.port, info.device)

\* It is the GPU of a screen that is there.
IsThere(info) == Opens(ScreenOf(info)) /\ info.size = GPUInfo(ScreenOf(info)).size

\* What the loops have been at is found.
Complete ==
  \A p \in Ports : \A d \in Nat :
    Passed(p, d) /\ Opens(Name(ThisHost, p, d)) =>
      \E k \in DOMAIN result : result[k].port = p /\ result[k].device = d

Looked ==
  /\ calm /\ (display # NoDisplay => display.host = ThisHost) =>
       /\ \A k \in DOMAIN result : IsThere(result[k])
       /\ Complete
  /\ pc = "returned" => i \notin Ports \/ (apple /\ DefaultFound)

NotLooked ==
  i = 0 /\ j = 0 /\ pc # "returned" /\ \A k \in DOMAIN result : IsThere(result[k])

\* Nothing has been looked at.
LEMMA LookedNothing == NotLooked => Looked
<1>. SUFFICES ASSUME NotLooked PROVE Looked
  OBVIOUS
<1>1. \A p, d \in Nat : ~Passed(p, d)
  BY DEF NotLooked, Passed
<1>2. Complete
  BY <1>1, PortsAssumption DEF Complete, Ports
<1>. QED
  BY <1>2 DEF NotLooked, Looked

\* It stays there while the servers stay.
LEMMA IsThereStays ==
  ASSUME UNCHANGED servers
  PROVE  /\ \A info : IsThere(info)' <=> IsThere(info)
         /\ \A name : Opens(name)' <=> Opens(name)
<1>1. \A name : ServerOf(name)' = ServerOf(name)
  BY DEF ServerOf
<1>2. \A name : Opens(name)' <=> Opens(name)
  BY <1>1 DEF Opens
<1>3. \A name : GPUInfo(name).size' = GPUInfo(name).size
  BY <1>1 DEF GPUInfo
<1>. QED
  BY <1>2, <1>3 DEF IsThere

\* A GPU of a name on this host is there.
LEMMA OpenedIsThere ==
  ASSUME Typed, NEW name \in DisplayName, [host |-> name.host, port |-> name.port] \in Known,
         name.host = ThisHost, Opens(name),
         NEW info, info.port = name.port, info.device = Screen(name),
         info.size = GPUInfo(name).size
  PROVE  IsThere(info)
<1>1. Screen(name) \in Nat
  BY NameTyped
<1>2. /\ ServerOf(ScreenOf(info)) = ServerOf(name)
      /\ Screen(ScreenOf(info)) = Screen(name)
  BY <1>1 DEF ScreenOf, Name, ServerOf, Screen, NoScreen
<1>. QED
  BY <1>2 DEF IsThere, Opens, GPUInfo

\* Screens are numbered without gaps.
LEMMA NoGaps ==
  ASSUME Typed, NEW p \in Ports, NEW d \in Nat, NEW e \in Nat, d <= e,
         Opens(Name(ThisHost, p, e))
  PROVE  Opens(Name(ThisHost, p, d))
<1>. DEFINE a == Name(ThisHost, p, d)
            b == Name(ThisHost, p, e)
<1>1. Screen(a) = d /\ Screen(b) = e
  BY ProbedTyped
<1>2. ServerOf(a) = ServerOf(b)
  BY DEF ServerOf, Name
<1>3. ServerOf(b).screens \in Seq(STRING \ {NoSize})
  BY ProbedTyped, NameTyped DEF Name
<1>4. Len(ServerOf(b).screens) \in Nat
  BY <1>3
<1>. HIDE DEF a, b
<1>. QED
  BY <1>1, <1>2, <1>4 DEF Opens, a, b

\* A screen that is opened is one of the result then, and of no other size.
LEMMA LookedFindScreen ==
  ASSUME Typed, Typed', Probing, Looked, FindScreen
  PROVE  Looked'
<1>1. PICK info \in Info, p \in Ports, d \in Nat :
        info = GPUInfo(Probed) /\ p = i /\ d = j
  BY FindScreenAppends DEF FindScreen, Typed
<1>2. /\ info.port = p /\ info.device = d /\ info.size # NoSize
      /\ IF IsNew(info)
         THEN /\ DOMAIN result' = DOMAIN result \cup {Len(result) + 1}
              /\ \A k \in DOMAIN result : result'[k] = result[k]
              /\ result'[Len(result) + 1] = info
         ELSE result' = result
  BY <1>1, FindScreenAppends
<1>3. UNCHANGED <<servers, envVars, pc, defaultInfo, calm>> /\ i' = p /\ j' = d + 1 /\ p \in Nat
  BY <1>1, ProbedTyped DEF FindScreen
<1>4. IsThere(info)
  <2>1. Opens(Probed) /\ Probed = Name(ThisHost, p, d)
    BY <1>1 DEF FindScreen, Probed
  <2>2. Name(ThisHost, p, d) \in DisplayName /\ Name(ThisHost, p, d).host = ThisHost
        /\ Name(ThisHost, p, d).port = p
    BY ProbedTyped DEF Name
  <2>. QED
    BY <1>1, <1>2, <2>1, <2>2, ProbedTyped, OpenedIsThere
<1>5. PICK n \in DOMAIN result' : result'[n].port = p /\ result'[n].device = d
  <2>1. CASE IsNew(info)
    BY <1>2, <2>1
  <2>2. CASE ~IsNew(info)
    <3>1. Same(info, defaultInfo)
      BY <2>2 DEF IsNew
    <3>2. defaultInfo # Blank
      BY <1>2, <3>1, BlankIsInfo DEF Same
    <3>3. result # << >> /\ result[1] = defaultInfo /\ result' = result
      BY <1>2, <2>2, <3>2 DEF Probing
    <3>4. 1 \in DOMAIN result
      BY <3>3 DEF Typed
    <3>. QED
      BY <1>2, <3>1, <3>3, <3>4 DEF Same
  <2>. QED
    BY <2>1, <2>2
<1>6. ASSUME calm', (display # NoDisplay => display.host = ThisHost)'
      PROVE  (\A k \in DOMAIN result : IsThere(result[k]))' /\ Complete'
  <2>1. (\A k \in DOMAIN result : IsThere(result[k])) /\ Complete
    BY <1>3, <1>6 DEF Looked, envVars
  <2>2. ASSUME NEW k \in DOMAIN result'
        PROVE  IsThere(result[k])'
    <3>1. IsThere(result'[k])
      <4>1. CASE k \in DOMAIN result
        <5>1. result'[k] = result[k]
          BY <1>2, <4>1
        <5>. QED
          BY <2>1, <4>1, <5>1
      <4>2. CASE k \notin DOMAIN result
        <5>1. result'[k] = info
          BY <1>2, <4>2
        <5>. QED
          BY <1>4, <5>1
      <4>. QED
        BY <4>1, <4>2
    <3>2. PICK new : new = result'[k]
      OBVIOUS
    <3>3. IsThere(new)'
      BY <1>3, <3>1, <3>2, IsThereStays
    <3>. QED
      BY <3>2, <3>3 DEF IsThere, ScreenOf
  <2>3. ASSUME NEW q \in Ports, NEW e \in Nat, Passed(q, e)', Opens(Name(ThisHost, q, e))'
        PROVE  \E k \in DOMAIN result' : result'[k].port = q /\ result'[k].device = e
    <3>1. Passed(q, e) \/ (q = p /\ e = d)
      BY <1>1, <1>3, <2>3, ProbedTyped DEF Passed
    <3>2. Opens(Name(ThisHost, q, e))
      BY <1>3, <2>3, IsThereStays
    <3>3. CASE Passed(q, e)
      <4>1. PICK k \in DOMAIN result : result[k].port = q /\ result[k].device = e
        BY <2>1, <3>2, <3>3 DEF Complete
      <4>2. k \in DOMAIN result' /\ result'[k] = result[k]
        BY <1>2
      <4>. QED
        BY <4>1, <4>2
    <3>. QED
      BY <1>5, <3>1, <3>3
  <2>. QED
    BY <2>2, <2>3 DEF Complete
<1>7. pc' # "returned"
  BY <1>3 DEF FindScreen
<1>. QED
  BY <1>6, <1>7 DEF Looked

\* Behind a screen that does not exist there is none.
LEMMA LookedNextServer ==
  ASSUME Typed, Typed', Looked, NextServer
  PROVE  Looked'
<1>1. PICK p \in Ports, d \in Nat : p = i /\ d = j
  BY DEF NextServer, Typed
<1>2. UNCHANGED <<servers, envVars, pc, defaultInfo, calm, result>> /\ i' = p + 1 /\ j' = 0 /\ p \in Nat
  BY <1>1, ProbedTyped DEF NextServer, PortBehind, FirstScreen
<1>3. ~Opens(Name(ThisHost, p, d))
  BY <1>1 DEF NextServer, Probed
<1>4. ASSUME calm', (display # NoDisplay => display.host = ThisHost)'
      PROVE  (\A k \in DOMAIN result : IsThere(result[k]))' /\ Complete'
  <2>1. (\A k \in DOMAIN result : IsThere(result[k])) /\ Complete
    BY <1>2, <1>4 DEF Looked, envVars
  <2>2. (\A k \in DOMAIN result : IsThere(result[k]))'
    <3>1. \A info : IsThere(info)' <=> IsThere(info)
      BY <1>2, IsThereStays
    <3>. QED
      BY <1>2, <2>1, <3>1
  <2>3. ASSUME NEW q \in Ports, NEW e \in Nat, Passed(q, e)', Opens(Name(ThisHost, q, e))'
        PROVE  \E k \in DOMAIN result' : result'[k].port = q /\ result'[k].device = e
    <3>1. Opens(Name(ThisHost, q, e))
      BY <1>2, <2>3, IsThereStays
    <3>2. q \in Nat /\ (q < p + 1 \/ (q = p + 1 /\ e < 0))
      BY <1>2, <2>3, ProbedTyped DEF Passed
    <3>3. ~(q = p /\ d <= e)
      BY <1>3, <3>1, NoGaps
    <3>4. Passed(q, e)
      BY <1>1, <1>2, <3>2, <3>3 DEF Passed
    <3>. QED
      BY <1>2, <2>1, <3>1, <3>4 DEF Complete
  <2>. QED
    BY <2>2, <2>3 DEF Complete
<1>5. pc' # "returned"
  BY <1>2 DEF NextServer
<1>. QED
  BY <1>4, <1>5 DEF Looked

\* Every step keeps it.
LEMMA LookedStep ==
  ASSUME Typed, Typed', Probing, Looked, [Next]_vars
  PROVE  Looked'
<1>1. ASSUME UNCHANGED <<servers, envVars, result, i, j>>, calm' => calm,
             pc' = "returned" => pc = "returned" \/ i \notin Ports
      PROVE  Looked'
  <2>1. /\ \A info : IsThere(info)' <=> IsThere(info)
        /\ \A name : Opens(name)' <=> Opens(name)
    BY <1>1, IsThereStays
  <2>2. (\A k \in DOMAIN result : IsThere(result[k])) => (\A k \in DOMAIN result : IsThere(result[k]))'
    BY <1>1, <2>1
  <2>3. Complete => Complete'
    BY <1>1, <2>1 DEF Complete, Passed
  <2>4. pc' = "returned" => i' \notin Ports \/ (apple' /\ DefaultFound')
    BY <1>1 DEF Looked, DefaultFound, envVars
  <2>. QED
    BY <1>1, <2>2, <2>3, <2>4 DEF Looked, envVars
<1>2. CASE Discover \/ Done
  <2>1. i' = 0 /\ j' = 0 /\ pc' # "returned" /\ result' = << >>
    BY <1>2 DEF Discover, Done, Typed
  <2>2. NotLooked'
    BY <2>1 DEF NotLooked
  <2>. QED
    BY <2>2, LookedNothing, PTL
<1>3. CASE FindDefault
  <2>. DEFINE local == display # NoDisplay => display.host = ThisHost
  <2>1. /\ display \in DisplayName /\ [host |-> display.host, port |-> display.port] \in Known
        /\ Opens(display) /\ display # NoDisplay
        /\ GPUInfo(display) \in Info
    BY <1>3, DisplayTyped, NameTyped DEF FindDefault, DefaultOpens
  <2>2. /\ defaultInfo'.port = display.port /\ defaultInfo'.device = Screen(display)
        /\ defaultInfo'.size = GPUInfo(display).size
        /\ IsDefault(defaultInfo')
    <3>1. /\ GPUInfo(display).port = display.port
          /\ GPUInfo(display).device = Screen(display)
      BY DEF GPUInfo
    <3>2. PICK info \in Info : info = GPUInfo(display)
      BY <2>1
    <3>3. defaultInfo' = DefaultFlagged(info)
      BY <1>3, <3>2 DEF FindDefault
    <3>. QED
      BY <3>1, <3>2, <3>3, DefaultIsInfo DEF IsDefault
  <2>3. result' = <<defaultInfo'>> /\ DOMAIN result' = {1} /\ result'[1] = defaultInfo' /\ result' # << >>
    BY <1>3 DEF FindDefault
  <2>4. UNCHANGED <<servers, envVars, i, j>> /\ i = 0 /\ j = 0
    BY <1>3 DEF FindDefault, Typed
  <2>5. DefaultFound'
    BY <2>2, <2>3 DEF DefaultFound, IsDefault
  <2>6. local' => (\A k \in DOMAIN result : IsThere(result[k]))'
    <3>1. PICK info : info = defaultInfo'
      OBVIOUS
    <3>2. local' => IsThere(info)
      BY <2>1, <2>2, <2>4, <3>1, OpenedIsThere DEF envVars
    <3>3. IsThere(info)' <=> IsThere(info)
      BY <2>4, IsThereStays
    <3>. QED
      BY <2>3, <3>1, <3>2, <3>3 DEF IsThere, ScreenOf
  <2>7. Complete'
    <3>1. \A p, d \in Nat : ~Passed(p, d)'
      BY <2>4 DEF Passed
    <3>. QED
      BY <3>1, PortsAssumption DEF Complete, Ports
  <2>8. pc' = "returned" => apple'
    BY <1>3 DEF FindDefault, envVars
  <2>. QED
    BY <2>5, <2>6, <2>7, <2>8 DEF Looked
<1>4. CASE FindScreen
  BY <1>4, LookedFindScreen
<1>5. CASE NextServer
  BY <1>5, LookedNextServer
<1>6. CASE FindNoDefault \/ Return
  BY <1>1, <1>6 DEF FindNoDefault, Return
<1>7. ASSUME NEW s \in DOMAIN servers, ServerChanges(s)
      PROVE  Looked'
  <2>1. calm' = FALSE /\ UNCHANGED <<envVars, pc, i, result>>
    BY <1>7 DEF ServerChanges
  <2>. QED
    BY <2>1 DEF Looked, DefaultFound, envVars
<1>8. CASE UNCHANGED vars
  BY <1>1, <1>8 DEF vars
<1>. QED
  BY <1>2, <1>3, <1>4, <1>5, <1>6, <1>7, <1>8 DEF Next, Step

(* A discovery that the servers do not change under finds every screen of them  *)
(* exactly once, the default one too, with its size: none is missed behind the  *)
(* default, and none is found a second time for it (glx/module.cpp:119-160).  *)
THEOREM ScreensAreFoundOnce == Spec => []EveryScreenOnce
<1>1. Init => Typed /\ Probing /\ Looked
  <2>1. Init => Typed /\ Probing
    BY InitTyped, ProbingNothing DEF Init
  <2>2. Init => NotLooked
    BY DEF Init, NotLooked
  <2>. QED
    BY <2>1, <2>2, LookedNothing
<1>2. Typed /\ Probing /\ Looked /\ [Next]_vars => (Typed /\ Probing /\ Looked)'
  BY TypedStep, ProbingStep, LookedStep
<1>3. Typed /\ Probing /\ Looked => EveryScreenOnce
  <2>. SUFFICES ASSUME Typed, Probing, Looked, pc = "returned", Probes, NEW p \in Ports,
                       NEW d \in {0} \cup UNION {DOMAIN state.screens : state \in ServerStates}
                PROVE  LET name == Name(ThisHost, p, d) IN
                         IF Opens(name)
                         THEN \E k \in DOMAIN result :
                                FoundAt(p, d) = {k} /\ result[k].size = GPUInfo(name).size
                         ELSE FoundAt(p, d) = {}
    BY Zenon DEF EveryScreenOnce
  <2>1. d \in Nat
    <3>1. ASSUME NEW state \in ServerStates PROVE DOMAIN state.screens \subseteq Nat
      BY ServersHaveScreens
    <3>. QED
      BY <3>1
  <2>2. /\ \A k \in DOMAIN result : IsThere(result[k])
        /\ Complete
        /\ i \notin Ports
    BY DEF Looked, Probes
  <2>3. Passed(p, d)
    BY <2>2, PortsAssumption DEF Passed, Ports, Typed
  <2>4. \A k \in FoundAt(p, d) :
          /\ k \in DOMAIN result /\ Opens(Name(ThisHost, p, d))
          /\ result[k].size = GPUInfo(Name(ThisHost, p, d)).size
    BY <2>2 DEF FoundAt, IsThere, ScreenOf
  <2>5. \A k, l \in FoundAt(p, d) : k = l
    <3>1. \A k, l \in FoundAt(p, d) : ~(k < l)
      BY <2>4, OnlyTwiceOfSize DEF FoundAt, OnlyDefaultTwice
    <3>2. \A k \in DOMAIN result : k \in Nat
      BY DEF Typed
    <3>. QED
      BY <2>4, <3>1, <3>2
  <2>6. CASE Opens(Name(ThisHost, p, d))
    <3>1. PICK k \in DOMAIN result : result[k].port = p /\ result[k].device = d
      BY <2>1, <2>2, <2>3, <2>6 DEF Complete
    <3>2. k \in FoundAt(p, d)
      BY <3>1 DEF FoundAt
    <3>3. FoundAt(p, d) = {k}
      BY <2>5, <3>2
    <3>. QED
      BY <2>4, <2>6, <3>2, <3>3
  <2>7. CASE ~Opens(Name(ThisHost, p, d))
    BY <2>4, <2>7
  <2>. QED
    BY <2>6, <2>7
<1>. QED
  BY <1>1, <1>2, <1>3, PTL DEF Spec

================================================================================
