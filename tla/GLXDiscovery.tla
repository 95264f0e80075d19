----------------------------- MODULE GLXDiscovery -----------------------------
(***************************************************************************)
(* The discover() of the glx module: it opens the display of the DISPLAY     *)
(* variable, then every screen of the local X servers :0 to :TRY_PORTS-1     *)
(* until one cannot be opened. Servers come, go and change between any two   *)
(* connections; one connection sees one state of its server.                 *)
(*                                                                         *)
(* A display name is a record of the host, empty for this one, the port and  *)
(* the screen, NoScreen if the name has none.                               *)
(***************************************************************************)
EXTENDS Integers, Sequences

CONSTANTS
  TryPorts,      \* TRY_PORTS
  TwoDigits,     \* the first screen whose number has two digits, 10
  Remote,        \* the hosts of X servers on other machines
  ServerStates,  \* what a server may be: its screens' sizes, its extensions
  Displays,      \* what DISPLAY may name
  VGLDisplays,   \* what VGL_DISPLAY may name
  NoDisplay,     \* DISPLAY is not set or empty
  MaxChanges     \* bound on the changes of servers

NoScreen == -1

ThisHost == ""

NoSize == "none"

Server == [host : {ThisHost} \cup Remote, port : Nat]

Ports == 0 .. TryPorts - 1

Name(host, port, screen) == [host |-> host, port |-> port, screen |-> screen]

DisplayName == [host : {ThisHost} \cup Remote, port : Nat, screen : Nat \cup {NoScreen}]

ASSUME PortsAssumption == TryPorts \in Nat /\ TwoDigits \in Nat \ {0}
ASSUME DisplaysHaveServers == (Displays \ {NoDisplay}) \cup VGLDisplays \subseteq DisplayName
ASSUME ServersHaveScreens ==
  \A s \in ServerStates :
    s.screens \in Seq(STRING \ {NoSize}) /\ s.glx \in BOOLEAN /\ s.vnc \in BOOLEAN

VARIABLES
  servers,      \* servers[s]: the state of every server a name may lead to
  display,      \* the DISPLAY variable
  vgl,          \* the process runs under VirtualGL, which poses as the vendor
  vglDisplay,   \* the VGL_DISPLAY variable, :0 if it is not set
  apple,        \* the module was built for OS X
  pc,           \* "idle", "default", "probe" or "returned"
  i,            \* the loop variables: port
  j,            \* ... and screen
  defaultInfo,  \* the GPU of DISPLAY, blank if there is none
  result,       \* the infos found
  changes,      \* bound: how often a server has changed
  calm          \* history: none has since the discovery began

envVars == <<display, vgl, vglDisplay, apple>>
vars == <<servers, envVars, pc, i, j, defaultInfo, result, changes, calm>>

\* GPUInfo("GLX"): no pixel viewport.
Blank == [port |-> 0, device |-> 0, size |-> NoSize, flags |-> {}]

Known ==
  {[host |-> ThisHost, port |-> p] : p \in Ports}
    \cup {[host |-> d.host, port |-> d.port] : d \in Displays \ {NoDisplay}}

Init ==
  /\ servers \in [Known -> ServerStates]
  /\ display \in Displays
  /\ vgl \in BOOLEAN
  /\ vglDisplay \in VGLDisplays
  /\ apple \in BOOLEAN
  /\ pc = "idle" /\ i = 0 /\ j = 0
  /\ defaultInfo = Blank
  /\ result = << >>
  /\ changes = 0
  /\ calm = TRUE

\* A server starts, stops or changes its screens.
ServerChanges(s) ==
  /\ changes < MaxChanges
  /\ servers' \in {[servers EXCEPT ![s] = state] : state \in ServerStates \ {servers[s]}}
  /\ changes' = changes + 1
  /\ calm' = FALSE
  /\ UNCHANGED <<envVars, pc, i, j, defaultInfo, result>>

-------------------------------------------------------------------------------
ServerOf(name) == servers[[host |-> name.host, port |-> name.port]]

\* DefaultScreen(): the screen of the name.
Screen(name) == IF name.screen = NoScreen THEN 0 ELSE name.screen

\* XOpenDisplay() finds the screen, and the server has GLX.
Opens(name) ==
  /\ Screen(name) < Len(ServerOf(name).screens)
  /\ ServerOf(name).glx

RedirectedAsNamed(name) == vglDisplay = name

\* The dot of a name is looked for in front of its last character.
HasScreen(name) == name.screen \in 0 .. TwoDigits - 1

\* VirtualGL renders on this display. Names with and without a screen are made
\* comparable: of a name whose screen has two digits a second one is appended,
\* and it is no display's.
Redirected(name) ==
  LET x == IF name = Name(ThisHost, 0, NoScreen) /\ HasScreen(vglDisplay)
           THEN [name EXCEPT !.screen = Screen(name)] ELSE name
  IN  IF HasScreen(x) /\ ~HasScreen(vglDisplay)
      THEN vglDisplay.screen = NoScreen /\ [vglDisplay EXCEPT !.screen = 0] = x
      ELSE vglDisplay = x

Flags(name) ==
  (IF vgl THEN {"VIRTUALGL"} ELSE {})
    \cup (IF vgl /\ Redirected(name) THEN {"VIRTUALGL_DISPLAY"} ELSE {})
    \cup (IF ServerOf(name).vnc THEN {"VNC"} ELSE {})

\* getGPUInfo_()
GPUInfo(name) ==
  [port |-> name.port, device |-> Screen(name),
   size |-> ServerOf(name).screens[Screen(name) + 1], flags |-> Flags(name)]

\* operator== does not compare the flags.
Same(a, b) == a.port = b.port /\ a.device = b.device /\ a.size = b.size

-------------------------------------------------------------------------------
Discover ==
  /\ pc = "idle"
  /\ pc' = "default"
  /\ calm' = TRUE
  /\ UNCHANGED <<servers, envVars, i, j, defaultInfo, result, changes>>

DefaultOpens == display # NoDisplay /\ Opens(display)

\* The flags the display was found with are replaced.
DefaultFlagged(info) == [info EXCEPT !.flags = {"DEFAULT"}]

FindDefault ==
  /\ pc = "default"
  /\ DefaultOpens
  /\ defaultInfo' = DefaultFlagged(GPUInfo(display))
  /\ result' = <<defaultInfo'>>
  /\ pc' = IF apple THEN "returned" ELSE "probe"
  /\ UNCHANGED <<servers, envVars, i, j, changes, calm>>

FindNoDefault ==
  /\ pc = "default"
  /\ ~DefaultOpens
  /\ pc' = "probe"
  /\ UNCHANGED <<servers, envVars, i, j, defaultInfo, result, changes, calm>>

Probed == Name(ThisHost, i, j)

KeepsAny(info) == TRUE

\* The default GPU has been found already.
IsNew(info) == ~Same(info, defaultInfo)

FindScreen ==
  /\ pc = "probe"
  /\ i \in Ports
  /\ Opens(Probed)
  /\ result' = IF IsNew(GPUInfo(Probed)) THEN Append(result, GPUInfo(Probed)) ELSE result
  /\ j' = j + 1
  /\ UNCHANGED <<servers, envVars, pc, i, defaultInfo, changes, calm>>

SamePort == i

PortBehind == i + 1

SameScreen == j

FirstScreen == 0

\* The screen does not exist: on to the next server.
NextServer ==
  /\ pc = "probe"
  /\ i \in Ports
  /\ ~Opens(Probed)
  /\ i' = PortBehind
  /\ j' = FirstScreen
  /\ UNCHANGED <<servers, envVars, pc, defaultInfo, result, changes, calm>>

Return ==
  /\ pc = "probe"
  /\ i \notin Ports
  /\ pc' = "returned"
  /\ UNCHANGED <<servers, envVars, i, j, defaultInfo, result, changes, calm>>

\* The locals of the call are gone.
Done ==
  /\ pc = "returned"
  /\ pc' = "idle"
  /\ i' = 0 /\ j' = 0
  /\ defaultInfo' = Blank /\ result' = << >>
  /\ UNCHANGED <<servers, envVars, changes, calm>>

Step == FindDefault \/ FindNoDefault \/ FindScreen \/ NextServer \/ Return \/ Done

Next == Discover \/ Step \/ \E s \in DOMAIN servers : ServerChanges(s)

\* A call runs on; what servers do is up to them.
Spec == Init /\ [][Next]_vars /\ WF_vars(Step)

-------------------------------------------------------------------------------
DefaultFound == result # << >> /\ "DEFAULT" \in result[1].flags

FoundAt(port, device) ==
  {k \in DOMAIN result : result[k].port = port /\ result[k].device = device}

\* A discovery that asks every local server in the state it stays in; on OS X
\* nothing is looked for besides the default display.
Probes == calm /\ (display # NoDisplay => display.host = ThisHost) /\ ~(apple /\ DefaultFound)

\* Every screen of the local servers is found exactly once, with its size, be it
\* the default one or not, unless DISPLAY leads to another machine or servers
\* change meanwhile.
EveryScreenOnce ==
  pc = "returned" /\ Probes =>
    \A p \in Ports : \A d \in {0} \cup UNION {DOMAIN state.screens : state \in ServerStates} :
      LET name == Name(ThisHost, p, d) IN
        IF Opens(name)
        THEN \E k \in DOMAIN result :
               FoundAt(p, d) = {k} /\ result[k].size = GPUInfo(name).size
        ELSE FoundAt(p, d) = {}

\* Even if they change, no screen is found twice but the default one, which may
\* have had another size when it was opened as the default.
OnlyDefaultTwice ==
  \A k, l \in DOMAIN result :
    k < l /\ result[k].port = result[l].port /\ result[k].device = result[l].device =>
      k = 1 /\ result[k].flags = {"DEFAULT"} /\ result[k].size # result[l].size

\* VirtualGL renders on this GPU.
OfVGLDisplay(info) ==
  /\ vglDisplay.host = ThisHost
  /\ info.port = vglDisplay.port
  /\ info.device = Screen(vglDisplay)

IsFlagged(info) == "VIRTUALGL_DISPLAY" \in info.flags

\* VirtualGL redirects to one display. No two GPUs are said to be it, none but the
\* one VGL_DISPLAY names is, and that one is, whichever of the names have a screen
\* and of how many digits, unless it is the default one: the GPU of DISPLAY is never
\* said to be it, as it has no flag but that of the default.
OneRedirection ==
  /\ \A k, l \in DOMAIN result : IsFlagged(result[k]) /\ IsFlagged(result[l]) => k = l
  /\ \A k \in DOMAIN result : IsFlagged(result[k]) => vgl /\ OfVGLDisplay(result[k])
  /\ \A k \in DOMAIN result :
       vgl /\ OfVGLDisplay(result[k]) /\ "DEFAULT" \notin result[k].flags
         => IsFlagged(result[k])

-------------------------------------------------------------------------------
\* What README.md:29-32 says of a process that runs under VirtualGL.

\* FLAG_VIRTUALGL is set on all local GPUs ...
AllFlagged == \A k \in DOMAIN result : "VIRTUALGL" \in result[k].flags

\* ... and FLAG_VIRTUALGL_DISPLAY on the GPU used for redirection.
RedirectionFlagged == \A k \in DOMAIN result : OfVGLDisplay(result[k]) => IsFlagged(result[k])

\* At least one half of the sentence is true, if all GPUs are local and not on OS X,
\* where the ports may not be probed. A discovery that violates this keeps neither.
VirtualGLFlagged ==
  /\ pc = "returned"
  /\ vgl /\ ~apple
  /\ display # NoDisplay => display.host = ThisHost
  =>
    AllFlagged \/ RedirectionFlagged

================================================================================
