----------------------------- MODULE WGLDiscovery -----------------------------
(***************************************************************************)
(* The discover() of the wgl module. It asks the OpenGL driver for the        *)
(* functions of vendor extensions, for which it needs a temporary context on   *)
(* a window of a class of its own, and enumerates GPUs with them, or else the  *)
(* monitors. The function pointers are static and outlive the call; the driver *)
(* may be another one by the next.                                          *)
(***************************************************************************)
EXTENDS Naturals, Sequences, SequencesExt

\* A driver has the extensions affinity and association or not. gpus says of each
\* GPU whether it has a device and whether that is attached to the desktop, ids
\* are the different answers of wglGetGPUIDsAMD(), and monitors says of each
\* monitor whether GetMonitorInfo() works.
CONSTANTS
  Drivers,   \* what the system may have in a call
  Context,   \* the OpenGL contexts of the application
  Temporary, \* the one of this module
  None       \* no context is current

VARIABLES
  driver,        \* what the system has in this call
  enumGpus,      \* wglEnumGpusNV_ and wglEnumGpuDevicesNV_ are set
  getGPUIDs,     \* wglGetGPUIDsAMD_ is set
  current,       \* the current context of the thread
  oldContext,    \* a local: the one to be restored
  pc,            \* "idle", "acquire", "release", a loop or "returned"
  step,          \* the position in Acquisitions
  releases,      \* the calls that are to release what was acquired
  held,          \* what is acquired
  device,        \* the loop variable
  result,        \* the infos found
  failed,        \* history: the acquisition that failed, or "none"
  before         \* history: the context that was current when the call began

staticVars == <<enumGpus, getGPUIDs>>
tempVars == <<current, oldContext, step, releases, held, failed>>
vars == <<driver, staticVars, tempVars, pc, device, result, before>>

Init ==
  /\ driver \in Drivers
  /\ enumGpus = FALSE /\ getGPUIDs = FALSE
  /\ current \in Context \cup {None} /\ oldContext = None
  /\ pc = "idle" /\ step = 1 /\ releases = << >> /\ held = {}
  /\ device = 1 /\ result = << >>
  /\ failed = "none" /\ before = current

\* The application calls, with whatever driver and context it has by then.
Discover ==
  /\ pc = "idle"
  /\ driver' \in Drivers
  /\ current' \in Context \cup {None}
  /\ before' = current'
  /\ pc' = "acquire"
  /\ UNCHANGED <<staticVars, oldContext, step, releases, held, failed, device, result>>

-------------------------------------------------------------------------------
(* _initGLFuncs()                                                          *)

Acquisitions ==
  <<"RegisterClass", "CreateWindow", "ChoosePixelFormat", "SetPixelFormat", "CreateContext">>

Gained(call) ==
  CASE call = "RegisterClass" -> {"class"}
    [] call = "CreateWindow" -> {"window", "dc"}
    [] call = "CreateContext" -> {"context"}
    [] OTHER -> {}

\* Each way out on failure has its own releases. The one of ChoosePixelFormat()
\* forgets the device context.
ReleasesAfter(call) ==
  CASE call = "RegisterClass" -> << >>
    [] call = "CreateWindow" -> <<"class">>
    [] call = "ChoosePixelFormat" -> <<"window", "class">>
    [] OTHER -> <<"dc", "window", "class">>

ReleasesClassFirst == <<"context", "dc", "class", "window", "restore">>

Releases == <<"context", "dc", "window", "class", "restore">>

Acquire ==
  /\ pc = "acquire"
  /\ step <= Len(Acquisitions)
  /\ held' = held \cup Gained(Acquisitions[step])
  /\ step' = step + 1
  /\ UNCHANGED <<driver, staticVars, current, oldContext, pc, releases, failed,
                 device, result, before>>

AcquisitionFails ==
  /\ pc = "acquire"
  /\ step <= Len(Acquisitions)
  /\ failed' = Acquisitions[step]
  /\ releases' = ReleasesAfter(Acquisitions[step])
  /\ pc' = "release"
  /\ UNCHANGED <<driver, staticVars, current, oldContext, step, held,
                 device, result, before>>

\* The temporary context is made current, which may fail and is not looked at.
\* Without any context the driver has no functions. Pointers are set, never
\* cleared.
LoadFunctions ==
  /\ pc = "acquire"
  /\ step > Len(Acquisitions)
  /\ oldContext' = current
  /\ current' \in {Temporary, current}
  /\ enumGpus' = (enumGpus \/ (current' # None /\ driver.affinity))
  /\ getGPUIDs' = (getGPUIDs \/ (current' # None /\ driver.association))
  /\ releases' = Releases
  /\ pc' = "release"
  /\ UNCHANGED <<driver, step, held, failed, device, result, before>>

\* A device context can be released as long as its window exists, a class once
\* it has no window. A context that is deleted is no longer current.
CanRelease(what) ==
  CASE what = "dc" -> "window" \in held
    [] what = "class" -> "window" \notin held
    [] OTHER -> TRUE

Release ==
  /\ pc = "release"
  /\ releases # << >>
  /\ held' = IF CanRelease(Head(releases)) THEN held \ {Head(releases)} ELSE held
  /\ current' = CASE Head(releases) = "restore" -> oldContext
                  [] Head(releases) = "context" /\ current = Temporary -> None
                  [] OTHER -> current
  /\ releases' = Tail(releases)
  /\ UNCHANGED <<driver, staticVars, oldContext, pc, step, failed, device, result, before>>

\* _initGLFuncs() returns, and discover() with it or goes on.
EndRelease ==
  /\ pc = "release"
  /\ releases = << >>
  /\ pc' = CASE failed # "none" -> "returned"
             [] failed = "none" /\ enumGpus -> "affinity"
             [] OTHER -> "display"
  /\ UNCHANGED <<driver, staticVars, tempVars, device, result, before>>

-------------------------------------------------------------------------------
(* _affinityDiscover(), _displayDiscover() and _associationDiscover(). A size *)
(* is that of the desktop or a default.                                     *)

WGLn(k, attached) ==
  [type |-> "WGLn", device |-> k, size |-> IF attached THEN "own" ELSE "default"]
WGLa(id) == [type |-> "WGLa", device |-> id, size |-> "default"]
WGL(k) == [type |-> "WGL", device |-> k, size |-> "own"]

\* A driver without the extension enumerates nothing.
GPUs == IF driver.affinity THEN driver.gpus ELSE << >>

FindGPU ==
  /\ pc = "affinity"
  /\ device \in DOMAIN GPUs
  /\ GPUs[device].device
  /\ result' = Append(result, WGLn(device - 1, GPUs[device].attached))
  /\ device' = device + 1
  /\ UNCHANGED <<driver, staticVars, tempVars, pc, before>>

\* Both functions break the loop, the one for the device too.
EndAffinity ==
  /\ pc = "affinity"
  /\ device \in DOMAIN GPUs => ~GPUs[device].device
  /\ pc' = "returned"
  /\ UNCHANGED <<driver, staticVars, tempVars, device, result, before>>

EnumDispProc ==
  /\ pc = "display"
  /\ device \in DOMAIN driver.monitors
  /\ result' = IF driver.monitors[device] THEN Append(result, WGL(Len(result))) ELSE result
  /\ device' = device + 1
  /\ UNCHANGED <<driver, staticVars, tempVars, pc, before>>

AsksForIDs == getGPUIDs /\ result = << >>

AlsoAsksForIDs == getGPUIDs

EndDisplay ==
  /\ pc = "display"
  /\ device > Len(driver.monitors)
  /\ pc' = IF AlsoAsksForIDs THEN "association" ELSE "returned"
  /\ device' = 1
  /\ UNCHANGED <<driver, staticVars, tempVars, result, before>>

IDs == IF driver.association THEN driver.ids ELSE << >>

FindID ==
  /\ pc = "association"
  /\ device \in DOMAIN IDs
  /\ result' = Append(result, WGLa(IDs[device]))
  /\ device' = device + 1
  /\ UNCHANGED <<driver, staticVars, tempVars, pc, before>>

EndAssociation ==
  /\ pc = "association"
  /\ device > Len(IDs)
  /\ pc' = "returned"
  /\ UNCHANGED <<driver, staticVars, tempVars, device, result, before>>

\* The locals are gone. What was not released is no longer looked at.
Done ==
  /\ pc = "returned"
  /\ pc' = "idle"
  /\ oldContext' = None /\ step' = 1 /\ releases' = << >> /\ held' = {} /\ failed' = "none"
  /\ device' = 1 /\ result' = << >>
  /\ UNCHANGED <<driver, staticVars, current, before>>

Step ==
  \/ Acquire \/ AcquisitionFails \/ LoadFunctions \/ Release \/ EndRelease
  \/ FindGPU \/ EndAffinity
  \/ EnumDispProc \/ EndDisplay
  \/ FindID \/ EndAssociation
  \/ Done

Next == Discover \/ Step

Spec == Init /\ [][Next]_vars /\ WF_vars(Step)

-------------------------------------------------------------------------------
(* Whichever acquisition fails, the application has its context back when GPUs  *)
(* are enumerated, and nothing temporary is left, but for the device context     *)
(* after ChoosePixelFormat() failed.                                         *)
Released ==
  pc \in {"affinity", "display", "association", "returned"} =>
    /\ current = before
    /\ held = IF failed = "ChoosePixelFormat" THEN {"dc"} ELSE {}

\* The infos of a driver, by the functions it has.
UpTo(gpus) == {k \in DOMAIN gpus : \A l \in 1 .. k : gpus[l].device}

Working(monitors) == {k \in DOMAIN monitors : monitors[k]}

Reference ==
  IF enumGpus
  THEN [k \in UpTo(driver.gpus) |-> WGLn(k - 1, driver.gpus[k].attached)]
  ELSE [k \in 1 .. Cardinality(Working(driver.monitors)) |-> WGL(k - 1)]
         \o [k \in {l \in DOMAIN driver.ids : getGPUIDs} |-> WGLa(driver.ids[k])]

(* While drivers have the functions that were found before, a discovery finds     *)
(* the GPUs in front of the first without a device, or else every monitor and     *)
(* every GPU with an ID; and with any driver none of them twice.              *)
GPUsFound ==
  /\ pc = "returned" /\ failed = "none" =>
       /\ (enumGpus => driver.affinity) /\ (getGPUIDs => driver.association) =>
            result = Reference
       /\ \A k, l \in DOMAIN result :
            result[k].type = result[l].type /\ result[k].device = result[l].device => k = l
  /\ failed # "none" => result = << >>

================================================================================
