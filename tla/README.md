# Specification of HW-SD

TLA+ specifications of HW-SD, the hardware service discovery library and its
daemon: how discovery modules are registered and asked, how their findings are
filtered, and how one host learns over ZeroConf what the others have. TLC checks
the specifications on small instances; TLAPS proves theorems about them for any.
All paths below are relative to the repository.

## The system

A resource type is either GPUs or network interfaces. For each, the library has a
stack of discovery *modules*, and everything else is built around it.

| Part | State | Operations | Correct if |
|---|---|---|---|
| Module stack, `hwsd/module.ipp` | a static head pointer, a link per module object, a static instance pointer per module class | `use()`, `dispose()`, constructor, destructor, traversal | the links are a list without a cycle of exactly the modules in use, in the order they were first used |
| Functions, `hwsd/functions.cpp` | locals of four loops | `discoverGPUInfos`, `discoverNetInfos`, `announceGPUInfos`, `announceNetInfos` | what the modules found and the filter accepts is returned once, in order, with nothing lost; an announcement never repeats what came from the network |
| Filters, `hwsd/filter.cpp` | reference counts, and the filters chained to each filter object | `operator()`, `operator\|` | every filter of a chain is applied, duplicates drop out and leave their flags; objects live exactly as long as they are reached |
| Infos, `hwsd/*Info.cpp` | fields, with the ID, name and session of a node | equality, constructors, type names | equality ignores the node ID and the flags, and nothing else |
| dns_sd modules, `hwsd/*/dns_sd`, `hwsd/detail` | a ZeroConf service object with key-value pairs, a flag | `announce`, `discover` | what is read on another host is what one process announced; local infos are recognised |
| glx module, `hwsd/gpu/glx` | none between calls | `discover` over X servers | every screen is found once, flagged as VirtualGL and DISPLAY say |
| wgl module, `hwsd/gpu/wgl` | four static function pointers | `discover` over monitors and vendor extensions | temporary resources are released, whichever step fails |
| cgl module, `hwsd/gpu/cgl` | none | `discover` of the main display | the main display is found, although it is asked for after the list |
| net sys module, `hwsd/net/sys` | none between calls | `discover` over system addresses | one info per interface with its last address of each kind, what was acquired given back |
| hw_sd, `apps/hw_sd` | the modules in use, what is announced | one announcement per resource type, then wait or run as a daemon | it announces what local modules find, and withdraws it |
| hw_sd_list, `apps/hw_sd_list` | the modules in use | one discovery per resource type | local modules are asked before the network |
| sbatch script, `scripts` | none | expands a node list | |

Modules call back into the library: the `announce()` of a dns_sd module runs a
whole discovery over the stack it is itself on, with a flag that keeps it from
finding what others have announced. Processes meet only in the ZeroConf service.

The library starts no thread and takes no lock; what makes it hard is elsewhere:
an intrusive list whose objects come back at the same place, a nested traversal
steered by a flag, a filter that modifies what it has already let through, and in
the network two scans at two moments of a world in which daemons stop, crash,
restart and announce while records linger. `PROJECT.json` lists each hazard at
its line with the properties that watch it.

## The modules

    ModuleStack  ----implements---->  RegisteredModules
                                            ^ instance
    MCDiscovery --> Discovery --------------+
                        |
                        +--> Filters
    MCDnsSd --> DnsSd --> ServiceData
                          MCGLXDiscovery --> GLXDiscovery
                              ^
    MCLocalModules -----------+---instances---> WGLDiscovery, CGLDiscovery, NetSys
    MCPrograms --> Programs
    FilterGraph
    ModuleStackProofs --> ModuleStack       DiscoveryProofs --> Discovery
    DnsSdProofs --> DnsSd
    GLXDiscoveryProofs --> GLXDiscovery     LocalModulesProofs --> MCLocalModules
    ProgramsProofs --> Programs             FilterCallProofs --> FilterGraphProofs --> FilterGraph

**RegisteredModules** is what users of the stack may rely on: a sequence of module
classes without repetition; registering appends, unregistering takes one out.

**ModuleStack** is the list itself. `stack`, `next_`, `this`, `module` and
`previous` are the variables of the code; `instance` has the static pointers of
all module classes. Every iteration of the loops in constructor, destructor and
traversal is a step (`WalkToTail`, `LinkAtTail`, `WalkToThis`, `UnlinkThis`,
`Visit`), so that the list is also looked at in the middle of a call. An object is
named by its class, because a class has at most one: that its memory may be the
same as before is what the model keeps of addresses, and `next_` keeps its value
over deletion until the constructor clears it.

**Filters** has the infos, as records of what the filters tell apart, their
equality and each filter's test. A chain is the sequence of its filters in calling
order: `Accepts` is the test of the whole, `Merges` whether the duplicate filter
was reached and dropped the candidate, on which it merges the flags into the
const result (`FlagsMerged`).

**Discovery** runs the loops of `functions.cpp` over the registered modules. One
candidate is one step (`SelectCandidate`, `MergeCandidate` or `DropCandidate`).
`announce*Infos()` shares the discovery actions: `DiscoverToAnnounce` starts the
nested one and sets the flag, `StopAnnouncing` clears it, `Publish...` are the
ends of the dns_sd module's `announce()`; `Payload` is what is announced of what
was found, without the first loopback interface. Between calls the application uses and disposes of modules.

**ServiceData** is the conversion between infos and key-value pairs, in both
directions as the code has it, key by key (`Keys`, `SetValue`): optional keys that
are set only with a value, absent values that leave the default, text read by the
word, types without a name.

**DnsSd** has, per host, an announcing process, the pairs set in its service
object and the record on the network, and on one host a browser. Every
`service.set()` of `announce()` is a step: `Announce` takes the arguments,
`SetNodeID`, `SetHostname`, `SetSession` and `SetCount` the keys of the node, and
`SetKey` the next key of the next info, of which `index` and `key` keep count;
`AnnounceSucceeds` publishes. Between any two of them `Refresh` may publish what is
set so far, if there is a record of the process already, as from its second
announcement on: old infos under a new session, a new type at an old port. The browser
scans all interfaces and then the local one; `Hear` hands it a record as it is at
that moment, `EndScan` and `EndLocalScan` read what was heard, and `Mark` clears
the names of local infos. `Refresh`, `Expire`, `Hear` and `Crash` are external:
they do whatever the calls in the code leave open. Discovery is above this module:
what its announcement publishes is a member of `Findings` here, and what `infos`
holds after a scan is what Discovery has the dns_sd module find.

**FilterGraph** is what Filters leaves out: filter objects, their reference counts
and vectors of chained filters, and an application that creates, assigns, chains
and drops them through its variables. `Chain` is `operator|`, which appends to its
left side and returns it, so that whoever holds the left side has the longer chain.
`Unref` gives up one reference at a time, and a deleted object gives up those it
held. A call descends through `operator()` of the filters, one call per step, with
`frames` for the call stack. Which filters' tests pass is chosen when a call begins.
`VerdictOfChain` and `ChainAppends` together are what entitles Filters to take a
chain for a sequence.

**GLXDiscovery** opens displays one connection at a time while the X servers
change. **WGLDiscovery** acquires a window class, window, device context and OpenGL
context, any of which may fail, loads the functions of vendor extensions, releases
everything and enumerates GPUs or monitors. `held` is what Windows has lent out,
`current` the context of the calling thread; the function pointers survive a call
while the driver may be exchanged. **CGLDiscovery** lists the displays and then asks
which is the main one; the history `mains` has those that were meanwhile. **NetSys** has the three branches of the sys module, of which
a build has one: what each acquires, where it gives up, and how it gathers infos.
**MCLocalModules** instantiates the four, which share nothing: a behaviour of it is
a behaviour of one of them.

**Programs** has the two main functions as sequences of statements (use a module,
announce, wait, dispose, discover), selected by the name of the executable as in
the code. A call of `use()` or `dispose()` is a step of RegisteredModules, an
announcement one step with the three outcomes Discovery and DnsSd leave: something
is published, nothing was found, or it failed. A process may be killed at any
statement, and its records expire later.

## What TLC checks

| Run | Instance | Shows |
|---|---|---|
| `module_stack` | 3 modules | linking, refinement, complete traversals, every call returns |
| `discovery_gpu` | 3 modules, 7 chains, 6 GPUs | the filters' promises, no echo, the flag, every call returns |
| `discovery_net` | 2 modules, 6 chains, 5 interfaces, 2 of them loopback | an announcement publishes the first sighting of each interface, in order, but the first loopback, and nothing else |
| `dns_sd_gpu` | a host with 2 processes and 2 announcements, a browser on another | what is published is what was announced, nothing of an earlier process; a reading is one announcement, or two cut at one key if the process announced before; nothing is left of what stopped |
| `dns_sd_net` | 2 hosts with an equal interface, one restarts; a browser on it | one announcement of each host, also an empty one, one with a name of three words and a type without a name, and a session of two words; names of remote and local infos |
| `filter_graph` | 3 objects, 3 variables, 2 filters per vector | nothing dangles or leaks, calls are those of the flat sequence and return |
| `local_modules` | glx: 2 ports, 3 screens, a remote server, 1 change; wgl: 6 drivers; cgl: 3 displays of which 2 are listed; sys: lists of 4 addresses, 3 adapters or 3 items | each screen once, one redirected display, the GPUs, monitors, main display and interfaces that are there; what is acquired is given back, but for two leaks named below; every discovery returns |
| `programs` | 6 names, 2 local GPU modules | what is announced, what is left, the order of asking |

Four more runs each look for a disagreement with the documentation, and find it;
`AllIsPublished`, `LocalSessionIsHere`, `UniqueOnHost` and `VirtualGLFlagged` say what
the documentation does:

- `mirror_by_hostname`: the mirror filter compares process IDs where `filter.h`
  says hostname.
- `virtualgl`: `FLAG_DEFAULT` overwrites both VirtualGL flags of the GPU of DISPLAY.
  The README promises one for all local GPUs and the other for the GPU that VirtualGL
  redirects to; with DISPLAY=:0 and VGL_DISPLAY=:0 neither is kept, so the property
  asks for one of the two only. `OneRedirection`, which holds, therefore exempts the
  GPU of DISPLAY: any other GPU that VGL_DISPLAY names is flagged, and no other GPU is.
- `stale_fields`: a second successful announcement still publishes flags and
  viewports of the first. It needs a process that announces twice, which hw_sd
  does not, and a service that accepts it.
- `local_session`: `isLocal()` is true of infos from other hosts that were
  announced for the empty session.

One more is seen without a run: the README documents the device of a cgl GPU as its
CGDirectDisplayID, but it is the position of the display in the list of those online
(`gpu/cgl/module.cpp:72`, `FindMain`). `MainDisplayFound` is about the display and
claims nothing of the device.

Two leaks are in the code and no document excludes them, so `GivenBack` names them
as exceptions: the device context after `ChoosePixelFormat()` failed
(`gpu/wgl/module.cpp:121`) and `WSAStartup()` after the adapters could not be listed
(`net/sys/module.cpp:92`). `LocalsListedFirst` matters where the daemon announces for
the local session: equality compares sessions, and under any other one the announced
GPU is a second one.

**Bounds.** Three modules are the least with a first, a middle and a last one;
Discovery needs a network module before, between and behind local ones. The GPUs
are one, a second screen of it, the same one as another type, as announced by
this host's daemon, and one of another host: every combination of equal and
different keys, IDs and flags that the filters distinguish. Two hosts tell local
from remote; a third would behave as the second. Two processes on one host are a
restart and two announcements a change, with one info that gains and one that
loses optional fields and a count that grows and shrinks; as each key is a step, only
one host announces GPUs, and the browser is on the other. What the two announce as
interfaces is all that text can be for the reader: one word, several, none. Two
loopback interfaces are one that is erased and one that is announced. Three screens
are one behind another and one whose number has two digits, as `TwoDigits` is 2 for
10; `TRY_PORTS` is 2 for 10 because the ports are treated alike. Four addresses put an address of another interface between, before
and behind two of the same. Three filters give a chain whose middle is
shared with another chain and with a variable; `MaxNext` lets one object have two
branches. The drivers are one per combination of extensions that changes the path,
with a GPU without a device between two others and a monitor that cannot be asked.
`MaxGPUs` is 2 for 32, so that the main display may be behind the last one listed.
Only one VGL_DISPLAY is combined with OS X, which ignores the difference.
`MaxInfos`, `MaxAnnounces`, `MaxChanges`, `MaxList`, `MaxNext` and the length of
`Uuid` are the bounds of DnsSd, GLXDiscovery, CGLDiscovery, NetSys and FilterGraph;
the other modules are finite by themselves.

**Fairness.** The only assumption is weak fairness of `Step` in ModuleStack,
Discovery, FilterGraph and the four local modules: a call that was begun runs on.
The code runs in the caller's thread and, within these modules, waits for nothing
but answers of the system. The application
need not call anything, and the environment need not do anything. DnsSd states no
liveness, as how long the service waits is outside the repository, and Programs
none, as a daemon is to run for ever; its programs end, so it is not checked for
deadlock.

## What is proved

The proofs hold for all values of the constants that satisfy the `ASSUME`s.

*ModuleStackProofs*, for any finite set of modules. `WellLinked` is its own
inductive invariant: there is a sequence of modules that the links represent, and
which tells what the call in progress knows (`Constructing`, `Destructing`,
`Visiting`) and which instances exist (`Owned`). The weaker statement that the
links form a list is not inductive: a destructor that has lost its predecessor, or
a deleted object whose link is taken up again, would break it in the next step.
From it follow that traversals are complete and that every step is an append, a
removal or a stutter of RegisteredModules.

*DiscoveryProofs*, for any modules, findings and chains. The types come first;
then each filter property is preserved by each outcome of a candidate: selecting
adds an info the duplicate or mirror test has passed, merging changes no field of
a key, dropping is only possible if some filter failed. `NoEcho` rests on the flag
being set during the nested discovery, which is part of the type invariant.
`FirstsInOrder` is not inductive: that an info is dropped because an equal one was
selected needs `SelectedSeen`, that every selected info is one that was examined.
`AnnouncementsAreFull` carries it through the end of `announce()`: an announcement has
no filter, so what it found are the first sightings of all (`Firsts`) in their order,
and `PayloadInOrder` shows that removing the first loopback interface from a sequence
that is in order leaves one that is, of all the others; positions behind it move up by
one (`RankReaches`, `RankWithout`).

*DnsSdProofs*, for any hosts, findings and sessions, and any number of processes,
announcements and crashes. It assumes that node IDs are drawn once and that what is
announced is text. `RemoteKeepsName` alone is not inductive: `Names` adds that no
pairs, published or heard, carry a host name, that the local scan hears this host
only, and that the first scan has already named every info. `StoppedIsGone` needs
to know where every ID has come from: `IDs` says that what is set, published and
heard carries an ID that a process of the same host drew, that no record outlives
the `dispose()` of its process, and that what had stopped when the discovery began
has stopped. A later process under the same name draws an ID that is new.

It goes on from there with what a record says. The first of these invariants,
`LatestOK`, ties the locals of `announce()` to the history: while a host has a
process, the keys of the node are set as far as `announce()` has got (`NodeSet`), and
the value of every key of every info is the one last said by the process, counting
the announcement it is in where the loops have passed and those before it elsewhere
(`Mixed`). That gives `LatestIsPublished`. If processes announce once each, the whole
set of pairs is determined by the announcement and the two loop counters, and what is
published or withdrawn is always a complete one (`SetOnce`, `CompleteIsPairs`, hence
`FirstIsPublished`). What a browser has heard or read is then one announcement, too:
`HeardOnce`, for `OfOneAnnouncement` and `LocalIsMarked`. For processes that announce again `OfTwoAnnouncements` says what is
true: `KnownIn` of a published record and `ReadOfTwo` of a reading both say that it
is cut at one key of one info, with `LastSaid` on either side. Stronger statements
are false: a reading may have the type of one announcement and the port of another,
and a network interface whose type is not set yet is not skipped but read as an
unknown one (`net/dns_sd/module.cpp:166`). A session that is set before the infos may
stand above those of the announcement before, so nothing is said of it there. The
proofs assume that only the name of an info may be empty, which is what the local
modules find; names and sessions of several words are read by their first word, and
the properties say so (`AsRead`, `Cut`).

*GLXDiscoveryProofs*, for any servers, changes of them, DISPLAY and VGL_DISPLAY, and
any number of ports and screens. `Probing` says of every info which name it was
found under and that the loops have passed that name and will not come to it again.
For `EveryScreenOnce` the converse is added: of all names the loops have passed,
those with a screen have been found (`Complete`), which needs that the screens of
a server are numbered without gaps, as the inner loop ends at the first that is
missing.

*LocalModulesProofs* are about one call of the cgl, wgl and sys modules each, for any
displays, drivers and lists of addresses, adapters and items. `CGLInv` and
`FoundInv` say what the loops have found so far as a function of their indices;
`ReleaseInv` and `HeldInv` what is held at each point of the call, which is more
than `GivenBack` says at its end; `GatherInv` that the infos gathered so far are
those of the part of the list that was walked, entry by entry the last one of
each kind.

*ProgramsProofs*, for any GPU modules a build may have. A program is a sequence of
statements; the inductive invariant gives the module stacks and the records as
functions of the statement it is at (`DaemonInv`, `BrowserInv`), and of how it
ended.

*FilterGraphProofs*, for any number of filters and variables. `GraphInv` counts
exactly: the reference count of an object is the number of variables that hold it,
of links to it, of references that are being given up and of calls it is in. An
object whose count is 0 has no links, and no filter is chained behind itself. The
last is stated as the existence of a depth of every object (`Acyclic`), which a
deletion keeps and an assignment does not touch; it is what makes exact counts
enough for `NothingLeaks`, and rests on the guard of `Chain`, that is on
applications that do not make a chain call itself.

*FilterCallProofs*, for any filters and variables and chains of any shape that ends.
The flat sequence of a chain is defined by recursion as deep as there are filters.
That this is deep enough is the first half of the proof: without cycles a filter
has a height, which is at most the number of filters, and from the level of its
height on its sequence does not change, so that it is the filter and the joined
sequences of what is chained to it (`Unfolds`). Two such tables agree on every set
of filters that have the same chains and lead to no others. `ChainAppends` follows,
because nothing below the left side leads back to it. The second half is
the inductive invariant of a call, `CallInv`: what was called so far, followed by
what the loops in progress have left, the innermost first, is the flat sequence of
the filter the discovery called (`Stacked`, `Ahead`); all that was called has
passed, but for the filter being tested or the one that failed; and the references
a call gives up are never the last ones, as the application or the calling filter
still has one, so that a call deletes nothing (`GivenUp`). `VerdictOfChain` is what
is left of it when the last call has returned.

Only model-checked: the invariants that are violated, naturally, and all liveness,
which is out of the prover's reach: that the calls of the list, of discoveries, of
the local modules and of filters, deletions included, come to their end.

## Not modelled

- Filter chains that reach themselves: a call of one never returns. `Chain` has a
  guard against them that the code has not; an application is trusted to avoid them.
- A VGL_DISPLAY of less than two characters, which is no display name and which the
  glx module reads out of bounds; more than 32 GPUs with the AMD extension.
- Option parsing beyond its outcomes, output and logging. A window or device
  context that Windows refuses to give back.
- The sbatch script. Its threads share nothing, and the rest of it takes one
  string apart.
- Threads: the library takes no lock and says nothing of threads, so one call at a
  time is made. Exceptions, which are `std::bad_alloc` alone.
- Inside ZeroConf: name collisions, limits on the size of records.

## Plan

1. Done: ModuleStack, Discovery with Filters, and DnsSd with ServiceData, with
   their proofs; FilterGraph, Programs, and the local modules GLXDiscovery,
   WGLDiscovery, CGLDiscovery and NetSys.
2. Done: every invariant and action property that the passing runs check is a
   theorem.
3. Left: that discoveries over the list of ModuleStack ask each module once, by
   composing the refinement with Discovery.
