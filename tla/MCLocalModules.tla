---------------------------- MODULE MCLocalModules ----------------------------
(* Small instances of the modules that look at their own host: glx, wgl, cgl    *)
(* and sys. They share no state, so a behaviour is about one of them, while the *)
(* others stay as they are.                                                  *)
EXTENDS MCGLXDiscovery, FiniteSets

CONSTANTS Display, MaxGPUs, Drivers, Context, Temporary, None,
          Address, Adapter, Item, MaxList, Unset

VARIABLES
  module,   \* the module the behaviour is about
  driver, enumGpus, getGPUIDs, current, oldContext, wglPc, step, releases, held,
  device, wglResult, failed, before,
  online, main, cglPc, displayIDs, cglResult, cglChanges, cglMains,
  build, netPc, ifaddr, ifa, addr, infos, netHeld, netFailed, netResult

wgl == INSTANCE WGLDiscovery WITH pc <- wglPc, result <- wglResult
cgl == INSTANCE CGLDiscovery
         WITH pc <- cglPc, result <- cglResult, changes <- cglChanges, mains <- cglMains
net == INSTANCE NetSys WITH pc <- netPc, held <- netHeld, failed <- netFailed, result <- netResult

wglVars == <<driver, enumGpus, getGPUIDs, current, oldContext, wglPc, step, releases,
             held, device, wglResult, failed, before>>
cglVars == <<online, main, cglPc, displayIDs, cglResult, cglChanges, cglMains>>
netVars == <<build, netPc, ifaddr, ifa, addr, infos, netHeld, netFailed, netResult>>
allVars == <<module, vars, wglVars, cglVars, netVars>>

\* What the modules that the behaviour is not about look at.
GLXEnvironment ==
  /\ servers = [s \in Known |-> CHOOSE state \in ServerStates : state.screens = << >>]
  /\ display = NoDisplay /\ vgl = FALSE /\ vglDisplay = Name("", 0, NoScreen)
  /\ apple = FALSE
FewMacs == apple = FALSE \/ (apple = TRUE /\ vglDisplay = Name("", 0, NoScreen))
WGLEnvironment == driver = (CHOOSE d \in Drivers : TRUE) /\ current = None
CGLEnvironment == online = <<CHOOSE d \in Display : TRUE>>
NetEnvironment == build = "getifaddrs"

LocalInit ==
  /\ module \in {"glx", "wgl", "cgl", "sys"}
  /\ (module = "glx" /\ FewMacs) \/ (module # "glx" /\ GLXEnvironment)
  /\ module = "wgl" \/ (module # "wgl" /\ WGLEnvironment)
  /\ module = "cgl" \/ (module # "cgl" /\ CGLEnvironment)
  /\ module = "sys" \/ (module # "sys" /\ NetEnvironment)
  /\ Init /\ wgl!Init /\ cgl!Init /\ net!Init

Alone ==
  /\ UNCHANGED module
  /\ module # "glx" => UNCHANGED vars
  /\ module # "wgl" => UNCHANGED wglVars
  /\ module # "cgl" => UNCHANGED cglVars
  /\ module # "sys" => UNCHANGED netVars

LocalStep ==
  /\ \/ module = "glx" /\ Step
     \/ module = "wgl" /\ wgl!Step
     \/ module = "cgl" /\ cgl!Step
     \/ module = "sys" /\ net!Step
  /\ Alone

LocalNext ==
  /\ \/ module = "glx" /\ Next
     \/ module = "wgl" /\ wgl!Next
     \/ module = "cgl" /\ cgl!Next
     \/ module = "sys" /\ net!Next
  /\ Alone

\* The module's calls run on, as each specification says.
LocalSpec == LocalInit /\ [][LocalNext]_allVars /\ WF_allVars(LocalStep)

\* wglGetGPUIDsAMD() does not answer with an ID twice.
ASSUME DriversAssumption ==
  \A d \in Drivers :
    /\ d.affinity \in BOOLEAN /\ d.association \in BOOLEAN
    /\ d.gpus \in Seq([device : BOOLEAN, attached : BOOLEAN])
    /\ d.monitors \in Seq(BOOLEAN)
    /\ d.ids \in Seq(Nat)
    /\ \A k, l \in DOMAIN d.ids : d.ids[k] = d.ids[l] => k = l

\* What the system says of an interface, an adapter or an item.
Answer == STRING \cup {Unset}

ASSUME InterfacesAssumption ==
  /\ MaxList \in [net!Builds -> Nat]
  /\ \A a \in Address :
       a.up \in BOOLEAN /\ a.null \in BOOLEAN /\ a.number \in Answer /\ a.host \in Answer
  /\ \A a \in Adapter :
       /\ a.up \in BOOLEAN /\ a.hwAddress \in Answer /\ a.linkspeed \in Answer
       /\ a.addresses \in Seq([family : {"INET", "INET6"}, number : Answer])

\* The system has a number of displays and lists some of them.
ASSUME DisplaysAssumption == IsFiniteSet(Display) /\ MaxGPUs \in Nat

-------------------------------------------------------------------------------
DriverOf(gpus, ids, monitors) ==
  [affinity |-> gpus # << >>, association |-> ids # << >>,
   gpus |-> gpus, ids |-> ids, monitors |-> monitors]

Attached == [device |-> TRUE, attached |-> TRUE]
Detached == [device |-> TRUE, attached |-> FALSE]
Lost == [device |-> FALSE, attached |-> FALSE]

FewDrivers ==
  {DriverOf(<< >>, << >>, << >>), DriverOf(<< >>, << >>, <<TRUE, FALSE, TRUE>>),
   DriverOf(<<Attached, Detached>>, << >>, <<TRUE>>), DriverOf(<<Attached, Lost, Detached>>, << >>, <<TRUE>>),
   DriverOf(<< >>, <<1, 2>>, <<TRUE, TRUE>>), DriverOf(<< >>, <<2>>, << >>)}

AddressOf(name, family, up, number, host) ==
  [name |-> name, null |-> FALSE, family |-> family, up |-> up, number |-> number, host |-> host]

\* Addresses of an Ethernet card with two IPv4 addresses, of a loopback interface
\* and of a tunnel that is down.
FewAddresses ==
  {AddressOf("eth0", "PACKET", TRUE, "00:11", "ETHERNET"),
   AddressOf("eth0", "INET", TRUE, "10.1.0.1", "pc.example"),
   AddressOf("eth0", "INET", TRUE, "10.2.0.1", Unset),
   AddressOf("eth0", "INET6", TRUE, Unset, Unset),
   AddressOf("eth0", "INET6", FALSE, "fe80::1", Unset),
   AddressOf("lo", "PACKET", TRUE, "00:00", "LOOPBACK"),
   AddressOf("lo", "INET", TRUE, "127.0.0.1", "localhost"),
   AddressOf("tun0", "PACKET", FALSE, "ff:ff", "NONE"),
   AddressOf("tun0", "OTHER", FALSE, Unset, Unset),
   [AddressOf("tun0", "INET", FALSE, Unset, Unset) EXCEPT !.null = TRUE]}

AdapterOf(type, up, hwAddress, addresses) ==
  [type |-> type, up |-> up, hwAddress |-> hwAddress, linkspeed |-> "1000", addresses |-> addresses]

\* GetAdaptersAddresses() is asked for AF_INET.
V4(number) == [family |-> "INET", number |-> number]

FewAdapters ==
  {AdapterOf("ETHERNET", TRUE, "00:11", <<V4("10.1.0.1"), V4("10.2.0.1")>>),
   AdapterOf("ETHERNET", TRUE, "00:22", <<V4("10.3.0.1"), V4(Unset)>>),
   AdapterOf("LOOPBACK", TRUE, Unset, <<V4("127.0.0.1")>>),
   AdapterOf("PPP", FALSE, Unset, << >>)}

ItemOf(family, number, host, hwAddress, flags) ==
  [family |-> family, number |-> number, host |-> host, hwAddress |-> hwAddress,
   flags |-> flags, linkspeed |-> Unset]

FewItems ==
  {ItemOf("INET", "10.1.0.1", "pc.example", "00:11", {"UP"}),
   ItemOf("INET", "127.0.0.1", Unset, Unset, {"UP", "LOOPBACK"}),
   ItemOf("INET6", "fe80::1", Unset, "00:11", Unset),
   ItemOf("OTHER", Unset, Unset, Unset, {})}

FewEntries == [getifaddrs |-> 4, Windows |-> 3, ioctl |-> 3]

-------------------------------------------------------------------------------
(* Of a list of addresses, adapters or items every interface is gathered.       *)
AllGathered == net!AllGathered

(* What a discovery acquires of the system it gives back, but for the device     *)
(* context after ChoosePixelFormat() failed and WSAStartup() when the adapters    *)
(* cannot be listed.                                                         *)
GivenBack == wgl!Released /\ net!GivenBack

(* The GPUs that vendor extensions or the system enumerate are found.           *)
GPUsFound == wgl!GPUsFound

(* The cgl module finds the main display.                                    *)
MainDisplayFound == cgl!MainDisplayFound

(* Every discovery of a local module returns, whatever it meets and however X    *)
(* servers and displays change while it looks: no server has screens without end. *)
Idle == {pc, wglPc, cglPc, netPc} = {"idle"}
EveryDiscoverReturns == ~Idle ~> Idle

================================================================================
