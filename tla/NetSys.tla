--------------------------------- MODULE NetSys ---------------------------------
(***************************************************************************)
(* The discover() of the sys module for network interfaces, in the three     *)
(* ways it can be built: from getifaddrs(), which lists the addresses of all *)
(* interfaces in any order and any number per interface, from the adapters    *)
(* of Windows, or from the interfaces an ioctl() lists.                      *)
(***************************************************************************)
EXTENDS Naturals, Sequences, SequencesExt

\* An address has a name, a family, up and null, if there is no ifa_addr; number
\* and host are what getnameinfo() makes of it, Unset if it fails. Of a PACKET
\* address they are the hardware address and its type.
CONSTANTS
  Address,   \* the addresses getifaddrs() may list
  Adapter,   \* the adapters Windows may list
  Item,      \* the interfaces ioctl() may list; what it does not answer is Unset
  MaxList,   \* bound on the lengths of the lists, by build
  Unset      \* an empty string or the default of a field

Builds == {"getifaddrs", "Windows", "ioctl"}

VARIABLES
  build,    \* which of the branches was compiled
  pc,       \* "idle", "size" or "list" before the list is there, "gather", "returned"
  ifaddr,   \* the list of the system
  ifa,      \* the position in it
  addr,     \* Windows: the position in the addresses of its adapter
  infos,    \* getifaddrs(): Name2Info, a function from the names seen so far
  held,     \* what must be given back to the system
  failed,   \* history: where the call gave up, or "nowhere"
  result    \* the infos returned, by name if they come from a map

listVars == <<ifaddr, ifa, addr>>
vars == <<build, pc, listVars, infos, held, failed, result>>

NoInfos == << >>

Init ==
  /\ build \in Builds
  /\ pc = "idle"
  /\ ifaddr = << >> /\ ifa = 1 /\ addr = 0
  /\ infos = NoInfos
  /\ held = {} /\ failed = "nowhere"
  /\ result = NoInfos

-------------------------------------------------------------------------------
(* Getting the list, one call of the system after the other.                *)

First == [getifaddrs |-> "ifaddrs", Windows |-> "sockets", ioctl |-> "socket"]
Then == [getifaddrs |-> "gather", Windows |-> "size", ioctl |-> "list"]

Fail(step) == pc' = "returned" /\ failed' = step

Lists(set) == UNION {[1 .. n -> set] : n \in 0 .. MaxList[build]}

\* getifaddrs(), WSAStartup() or socket()
CannotBegin ==
  /\ pc = "idle"
  /\ Fail("begin")
  /\ UNCHANGED <<build, listVars, infos, held, result>>

Begin ==
  /\ pc = "idle"
  /\ held' = {First[build]}
  /\ pc' = Then[build]
  /\ IF build = "getifaddrs" THEN ifaddr' \in Lists(Address) ELSE UNCHANGED ifaddr
  /\ UNCHANGED <<build, ifa, addr, infos, failed, result>>

\* GetAdaptersAddresses() is asked for a size; without adapters it has none.
SizeFails ==
  /\ pc = "size"
  /\ Fail("size")
  /\ UNCHANGED <<build, listVars, infos, held, result>>

Allocate ==
  /\ pc = "size"
  /\ held' = held \cup {"buffer"}
  /\ pc' = "list"
  /\ UNCHANGED <<build, listVars, infos, failed, result>>

\* Upon failure the buffer is freed, or the socket closed.
FreedOnFailure == held \ {"buffer", "socket"}

\* The list may have outgrown the buffer since.
ListFails ==
  /\ pc = "list"
  /\ held' = FreedOnFailure
  /\ Fail("list")
  /\ UNCHANGED <<build, listVars, infos, result>>

List ==
  /\ pc = "list"
  /\ ifaddr' \in Lists(IF build = "Windows" THEN Adapter ELSE Item)
  /\ pc' = "gather"
  /\ UNCHANGED <<build, ifa, addr, infos, held, failed, result>>

-------------------------------------------------------------------------------
\* NetInfo()
NewInfo == [type |-> "UNKNOWN", up |-> FALSE, hostname |-> Unset, hwAddress |-> Unset,
            inetAddress |-> Unset, inet6Address |-> Unset, linkspeed |-> Unset]

InfoOf(name) == IF name \in DOMAIN infos THEN infos[name] ELSE NewInfo

IfSet(value, old) == IF value = Unset THEN old ELSE value

Type(hatype) ==
  IF hatype \in {"ETHERNET", "INFINIBAND", "LOOPBACK"} THEN hatype ELSE "UNKNOWN"

AddedToNew(info, a) ==
  CASE a.family = "INET" -> [NewInfo EXCEPT !.up = a.up, !.inetAddress = a.number,
                                            !.hostname = a.host]
    [] a.family = "INET6" -> [NewInfo EXCEPT !.up = a.up, !.inet6Address = a.number]
    [] a.family = "PACKET" ->
         [NewInfo EXCEPT !.up = a.up, !.type = Type(a.host), !.hwAddress = a.number]
    [] OTHER -> [NewInfo EXCEPT !.up = a.up]

\* What one address adds to the info of its interface.
Added(info, a) ==
  CASE a.family = "INET" ->
         [info EXCEPT !.up = a.up,
                      !.inetAddress = IfSet(a.number, @),
                      !.hostname = IfSet(a.host, @)]
    [] a.family = "INET6" -> [info EXCEPT !.up = a.up, !.inet6Address = IfSet(a.number, @)]
    [] a.family = "PACKET" ->
         [info EXCEPT !.up = a.up, !.type = Type(a.host), !.hwAddress = a.number]
    [] OTHER -> [info EXCEPT !.up = a.up]

AtEntry(b) == build = b /\ pc = "gather" /\ ifa <= Len(ifaddr)
Entry == ifaddr[ifa]

SkipNull ==
  /\ AtEntry("getifaddrs")
  /\ Entry.null
  /\ ifa' = ifa + 1
  /\ UNCHANGED <<build, pc, ifaddr, addr, infos, held, failed, result>>

Gather ==
  /\ AtEntry("getifaddrs")
  /\ ~Entry.null
  /\ infos' = [name \in DOMAIN infos \cup {Entry.name} |->
                 IF name = Entry.name THEN Added(InfoOf(name), Entry) ELSE infos[name]]
  /\ ifa' = ifa + 1
  /\ UNCHANGED <<build, pc, ifaddr, addr, held, failed, result>>

\* Windows: an adapter without its addresses, and what one of them adds. One
\* that has no name overwrites the one before.
OfAdapter(a) ==
  [NewInfo EXCEPT !.type = IF a.type \in {"ETHERNET", "LOOPBACK"} THEN a.type ELSE @,
                  !.up = a.up, !.hwAddress = a.hwAddress, !.linkspeed = a.linkspeed]

WithAddress(info, address) ==
  IF address.family = "INET" THEN [info EXCEPT !.inetAddress = address.number]
  ELSE [info EXCEPT !.inet6Address = address.number]

Extend(info) == Append(Front(result), info)

GatherAdapter ==
  /\ AtEntry("Windows")
  /\ addr = 0
  /\ result' = Append(result, OfAdapter(Entry))
  /\ addr' = 1
  /\ UNCHANGED <<build, pc, ifaddr, ifa, infos, held, failed>>

GatherAddress ==
  /\ AtEntry("Windows")
  /\ addr \in DOMAIN Entry.addresses
  /\ result' = Extend(WithAddress(Last(result), Entry.addresses[addr]))
  /\ addr' = addr + 1
  /\ UNCHANGED <<build, pc, ifaddr, ifa, infos, held, failed>>

NextAdapter ==
  /\ AtEntry("Windows")
  /\ addr > Len(Entry.addresses)
  /\ ifa' = ifa + 1 /\ addr' = 0
  /\ UNCHANGED <<build, pc, ifaddr, infos, held, failed, result>>

\* ioctl: each of the address, the hardware address and the flags may be missing.
OfItem(a) ==
  [NewInfo EXCEPT !.type = IF a.flags # Unset /\ "LOOPBACK" \in a.flags
                           THEN "LOOPBACK" ELSE "ETHERNET",
                  !.up = a.flags # Unset /\ "UP" \in a.flags,
                  !.hostname = a.host, !.hwAddress = a.hwAddress,
                  !.linkspeed = a.linkspeed,
                  !.inetAddress = IF a.family = "INET" THEN a.number ELSE @,
                  !.inet6Address = IF a.family = "INET6" THEN a.number ELSE @]

GatherItem ==
  /\ AtEntry("ioctl")
  /\ result' = Append(result, OfItem(Entry))
  /\ ifa' = ifa + 1
  /\ UNCHANGED <<build, pc, ifaddr, addr, infos, held, failed>>

\* Everything is given back; the infos of the map are returned in its order.
Return ==
  /\ pc = "gather"
  /\ ifa > Len(ifaddr)
  /\ held' = {}
  /\ result' = IF build = "getifaddrs" THEN infos ELSE result
  /\ pc' = "returned"
  /\ UNCHANGED <<build, listVars, infos, failed>>

\* The caller takes the infos. What was not given back stays with the process,
\* and is no longer looked at.
Done ==
  /\ pc = "returned"
  /\ pc' = "idle"
  /\ ifaddr' = << >> /\ ifa' = 1
  /\ infos' = NoInfos /\ result' = NoInfos
  /\ held' = {} /\ failed' = "nowhere"
  /\ UNCHANGED <<build, addr>>

\* The steps of a call once it was begun.
Step ==
  \/ SizeFails \/ Allocate \/ ListFails \/ List
  \/ SkipNull \/ Gather
  \/ GatherAdapter \/ GatherAddress \/ NextAdapter
  \/ GatherItem
  \/ Return \/ Done

Next == CannotBegin \/ Begin \/ Step

Spec == Init /\ [][Next]_vars /\ WF_vars(Step)

-------------------------------------------------------------------------------
(* The reference: each field of an info is that of the last address of the   *)
(* interface that has it.                                                   *)

LastOf(list, positions) == list[CHOOSE k \in positions : \A l \in positions : l <= k]

\* The addresses of an interface that count.
Of(name) == {k \in 1 .. Len(ifaddr) : ~ifaddr[k].null /\ ifaddr[k].name = name}

OfFamily(family, positions) == {k \in positions : ifaddr[k].family = family}
Numbered(family, positions) == {k \in OfFamily(family, positions) : ifaddr[k].number # Unset}
Named(positions) == {k \in OfFamily("INET", positions) : ifaddr[k].host # Unset}

Number(positions) == IF positions = {} THEN Unset ELSE LastOf(ifaddr, positions).number
Host(positions) == IF positions = {} THEN Unset ELSE LastOf(ifaddr, positions).host

\* What the addresses at the positions say of their interface.
Said(positions) ==
  [type |-> IF OfFamily("PACKET", positions) = {} THEN "UNKNOWN"
            ELSE Type(Host(OfFamily("PACKET", positions))),
   up |-> IF positions = {} THEN FALSE ELSE LastOf(ifaddr, positions).up,
   hostname |-> Host(Named(positions)),
   hwAddress |-> Number(OfFamily("PACKET", positions)),
   inetAddress |-> Number(Numbered("INET", positions)),
   inet6Address |-> Number(Numbered("INET6", positions)),
   linkspeed |-> Unset]

Reference(name) == Said(Of(name))

OfAdapterAt(a, positions) ==
  LET inet == {k \in positions : a.addresses[k].family = "INET"}
      last(some) == IF some = {} THEN Unset ELSE LastOf(a.addresses, some).number
  IN [OfAdapter(a) EXCEPT !.inetAddress = last(inet), !.inet6Address = last(positions \ inet)]

AdapterReference(a) == OfAdapterAt(a, DOMAIN a.addresses)

(* Every interface with an address is found once with all that is known of it, *)
(* in whichever order its addresses are listed and however those of other       *)
(* interfaces lie between them; adapters and items are found in their order.    *)
AllGathered ==
  pc = "returned" =>
    CASE build = "getifaddrs" ->
           /\ DOMAIN result = {ifaddr[k].name : k \in {l \in DOMAIN ifaddr : ~ifaddr[l].null}}
           /\ \A name \in DOMAIN result : result[name] = Reference(name)
      [] build = "Windows" -> result = [k \in DOMAIN ifaddr |-> AdapterReference(ifaddr[k])]
      [] build = "ioctl" -> result = [k \in DOMAIN ifaddr |-> OfItem(ifaddr[k])]

(* Whichever call of the system fails, a discovery keeps nothing of what it     *)
(* acquired, but for WSAStartup() when the adapters cannot be listed.          *)
GivenBack ==
  pc = "returned" =>
    held = IF build = "Windows" /\ failed \in {"size", "list"} THEN {"sockets"} ELSE {}

================================================================================
