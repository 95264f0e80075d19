------------------------------- MODULE Discovery -------------------------------
(***************************************************************************)
(* Discovery and announcement of one resource type in one process:          *)
(* discover*Infos() asks one registered module after the other and selects  *)
(* from their findings with a filter chain; announce*Infos() asks one        *)
(* module after the other to announce, upon which the dns_sd module runs a   *)
(* discovery of its own, with itself left out, and publishes the result.    *)
(*                                                                         *)
(* Which modules are registered, and in which order, is up to the           *)
(* application (RegisteredModules; ModuleStack implements it). A module is   *)
(* asked anew by every call and may find something else every time.         *)
(***************************************************************************)
EXTENDS Filters, FiniteSets, SequencesExt

CONSTANTS
  Module,      \* the module classes of this resource type
  DnsSd,       \* the one that finds and announces over the network
  Findings,    \* Findings[m]: what discover() of module m may return
  Chains,      \* the filter chains applications pass
  Sessions,    \* the session names they announce for
  Nothing      \* no announcement yet

ASSUME DnsSdIsModule == DnsSd \in Module
ASSUME FindingsAssumption == Findings \in [Module -> SUBSET Seq(Info)]
ASSUME ChainsAssumption == Chains \subseteq Seq(Filter)

VARIABLES
  registered,  \* the modules on the stack
  pc,          \* "idle", "announce" (announce loop), "query" and "test" (discover
               \* loops) or "publish" (dns_sd after its discovery)
  announcing,  \* the dns_sd module's flag: its discover() returns nothing
  outer,       \* the announce loop's position in the stack, 0 in a discovery
  session,     \* the argument of announce*Infos()
  chain,       \* the filter chain of the running discovery
  at,          \* the discover loop's position in the stack
  infos,       \* what the module asked last found and is not tested yet
  result,      \* the selected infos
  examined,    \* history: the infos tested, with the module that found them
  published,   \* what the dns_sd module has last handed to its service
  returned     \* the value of the last announce*Infos()

stackVars == registered
loopVars == <<outer, session>>
discoverVars == <<chain, at, infos, result, examined>>
publishVars == <<published, returned>>
vars == <<registered, pc, announcing, outer, session, chain, at, infos, result,
          examined, published, returned>>

Registry == INSTANCE RegisteredModules

Init ==
  /\ Registry!Init
  /\ pc = "idle"
  /\ announcing = FALSE
  /\ outer = 0 /\ session = Empty /\ chain = << >> /\ at = 1
  /\ infos = << >> /\ result = << >> /\ examined = << >>
  /\ published = Nothing
  /\ returned = TRUE

\* use() and dispose() of the modules, between calls.
ChangeStack ==
  /\ pc = "idle"
  /\ Registry!Next
  /\ UNCHANGED <<pc, announcing, loopVars, discoverVars, publishVars>>

-------------------------------------------------------------------------------
(* discoverGPUInfos(filter), discoverNetInfos(filter)                       *)

\* A discovery starts at the head of the stack, whoever calls it.
StartOfStack == 1

StartDiscovery(c) ==
  /\ chain' = c
  /\ at' = StartOfStack
  /\ infos' = << >> /\ result' = << >> /\ examined' = << >>
  /\ pc' = "query"

CallDiscover(c) ==
  /\ pc = "idle"
  /\ StartDiscovery(c)
  /\ outer' = 0
  /\ UNCHANGED <<stackVars, announcing, session, publishVars>>

AnsweredAlways(m) == Findings[m]

\* The dns_sd module finds nothing while it announces.
Answered(m) == IF m = DnsSd /\ announcing THEN {<< >>} ELSE Findings[m]

QueryModule ==
  /\ pc = "query"
  /\ at <= Len(registered)
  /\ infos' \in Answered(registered[at])
  /\ pc' = "test"
  /\ UNCHANGED <<stackVars, announcing, loopVars, chain, at, result, examined, publishVars>>

NextCandidate ==
  /\ pc = "test"
  /\ infos # << >>
  /\ infos' = Tail(infos)
  /\ examined' = Append(examined, [from |-> registered[at], info |-> Head(infos)])
  /\ UNCHANGED <<stackVars, pc, announcing, loopVars, chain, at, publishVars>>

SelectCandidate ==
  /\ NextCandidate
  /\ Accepts(chain, result, Head(infos))
  /\ result' = Append(result, Head(infos))

MergeCandidate ==
  /\ NextCandidate
  /\ Merges(chain, result, Head(infos))
  /\ result' = FlagsMerged(result, Head(infos))

DropCandidate ==
  /\ NextCandidate
  /\ ~Accepts(chain, result, Head(infos)) /\ ~Merges(chain, result, Head(infos))
  /\ UNCHANGED result

SameModule == at

ModuleBehind == at + 1

NextModule ==
  /\ pc = "test"
  /\ infos = << >>
  /\ at' = ModuleBehind
  /\ pc' = "query"
  /\ UNCHANGED <<stackVars, announcing, loopVars, chain, infos, result, examined, publishVars>>

Discovered == pc = "query" /\ at > Len(registered)

\* A discovery that has returned leaves nothing behind in the library.
EndDiscovery ==
  /\ chain' = << >>
  /\ at' = 1
  /\ infos' = << >> /\ result' = << >> /\ examined' = << >>

ReturnInfos ==
  /\ Discovered
  /\ outer = 0
  /\ EndDiscovery
  /\ pc' = "idle"
  /\ UNCHANGED <<stackVars, announcing, loopVars, publishVars>>

-------------------------------------------------------------------------------
(* announceGPUInfos(session), announceNetInfos(session)                     *)

CallAnnounce(s) ==
  /\ pc = "idle"
  /\ session' = s
  /\ outer' = 1
  /\ pc' = "announce"
  /\ UNCHANGED <<stackVars, announcing, discoverVars, publishVars>>

\* The default announce() prints what the module finds.
PrintModule ==
  /\ pc = "announce"
  /\ outer <= Len(registered)
  /\ registered[outer] # DnsSd
  /\ outer' = outer + 1
  /\ UNCHANGED <<stackVars, pc, announcing, session, discoverVars, publishVars>>

\* The dns_sd module's announce(): discover with the default filter.
DiscoverToAnnounce ==
  /\ pc = "announce"
  /\ outer <= Len(registered)
  /\ registered[outer] = DnsSd
  /\ announcing' = TRUE
  /\ StartDiscovery(<<Duplicate>>)
  /\ UNCHANGED <<stackVars, loopVars, publishVars>>

LeftAnnouncing == announcing

Reset == FALSE

StopAnnouncing ==
  /\ Discovered
  /\ outer # 0
  /\ announcing' = Reset
  /\ pc' = "publish"
  /\ UNCHANGED <<stackVars, loopVars, discoverVars, publishVars>>

\* With nothing found the module returns true and leaves its service alone.
PublishNothing ==
  /\ pc = "publish"
  /\ result = << >>
  /\ EndDiscovery
  /\ outer' = outer + 1
  /\ pc' = "announce"
  /\ UNCHANGED <<stackVars, announcing, session, publishVars>>

IsLoopback(info) == Resource = "Net" /\ info.type = "LOOPBACK"

NoLoopbacks(found) == SelectSeq(found, LAMBDA info : ~IsLoopback(info))

\* The first loopback interface is left out.
Payload(found) == RemoveFirstMatch(found, IsLoopback)

Publish ==
  /\ pc = "publish"
  /\ result # << >>
  /\ published' = [session |-> session, infos |-> Payload(result)]
  /\ EndDiscovery
  /\ UNCHANGED <<stackVars, announcing>>

\* service.announce() succeeds, and the loop goes on behind dns_sd ...
PublishSucceeds ==
  /\ Publish
  /\ outer' = outer + 1
  /\ pc' = "announce"
  /\ UNCHANGED <<session, returned>>

ReturnBool(value) ==
  /\ returned' = value
  /\ outer' = 0 /\ session' = Empty
  /\ pc' = "idle"

\* ... or fails, and so does the whole call.
PublishFails ==
  /\ Publish
  /\ ReturnBool(FALSE)

ReturnTrue ==
  /\ pc = "announce"
  /\ outer > Len(registered)
  /\ ReturnBool(TRUE)
  /\ UNCHANGED <<stackVars, announcing, discoverVars, published>>

-------------------------------------------------------------------------------
Call ==
  \/ ChangeStack
  \/ \E c \in Chains : CallDiscover(c)
  \/ \E s \in Sessions : CallAnnounce(s)

Step ==
  \/ QueryModule \/ SelectCandidate \/ MergeCandidate \/ DropCandidate \/ NextModule
  \/ ReturnInfos
  \/ PrintModule \/ DiscoverToAnnounce \/ StopAnnouncing
  \/ PublishNothing \/ PublishSucceeds \/ PublishFails \/ ReturnTrue

Next == Call \/ Step

\* A call that was begun runs on: its loops are finite and it waits for nothing.
Spec == Init /\ [][Next]_vars /\ WF_vars(Step)

-------------------------------------------------------------------------------
\* The locals of a call have their types and are empty between calls.
LocalsOK ==
  /\ Registry!TypeOK
  /\ pc \in {"idle", "announce", "query", "test", "publish"}
  /\ outer \in Nat /\ at \in Nat \ {0}
  /\ session \in Sessions \cup {Empty}
  /\ chain \in Seq(Filter)
  /\ infos \in Seq(Info)
  /\ result \in Seq(Info)
  /\ examined \in Seq([from : Module, info : Info])
  /\ pc \in {"announce", "publish"} => outer # 0
  /\ pc \in {"idle", "announce"} => chain = << >> /\ result = << >> /\ examined = << >>
  /\ pc = "idle" => outer = 0
  /\ pc # "test" => infos = << >>
  /\ pc = "test" => at \in DOMAIN registered

\* The dns_sd module is silent exactly while its own announcement discovers.
SilentToAnnounce == announcing = (outer # 0 /\ pc \in {"query", "test"})

TypeOK == LocalsOK /\ SilentToAnnounce /\ returned \in BOOLEAN

\* A chain with a duplicate filter, wherever in it, lets no two infos through
\* that operator== calls equal, however often and by whichever modules and
\* interfaces they are seen.
OneOfAKind ==
  Has(chain, "Duplicate") =>
    \A i, j \in DOMAIN result : Same(result[i], result[j]) => i = j

SeenAs(info) == {i \in DOMAIN examined : Same(examined[i].info, info)}

FlagsSeen(info) == UNION {examined[i].info.flags : i \in SeenAs(info)}

\* The flags of a selected GPU are those of all its sightings, although only
\* the first of them is kept.
FlagsAccumulate ==
  Resource = "GPU" /\ Has(chain, "Duplicate") /\ ~Has(chain, "Mirror") =>
    \A i \in DOMAIN result :
      result[i].flags = FlagsSeen(result[i])

\* Filters that look at the candidate alone.
Wanted(info) ==
  \A i \in DOMAIN chain :
    chain[i].test \notin {"Duplicate", "Mirror"} => Passes(chain[i], << >>, info)

\* The examined infos to keep: the wanted ones, the first of each kind only if
\* duplicates are filtered.
Firsts ==
  {i \in DOMAIN examined :
     /\ Wanted(examined[i].info)
     /\ Has(chain, "Duplicate") =>
          \A j \in 1 .. i - 1 : ~Same(examined[j].info, examined[i].info)}

\* These sightings are listed, no others, in the order the modules found them and
\* with the node ID of each.
InOrder(list, sightings) ==
  /\ Len(list) = Cardinality(sightings)
  /\ \A i \in sightings :
       LET listed == list[Cardinality({j \in sightings : j <= i})] IN
         /\ Same(listed, examined[i].info)
         /\ listed.id = examined[i].info.id

\* The infos to keep are selected, in their order; of the equal ones the first.
FirstsInOrder == ~Has(chain, "Mirror") => InOrder(result, Firsts)

\* A mirror filter lets no two GPUs of one process, session and place through.
MirrorsDropped ==
  Resource = "GPU" /\ Has(chain, "Mirror") =>
    \A i, j \in DOMAIN result : Reflects(result[i], result[j]) => i = j

\* A wanted info that is not selected has an equal one that is, or one it
\* mirrors if mirrors are filtered.
NothingLost ==
  \A i \in DOMAIN examined :
    Wanted(examined[i].info) =>
      \E j \in DOMAIN result :
        \/ Same(result[j], examined[i].info)
        \/ /\ Resource = "GPU" /\ Has(chain, "Mirror")
           /\ Reflects(result[j], examined[i].info)

\* What a process publishes its own modules have found: it never announces
\* again what it hears from the network, neither as infos nor merged as flags.
NoEcho ==
  outer # 0 => \A i \in DOMAIN examined : examined[i].from # DnsSd

\* The first loopback interface that the modules found.
FirstLoopback ==
  {i \in Firsts :
     /\ IsLoopback(examined[i].info)
     /\ \A j \in Firsts : IsLoopback(examined[j].info) => i <= j}

\* An announcement hands over all that the modules have found for it, each info once
\* and in order, with the one exception of the first loopback interface; a second
\* one is announced, and if nothing else was found, an empty list.
AnnouncedInFull ==
  [][pc = "publish" /\ examined # << >> =>
       InOrder(published'.infos, Firsts \ FirstLoopback)]_vars

\* Every discovery and announcement returns.
CallsReturn == pc # "idle" ~> pc = "idle"

-------------------------------------------------------------------------------
(* What the documentation says of the mirror filter (filter.h:112): a GPU it *)
(* lets through is unique with respect to position, device, hostname and     *)
(* session.                                                                *)
UniqueOnHost ==
  Resource = "GPU" /\ Has(chain, "Mirror") =>
    \A i, j \in DOMAIN result :
      /\ result[i].nodeName = result[j].nodeName
      /\ result[i].session = result[j].session
      /\ result[i].place = result[j].place
      => i = j

================================================================================
