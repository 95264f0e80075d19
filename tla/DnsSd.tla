--------------------------------- MODULE DnsSd ---------------------------------
(***************************************************************************)
(* The dns_sd modules of one resource type on the hosts of a network: on    *)
(* each host a process announces what its own modules found, and a browser   *)
(* on one of them collects the announcements of all.                        *)
(*                                                                         *)
(* Between them is the ZeroConf service (servus, external): it publishes a   *)
(* record of key-value pairs under the name of the host, withdraws it with   *)
(* the service object, keeps the record of a process that died until it      *)
(* times out, and hands the records to whoever browses meanwhile.            *)
(***************************************************************************)
EXTENDS ServiceData, SequencesExt

CONSTANTS
  Host,          \* the hosts of the network
  Here,          \* the host of the browser
  Findings,      \* Findings[h]: what the other modules of h may find, never nothing
  Sessions,      \* the sessions announced for
  Uuid,          \* Uuid[h]: the node IDs the processes of host h draw, as many
                 \* as may be started
  MaxAnnounces,  \* MaxAnnounces[h]: bound on the announcements of all processes of h
  NoRecord       \* nothing is published

ASSUME HereIsHost == Here \in Host
ASSUME UuidsDiffer ==
  /\ Uuid \in [Host -> Seq(Word)]
  /\ \A g, h \in Host : \A i \in DOMAIN Uuid[g] : \A j \in DOMAIN Uuid[h] :
       Uuid[g][i] = Uuid[h][j] => g = h /\ i = j
ASSUME FindingsArePossible ==
  \A h \in Host : \A infos_ \in Findings[h] :
    /\ Len(infos_) <= MaxInfos
    /\ infos_ \in Seq([Field -> Text])
    /\ \A k \in DOMAIN infos_ : \A f \in Field :
         /\ infos_[k][f] = Absent => f \in Name
         /\ ~IsSet(f, infos_[k]) => infos_[k][f] = Default[f]
ASSUME NoRecordIsNoData == NoRecord \notin Data
ASSUME SessionsAreText == Sessions \subseteq Text
ASSUME AnnouncesAreBounded == MaxAnnounces \in [Host -> Nat]

VARIABLES
  pc,         \* pc[h]: the announcing process of host h is "down", "up", or in
              \* announce(), at a key of the node or in the loop over the "infos"
  process,    \* process[h]: how many were started; the last one is the current one
  found,      \* found[h]: what it announces, a local of announce()
  asked,      \* asked[h]: the session it announces for, a local of announce()
  index,      \* index[h]: the loop variable of announce()
  key,        \* key[h]: the key of the info that is to be set next, of Keys
  count,      \* count[h]: how many announcements were made on h
  data,       \* data[h]: the pairs set in its service object
  record,     \* record[h]: the pairs published on the network for h
  scan,       \* the browser is "idle" or scans "all" or the "local" interfaces
  heard,      \* heard[h]: the record of h the running scan has last heard
  infos,      \* infos[h]: what the browser read of h from all interfaces
  local,      \* local[h]: ... from the local interface
  announced,  \* history: announced[h] is the sequence of announcements of h
  stopped,    \* history: the processes that disposed of their module
  past        \* history: the ones that had when the discovery began

localVars == <<found, asked, index, key>>
daemonVars == <<pc, process, localVars, data, count>>
historyVars == <<announced, stopped>>
browserVars == <<scan, heard, infos, local, past>>
vars == <<daemonVars, record, browserVars, historyVars>>

\* The node ID of the process of h, drawn at random when it is first asked for.
NodeID(h) == <<Uuid[h][process[h]]>>

Nothing == [h \in Host |-> << >>]
NothingHeard == [h \in Host |-> NoRecord]

Init ==
  /\ pc = [h \in Host |-> "down"]
  /\ process = [h \in Host |-> 0]
  /\ found = Nothing
  /\ asked = [h \in Host |-> Absent]
  /\ index = [h \in Host |-> 1] /\ key = [h \in Host |-> 1]
  /\ data = [h \in Host |-> NoData]
  /\ count = [h \in Host |-> 0]
  /\ record = NothingHeard
  /\ scan = "idle"
  /\ heard = NothingHeard /\ infos = Nothing /\ local = Nothing
  /\ announced = Nothing
  /\ stopped = {} /\ past = {}

-------------------------------------------------------------------------------
(* The announcing process of a host.                                       *)

\* Module::use(); the record of a process that crashed may still be there.
Use(h) ==
  /\ pc[h] = "down"
  /\ process[h] < Len(Uuid[h])
  /\ pc' = [pc EXCEPT ![h] = "up"]
  /\ process' = [process EXCEPT ![h] = @ + 1]
  /\ data' = [data EXCEPT ![h] = NoData]
  /\ UNCHANGED <<localVars, count, record, browserVars, historyVars>>

\* announce(): upon nothing found the service is left as it is.
AnnounceNothing(h) ==
  /\ pc[h] = "up"
  /\ count[h] < MaxAnnounces[h]
  /\ count' = [count EXCEPT ![h] = @ + 1]
  /\ UNCHANGED <<pc, process, localVars, data, record, browserVars, historyVars>>

\* announce(): the session asked for and the infos are kept, nothing is set yet.
Announce(h, session, infos_) ==
  /\ pc[h] = "up"
  /\ count[h] < MaxAnnounces[h]
  /\ count' = [count EXCEPT ![h] = @ + 1]
  /\ found' = [found EXCEPT ![h] = infos_]
  /\ asked' = [asked EXCEPT ![h] = session]
  /\ pc' = [pc EXCEPT ![h] = "NodeID"]
  /\ announced' = [announced EXCEPT ![h] =
       Append(@, [id |-> NodeID(h), session |-> session, found |-> infos_,
                  returned |-> FALSE])]
  /\ UNCHANGED <<process, index, key, data, record, browserVars, stopped>>

\* One service.set() on a key that is not of an info.
SetNode(h, at, pairs, next) ==
  /\ pc[h] = at
  /\ data' = [data EXCEPT ![h] = pairs]
  /\ pc' = [pc EXCEPT ![h] = next]
  /\ UNCHANGED <<process, localVars, count, record, browserVars, historyVars>>

SetNodeID(h) == SetNode(h, "NodeID", [data[h] EXCEPT !.NodeID = NodeID(h)], "Hostname")

\* The node has no name.
SetHostname(h) == SetNode(h, "Hostname", [data[h] EXCEPT !.Hostname = Absent], "Session")

SetSession(h) == SetNode(h, "Session", [data[h] EXCEPT !.Session = asked[h]], "Count")

CountOneMore(h) == SetNode(h, "Count", [data[h] EXCEPT !.Count = Len(found[h]) + 1], "infos")

SetCount(h) == SetNode(h, "Count", [data[h] EXCEPT !.Count = Len(found[h])], "infos")

\* The next key of an info, if it has a value for it.
SetKey(h) ==
  /\ pc[h] = "infos"
  /\ index[h] <= Len(found[h])
  /\ data' = [data EXCEPT ![h] = SetValue(@, index[h], Keys[key[h]], found[h][index[h]])]
  /\ IF key[h] < Len(Keys)
     THEN key' = [key EXCEPT ![h] = @ + 1] /\ UNCHANGED index
     ELSE key' = [key EXCEPT ![h] = 1] /\ index' = [index EXCEPT ![h] = @ + 1]
  /\ UNCHANGED <<pc, process, found, asked, count, record, browserVars, historyVars>>

\* The locals of announce() are gone.
Leave(h) ==
  /\ found' = [found EXCEPT ![h] = << >>]
  /\ asked' = [asked EXCEPT ![h] = Absent]
  /\ index' = [index EXCEPT ![h] = 1]
  /\ key' = [key EXCEPT ![h] = 1]

AnyRound(h) == TRUE

LastRound(h) == index[h] > Len(found[h])

EndAnnounce(h) ==
  /\ pc[h] = "infos"
  /\ LastRound(h)
  /\ pc' = [pc EXCEPT ![h] = "up"]
  /\ Leave(h)
  /\ UNCHANGED <<process, data, count, browserVars, stopped>>

\* service.announce() publishes what is set ...
AnnounceSucceeds(h) ==
  /\ EndAnnounce(h)
  /\ record' = [record EXCEPT ![h] = data[h]]
  /\ announced' = [announced EXCEPT ![h][Len(announced[h])].returned = TRUE]

\* ... or fails, and the process may go on without.
AnnounceFails(h) ==
  /\ EndAnnounce(h)
  /\ UNCHANGED <<record, announced>>

\* A process that is gone as far as the network is concerned.
Down(h) ==
  /\ pc' = [pc EXCEPT ![h] = "down"]
  /\ Leave(h)
  /\ data' = [data EXCEPT ![h] = NoData]

KeptRecord(h) == record

\* The destructor of the module deletes the service object.
Withdrawn(h) == [record EXCEPT ![h] = NoRecord]

\* Module::dispose(); the application may go on, and may use() it again, but
\* it keeps its node ID: here it is a process that ends.
Dispose(h) ==
  /\ pc[h] = "up"
  /\ Down(h)
  /\ record' = Withdrawn(h)
  /\ stopped' = stopped \cup {NodeID(h)}
  /\ UNCHANGED <<process, count, browserVars, announced>>

\* The process, its host or its connection to the network dies.
Crash(h) ==
  /\ pc[h] # "down"
  /\ Down(h)
  /\ UNCHANGED <<process, count, record, browserVars, historyVars>>

-------------------------------------------------------------------------------
(* The ZeroConf service.                                                   *)

Published(h) == record[h] # NoRecord

ByCurrentProcess(h) ==
  Published(h) /\ pc[h] # "down" /\ record[h].NodeID = NodeID(h)

\* Whether pairs set after announce() are published at once, later or never is
\* up to the service: any time will do.
Refresh(h) ==
  /\ ByCurrentProcess(h)
  /\ record[h] # data[h]
  /\ record' = [record EXCEPT ![h] = data[h]]
  /\ UNCHANGED <<daemonVars, browserVars, historyVars>>

\* The record of a dead process times out.
Expire(h) ==
  /\ Published(h) /\ ~ByCurrentProcess(h)
  /\ record' = [record EXCEPT ![h] = NoRecord]
  /\ UNCHANGED <<daemonVars, browserVars, historyVars>>

-------------------------------------------------------------------------------
(* Module::discover() of the browser.                                      *)

\* service.discover() forgets what earlier scans heard.
Discover ==
  /\ scan = "idle"
  /\ scan' = "all"
  /\ heard' = NothingHeard /\ infos' = Nothing /\ local' = Nothing
  /\ past' = stopped
  /\ UNCHANGED <<daemonVars, record, historyVars>>

\* On the local interface only this host is heard.
Audible == IF scan = "local" THEN {Here} ELSE Host

Hear(h) ==
  /\ scan \in {"all", "local"}
  /\ h \in Audible
  /\ heard[h] # record[h]
  /\ heard' = [heard EXCEPT ![h] = record[h]]
  /\ UNCHANGED <<daemonVars, record, scan, infos, local, past, historyVars>>

Read(h) == IF heard[h] = NoRecord THEN << >> ELSE GetInfos(h, heard[h])

ReadAll == [h \in Host |-> Read(h)]

\* The wait is over, whatever was heard, and the pairs are read.
EndScan ==
  /\ scan = "all"
  /\ infos' = ReadAll
  /\ heard' = NothingHeard
  /\ scan' = "local"
  /\ UNCHANGED <<daemonVars, record, local, past, historyVars>>

SeenAlike(info, read) ==
  \E h \in Host : \E k \in DOMAIN read[h] : SameResource(read[h][k], info)

SeenLocally(info, read) ==
  \E h \in Host : \E k \in DOMAIN read[h] : SameInfo(read[h][k], info)

MarkFirst(read) ==
  [h \in Host |-> [k \in DOMAIN infos[h] |->
     IF k = 1 /\ SeenLocally(infos[h][k], read)
     THEN [infos[h][k] EXCEPT !.nodeName = Absent] ELSE infos[h][k]]]

\* What was found on the local interface too loses its node name.
Mark(read) ==
  [h \in Host |-> [k \in DOMAIN infos[h] |->
     IF SeenLocally(infos[h][k], read)
     THEN [infos[h][k] EXCEPT !.nodeName = Absent] ELSE infos[h][k]]]

EndLocalScan ==
  /\ scan = "local"
  /\ local' = ReadAll
  /\ infos' = Mark(ReadAll)
  /\ heard' = NothingHeard
  /\ scan' = "idle"
  /\ UNCHANGED <<daemonVars, record, past, historyVars>>

-------------------------------------------------------------------------------
Process(h) ==
  \/ Use(h) \/ AnnounceNothing(h)
  \/ \E session \in Sessions, infos_ \in Findings[h] : Announce(h, session, infos_)
  \/ SetNodeID(h) \/ SetHostname(h) \/ SetSession(h) \/ SetCount(h) \/ SetKey(h)
  \/ AnnounceSucceeds(h) \/ AnnounceFails(h)
  \/ Dispose(h) \/ Crash(h)

Service(h) == Refresh(h) \/ Expire(h)

Browser == Discover \/ (\E h \in Host : Hear(h)) \/ EndScan \/ EndLocalScan

Next == Browser \/ \E h \in Host : Process(h) \/ Service(h)

Spec == Init /\ [][Next]_vars

-------------------------------------------------------------------------------
DataOrNone == Data \cup {NoRecord}

\* Not in announce().
Outside == {"down", "up"}

TypeOK ==
  /\ pc \in [Host -> Outside \cup {"NodeID", "Hostname", "Session", "Count", "infos"}]
  /\ process \in [Host -> Nat]
  /\ \A h \in Host : process[h] <= Len(Uuid[h])
  /\ \A h \in Host : pc[h] # "down" => process[h] # 0
  /\ found \in [Host -> Seq([Field -> Text])]
  /\ \A h \in Host : found[h] \in Findings[h] \cup {<< >>}
  /\ asked \in [Host -> Text]
  /\ index \in [Host -> 1 .. MaxInfos + 1]
  /\ key \in [Host -> DOMAIN Keys]
  /\ data \in [Host -> Data]
  /\ count \in [Host -> Nat]
  /\ \A h \in Host : count[h] <= MaxAnnounces[h]
  /\ record \in [Host -> DataOrNone]
  /\ scan \in {"idle", "all", "local"}
  /\ heard \in [Host -> DataOrNone]
  /\ \A h \in Host : pc[h] # "infos" => index[h] = 1 /\ key[h] = 1
  /\ \A h \in Host : pc[h] \in Outside => found[h] = << >> /\ asked[h] = Absent

\* Text up to the first blank.
Cut(text) == IF text = Absent THEN Absent ELSE <<text[1]>>

\* What one value is for the reader: cut, and a type only if setType() knows it.
AsRead(f, text) ==
  IF /\ Resource = "Net" /\ f = "Type"
     /\ Cut(text) \notin {<<"ETHERNET">>, <<"INFINIBAND">>, <<"LOOPBACK">>}
  THEN <<"UNKNOWN">> ELSE Cut(text)

\* The infos an announcement stands for, as another process should read them.
Meant(h, a, k) ==
  [id |-> a.id, nodeName |-> <<h>>,
   session |-> IF a.session = Absent THEN Local ELSE Cut(a.session),
   resource |-> [f \in Field |-> AsRead(f, a.found[k][f])]]

ReadAs(h, a, read) ==
  /\ DOMAIN read = DOMAIN a.found
  /\ \A k \in DOMAIN read : read[k] = Meant(h, a, k)

\* Every process on h announces once, as hw_sd does.
AnnouncesOnce(h) ==
  \A i, j \in DOMAIN announced[h] : announced[h][i].id = announced[h][j].id => i = j

\* The latest announcement of h, if its process is still up and was successful.
LatestSucceeded(h) ==
  /\ announced[h] # << >> /\ pc[h] = "up"
  /\ LET latest == Last(announced[h]) IN
       latest.id = NodeID(h) /\ latest.returned

\* When the first announce() of a process has succeeded, the record holds what it
\* was called with: every info with all its fields, names of several words by the
\* first and types without a name as unknown ones, no info if there was none, and
\* nothing that an earlier process has left behind.
FirstIsPublished ==
  \A h \in Host :
    LatestSucceeded(h) /\ AnnouncesOnce(h) =>
      Published(h) /\ ReadAs(h, Last(announced[h]), GetInfos(h, record[h]))

\* The fields that are always set.
Required == Field \ Optional

\* A process may announce again, when a GPU came or went. The record then has as
\* many infos as the last successful call was made with, and their required
\* fields.
LatestIsPublished ==
  \A h \in Host :
    LatestSucceeded(h) =>
      /\ Published(h)
      /\ LET read == GetInfos(h, record[h])
             latest == Last(announced[h])
         IN /\ DOMAIN read = DOMAIN latest.found
            /\ \A k \in DOMAIN read : \A f \in Required :
                 read[k].resource[f] = AsRead(f, latest.found[k][f])

\* The announcements of the process with this ID in which info k had a value for f.
Setting(h, id, k, f) ==
  {i \in DOMAIN announced[h] :
    LET a == announced[h][i] IN
      a.id = id /\ k \in DOMAIN a.found /\ IsSet(f, a.found[k])}

\* What the last of them among the first n says.
LastSaid(h, id, n, k, f) ==
  LET said == Setting(h, id, k, f) \cap 1 .. n IN
    IF said = {} THEN Default[f] ELSE AsRead(f, announced[h][Max(said)].found[k][f])

\* While a process announces again, pairs are published half set. One reading of a
\* host is then cut in one place: up to some key of some info it is what was said by
\* one announcement and those before it, and from there on by those before it alone.
\* A GPU of which not even the type was said is not among it.
OfTwoAnnouncements ==
  \A h \in Host : infos[h] # << >> =>
    \E j \in DOMAIN announced[h], x \in 1 .. MaxInfos + 1, m \in DOMAIN Keys :
      LET a == announced[h][j] IN
        \A k \in DOMAIN infos[h] :
          /\ infos[h][k].id = a.id
          /\ Resource = "GPU" => infos[h][k].resource["Type"] # Absent
          /\ \A n \in DOMAIN Keys :
               infos[h][k].resource[Keys[n]]
                 = LastSaid(h, a.id, IF k < x \/ (k = x /\ n < m) THEN j ELSE j - 1,
                            k, Keys[n])

Returned == scan = "idle"

\* The infos of one host, as one discovery returns them, are those of a single
\* announcement of a single process, without gaps and leftovers, although hosts
\* are heard while processes stop, crash, restart and announce, once each.
OfOneAnnouncement ==
  \A h \in Host :
    LET unmarked == [k \in DOMAIN infos[h] |-> [infos[h][k] EXCEPT !.nodeName = <<h>>]] IN
      /\ infos[h] # << >>
      /\ AnnouncesOnce(h)
      =>
        \E i \in DOMAIN announced[h] : ReadAs(h, announced[h][i], unmarked)

\* A resource of another host keeps the name of its host, even if this host has
\* announced the same GPU or interface for the same session.
RemoteKeepsName ==
  Returned =>
    \A h \in Host \ {Here} : \A k \in DOMAIN infos[h] : infos[h][k].nodeName = <<h>>

\* If both scans hear the same process of this host, every info it announced is
\* known to be local, however the two interleave with its one announcement.
LocalIsMarked ==
  Returned /\ AnnouncesOnce(Here) =>
    \A k \in DOMAIN infos[Here] : \A j \in DOMAIN local[Here] :
      infos[Here][k].id = local[Here][j].id => infos[Here][k].nodeName = Absent

\* A discovery finds nothing of a process that had disposed of its module
\* before.
StoppedIsGone ==
  \A h \in Host : \A k \in DOMAIN infos[h] : infos[h][k].id \notin past

-------------------------------------------------------------------------------
(* What the documentation says and the code does not keep.                  *)

\* functions.h:28: announce() announces all that was found, and returns true if it
\* was successful, the second time too.
AllIsPublished ==
  \A h \in Host :
    LatestSucceeded(h) =>
      Published(h) /\ ReadAs(h, Last(announced[h]), GetInfos(h, record[h]))

\* nodeInfo.h:41: isLocal(), which compares the session with the local one, is
\* true of resources that were discovered locally.
LocalSessionIsHere ==
  Returned =>
    \A h \in Host \ {Here} : \A k \in DOMAIN infos[h] : infos[h][k].session # Local

================================================================================
