------------------------------ MODULE DnsSdProofs ------------------------------
(***************************************************************************)
(* What the browser of the dns_sd modules returns, for every network: any   *)
(* hosts, findings, sessions, and any number of processes, announcements    *)
(* and crashes. TLC checks the same in DnsSdGPU.cfg and DnsSdNet.cfg.        *)
(***************************************************************************)
EXTENDS DnsSd, TLAPS

(* Lemmas about the pairs of a service and what is read out of them.        *)

\* A new service object has no pair set.
LEMMA NoDataTyped ==
  NoData \in Data /\ NoData.NodeID = Absent /\ NoData.Hostname = Absent
<1>1. Absent \in Text
  BY DEF Absent, Text
<1>2. 0 \in 0 .. MaxInfos
  BY MaxInfosIsCount
<1>. QED
  BY <1>1, <1>2 DEF NoData, Data

\* The keys are those of the fields, each once.
LEMMA KeysAreFields ==
  /\ \A n \in DOMAIN Keys : Keys[n] \in Field
  /\ \A f \in Field : \E n \in DOMAIN Keys : Keys[n] = f
  /\ \A m, n \in DOMAIN Keys : Keys[m] = Keys[n] => m = n
  /\ DOMAIN Keys = 1 .. 8 /\ Len(Keys) = 8
<1>1. CASE Resource = "GPU"
  BY <1>1 DEF Keys, Field, Default, GPUDefault
<1>2. CASE Resource # "GPU"
  BY <1>2 DEF Keys, Field, Default, NetDefault
<1>. QED
  BY <1>1, <1>2

\* A value of an info leaves the pairs of the node, the other infos and its other
\* keys alone.
LEMMA SetValueIs ==
  ASSUME NEW d \in Data, NEW k \in Index, NEW f \in Field, NEW resource \in [Field -> Text]
  PROVE  LET set == SetValue(d, k, f, resource) IN
           /\ set \in Data
           /\ set.NodeID = d.NodeID /\ set.Hostname = d.Hostname
           /\ set.Session = d.Session /\ set.Count = d.Count
           /\ \A j \in Index : \A g \in Field :
                set.entry[j][g] = IF j = k /\ g = f /\ IsSet(f, resource)
                                  THEN resource[f] ELSE d.entry[j][g]
<1>1. CASE ~IsSet(f, resource)
  BY <1>1 DEF SetValue
<1>2. CASE IsSet(f, resource)
  <2>1. d.entry \in [Index -> [Field -> Text]] /\ resource[f] \in Text
    BY DEF Data
  <2>. DEFINE e == [d.entry EXCEPT ![k][f] = resource[f]]
  <2>2. SetValue(d, k, f, resource) = [d EXCEPT !.entry = e]
    BY <1>2, <2>1 DEF SetValue, Data
  <2>3. e \in [Index -> [Field -> Text]]
    BY <2>1
  <2>4. \A j \in Index : \A g \in Field :
          e[j][g] = IF j = k /\ g = f THEN resource[f] ELSE d.entry[j][g]
    BY <2>1
  <2>. HIDE DEF e
  <2>5. [d EXCEPT !.entry = e] \in Data
    BY <2>3 DEF Data
  <2>6. [d EXCEPT !.entry = e].entry = e
    BY DEF Data
  <2>. QED
    BY <1>2, <2>2, <2>4, <2>5, <2>6, SMTT(30) DEF Data
<1>. QED
  BY <1>1, <1>2

\* Reading names a node after the host it was heard of ...
LEMMA ReadNames ==
  ASSUME NEW h \in Host, NEW d \in Data, d.Hostname = Absent,
         NEW k \in DOMAIN GetInfos(h, d)
  PROVE  LET info == GetInfos(h, d)[k] IN
           /\ DOMAIN info = {"id", "nodeName", "session", "resource"}
           /\ info.nodeName = <<h>>
<1>1. GetInfos(h, d)[k] = GetInfo(h, d, k)
  BY DEF GetInfos
<1>2. GetValue(d.Hostname, <<h>>) = <<h>>
  BY DEF GetValue
<1>. QED
  BY <1>1, <1>2 DEF GetInfo

\* ... and keeps its ID.
LEMMA ReadIDs ==
  ASSUME NEW h \in Host, NEW d \in Data, NEW u, d.NodeID = <<u>>,
         NEW k \in DOMAIN GetInfos(h, d)
  PROVE  GetInfos(h, d)[k].id = <<u>>
<1>1. GetInfos(h, d)[k] = GetInfo(h, d, k)
  BY DEF GetInfos
<1>2. <<u>> # Absent /\ Head(<<u>>) = u
  BY DEF Absent
<1>3. GetValue(d.NodeID, <<h>>) = <<u>>
  BY <1>2 DEF GetValue
<1>. QED
  BY <1>1, <1>3 DEF GetInfo

-------------------------------------------------------------------------------
(* Types.                                                                  *)

\* A process that was started has drawn one of the IDs of its host.
LEMMA NodeIDTyped ==
  ASSUME TypeOK, NEW h \in Host, process[h] >= 1
  PROVE  NodeID(h) \in Text /\ process[h] \in DOMAIN Uuid[h]
<1>1. Uuid[h] \in Seq(Word) /\ process[h] \in 1 .. Len(Uuid[h])
  BY UuidsDiffer DEF TypeOK
<1>2. Uuid[h][process[h]] \in Word /\ process[h] \in DOMAIN Uuid[h]
  BY <1>1
<1>. QED
  BY <1>2 DEF NodeID, Text

\* What is announced is a list of infos within the bound.
LEMMA FindingsTyped ==
  ASSUME NEW h \in Host, NEW list \in Findings[h] \cup {<< >>}
  PROVE  list \in Seq([Field -> Text]) /\ Len(list) \in 0 .. MaxInfos
<1>1. << >> \in Seq([Field -> Text]) /\ Len(<< >>) = 0
  OBVIOUS
<1>2. MaxInfos \in Nat
  BY MaxInfosIsCount
<1>3. CASE list \in Findings[h]
  <2>1. list \in Seq([Field -> Text]) /\ Len(list) <= MaxInfos
    BY <1>3, FindingsArePossible, Zenon
  <2>. QED
    BY <1>2, <2>1
<1>4. CASE list = << >>
  <2>1. 0 \in 0 .. MaxInfos
    BY <1>2
  <2>. QED
    BY <1>1, <1>4, <2>1
<1>. QED
  BY <1>3, <1>4

\* The text that is not there, and where the loops of announce() begin.
LEMMA StartTyped ==
  /\ Absent \in Text /\ << >> \in Seq([Field -> Text])
  /\ 1 \in 1 .. MaxInfos + 1 /\ 1 \in DOMAIN Keys
<1>1. 1 \in 1 .. MaxInfos + 1
  BY MaxInfosIsCount
<1>2. 1 \in DOMAIN Keys
  BY KeysAreFields
<1>. QED
  BY <1>1, <1>2 DEF Absent, Text

\* Initially, all is of its type.
LEMMA InitTyped == Init => TypeOK
<1>. SUFFICES ASSUME Init PROVE TypeOK
  OBVIOUS
<1>1. /\ \A h \in Host : process[h] <= Len(Uuid[h])
      /\ \A h \in Host : count[h] <= MaxAnnounces[h]
  <2>1. \A h \in Host : 0 <= Len(Uuid[h]) /\ 0 <= MaxAnnounces[h]
    BY UuidsDiffer, AnnouncesAreBounded
  <2>. QED
    BY <2>1 DEF Init
<1>. QED
  BY <1>1, StartTyped, NoDataTyped
  DEF Init, TypeOK, Nothing, NothingHeard, DataOrNone, Outside

\* When announce() is left its locals are gone.
LEMMA LeaveTyped ==
  ASSUME TypeOK, NEW h \in Host, Leave(h), NEW at \in Outside,
         pc' = [pc EXCEPT ![h] = at]
  PROVE  /\ found' \in [Host -> Seq([Field -> Text])]
         /\ \A g \in Host : found'[g] \in Findings[g] \cup {<< >>}
         /\ asked' \in [Host -> Text]
         /\ index' \in [Host -> 1 .. MaxInfos + 1]
         /\ key' \in [Host -> DOMAIN Keys]
         /\ \A g \in Host : pc'[g] # "infos" => index'[g] = 1 /\ key'[g] = 1
         /\ \A g \in Host : pc'[g] \in Outside => found'[g] = << >> /\ asked'[g] = Absent
BY StartTyped DEF TypeOK, Leave, Outside

\* A key of the node is set: nothing else changes.
Sets(h) == SetNodeID(h) \/ SetHostname(h) \/ SetSession(h) \/ SetCount(h)

InNode == {"NodeID", "Hostname", "Session", "Count"}

LEMMA SetsStep ==
  ASSUME TypeOK, NEW h \in Host, Sets(h)
  PROVE  /\ pc[h] \in InNode /\ pc'[h] \in (InNode \ {"NodeID"}) \cup {"infos"}
         /\ \A g \in Host \ {h} : pc'[g] = pc[g] /\ data'[g] = data[g]
         /\ UNCHANGED <<process, localVars, count, record, browserVars, historyVars>>
         /\ data'[h].NodeID = IF pc[h] = "NodeID" THEN NodeID(h) ELSE data[h].NodeID
         /\ data'[h].Hostname = IF pc[h] = "Hostname" THEN Absent ELSE data[h].Hostname
         /\ data'[h].Session = IF pc[h] = "Session" THEN asked[h] ELSE data[h].Session
         /\ data'[h].Count = IF pc[h] = "Count" THEN Len(found[h]) ELSE data[h].Count
         /\ data'[h].entry = data[h].entry
         /\ pc[h] \in {"NodeID", "Hostname"} => pc'[h] # "infos" /\ pc'[h] # "Count"
         /\ pc[h] = "Session" => pc'[h] = "Count"
         /\ pc[h] = "NodeID" => pc'[h] = "Hostname"
         /\ pc'[h] = "infos" <=> pc[h] = "Count"
         /\ data' \in [Host -> Data]
         /\ pc' \in [Host -> Outside \cup InNode \cup {"infos"}]
<1>1. data[h] \in Data /\ DOMAIN pc = Host /\ DOMAIN data = Host
  BY DEF TypeOK
<1>2. CASE SetNodeID(h)
  <2>1. NodeID(h) \in Text
    <3>1. process[h] \in Nat /\ process[h] # 0
      BY <1>2 DEF SetNodeID, SetNode, TypeOK
    <3>. QED
      BY <3>1, NodeIDTyped
  <2>. QED
    BY <1>1, <1>2, <2>1 DEF SetNodeID, SetNode, InNode, Data, TypeOK, Outside
<1>3. CASE SetHostname(h)
  BY <1>1, <1>3, StartTyped DEF SetHostname, SetNode, InNode, Data, TypeOK, Outside
<1>4. CASE SetSession(h)
  BY <1>1, <1>4 DEF SetSession, SetNode, InNode, Data, TypeOK, Outside
<1>5. CASE SetCount(h)
  <2>1. Len(found[h]) \in 0 .. MaxInfos
    BY FindingsTyped DEF TypeOK
  <2>. QED
    BY <1>1, <1>5, <2>1 DEF SetCount, SetNode, InNode, Data, TypeOK, Outside
<1>. QED
  BY <1>2, <1>3, <1>4, <1>5 DEF Sets

\* A key of an info is set, or left out.
LEMMA SetKeyStep ==
  ASSUME TypeOK, NEW h \in Host, SetKey(h)
  PROVE  /\ pc[h] = "infos"
         /\ UNCHANGED <<pc, process, found, asked, count, record, browserVars, historyVars>>
         /\ index[h] \in 1 .. Len(found[h]) /\ index[h] \in Index
         /\ found[h] \in Seq([Field -> Text]) /\ found[h][index[h]] \in [Field -> Text]
         /\ Keys[key[h]] \in Field
         /\ data'[h].NodeID = data[h].NodeID /\ data'[h].Hostname = data[h].Hostname
         /\ data'[h].Session = data[h].Session /\ data'[h].Count = data[h].Count
         /\ \A j \in Index : \A f \in Field :
              data'[h].entry[j][f] =
                IF j = index[h] /\ f = Keys[key[h]] /\ IsSet(f, found[h][index[h]])
                THEN found[h][index[h]][f] ELSE data[h].entry[j][f]
         /\ \A g \in Host \ {h} :
              data'[g] = data[g] /\ index'[g] = index[g] /\ key'[g] = key[g]
         /\ \/ key[h] < Len(Keys) /\ key'[h] = key[h] + 1 /\ index'[h] = index[h]
            \/ key[h] = Len(Keys) /\ key'[h] = 1 /\ index'[h] = index[h] + 1
         /\ data' \in [Host -> Data]
         /\ index' \in [Host -> 1 .. MaxInfos + 1] /\ key' \in [Host -> DOMAIN Keys]
<1>1. found[h] \in Seq([Field -> Text]) /\ Len(found[h]) \in 0 .. MaxInfos
  BY FindingsTyped DEF TypeOK
<1>2. index[h] \in 1 .. Len(found[h]) /\ index[h] \in Index
  BY <1>1, MaxInfosIsCount DEF SetKey, TypeOK, Index
<1>3. found[h][index[h]] \in [Field -> Text]
  BY <1>1, <1>2
<1>4. key[h] \in 1 .. 8 /\ Keys[key[h]] \in Field /\ Len(Keys) = 8 /\ DOMAIN Keys = 1 .. 8
  BY KeysAreFields DEF TypeOK
<1>. DEFINE k == index[h]
            f == Keys[key[h]]
            resource == found[h][k]
            set == SetValue(data[h], k, f, resource)
<1>5. data[h] \in Data /\ k \in Index /\ f \in Field /\ resource \in [Field -> Text]
  BY <1>2, <1>3, <1>4 DEF TypeOK
<1>. HIDE DEF k, f, resource
<1>6. /\ set \in Data
      /\ set.NodeID = data[h].NodeID /\ set.Hostname = data[h].Hostname
      /\ set.Session = data[h].Session /\ set.Count = data[h].Count
      /\ \A j \in Index : \A g \in Field :
           set.entry[j][g] = IF j = k /\ g = f /\ IsSet(f, resource)
                             THEN resource[f] ELSE data[h].entry[j][g]
  BY <1>5, SetValueIs
<1>. HIDE DEF set
<1>10. data'[h] = set /\ (\A g \in Host \ {h} : data'[g] = data[g]) /\ data' \in [Host -> Data]
  <2>1. data' = [data EXCEPT ![h] = set]
    BY DEF SetKey, set, k, f, resource, TypeOK
  <2>. QED
    BY <1>6, <2>1 DEF TypeOK
<1>11. \A j \in Index : \A g \in Field :
         data'[h].entry[j][g] = IF j = k /\ g = f /\ IsSet(g, resource)
                                THEN resource[g] ELSE data[h].entry[j][g]
  BY <1>6, <1>10
<1>7. /\ \/ key[h] < 8 /\ key' = [key EXCEPT ![h] = key[h] + 1] /\ index' = index
         \/ key[h] = 8 /\ key' = [key EXCEPT ![h] = 1]
            /\ index' = [index EXCEPT ![h] = index[h] + 1]
  BY <1>4 DEF SetKey
<1>8. index[h] + 1 \in 1 .. MaxInfos + 1 /\ (key[h] < 8 => key[h] + 1 \in 1 .. 8) /\ 1 \in 1 .. 8
  BY <1>2, <1>4, MaxInfosIsCount DEF Index
<1>9. /\ \A g \in Host \ {h} : index'[g] = index[g] /\ key'[g] = key[g]
      /\ \/ key[h] < 8 /\ key'[h] = key[h] + 1 /\ index'[h] = index[h]
         \/ key[h] = 8 /\ key'[h] = 1 /\ index'[h] = index[h] + 1
      /\ index' \in [Host -> 1 .. MaxInfos + 1] /\ key' \in [Host -> DOMAIN Keys]
  BY <1>4, <1>7, <1>8, ZenonT(30) DEF TypeOK
<1>. QED
  BY <1>1, <1>2, <1>3, <1>4, <1>6, <1>9, <1>10, <1>11 DEF SetKey, k, f, resource

\* Every step keeps the types.
LEMMA TypeStep == TypeOK /\ [Next]_vars => TypeOK'
<1>. SUFFICES ASSUME TypeOK, [Next]_vars PROVE TypeOK'
  OBVIOUS
<1>1. ASSUME NEW h \in Host, Process(h) PROVE TypeOK'
  <2>0. /\ count[h] \in Nat /\ MaxAnnounces[h] \in Nat
        /\ process[h] \in Nat /\ Len(Uuid[h]) \in Nat
    BY UuidsDiffer, AnnouncesAreBounded DEF TypeOK
  <2>1. CASE Use(h)
    <3>1. process[h] + 1 \in Nat /\ process[h] + 1 <= Len(Uuid[h])
      BY <2>0, <2>1 DEF Use
    <3>. QED
      BY <2>1, <3>1, NoDataTyped DEF Use, TypeOK, browserVars, historyVars, localVars, Outside
  <2>2. CASE AnnounceNothing(h)
    <3>1. count[h] + 1 \in Nat /\ count[h] + 1 <= MaxAnnounces[h]
      BY <2>0, <2>2 DEF AnnounceNothing
    <3>. QED
      BY <2>2, <3>1 DEF AnnounceNothing, TypeOK, browserVars, historyVars, localVars
  <2>3. CASE Sets(h)
    <3>1. /\ UNCHANGED <<process, found, asked, index, key, count, record, scan, heard>>
          /\ pc[h] \in InNode /\ pc'[h] \notin Outside
          /\ \A g \in Host \ {h} : pc'[g] = pc[g]
      BY <2>3, SetsStep DEF localVars, browserVars, InNode, Outside
    <3>2. /\ \A g \in Host : pc'[g] # "infos" => pc[g] # "infos"
          /\ \A g \in Host : pc'[g] \in Outside => pc[g] \in Outside
          /\ \A g \in Host : pc'[g] # "down" => pc[g] # "down"
      BY <3>1 DEF InNode, Outside
    <3>3. /\ \A g \in Host : pc'[g] # "infos" => index'[g] = 1 /\ key'[g] = 1
          /\ \A g \in Host : pc'[g] \in Outside => found'[g] = << >> /\ asked'[g] = Absent
      BY <3>1, <3>2 DEF TypeOK
    <3>4. data' \in [Host -> Data] /\ pc' \in [Host -> Outside \cup InNode \cup {"infos"}]
      BY <2>3, SetsStep
    <3>. QED
      BY <3>1, <3>2, <3>3, <3>4 DEF TypeOK, InNode
  <2>4. ASSUME NEW session \in Sessions, NEW list \in Findings[h],
               Announce(h, session, list)
        PROVE  TypeOK'
    <3>1. list \in Seq([Field -> Text]) /\ session \in Text
      BY FindingsTyped, SessionsAreText
    <3>2. count[h] + 1 \in Nat /\ count[h] + 1 <= MaxAnnounces[h]
      BY <2>0, <2>4 DEF Announce
    <3>. QED
      BY <2>4, <3>1, <3>2 DEF Announce, TypeOK, browserVars, Outside
  <2>5. CASE SetKey(h)
    <3>1. /\ UNCHANGED <<pc, process, found, asked, count, record, scan, heard>>
          /\ pc[h] = "infos"
      BY <2>5, SetKeyStep DEF browserVars
    <3>2. \A g \in Host : pc'[g] # "infos" => index'[g] = 1 /\ key'[g] = 1
      BY <2>5, <3>1, SetKeyStep, SMTT(30) DEF TypeOK
    <3>. QED
      BY <2>5, <3>1, <3>2, SetKeyStep DEF TypeOK
  <2>6. CASE AnnounceSucceeds(h) \/ AnnounceFails(h)
    <3>1. record' \in [Host -> DataOrNone]
      BY <2>6 DEF TypeOK, DataOrNone, AnnounceSucceeds, AnnounceFails
    <3>2. /\ pc[h] = "infos" /\ pc' = [pc EXCEPT ![h] = "up"] /\ Leave(h)
          /\ UNCHANGED <<process, data, count, scan, heard>>
      BY <2>6 DEF AnnounceSucceeds, AnnounceFails, EndAnnounce, browserVars
    <3>3. /\ found' \in [Host -> Seq([Field -> Text])]
          /\ \A g \in Host : found'[g] \in Findings[g] \cup {<< >>}
          /\ asked' \in [Host -> Text]
          /\ index' \in [Host -> 1 .. MaxInfos + 1]
          /\ key' \in [Host -> DOMAIN Keys]
          /\ \A g \in Host : pc'[g] # "infos" => index'[g] = 1 /\ key'[g] = 1
          /\ \A g \in Host : pc'[g] \in Outside => found'[g] = << >> /\ asked'[g] = Absent
      BY <3>2, LeaveTyped DEF Outside
    <3>. QED
      BY <3>1, <3>2, <3>3 DEF TypeOK, Outside
  <2>7. CASE Dispose(h) \/ Crash(h)
    <3>1. record' \in [Host -> DataOrNone]
      BY <2>7 DEF TypeOK, DataOrNone, Dispose, Crash, Withdrawn
    <3>2. /\ pc' = [pc EXCEPT ![h] = "down"] /\ Leave(h)
          /\ data' = [data EXCEPT ![h] = NoData]
          /\ UNCHANGED <<process, count, scan, heard>>
      BY <2>7 DEF Dispose, Crash, Down, browserVars
    <3>3. /\ found' \in [Host -> Seq([Field -> Text])]
          /\ \A g \in Host : found'[g] \in Findings[g] \cup {<< >>}
          /\ asked' \in [Host -> Text]
          /\ index' \in [Host -> 1 .. MaxInfos + 1]
          /\ key' \in [Host -> DOMAIN Keys]
          /\ \A g \in Host : pc'[g] # "infos" => index'[g] = 1 /\ key'[g] = 1
          /\ \A g \in Host : pc'[g] \in Outside => found'[g] = << >> /\ asked'[g] = Absent
      BY <3>2, LeaveTyped DEF Outside
    <3>. QED
      BY <3>1, <3>2, <3>3, NoDataTyped DEF TypeOK, Outside
  <2>. QED
    BY <1>1, <2>1, <2>2, <2>3, <2>4, <2>5, <2>6, <2>7 DEF Process, Sets
<1>2. ASSUME NEW h \in Host, Service(h) PROVE TypeOK'
  BY <1>2 DEF Service, Refresh, Expire, TypeOK, DataOrNone, daemonVars, localVars, browserVars
<1>3. CASE Browser
  <2>1. UNCHANGED <<daemonVars, record>>
    BY <1>3 DEF Browser, Discover, Hear, EndScan, EndLocalScan
  <2>2. scan' \in {"idle", "all", "local"} /\ heard' \in [Host -> DataOrNone]
    BY <1>3, ZenonT(30)
       DEF Browser, Discover, Hear, EndScan, EndLocalScan, TypeOK, DataOrNone, NothingHeard
  <2>. QED
    BY <2>1, <2>2 DEF TypeOK, daemonVars, localVars
<1>4. CASE UNCHANGED vars
  BY <1>4 DEF vars, daemonVars, localVars, browserVars, TypeOK
<1>. QED
  BY <1>1, <1>2, <1>3, <1>4 DEF Next


\* The variables of all processes, the records and the scan have their types in
\* every state that can be reached.
THEOREM TypesAreRight == Spec => []TypeOK
<1>. QED
  BY InitTyped, TypeStep, PTL DEF Spec
-------------------------------------------------------------------------------
(* Names.                                                                  *)

\* announce() sets no host name.
Unnamed ==
  \A h \in Host :
    /\ data[h].Hostname = Absent
    /\ record[h] # NoRecord => record[h].Hostname = Absent
    /\ heard[h] # NoRecord => heard[h].Hostname = Absent

\* During the local scan nothing is heard of other hosts.
LocalHearsHere ==
  scan = "local" => \A h \in Host \ {Here} : heard[h] = NoRecord

\* The infos are records, and the first scan already names those of other hosts.
Named ==
  scan # "all" =>
    \A h \in Host : \A k \in DOMAIN infos[h] :
      /\ DOMAIN infos[h][k] = {"id", "nodeName", "session", "resource"}
      /\ h # Here => infos[h][k].nodeName = <<h>>

Names == Unnamed /\ LocalHearsHere /\ Named

\* What a scan reads is named after the host it was heard of.
LEMMA ReadShapes ==
  ASSUME TypeOK, Unnamed, NEW h \in Host, NEW k \in DOMAIN Read(h)
  PROVE  /\ DOMAIN Read(h)[k] = {"id", "nodeName", "session", "resource"}
         /\ Read(h)[k].nodeName = <<h>>
         /\ heard[h] # NoRecord
<1>1. heard[h] # NoRecord /\ Read(h) = GetInfos(h, heard[h])
  BY DEF Read
<1>2. heard[h] \in Data /\ heard[h].Hostname = Absent
  BY <1>1 DEF TypeOK, DataOrNone, Unnamed
<1>. QED
  BY <1>1, <1>2, ReadNames

\* Initially, nothing has a name.
LEMMA InitNames == Init => Names
BY NoDataTyped
DEF Init, Names, Unnamed, LocalHearsHere, Named, Nothing, NothingHeard

\* No step puts a host name into pairs.
LEMMA UnnamedStep ==
  ASSUME TypeOK, Unnamed, [Next]_vars
  PROVE  Unnamed'
<1>. USE DEF Unnamed
<1>1. ASSUME NEW h \in Host, Process(h) PROVE Unnamed'
  <2>1. CASE Use(h)
    BY <2>1, NoDataTyped DEF Use, TypeOK, browserVars
  <2>2. CASE AnnounceNothing(h)
    BY <2>2 DEF AnnounceNothing, browserVars
  <2>3. CASE Sets(h)
    <3>1. /\ data'[h].Hostname \in {Absent, data[h].Hostname}
          /\ \A g \in Host \ {h} : data'[g] = data[g]
          /\ record' = record /\ heard' = heard
      BY <2>3, SetsStep DEF browserVars
    <3>. QED
      BY <3>1
  <2>4. CASE SetKey(h)
    <3>1. data'[h].Hostname = data[h].Hostname
      BY <2>4, SetKeyStep
    <3>2. /\ UNCHANGED <<record, heard>> /\ \A g \in Host \ {h} : data'[g] = data[g]
      BY <2>4, SetKeyStep DEF browserVars
    <3>. QED
      BY <3>1, <3>2
  <2>8. ASSUME NEW session \in Sessions, NEW list \in Findings[h],
               Announce(h, session, list)
        PROVE  Unnamed'
    BY <2>8 DEF Announce, browserVars
  <2>5. CASE AnnounceSucceeds(h) \/ AnnounceFails(h)
    BY <2>5 DEF AnnounceSucceeds, AnnounceFails, EndAnnounce, TypeOK, browserVars
  <2>6. CASE Dispose(h)
    BY <2>6, NoDataTyped DEF Dispose, Down, Withdrawn, TypeOK, browserVars
  <2>7. CASE Crash(h)
    BY <2>7, NoDataTyped DEF Crash, Down, TypeOK, browserVars
  <2>. QED
    BY <1>1, <2>1, <2>2, <2>3, <2>4, <2>5, <2>6, <2>7, <2>8 DEF Process, Sets
<1>2. ASSUME NEW h \in Host, Service(h) PROVE Unnamed'
  BY <1>2 DEF Service, Refresh, Expire, TypeOK, daemonVars, browserVars
<1>3. CASE Browser
  <2>1. UNCHANGED <<data, record>>
    BY <1>3 DEF Browser, Discover, Hear, EndScan, EndLocalScan, daemonVars
  <2>2. \A h \in Host : heard'[h] \in {NoRecord, heard[h], record[h]}
    BY <1>3 DEF Browser, Discover, Hear, EndScan, EndLocalScan, TypeOK, NothingHeard
  <2>. QED
    BY <2>1, <2>2
<1>4. CASE UNCHANGED vars
  BY <1>4 DEF vars, daemonVars, localVars, browserVars
<1>. QED
  BY <1>1, <1>2, <1>3, <1>4 DEF Next

\* Only the browser changes what is heard and read.
LEMMA OthersLeaveBrowser ==
  ASSUME NEW h \in Host, Process(h) \/ Service(h)
  PROVE  UNCHANGED browserVars
BY DEF Process, Service, Use, AnnounceNothing, SetNode, SetNodeID, SetHostname, SetSession,
    SetCount, SetKey, Announce, AnnounceSucceeds, AnnounceFails, EndAnnounce, Dispose,
    Crash, Refresh, Expire

\* Marking keeps the IDs, and takes the name from no info of another host.
LEMMA MarkNames ==
  ASSUME TypeOK, Names, scan = "local", NEW h \in Host,
         NEW k \in DOMAIN Mark(ReadAll)[h]
  PROVE  /\ DOMAIN Mark(ReadAll)[h][k] = {"id", "nodeName", "session", "resource"}
         /\ Mark(ReadAll)[h][k].id = infos[h][k].id
         /\ h # Here => Mark(ReadAll)[h][k].nodeName = <<h>>
<1>1. /\ k \in DOMAIN infos[h]
      /\ Mark(ReadAll)[h][k] = IF SeenLocally(infos[h][k], ReadAll)
                               THEN [infos[h][k] EXCEPT !.nodeName = Absent]
                               ELSE infos[h][k]
  BY DEF Mark
<1>2. /\ DOMAIN infos[h][k] = {"id", "nodeName", "session", "resource"}
      /\ h # Here => infos[h][k].nodeName = <<h>>
  BY <1>1 DEF Names, Named
<1>3. ASSUME h # Here, SeenLocally(infos[h][k], ReadAll) PROVE FALSE
  <2>1. PICK g \in Host : \E j \in DOMAIN Read(g) : SameInfo(Read(g)[j], infos[h][k])
    BY <1>3 DEF SeenLocally, ReadAll
  <2>2. PICK j \in DOMAIN Read(g) : SameInfo(Read(g)[j], infos[h][k])
    BY <2>1
  <2>3. Read(g)[j].nodeName = <<g>> /\ heard[g] # NoRecord
    BY ReadShapes DEF Names
  <2>4. g = Here
    BY <2>3 DEF Names, LocalHearsHere
  <2>. QED
    BY <1>2, <1>3, <2>2, <2>3, <2>4 DEF SameInfo
<1>. QED
  BY <1>1, <1>2, <1>3

\* Every step keeps the names.
LEMMA NamesStep ==
  ASSUME TypeOK, Names, [Next]_vars
  PROVE  Names'
<1>1. Unnamed'
  BY UnnamedStep DEF Names
<1>2. LocalHearsHere' /\ Named'
  <2>. USE DEF Names, LocalHearsHere, Named
  <2>1. CASE UNCHANGED browserVars
    BY <2>1 DEF browserVars
  <2>2. CASE Discover
    BY <2>2 DEF Discover
  <2>3. ASSUME NEW h \in Host, Hear(h) PROVE LocalHearsHere' /\ Named'
    BY <2>3 DEF Hear, Audible, TypeOK
  <2>4. CASE EndScan
    <3>1. \A h \in Host : infos'[h] = Read(h)
      BY <2>4 DEF EndScan, ReadAll
    <3>2. Named'
      BY <3>1, ReadShapes
    <3>. QED
      BY <2>4, <3>2 DEF EndScan, NothingHeard
  <2>5. CASE EndLocalScan
    <3>1. infos' = Mark(ReadAll) /\ scan = "local"
      BY <2>5 DEF EndLocalScan
    <3>2. Named'
      BY <3>1, MarkNames
    <3>. QED
      BY <2>5, <3>2 DEF EndLocalScan
  <2>. QED
    BY <2>1, <2>2, <2>3, <2>4, <2>5, OthersLeaveBrowser DEF Next, Browser, vars
<1>. QED
  BY <1>1, <1>2 DEF Names

\* The strengthening of RemoteKeepsName that every step preserves.
THEOREM NamesInvariant == Spec => [](TypeOK /\ Names)
<1>1. Init => TypeOK /\ Names
  BY InitTyped, InitNames
<1>2. TypeOK /\ Names /\ [Next]_vars => (TypeOK /\ Names)'
  BY TypeStep, NamesStep
<1>. QED
  BY <1>1, <1>2, PTL DEF Spec

\* What another host announced keeps its name through both scans, whatever this
\* host announces, and whatever happens on the network between and during them.
THEOREM RemotesKeepTheirNames == Spec => []RemoteKeepsName
<1>1. TypeOK /\ Names => RemoteKeepsName
  BY DEF Names, Named, RemoteKeepsName, Returned
<1>. QED
  BY <1>1, NamesInvariant, PTL
-------------------------------------------------------------------------------
(* Node IDs.                                                               *)

\* The IDs of the processes of h so far.
Drawn(h) == {<<Uuid[h][i]>> : i \in 1 .. process[h]}

\* What a process has set, once it has set anything.
SetByProcess ==
  \A h \in Host :
    /\ data[h].NodeID # Absent => data[h].NodeID = NodeID(h)
    /\ pc[h] \notin Outside \cup {"NodeID"} => data[h].NodeID = NodeID(h)
    /\ record[h] # NoRecord /\ pc[h] # "down" /\ record[h].NodeID = NodeID(h)
         => data[h].NodeID = NodeID(h)

\* Records are of processes of their host that have not stopped.
RecordsAreOfProcesses ==
  \A h \in Host :
    record[h] # NoRecord => record[h].NodeID \in Drawn(h) \ stopped

StoppedWereProcesses ==
  /\ stopped \subseteq UNION {Drawn(h) : h \in Host}
  /\ \A h \in Host : pc[h] # "down" => NodeID(h) \notin stopped

\* A process that stopped before the discovery is neither heard nor read.
PastIsGone ==
  /\ past \subseteq stopped
  /\ \A h \in Host :
       heard[h] # NoRecord => heard[h].NodeID \in Drawn(h) \ past
  /\ StoppedIsGone

IDs == SetByProcess /\ RecordsAreOfProcesses /\ StoppedWereProcesses /\ PastIsGone

\* An ID is drawn by one process of one host.
LEMMA DrawnOnce ==
  ASSUME NEW g \in Host, NEW h \in Host,
         NEW i \in 1 .. Len(Uuid[g]), NEW j \in 1 .. Len(Uuid[h]),
         <<Uuid[g][i]>> = <<Uuid[h][j]>>
  PROVE  g = h /\ i = j
<1>1. i \in DOMAIN Uuid[g] /\ j \in DOMAIN Uuid[h]
  BY UuidsDiffer
<1>2. Uuid[g][i] = Uuid[h][j]
  OBVIOUS
<1>. QED
  BY <1>1, <1>2, UuidsDiffer

\* The ID of the current process is drawn, and by no process of another host.
LEMMA CurrentIsDrawn ==
  ASSUME TypeOK, NEW h \in Host, pc[h] # "down"
  PROVE  /\ NodeID(h) \in Drawn(h)
         /\ \A g \in Host : NodeID(h) \in Drawn(g) => g = h
<1>1. process[h] \in 1 .. Len(Uuid[h]) /\ process[h] \in 1 .. process[h]
  BY UuidsDiffer DEF TypeOK
<1>2. ASSUME NEW g \in Host, NodeID(h) \in Drawn(g) PROVE g = h
  <2>1. PICK i \in 1 .. process[g] : NodeID(h) = <<Uuid[g][i]>>
    BY <1>2 DEF Drawn
  <2>2. i \in 1 .. Len(Uuid[g])
    BY UuidsDiffer DEF TypeOK
  <2>. QED
    BY <1>1, <2>1, <2>2, DrawnOnce DEF NodeID
<1>3. NodeID(h) \in Drawn(h)
  BY <1>1 DEF Drawn, NodeID
<1>. QED
  BY <1>2, <1>3

\* The next process of a host draws an ID that was never drawn before.
LEMMA NextIsNew ==
  ASSUME TypeOK, NEW h \in Host, Use(h)
  PROVE  /\ \A g \in Host : NodeID(h)' \notin Drawn(g)
         /\ \A g \in Host : Drawn(g) \subseteq Drawn(g)'
         /\ \A g \in Host \ {h} : NodeID(g)' = NodeID(g)
<1>a. /\ \A g \in Host : process[g] \in Nat /\ process[g] <= Len(Uuid[g])
      /\ \A g \in Host : Len(Uuid[g]) \in Nat
  BY UuidsDiffer DEF TypeOK
<1>b. /\ process[h] < Len(Uuid[h]) /\ process'[h] = process[h] + 1
       /\ \A g \in Host \ {h} : process'[g] = process[g]
  BY DEF TypeOK, Use
<1>1. /\ process[h] + 1 \in 1 .. Len(Uuid[h]) /\ process'[h] = process[h] + 1
      /\ \A g \in Host \ {h} : process'[g] = process[g]
      /\ \A g \in Host : process[g] \in Nat /\ process'[g] \in Nat
                         /\ process[g] <= Len(Uuid[g]) /\ process[g] <= process'[g]
      /\ \A g \in Host : Len(Uuid[g]) \in Nat
  BY <1>a, <1>b
<1>2. ASSUME NEW g \in Host, NodeID(h)' \in Drawn(g) PROVE FALSE
  <2>1. PICK i \in 1 .. process[g] : <<Uuid[h][process[h] + 1]>> = <<Uuid[g][i]>>
    BY <1>1, <1>2 DEF Drawn, NodeID
  <2>2. i \in 1 .. Len(Uuid[g])
    BY <1>1
  <2>3. g = h /\ i = process[h] + 1
    BY <1>1, <2>1, <2>2, DrawnOnce
  <2>. QED
    BY <1>1, <2>3
<1>3. \A g \in Host : Drawn(g) \subseteq Drawn(g)'
  <2>1. \A g \in Host : 1 .. process[g] \subseteq 1 .. process'[g]
    BY <1>1
  <2>. QED
    BY <2>1 DEF Drawn
<1>. QED
  BY <1>1, <1>2, <1>3 DEF NodeID

\* Initially, nothing has an ID.
LEMMA InitIDs == Init => IDs
BY NoDataTyped
DEF Init, IDs, SetByProcess, RecordsAreOfProcesses, StoppedWereProcesses, PastIsGone,
    StoppedIsGone, Nothing, NothingHeard, Outside
\* IDs change only with the start of a process.
LEMMA SameProcesses ==
  ASSUME UNCHANGED process
  PROVE  \A h \in Host : Drawn(h)' = Drawn(h) /\ NodeID(h)' = NodeID(h)
BY DEF Drawn, NodeID

ProcessIDs == SetByProcess /\ RecordsAreOfProcesses /\ StoppedWereProcesses

\* The steps of a process: what it sets and publishes has its ID.
LEMMA ProcessStep ==
  ASSUME TypeOK, ProcessIDs, NEW h \in Host, Process(h)
  PROVE  ProcessIDs'
<1>. USE DEF ProcessIDs, SetByProcess, RecordsAreOfProcesses, StoppedWereProcesses, Outside
<1>1. CASE Use(h)
  <2>1. UNCHANGED <<record, stopped>> /\ \A g \in Host \ {h} : pc'[g] = pc[g]
    BY <1>1 DEF Use, TypeOK, historyVars
  <2>2. data'[h].NodeID = Absent /\ \A g \in Host \ {h} : data'[g] = data[g]
    BY <1>1, NoDataTyped DEF Use, TypeOK
  <2>3. NodeID(h)' \notin stopped /\ (record[h] # NoRecord => record[h].NodeID # NodeID(h)')
    BY <1>1, NextIsNew
  <2>4. SetByProcess'
    <3>1. pc'[h] = "up"
      BY <1>1 DEF Use, TypeOK
    <3>. QED
      BY <1>1, <2>1, <2>2, <2>3, <3>1, NextIsNew
  <2>5. RecordsAreOfProcesses'
    BY <1>1, <2>1, NextIsNew
  <2>6. StoppedWereProcesses'
    <3>1. stopped' \subseteq UNION {Drawn(g)' : g \in Host}
      BY <1>1, <2>1, NextIsNew
    <3>. QED
      BY <1>1, <2>1, <2>3, <3>1, NextIsNew
  <2>. QED
    BY <2>4, <2>5, <2>6
<1>2. CASE AnnounceNothing(h)
  BY <1>2, SameProcesses DEF AnnounceNothing, historyVars
<1>3. CASE SetKey(h)
  <2>1. /\ data'[h].NodeID = data[h].NodeID /\ \A g \in Host \ {h} : data'[g] = data[g]
        /\ UNCHANGED <<pc, process, record, stopped>>
    BY <1>3, SetKeyStep DEF historyVars
  <2>. QED
    BY <2>1, SameProcesses
<1>4. CASE Sets(h)
  <2>1. /\ UNCHANGED <<process, record, stopped>>
        /\ \A g \in Host \ {h} : data'[g] = data[g] /\ pc'[g] = pc[g]
        /\ data'[h].NodeID = IF pc[h] = "NodeID" THEN NodeID(h) ELSE data[h].NodeID
        /\ pc[h] \in InNode
    BY <1>4, SetsStep DEF historyVars
  <2>2. data'[h].NodeID = NodeID(h) /\ pc[h] # "down"
    BY <2>1 DEF InNode, Outside
  <2>. QED
    BY <2>1, <2>2, SameProcesses
<1>8. ASSUME NEW session \in Sessions, NEW list \in Findings[h],
             Announce(h, session, list)
      PROVE  ProcessIDs'
  <2>1. /\ UNCHANGED <<process, data, record, stopped>> /\ pc[h] = "up" /\ pc'[h] = "NodeID"
        /\ \A g \in Host \ {h} : pc'[g] = pc[g]
    BY <1>8 DEF Announce, TypeOK
  <2>. QED
    BY <2>1, SameProcesses
<1>5. CASE AnnounceSucceeds(h) \/ AnnounceFails(h)
  <2>1. EndAnnounce(h)
    BY <1>5 DEF AnnounceSucceeds, AnnounceFails
  <2>2. /\ UNCHANGED <<process, data, stopped>> /\ pc[h] = "infos" /\ pc'[h] = "up"
        /\ \A g \in Host \ {h} : pc'[g] = pc[g]
    BY <2>1 DEF EndAnnounce, TypeOK
  <2>3. \A g \in Host : record'[g] = record[g] \/ (g = h /\ record'[g] = data[g])
    BY <1>5 DEF AnnounceSucceeds, AnnounceFails, TypeOK
  <2>4. data[h].NodeID \in Drawn(h) \ stopped
    BY <2>2, CurrentIsDrawn
  <2>. QED
    BY <2>2, <2>3, <2>4, SameProcesses
<1>6. CASE Dispose(h)
  <2>1. /\ process' = process /\ stopped' = stopped \cup {NodeID(h)}
        /\ pc[h] # "down" /\ pc'[h] = "down" /\ record'[h] = NoRecord
        /\ data'[h].NodeID = Absent
        /\ \A g \in Host \ {h} :
             pc'[g] = pc[g] /\ data'[g] = data[g] /\ record'[g] = record[g]
    BY <1>6, NoDataTyped DEF Dispose, Down, Withdrawn, TypeOK
  <2>2. \A g \in Host \ {h} : NodeID(h) \notin Drawn(g)
    BY <2>1, CurrentIsDrawn
  <2>3. \A g \in Host \ {h} : pc[g] # "down" => NodeID(g) # NodeID(h)
    BY <2>2, CurrentIsDrawn
  <2>4. SetByProcess'
    BY <2>1, SameProcesses
  <2>5. RecordsAreOfProcesses'
    BY <2>1, <2>2, SameProcesses
  <2>6. StoppedWereProcesses'
    <3>1. stopped' \subseteq UNION {Drawn(g) : g \in Host}
      BY <2>1, CurrentIsDrawn
    <3>. QED
      BY <2>1, <2>3, <3>1, SameProcesses
  <2>. QED
    BY <2>4, <2>5, <2>6
<1>7. CASE Crash(h)
  <2>1. /\ UNCHANGED <<process, stopped, record>>
        /\ pc'[h] = "down" /\ data'[h].NodeID = Absent
        /\ \A g \in Host \ {h} : pc'[g] = pc[g] /\ data'[g] = data[g]
    BY <1>7, NoDataTyped DEF Crash, Down, TypeOK, historyVars
  <2>. QED
    BY <2>1, SameProcesses
<1>. QED
  BY <1>1, <1>2, <1>3, <1>4, <1>5, <1>6, <1>7, <1>8 DEF Process, Sets

\* The steps of the service: it publishes only for processes that run.
LEMMA ServiceStep ==
  ASSUME TypeOK, ProcessIDs, NEW h \in Host, Service(h)
  PROVE  ProcessIDs'
<1>. USE DEF ProcessIDs, SetByProcess, RecordsAreOfProcesses, StoppedWereProcesses
<1>1. UNCHANGED <<pc, process, data, stopped>>
  BY DEF Service, Refresh, Expire, daemonVars, historyVars
<1>2. \A g \in Host :
        \/ record'[g] = record[g]
        \/ record'[g] = NoRecord
        \/ g = h /\ record'[g] = data[g] /\ ByCurrentProcess(g)
  BY DEF Service, Refresh, Expire, TypeOK
<1>3. ByCurrentProcess(h) => data[h].NodeID \in Drawn(h) \ stopped
  BY CurrentIsDrawn DEF ByCurrentProcess, Published
<1>. QED
  BY <1>1, <1>2, <1>3, SameProcesses DEF ByCurrentProcess, Published

\* No step lets a process of the past be heard or read.
LEMMA PastStep ==
  ASSUME TypeOK, Names, IDs, [Next]_vars
  PROVE  PastIsGone'
<1>. USE DEF IDs, RecordsAreOfProcesses, PastIsGone, StoppedIsGone
<1>1. ASSUME NEW h \in Host, Process(h) \/ Service(h)
      PROVE  PastIsGone'
  <2>1. UNCHANGED <<heard, infos, past>>
    BY <1>1, OthersLeaveBrowser DEF browserVars
  <2>2. stopped \subseteq stopped'
    BY <1>1
    DEF Process, Service, Use, AnnounceNothing, SetNode, SetNodeID, SetHostname, SetSession,
        SetCount, SetKey, Announce, AnnounceSucceeds, AnnounceFails, EndAnnounce, Dispose,
        Crash, Refresh, Expire, historyVars
  <2>3. \A g \in Host : Drawn(g) \subseteq Drawn(g)'
    <3>1. CASE UNCHANGED process
      BY <3>1, SameProcesses
    <3>2. CASE Use(h)
      BY <3>2, NextIsNew
    <3>. QED
      BY <1>1, <3>1, <3>2
      DEF Process, Service, AnnounceNothing, SetNode, SetNodeID, SetHostname, SetSession,
          SetCount, SetKey, Announce, AnnounceSucceeds, AnnounceFails, EndAnnounce, Dispose,
          Crash, Refresh, Expire, daemonVars
  <2>. QED
    BY <2>1, <2>2, <2>3
<1>2. CASE Discover
  BY <1>2 DEF Discover, NothingHeard, Nothing, historyVars
<1>3. ASSUME NEW h \in Host, Hear(h) PROVE PastIsGone'
  <2>1. /\ UNCHANGED <<process, past, stopped, infos>>
        /\ heard'[h] = record[h] /\ \A g \in Host \ {h} : heard'[g] = heard[g]
    BY <1>3 DEF Hear, TypeOK, daemonVars, historyVars
  <2>. QED
    BY <2>1, SameProcesses
<1>4. CASE EndScan
  <2>1. /\ UNCHANGED <<past, stopped>> /\ heard' = NothingHeard
        /\ \A h \in Host : infos'[h] = Read(h)
    BY <1>4 DEF EndScan, ReadAll, historyVars
  <2>2. ASSUME NEW h \in Host, NEW k \in DOMAIN Read(h)
        PROVE  Read(h)[k].id \notin past
    <3>1. heard[h] # NoRecord /\ Read(h) = GetInfos(h, heard[h])
      BY <2>2 DEF Read
    <3>2. heard[h] \in Data /\ heard[h].NodeID \in Drawn(h) \ past
      BY <3>1 DEF TypeOK, DataOrNone
    <3>3. PICK u : heard[h].NodeID = <<u>>
      BY <3>2 DEF Drawn
    <3>. QED
      BY <2>2, <3>1, <3>2, <3>3, ReadIDs
  <2>. QED
    BY <2>1, <2>2 DEF NothingHeard
<1>5. CASE EndLocalScan
  <2>1. /\ UNCHANGED <<past, stopped>> /\ heard' = NothingHeard
        /\ infos' = Mark(ReadAll) /\ scan = "local"
    BY <1>5 DEF EndLocalScan, historyVars
  <2>2. ASSUME NEW h \in Host, NEW k \in DOMAIN Mark(ReadAll)[h]
        PROVE  Mark(ReadAll)[h][k].id \notin past
    BY <2>1, <2>2, MarkNames DEF Mark
  <2>. QED
    BY <2>1, <2>2 DEF NothingHeard
<1>6. CASE UNCHANGED vars
  BY <1>6, SameProcesses DEF vars, daemonVars, localVars, browserVars, historyVars
<1>. QED
  BY <1>1, <1>2, <1>3, <1>4, <1>5, <1>6 DEF Next, Browser

\* Every step keeps what is known of IDs.
LEMMA IDsStep ==
  ASSUME TypeOK, Names, IDs, [Next]_vars
  PROVE  IDs'
<1>1. CASE UNCHANGED <<pc, process, data, record, stopped>>
  <2>1. ProcessIDs'
    BY <1>1, SameProcesses
    DEF IDs, ProcessIDs, SetByProcess, RecordsAreOfProcesses, StoppedWereProcesses
  <2>. QED
    BY <2>1, PastStep DEF IDs, ProcessIDs
<1>2. ASSUME NEW h \in Host, Process(h) \/ Service(h) PROVE IDs'
  BY <1>2, ProcessStep, ServiceStep, PastStep DEF IDs, ProcessIDs
<1>3. Browser \/ UNCHANGED vars => UNCHANGED <<pc, process, data, record, stopped>>
  BY DEF Browser, Discover, Hear, EndScan, EndLocalScan, vars, daemonVars, historyVars
<1>. QED
  BY <1>1, <1>2, <1>3 DEF Next

\* What is known of IDs holds at any time.
THEOREM IDsInvariant == Spec => [](TypeOK /\ Names /\ IDs)
<1>1. Init => IDs
  BY InitIDs
<1>2. TypeOK /\ Names /\ IDs /\ [Next]_vars => IDs'
  BY IDsStep
<1>. QED
  BY <1>1, <1>2, NamesInvariant, PTL DEF Spec

\* A process that disposed of its dns_sd module is not found by any discovery that
\* begins afterwards, although records outlive the processes that crash, a next
\* process may have announced under the same name meanwhile, and records are heard
\* and read at other moments than they are published.
THEOREM StoppedAreGone == Spec => []StoppedIsGone
<1>1. IDs => StoppedIsGone
  BY DEF IDs, PastIsGone
<1>. QED
  BY <1>1, IDsInvariant, PTL


-------------------------------------------------------------------------------
(* What a discovery returns, compared with what was announced: the properties   *)
(* of DnsSd that speak of the history of announcements.                         *)

(* The history: announcements are added at the end, and once one is there     *)
(* only its returned changes.                                              *)

Announcement == [id : Text, session : Text, found : Seq([Field -> Text]), returned : BOOLEAN]

Latest(h) == announced[h][Len(announced[h])]

\* The process of h has announced.
Current(h) == announced[h] # << >> /\ Latest(h).id = NodeID(h)

\* Announcements are of processes of their host, and those of the current one are
\* the latest; while it sets its pairs it has not returned from this one.
History(h) ==
  /\ \A i \in DOMAIN announced[h] :
       announced[h][i].id \in Drawn(h) /\ announced[h][i].found \in Findings[h]
  /\ pc[h] # "down" =>
       \A i \in DOMAIN announced[h] : announced[h][i].id = NodeID(h) => Current(h)
  /\ pc[h] \notin Outside =>
       /\ Current(h)
       /\ ~Latest(h).returned
       /\ found[h] = Latest(h).found /\ asked[h] = Latest(h).session
       /\ index[h] \in 1 .. Len(found[h]) + 1
       /\ key[h] # 1 => index[h] <= Len(found[h])

HistoryOK ==
  /\ announced \in [Host -> Seq(Announcement)]
  /\ \A h \in Host : History(h)

\* What a host keeps.
Same(h) ==
  /\ pc'[h] = pc[h] /\ process'[h] = process[h]
  /\ found'[h] = found[h] /\ asked'[h] = asked[h]
  /\ index'[h] = index[h] /\ key'[h] = key[h]
  /\ data'[h] = data[h] /\ record'[h] = record[h]
  /\ announced'[h] = announced[h]

\* A step on one host leaves the variables of the others as they are.
LEMMA OtherHosts ==
  ASSUME TypeOK, HistoryOK, NEW g \in Host, Process(g) \/ Service(g), NEW h \in Host \ {g}
  PROVE  Same(h)
<1>1. CASE Sets(g)
  BY <1>1, SetsStep DEF Same, localVars, historyVars
<1>6. CASE SetKey(g)
  BY <1>6, SetKeyStep DEF Same, historyVars
<1>. USE DEF TypeOK, HistoryOK, daemonVars, localVars, historyVars, Same
<1>7. CASE Use(g) \/ AnnounceNothing(g)
  BY <1>7 DEF Use, AnnounceNothing
<1>2. ASSUME NEW session \in Sessions, NEW list \in Findings[g], Announce(g, session, list)
      PROVE  Same(h)
  BY <1>2 DEF Announce
<1>3. CASE AnnounceSucceeds(g) \/ AnnounceFails(g)
  BY <1>3 DEF AnnounceSucceeds, AnnounceFails, EndAnnounce, Leave
<1>4. CASE Dispose(g) \/ Crash(g)
  BY <1>4 DEF Dispose, Crash, Down, Leave, Withdrawn
<1>5. CASE Service(g)
  BY <1>5 DEF Service, Refresh, Expire
<1>. QED
  BY <1>1, <1>2, <1>3, <1>4, <1>5, <1>6, <1>7 DEF Process, Sets

\* The browser leaves all of them.
LEMMA BrowserLeaves ==
  ASSUME Browser \/ UNCHANGED vars
  PROVE  UNCHANGED <<daemonVars, record, historyVars>>
BY DEF Browser, Discover, Hear, EndScan, EndLocalScan, vars

\* What a host keeps decides what is defined of it.
LEMMA SameHistory ==
  ASSUME NEW h \in Host, Same(h)
  PROVE  /\ NodeID(h)' = NodeID(h) /\ Drawn(h)' = Drawn(h)
         /\ Latest(h)' = Latest(h) /\ Current(h)' = Current(h)
         /\ History(h)' = History(h)
BY DEF Same, NodeID, Drawn, Latest, Current, History

\* The latest announcement has returned: nothing else changes.
LEMMA ReturnedStep ==
  ASSUME TypeOK, HistoryOK, NEW h \in Host, AnnounceSucceeds(h)
  PROVE  /\ announced' \in [Host -> Seq(Announcement)]
         /\ Len(announced'[h]) = Len(announced[h]) /\ announced[h] # << >>
         /\ \A i \in DOMAIN announced[h] :
              /\ announced'[h][i].id = announced[h][i].id
              /\ announced'[h][i].session = announced[h][i].session
              /\ announced'[h][i].found = announced[h][i].found
         /\ Latest(h)'.returned = TRUE
<1>. DEFINE a == announced[h]
            b == [Latest(h) EXCEPT !.returned = TRUE]
<1>1. a \in Seq(Announcement) /\ a # << >>
  BY DEF HistoryOK, History, AnnounceSucceeds, EndAnnounce, Current, Outside
<1>2. Len(a) \in DOMAIN a /\ Latest(h) \in Announcement
  BY <1>1 DEF Latest
<1>3. /\ b \in Announcement /\ b.returned = TRUE /\ b.id = Latest(h).id
      /\ b.session = Latest(h).session /\ b.found = Latest(h).found
  BY <1>2 DEF Announcement
<1>4. announced' = [announced EXCEPT ![h] = [a EXCEPT ![Len(a)] = b]]
  BY DEF AnnounceSucceeds, Latest, HistoryOK
<1>. HIDE DEF b
<1>5. [a EXCEPT ![Len(a)] = b] \in Seq(Announcement) /\ Len([a EXCEPT ![Len(a)] = b]) = Len(a)
  BY <1>1, <1>2, <1>3
<1>6. announced'[h] = [a EXCEPT ![Len(a)] = b]
  BY <1>4 DEF HistoryOK
<1>. QED
  BY <1>1, <1>2, <1>3, <1>4, <1>5, <1>6 DEF HistoryOK, Latest

\* One more announcement.
LEMMA AnnouncedStep ==
  ASSUME TypeOK, HistoryOK, NEW h \in Host, NEW session \in Sessions,
         NEW list \in Findings[h], Announce(h, session, list)
  PROVE  /\ announced' \in [Host -> Seq(Announcement)]
         /\ Len(announced'[h]) = Len(announced[h]) + 1
         /\ \A i \in DOMAIN announced[h] : announced'[h][i] = announced[h][i]
         /\ Latest(h)' = [id |-> NodeID(h), session |-> session, found |-> list,
                          returned |-> FALSE]
<1>. DEFINE a == [id |-> NodeID(h), session |-> session, found |-> list, returned |-> FALSE]
<1>1. NodeID(h) \in Text
  BY NodeIDTyped DEF Announce, TypeOK
<1>2. session \in Text /\ list \in Seq([Field -> Text])
  BY FindingsTyped, SessionsAreText
<1>3. a \in Announcement
  BY <1>1, <1>2 DEF Announcement
<1>4. announced' = [announced EXCEPT ![h] = Append(announced[h], a)]
  BY DEF Announce, HistoryOK
<1>. HIDE DEF a
<1>5. announced'[h] = Append(announced[h], a) /\ announced[h] \in Seq(Announcement)
  BY <1>4 DEF HistoryOK
<1>6. announced' \in [Host -> Seq(Announcement)]
  BY <1>3, <1>4 DEF HistoryOK
<1>7. Latest(h)' = a
  BY <1>3, <1>5 DEF Latest
<1>. QED
  BY <1>3, <1>5, <1>6, <1>7 DEF a

\* The steps of a process keep the history.
LEMMA HistoryStep ==
  ASSUME TypeOK, HistoryOK, [Next]_vars
  PROVE  HistoryOK'
<1>1. ASSUME NEW h \in Host, Process(h) \/ Service(h),
             announced' \in [Host -> Seq(Announcement)], History(h)'
      PROVE  HistoryOK'
  BY <1>1, OtherHosts, SameHistory DEF HistoryOK
<1>2. ASSUME NEW h \in Host, Use(h) PROVE HistoryOK'
  <2>1. /\ announced' = announced /\ pc'[h] = "up" /\ found' = found
        /\ Drawn(h) \subseteq Drawn(h)' /\ NodeID(h)' \notin Drawn(h)
    BY <1>2, NextIsNew DEF Use, localVars, historyVars, TypeOK
  <2>2. History(h)'
    BY <2>1 DEF HistoryOK, History, Outside
  <2>. QED
    BY <1>1, <1>2, <2>1, <2>2 DEF Process, HistoryOK
<1>3. ASSUME NEW h \in Host, AnnounceNothing(h) PROVE HistoryOK'
  BY <1>3, SameProcesses
  DEF AnnounceNothing, localVars, historyVars, HistoryOK, History, Current, Latest
<1>4. ASSUME NEW h \in Host, SetKey(h) PROVE HistoryOK'
  <2>1. /\ UNCHANGED <<announced, pc, found, asked, process>> /\ pc[h] = "infos"
        /\ index[h] \in 1 .. Len(found[h])
        /\ \/ index'[h] = index[h]
           \/ key'[h] = 1 /\ index'[h] = index[h] + 1
    BY <1>4, SetKeyStep DEF historyVars
  <2>2. index'[h] \in 1 .. Len(found[h]) + 1 /\ (key'[h] # 1 => index'[h] <= Len(found[h]))
    <3>1. Len(found[h]) \in Nat
      BY FindingsTyped DEF TypeOK
    <3>. QED
      BY <2>1, <3>1
  <2>3. History(h)'
    BY <2>1, <2>2, SameProcesses DEF HistoryOK, History, Current, Latest, Outside
  <2>. QED
    BY <1>1, <1>4, <2>1, <2>3 DEF Process, HistoryOK
<1>11. ASSUME NEW h \in Host, Sets(h) PROVE HistoryOK'
  <2>1. /\ UNCHANGED <<announced, found, asked, index, key, process>>
        /\ pc[h] \in InNode /\ pc'[h] \notin Outside
    BY <1>11, SetsStep DEF localVars, historyVars, InNode, Outside
  <2>2. History(h)'
    BY <2>1, SameProcesses DEF HistoryOK, History, Current, Latest, Outside, InNode
  <2>. QED
    BY <1>1, <1>11, <2>1, <2>2 DEF Process, HistoryOK, Sets
<1>5. ASSUME NEW h \in Host, NEW session \in Sessions, NEW list \in Findings[h],
             Announce(h, session, list)
      PROVE  HistoryOK'
  <2>1. /\ announced' \in [Host -> Seq(Announcement)]
        /\ Len(announced'[h]) = Len(announced[h]) + 1
        /\ \A i \in DOMAIN announced[h] : announced'[h][i] = announced[h][i]
        /\ Latest(h)' = [id |-> NodeID(h), session |-> session, found |-> list,
                         returned |-> FALSE]
    BY <1>5, AnnouncedStep
  <2>2. /\ pc[h] = "up" /\ pc'[h] = "NodeID" /\ found'[h] = list /\ asked'[h] = session
        /\ process' = process /\ index'[h] = 1 /\ key'[h] = 1
    BY <1>5 DEF Announce, TypeOK
  <2>3. DOMAIN announced'[h] = DOMAIN announced[h] \cup {Len(announced[h]) + 1}
    BY <2>1 DEF HistoryOK
  <2>4. announced'[h][Len(announced[h]) + 1] = Latest(h)'
    BY <2>1 DEF Latest
  <2>5. /\ Current(h)' /\ ~Latest(h)'.returned
        /\ found'[h] = Latest(h)'.found /\ asked'[h] = Latest(h)'.session
    BY <2>1, <2>2, <2>3, SameProcesses DEF Current
  <2>6. NodeID(h) \in Drawn(h)
    BY <2>2, CurrentIsDrawn
  <2>7. \A i \in DOMAIN announced'[h] :
          announced'[h][i].id \in Drawn(h) /\ announced'[h][i].found \in Findings[h]
    BY <2>1, <2>3, <2>4, <2>6 DEF HistoryOK, History
  <2>8. index'[h] \in 1 .. Len(found'[h]) + 1
    BY <2>2, FindingsTyped
  <2>9. History(h)'
    BY <2>2, <2>5, <2>7, <2>8, SameProcesses DEF History, Outside
  <2>. QED
    BY <1>1, <1>5, <2>1, <2>9 DEF Process
<1>6. ASSUME NEW h \in Host, AnnounceSucceeds(h) PROVE HistoryOK'
  <2>1. /\ announced' \in [Host -> Seq(Announcement)]
        /\ Len(announced'[h]) = Len(announced[h]) /\ announced[h] # << >>
        /\ \A i \in DOMAIN announced[h] :
             /\ announced'[h][i].id = announced[h][i].id
             /\ announced'[h][i].found = announced[h][i].found
    BY <1>6, ReturnedStep
  <2>2. /\ DOMAIN announced'[h] = DOMAIN announced[h] /\ announced'[h] # << >>
        /\ Len(announced[h]) \in DOMAIN announced[h]
    BY <2>1 DEF HistoryOK
  <2>3. Latest(h)'.id = Latest(h).id
    BY <2>1, <2>2 DEF Latest
  <2>4. pc[h] = "infos" /\ pc'[h] = "up" /\ process' = process
    BY <1>6 DEF AnnounceSucceeds, EndAnnounce, TypeOK
  <2>5. History(h)'
    BY <2>1, <2>2, <2>3, <2>4, SameProcesses DEF HistoryOK, History, Current, Outside
  <2>. QED
    BY <1>1, <1>6, <2>1, <2>5 DEF Process
<1>7. ASSUME NEW h \in Host, AnnounceFails(h) PROVE HistoryOK'
  <2>1. /\ announced' = announced /\ process' = process
        /\ pc[h] = "infos" /\ pc'[h] = "up"
    BY <1>7 DEF AnnounceFails, EndAnnounce, TypeOK
  <2>2. History(h)'
    BY <2>1, SameProcesses DEF HistoryOK, History, Current, Latest, Outside
  <2>. QED
    BY <1>1, <1>7, <2>1, <2>2 DEF Process, HistoryOK
<1>8. ASSUME NEW h \in Host, Dispose(h) \/ Crash(h) PROVE HistoryOK'
  <2>1. /\ announced' = announced /\ process' = process /\ pc'[h] = "down"
    BY <1>8 DEF Dispose, Crash, Down, TypeOK, historyVars
  <2>2. History(h)'
    BY <2>1, SameProcesses DEF HistoryOK, History, Outside
  <2>. QED
    BY <1>1, <1>8, <2>1, <2>2 DEF Process, HistoryOK
<1>9. ASSUME NEW h \in Host, Service(h) PROVE HistoryOK'
  BY <1>9, SameProcesses
  DEF Service, Refresh, Expire, daemonVars, localVars, historyVars, HistoryOK, History,
      Current, Latest
<1>10. CASE Browser \/ UNCHANGED vars
  BY <1>10, BrowserLeaves, SameProcesses
  DEF daemonVars, localVars, historyVars, HistoryOK, History, Current, Latest
<1>. QED
  BY <1>2, <1>3, <1>4, <1>5, <1>6, <1>7, <1>8, <1>9, <1>10, <1>11 DEF Next, Process, Sets

\* Whatever happens, an announcement that was made was made.
LEMMA HistoryGrows ==
  ASSUME TypeOK, HistoryOK, [Next]_vars, NEW h \in Host
  PROVE  \A i \in DOMAIN announced[h] :
           /\ i \in DOMAIN announced'[h]
           /\ announced'[h][i].id = announced[h][i].id
           /\ announced'[h][i].session = announced[h][i].session
           /\ announced'[h][i].found = announced[h][i].found
<1>1. CASE announced'[h] = announced[h]
  BY <1>1
<1>2. ASSUME NEW session \in Sessions, NEW list \in Findings[h],
             Announce(h, session, list)
      PROVE  \A i \in DOMAIN announced[h] :
               i \in DOMAIN announced'[h] /\ announced'[h][i] = announced[h][i]
  BY <1>2, AnnouncedStep DEF HistoryOK
<1>3. CASE AnnounceSucceeds(h)
  <2>1. Len(announced'[h]) = Len(announced[h])
    BY <1>3, ReturnedStep
  <2>2. announced[h] \in Seq(Announcement) /\ announced'[h] \in Seq(Announcement)
    BY <1>3, ReturnedStep DEF HistoryOK
  <2>3. DOMAIN announced'[h] = DOMAIN announced[h]
    BY <2>1, <2>2
  <2>. QED
    BY <1>3, <2>3, ReturnedStep
<1>4. ASSUME NEW g \in Host \ {h}, Process(g) \/ Service(g)
      PROVE  announced'[h] = announced[h]
  BY <1>4, OtherHosts DEF Same
<1>5. CASE Browser \/ UNCHANGED vars
  BY <1>1, <1>5, BrowserLeaves DEF historyVars
<1>6. CASE Process(h) \/ Service(h)
  BY <1>1, <1>2, <1>3, <1>6
  DEF Process, Service, Use, AnnounceNothing, SetNode, SetNodeID, SetHostname, SetSession,
      SetCount, SetKey, AnnounceFails, Dispose, Crash, Refresh, Expire, historyVars
<1>. QED
  BY <1>1, <1>4, <1>5, <1>6 DEF Next

-------------------------------------------------------------------------------
(* What the current process has set of the node.                           *)

\* The process of h is up and has announced.
Begun(h) == pc[h] # "down" /\ Current(h)

\* Of its latest announcement the node and the count are set in their order, and
\* what is set is published from the moment on it has returned.
NodeSet(h) ==
  /\ pc[h] # "down" /\ ~Current(h) => data[h] = NoData
  /\ Begun(h) =>
       /\ pc[h] # "NodeID" => data[h].NodeID = NodeID(h)
       /\ pc[h] \notin {"NodeID", "Hostname", "Session"} => data[h].Session = Latest(h).session
       /\ pc[h] \in {"infos", "up"} => data[h].Count = Len(Latest(h).found)
  /\ pc[h] = "up" /\ Current(h) /\ Latest(h).returned => record[h] = data[h]

\* The infos of the latest announcement, and where it is.
LEMMA LatestTyped ==
  ASSUME TypeOK, HistoryOK, NEW h \in Host, Current(h)
  PROVE  /\ Len(announced[h]) \in DOMAIN announced[h]
         /\ Latest(h) \in Announcement
         /\ Latest(h).found \in Seq([Field -> Text])
         /\ Latest(h).found \in Findings[h]
         /\ Len(Latest(h).found) \in 0 .. MaxInfos
<1>1. announced[h] \in Seq(Announcement) /\ announced[h] # << >>
  BY DEF HistoryOK, Current
<1>2. Len(announced[h]) \in DOMAIN announced[h] /\ Latest(h) \in Announcement
  BY <1>1 DEF Latest
<1>3. Latest(h).found \in Findings[h]
  BY <1>2 DEF HistoryOK, History, Latest
<1>. QED
  BY <1>2, <1>3, FindingsTyped

\* A new process has announced nothing.
LEMMA NewHasNotBegun ==
  ASSUME TypeOK, HistoryOK, NEW h \in Host, Use(h)
  PROVE  ~Current(h)' /\ data'[h] = NoData /\ pc'[h] = "up"
<1>1. announced' = announced /\ NodeID(h)' \notin Drawn(h)
  BY NextIsNew DEF Use, historyVars
<1>2. announced[h] # << >> => Latest(h).id \in Drawn(h)
  BY DEF HistoryOK, History, Latest
<1>. QED
  BY <1>1, <1>2 DEF Current, Latest, Use, TypeOK

\* When announce() returns, nothing of the latest announcement changes but that.
LEMMA EndStep ==
  ASSUME TypeOK, HistoryOK, NEW h \in Host, AnnounceSucceeds(h) \/ AnnounceFails(h)
  PROVE  /\ pc[h] = "infos" /\ pc'[h] = "up" /\ UNCHANGED <<process, data>>
         /\ index[h] > Len(found[h]) /\ key'[h] = 1
         /\ Current(h) /\ Current(h)' /\ NodeID(h)' = NodeID(h)
         /\ found[h] = Latest(h).found
         /\ index[h] = Len(Latest(h).found) + 1 /\ key[h] = 1
         /\ Len(announced'[h]) = Len(announced[h])
         /\ Latest(h)'.id = Latest(h).id /\ Latest(h)'.session = Latest(h).session
         /\ Latest(h)'.found = Latest(h).found
         /\ AnnounceFails(h) => record' = record /\ ~Latest(h)'.returned
         /\ AnnounceSucceeds(h) => record' = [record EXCEPT ![h] = data[h]]
<1>1. /\ pc[h] = "infos" /\ pc'[h] = "up" /\ UNCHANGED <<process, data>>
      /\ index[h] > Len(found[h]) /\ key'[h] = 1
  BY DEF AnnounceSucceeds, AnnounceFails, EndAnnounce, Leave, LastRound, TypeOK
<1>2. /\ Current(h) /\ found[h] = Latest(h).found /\ ~Latest(h).returned
      /\ index[h] \in 1 .. Len(found[h]) + 1 /\ Len(found[h]) \in Nat
      /\ key[h] # 1 => index[h] <= Len(found[h])
      /\ Len(announced[h]) \in DOMAIN announced[h]
  BY <1>1, LatestTyped DEF HistoryOK, History, Outside
<1>3. index[h] = Len(Latest(h).found) + 1 /\ key[h] = 1
  BY <1>1, <1>2
<1>4. CASE AnnounceFails(h)
  <2>1. UNCHANGED <<announced, record>>
    BY <1>4 DEF AnnounceFails
  <2>2. ~AnnounceSucceeds(h)
    <3>1. AnnounceSucceeds(h) => Latest(h)'.returned = TRUE
      BY ReturnedStep
    <3>. QED
      BY <1>2, <2>1, <3>1 DEF Latest
  <2>. QED
    BY <1>1, <1>2, <1>3, <2>1, <2>2, SameProcesses DEF Latest, Current
<1>5. CASE AnnounceSucceeds(h)
  <2>1. Len(announced'[h]) = Len(announced[h]) /\ announced' \in [Host -> Seq(Announcement)]
        /\ Latest(h)'.returned = TRUE
    BY <1>5, ReturnedStep
  <2>. DEFINE n == Len(announced[h])
  <2>2. /\ announced'[h][n].id = announced[h][n].id
        /\ announced'[h][n].session = announced[h][n].session
        /\ announced'[h][n].found = announced[h][n].found
    BY <1>2, <1>5, ReturnedStep
  <2>3. announced[h] \in Seq(Announcement) /\ n # 0
    BY <1>2 DEF HistoryOK
  <2>4. announced'[h] # << >>
    BY <2>1, <2>3
  <2>5. ~AnnounceFails(h)
    BY <1>2, <2>1 DEF AnnounceFails, Latest
  <2>6. record' = [record EXCEPT ![h] = data[h]]
    BY <1>5 DEF AnnounceSucceeds
  <2>. QED
    BY <1>1, <1>2, <1>3, <2>1, <2>2, <2>4, <2>5, <2>6, SameProcesses DEF Latest, Current
<1>. QED
  BY <1>4, <1>5

\* What a host keeps leaves the pairs of its node set.
LEMMA SameNodeSet ==
  ASSUME NEW h \in Host, Same(h)
  PROVE  NodeSet(h)' = NodeSet(h) /\ Begun(h)' = Begun(h)
<1>1. NodeID(h)' = NodeID(h) /\ Latest(h)' = Latest(h) /\ Current(h)' = Current(h)
  BY SameHistory
<1>. QED
  BY <1>1 DEF Same, NodeSet, Begun

\* Every step keeps the pairs of the node of the latest announcement.
LEMMA NodeSetStep ==
  ASSUME TypeOK, HistoryOK, \A h \in Host : NodeSet(h), [Next]_vars, HistoryOK'
  PROVE  \A h \in Host : NodeSet(h)'
<1>1. ASSUME NEW h \in Host, Process(h) \/ Service(h), NodeSet(h)'
      PROVE  \A g \in Host : NodeSet(g)'
  BY <1>1, OtherHosts, SameNodeSet
<1>2. ASSUME NEW h \in Host, Use(h) PROVE NodeSet(h)'
  BY <1>2, NewHasNotBegun DEF NodeSet, Begun
<1>3. ASSUME NEW h \in Host, AnnounceNothing(h) PROVE NodeSet(h)'
  <2>1. Same(h)
    BY <1>3 DEF AnnounceNothing, Same, localVars, historyVars
  <2>. QED
    BY <2>1, SameNodeSet
<1>4. ASSUME NEW h \in Host, Sets(h) PROVE NodeSet(h)'
  <2>1. /\ UNCHANGED <<announced, process, found, asked>> /\ pc[h] \in InNode
        /\ data'[h].NodeID = IF pc[h] = "NodeID" THEN NodeID(h) ELSE data[h].NodeID
        /\ data'[h].Session = IF pc[h] = "Session" THEN asked[h] ELSE data[h].Session
        /\ data'[h].Count = IF pc[h] = "Count" THEN Len(found[h]) ELSE data[h].Count
        /\ pc[h] = "NodeID" => pc'[h] = "Hostname"
        /\ pc[h] \in {"NodeID", "Hostname"} => pc'[h] # "infos" /\ pc'[h] # "Count"
        /\ pc'[h] \in (InNode \ {"NodeID"}) \cup {"infos"}
        /\ pc'[h] = "infos" <=> pc[h] = "Count"
    BY <1>4, SetsStep DEF localVars, historyVars
  <2>2. /\ Current(h) /\ found[h] = Latest(h).found /\ asked[h] = Latest(h).session
    BY <2>1 DEF HistoryOK, History, Outside, InNode
  <2>3. Current(h)' /\ Latest(h)' = Latest(h) /\ NodeID(h)' = NodeID(h)
    BY <2>1, <2>2, SameProcesses DEF Current, Latest
  <2>4. data'[h].NodeID = NodeID(h)
    BY <2>1, <2>2 DEF NodeSet, Begun, InNode
  <2>5. pc'[h] \notin {"NodeID", "Hostname", "Session"} => data'[h].Session = Latest(h).session
    BY <2>1, <2>2 DEF NodeSet, Begun, InNode
  <2>6. pc'[h] \in {"infos", "up"} => data'[h].Count = Len(Latest(h).found)
    BY <2>1, <2>2 DEF InNode
  <2>7. pc'[h] # "up"
    BY <2>1 DEF InNode
  <2>. QED
    BY <2>3, <2>4, <2>5, <2>6, <2>7 DEF NodeSet, Begun
<1>5. ASSUME NEW h \in Host, SetKey(h) PROVE NodeSet(h)'
  <2>1. /\ UNCHANGED <<announced, pc, process>> /\ pc[h] = "infos"
        /\ data'[h].NodeID = data[h].NodeID
        /\ data'[h].Session = data[h].Session /\ data'[h].Count = data[h].Count
    BY <1>5, SetKeyStep DEF historyVars
  <2>2. Current(h)
    BY <2>1 DEF HistoryOK, History, Outside
  <2>3. Current(h)' /\ Latest(h)' = Latest(h) /\ NodeID(h)' = NodeID(h)
    BY <2>1, <2>2, SameProcesses DEF Current, Latest
  <2>. QED
    BY <2>1, <2>2, <2>3 DEF NodeSet, Begun
<1>6. ASSUME NEW h \in Host, NEW session \in Sessions, NEW list \in Findings[h],
             Announce(h, session, list)
      PROVE  NodeSet(h)'
  <2>1. pc'[h] = "NodeID"
    BY <1>6 DEF Announce, TypeOK
  <2>2. Current(h)'
    BY <2>1 DEF HistoryOK, History, Outside
  <2>. QED
    BY <2>1, <2>2 DEF NodeSet, Begun
<1>7. ASSUME NEW h \in Host, AnnounceSucceeds(h) \/ AnnounceFails(h) PROVE NodeSet(h)'
  <2>1. /\ pc[h] = "infos" /\ pc'[h] = "up" /\ UNCHANGED <<process, data>>
        /\ Current(h) /\ Current(h)' /\ NodeID(h)' = NodeID(h)
        /\ Latest(h)'.session = Latest(h).session /\ Latest(h)'.found = Latest(h).found
        /\ AnnounceFails(h) => ~Latest(h)'.returned
        /\ AnnounceSucceeds(h) => record'[h] = data[h]
    BY <1>7, EndStep DEF TypeOK
  <2>. QED
    BY <1>7, <2>1 DEF NodeSet, Begun
<1>8. ASSUME NEW h \in Host, Dispose(h) \/ Crash(h) PROVE NodeSet(h)'
  <2>1. pc'[h] = "down"
    BY <1>8 DEF Dispose, Crash, Down, TypeOK
  <2>. QED
    BY <2>1 DEF NodeSet, Begun
<1>9. ASSUME NEW h \in Host, Service(h) PROVE NodeSet(h)'
  <2>1. UNCHANGED <<pc, process, data, announced>>
    BY <1>9 DEF Service, Refresh, Expire, daemonVars, historyVars
  <2>2. record'[h] = data[h] \/ (record'[h] = NoRecord /\ ~ByCurrentProcess(h))
    BY <1>9 DEF Service, Refresh, Expire, TypeOK
  <2>3. pc[h] = "up" /\ Current(h) /\ Latest(h).returned => ByCurrentProcess(h)
    <3>1. data[h] # NoRecord
      BY NoRecordIsNoData DEF TypeOK
    <3>. QED
      BY <3>1 DEF NodeSet, Begun, ByCurrentProcess, Published
  <2>. QED
    BY <2>1, <2>2, <2>3, SameProcesses DEF NodeSet, Begun, Current, Latest
<1>10. CASE Browser \/ UNCHANGED vars
  <2>1. \A h \in Host : Same(h)
    BY <1>10, BrowserLeaves DEF Same, daemonVars, localVars, historyVars
  <2>. QED
    BY <2>1, SameNodeSet
<1>. QED
  BY <1>1, <1>2, <1>3, <1>4, <1>5, <1>6, <1>7, <1>8, <1>9, <1>10 DEF Next, Process, Sets

-------------------------------------------------------------------------------
(* What the current process has set of the infos.                          *)

\* The i-th of these announcements is of this process and has a value for the key.
HasValue(list, id, i, k, f) ==
  /\ list[i].id = id
  /\ k \in DOMAIN list[i].found
  /\ IsSet(f, list[i].found[k])

\* The text is what the last of the first n that has a value says, or none has one.
Said(list, id, n, k, f, text) ==
  \/ /\ text = Absent
     /\ \A i \in DOMAIN list : i <= n => ~HasValue(list, id, i, k, f)
  \/ \E i \in DOMAIN list :
       /\ i <= n /\ HasValue(list, id, i, k, f)
       /\ text = list[i].found[k][f]
       /\ \A l \in DOMAIN list : i < l /\ l <= n => ~HasValue(list, id, l, k, f)

\* Before info x and key m of it announcement j is heard, from there on those before.
UpTo(j, x, m, k, n) == IF k < x \/ (k = x /\ n < m) THEN j ELSE j - 1

Mixture(list, id, j, x, m, entry) ==
  \A k \in Index : \A n \in DOMAIN Keys :
    Said(list, id, UpTo(j, x, m, k, n), k, Keys[n], entry[k][Keys[n]])

\* The info announce() has come to.
At(h) == IF pc[h] = "up" THEN MaxInfos + 1 ELSE index[h]

\* Of the latest announcement the keys are set in their order.
Mixed(h) ==
  Begun(h) =>
    Mixture(announced[h], NodeID(h), Len(announced[h]), At(h), key[h], data[h].entry)

\* A longer history with the same beginning.
Extends(longer, list) ==
  \A i \in DOMAIN list :
    /\ i \in DOMAIN longer
    /\ longer[i].id = list[i].id /\ longer[i].found = list[i].found

\* What was said stays said.
LEMMA SaidStays ==
  ASSUME NEW list \in Seq(Announcement), NEW longer \in Seq(Announcement),
         Extends(longer, list), NEW n \in Int, n <= Len(list),
         NEW id, NEW k, NEW f, NEW text, Said(list, id, n, k, f, text)
  PROVE  Said(longer, id, n, k, f, text)
<1>1. \A i \in DOMAIN list :
        /\ i \in DOMAIN longer /\ longer[i].found = list[i].found
        /\ HasValue(longer, id, i, k, f) <=> HasValue(list, id, i, k, f)
  BY DEF Extends, HasValue
<1>2. \A i \in DOMAIN longer : i <= n => i \in DOMAIN list
  OBVIOUS
<1>. QED
  BY <1>1, <1>2 DEF Said

\* An announcement that has no value changes nothing ...
LEMMA NothingSaid ==
  ASSUME NEW list \in Seq(Announcement), NEW j \in DOMAIN list,
         NEW id, NEW k, NEW f, ~HasValue(list, id, j, k, f),
         NEW text, Said(list, id, j - 1, k, f, text)
  PROVE  Said(list, id, j, k, f, text)
<1>1. \A i \in DOMAIN list : i <= j <=> i <= j - 1 \/ i = j
  OBVIOUS
<1>. QED
  BY <1>1 DEF Said

\* ... and one that has is heard.
LEMMA SaidNow ==
  ASSUME NEW list \in Seq(Announcement), NEW j \in DOMAIN list,
         NEW id, NEW k, NEW f, HasValue(list, id, j, k, f)
  PROVE  Said(list, id, j, k, f, list[j].found[k][f])
<1>1. j <= j /\ \A l \in DOMAIN list : ~(j < l /\ l <= j)
  OBVIOUS
<1>. QED
  BY <1>1 DEF Said

\* Of a process that has not announced nothing is known.
LEMMA NeverSaid ==
  ASSUME NEW list, NEW id, \A i \in DOMAIN list : list[i].id # id,
         NEW n, NEW k, NEW f
  PROVE  Said(list, id, n, k, f, Absent)
BY DEF Said, HasValue

\* Infos beyond those that were found have no values, so that all are there when
\* those are set.
LEMMA MixedToTheEnd ==
  ASSUME NEW list \in Seq(Announcement), NEW j \in DOMAIN list, NEW id, NEW entry,
         Mixture(list, id, j, Len(list[j].found) + 1, 1, entry)
  PROVE  Mixture(list, id, j, MaxInfos + 1, 1, entry)
<1>0. list[j] \in Announcement
  OBVIOUS
<1>1. /\ list[j].found \in Seq([Field -> Text]) /\ j \in Int
      /\ \A k \in Index : k \in Int /\ k < MaxInfos + 1
  BY <1>0, MaxInfosIsCount DEF Announcement, Index
<1>2. ASSUME NEW k \in Index, NEW n \in DOMAIN Keys
      PROVE  Said(list, id, UpTo(j, MaxInfos + 1, 1, k, n), k, Keys[n], entry[k][Keys[n]])
  <2>1. UpTo(j, MaxInfos + 1, 1, k, n) = j
    BY <1>1 DEF UpTo
  <2>2. Said(list, id, UpTo(j, Len(list[j].found) + 1, 1, k, n), k, Keys[n], entry[k][Keys[n]])
    BY DEF Mixture
  <2>3. CASE k <= Len(list[j].found)
    <3>1. UpTo(j, Len(list[j].found) + 1, 1, k, n) = j
      BY <1>1, <2>3 DEF UpTo
    <3>. QED
      BY <2>1, <2>2, <3>1
  <2>4. CASE ~(k <= Len(list[j].found))
    <3>1. UpTo(j, Len(list[j].found) + 1, 1, k, n) = j - 1
      <4>1. n \in Nat /\ ~(n < 1)
        BY KeysAreFields
      <4>. QED
        BY <1>1, <2>4, <4>1 DEF UpTo
    <3>2. ~HasValue(list, id, j, k, Keys[n])
      BY <1>1, <2>4 DEF HasValue
    <3>3. Said(list, id, j - 1, k, Keys[n], entry[k][Keys[n]])
      BY <2>2, <3>1
    <3>. QED
      BY <2>1, <3>2, <3>3, NothingSaid
  <2>. QED
    BY <2>3, <2>4
<1>. QED
  BY <1>2 DEF Mixture

\* What a host keeps leaves its infos set.
LEMMA SameMixed ==
  ASSUME NEW h \in Host, Same(h)
  PROVE  Mixed(h)' = Mixed(h)
<1>1. NodeID(h)' = NodeID(h) /\ Begun(h)' = Begun(h)
  BY SameHistory, SameNodeSet
<1>. QED
  BY <1>1 DEF Same, Mixed, Mixture, At, Said, HasValue

\* The history of a host extends what it was.
LEMMA HistoryExtends ==
  ASSUME TypeOK, HistoryOK, [Next]_vars, HistoryOK', NEW h \in Host
  PROVE  /\ announced[h] \in Seq(Announcement) /\ announced'[h] \in Seq(Announcement)
         /\ Extends(announced'[h], announced[h])
BY HistoryGrows DEF HistoryOK, Extends

\* The next value is set where the keys are.
LEMMA MixedBySetKey ==
  ASSUME TypeOK, HistoryOK, NEW h \in Host, SetKey(h), Mixed(h)
  PROVE  Mixed(h)'
<1>. DEFINE list == announced[h]
            j == Len(list)
            id == NodeID(h)
            x == index[h]
            m == key[h]
<1>1. /\ UNCHANGED <<announced, pc, process>> /\ pc[h] = "infos"
      /\ x \in 1 .. Len(found[h]) /\ x \in Index
  BY SetKeyStep DEF historyVars
<1>2. Current(h) /\ found[h] = Latest(h).found /\ m \in 1 .. 8 /\ DOMAIN Keys = 1 .. 8
  BY <1>1, KeysAreFields DEF HistoryOK, History, Outside, TypeOK
<1>3. /\ list \in Seq(Announcement) /\ j \in DOMAIN list /\ list[j].id = id
      /\ list[j].found = found[h] /\ j \in Int /\ x \in Int /\ DOMAIN found[h] = 1 .. Len(found[h])
  BY <1>1, <1>2, LatestTyped, MaxInfosIsCount DEF HistoryOK, Current, Latest, Index
<1>4. Mixture(list, id, j, x, m, data[h].entry)
  BY <1>1, <1>2 DEF Mixed, Begun, At
<1>5. /\ \A k \in Index : \A f \in Field :
           data'[h].entry[k][f] =
             IF k = x /\ f = Keys[m] /\ IsSet(f, found[h][x])
             THEN found[h][x][f] ELSE data[h].entry[k][f]
      /\ \/ m < 8 /\ key'[h] = m + 1 /\ index'[h] = x
         \/ m = 8 /\ key'[h] = 1 /\ index'[h] = x + 1
  BY SetKeyStep, KeysAreFields
<1>6. ASSUME NEW k \in Index, NEW n \in DOMAIN Keys
      PROVE  Said(list, id, UpTo(j, index'[h], key'[h], k, n), k, Keys[n],
                  data'[h].entry[k][Keys[n]])
  <2>1. Said(list, id, UpTo(j, x, m, k, n), k, Keys[n], data[h].entry[k][Keys[n]])
    BY <1>4 DEF Mixture
  <2>2. k \in Int /\ n \in 1 .. 8 /\ Keys[n] \in Field
    BY <1>2, KeysAreFields, MaxInfosIsCount DEF Index
  <2>3. CASE k = x /\ n = m
    <3>1. UpTo(j, x, m, k, n) = j - 1 /\ UpTo(j, index'[h], key'[h], k, n) = j
      BY <1>2, <1>3, <1>5, <2>2, <2>3 DEF UpTo
    <3>2. CASE IsSet(Keys[n], found[h][x])
      <4>1. HasValue(list, id, j, k, Keys[n])
        BY <1>1, <1>3, <2>3, <3>2 DEF HasValue
      <4>2. Said(list, id, j, k, Keys[n], list[j].found[k][Keys[n]])
        BY <1>3, <4>1, SaidNow
      <4>3. data'[h].entry[k][Keys[n]] = list[j].found[k][Keys[n]]
        BY <1>3, <1>5, <2>2, <2>3, <3>2
      <4>. QED
        BY <3>1, <4>2, <4>3
    <3>3. CASE ~IsSet(Keys[n], found[h][x])
      <4>1. ~HasValue(list, id, j, k, Keys[n])
        BY <1>3, <2>3, <3>3 DEF HasValue
      <4>2. Said(list, id, j - 1, k, Keys[n], data[h].entry[k][Keys[n]])
        BY <2>1, <3>1
      <4>3. Said(list, id, j, k, Keys[n], data[h].entry[k][Keys[n]])
        BY <1>3, <4>1, <4>2, NothingSaid
      <4>4. data'[h].entry[k][Keys[n]] = data[h].entry[k][Keys[n]]
        BY <1>5, <2>2, <2>3, <3>3
      <4>. QED
        BY <3>1, <4>3, <4>4
    <3>. QED
      BY <3>2, <3>3
  <2>4. CASE ~(k = x /\ n = m)
    <3>1. UpTo(j, index'[h], key'[h], k, n) = UpTo(j, x, m, k, n)
      BY <1>2, <1>3, <1>5, <2>2, <2>4, SMTT(30) DEF UpTo
    <3>2. data'[h].entry[k][Keys[n]] = data[h].entry[k][Keys[n]]
      <4>1. ~(k = x /\ Keys[n] = Keys[m])
        BY <1>2, <2>2, <2>4, KeysAreFields
      <4>. QED
        BY <1>5, <2>2, <4>1
    <3>. QED
      BY <2>1, <3>1, <3>2
  <2>. QED
    BY <2>3, <2>4
<1>7. Mixture(list, id, j, index'[h], key'[h], data'[h].entry)
  <2>. HIDE DEF list, j, id
  <2>. QED
    BY <1>6 DEF Mixture
<1>8. NodeID(h)' = NodeID(h) /\ announced' = announced /\ pc'[h] = "infos"
  BY <1>1, SameProcesses
<1>. QED
  BY <1>7, <1>8 DEF Mixed, At

\* Before a next announcement sets anything, all is of those before it.
LEMMA MixedByAnnounce ==
  ASSUME TypeOK, HistoryOK, HistoryOK', [Next]_vars, NEW h \in Host, NodeSet(h), Mixed(h),
         NEW session \in Sessions, NEW found_ \in Findings[h], Announce(h, session, found_)
  PROVE  Mixed(h)'
<1>. DEFINE list == announced[h]
            longer == announced'[h]
            j == Len(list)
            id == NodeID(h)
            entry == data[h].entry
<1>1. /\ pc[h] = "up" /\ pc'[h] = "NodeID" /\ UNCHANGED <<process, data, index, key>>
      /\ index[h] = 1 /\ key[h] = 1
  BY DEF Announce, TypeOK
<1>2. /\ list \in Seq(Announcement) /\ longer \in Seq(Announcement) /\ Extends(longer, list)
      /\ Len(longer) = j + 1 /\ j \in Int
  BY HistoryExtends, AnnouncedStep
<1>3. ASSUME NEW k \in Index, NEW n \in DOMAIN Keys
      PROVE  Said(list, id, j, k, Keys[n], entry[k][Keys[n]])
  <2>1. CASE Current(h)
    <3>1. Mixture(list, id, j, MaxInfos + 1, 1, entry)
      BY <1>1, <2>1 DEF Mixed, Begun, At
    <3>2. UpTo(j, MaxInfos + 1, 1, k, n) = j
      BY MaxInfosIsCount DEF UpTo, Index
    <3>3. Said(list, id, UpTo(j, MaxInfos + 1, 1, k, n), k, Keys[n], entry[k][Keys[n]])
      BY <3>1 DEF Mixture
    <3>. QED
      BY <3>2, <3>3
  <2>2. CASE ~Current(h)
    <3>1. \A i \in DOMAIN list : list[i].id # id
      BY <1>1, <2>2 DEF HistoryOK, History
    <3>2. entry[k][Keys[n]] = Absent
      <4>1. data[h] = NoData /\ Keys[n] \in Field
        BY <1>1, <2>2, KeysAreFields DEF NodeSet
      <4>. QED
        BY <4>1 DEF NoData
    <3>. HIDE DEF list, id, j, entry
    <3>3. Said(list, id, j, k, Keys[n], Absent)
      BY <3>1, NeverSaid
    <3>. QED
      BY <3>2, <3>3
  <2>. QED
    BY <2>1, <2>2
<1>4. ASSUME NEW k \in Index, NEW n \in DOMAIN Keys
      PROVE  Said(longer, id, UpTo(Len(longer), 1, 1, k, n), k, Keys[n], entry[k][Keys[n]])
  <2>1. k \in Int /\ ~(k < 1) /\ n \in Int /\ ~(n < 1)
    BY KeysAreFields, MaxInfosIsCount DEF Index
  <2>2. UpTo(Len(longer), 1, 1, k, n) = j
    BY <1>2, <2>1 DEF UpTo
  <2>3. Said(list, id, j, k, Keys[n], entry[k][Keys[n]])
    BY <1>3
  <2>. HIDE DEF list, longer, id, entry
  <2>4. Said(longer, id, j, k, Keys[n], entry[k][Keys[n]])
    BY <1>2, <2>3, SaidStays
  <2>. QED
    BY <2>2, <2>4
<1>5. Mixture(longer, id, Len(longer), 1, 1, entry)
  <2>. HIDE DEF longer, id, entry
  <2>. QED
    BY <1>4 DEF Mixture
<1>6. NodeID(h)' = NodeID(h) /\ At(h)' = 1
  BY <1>1, SameProcesses DEF At
<1>. QED
  BY <1>1, <1>5, <1>6 DEF Mixed

\* A return from announce() leaves all as it was said.
LEMMA MixedByEnd ==
  ASSUME TypeOK, HistoryOK, HistoryOK', [Next]_vars, NEW h \in Host, Mixed(h),
         AnnounceSucceeds(h) \/ AnnounceFails(h)
  PROVE  /\ Mixture(announced[h], NodeID(h), Len(announced[h]), MaxInfos + 1, 1, data[h].entry)
         /\ Mixed(h)'
<1>. DEFINE list == announced[h]
            longer == announced'[h]
            j == Len(list)
            id == NodeID(h)
            entry == data[h].entry
<1>1. /\ pc[h] = "infos" /\ pc'[h] = "up" /\ data' = data /\ key'[h] = 1
      /\ Current(h) /\ NodeID(h)' = NodeID(h) /\ Len(longer) = j
      /\ index[h] = Len(Latest(h).found) + 1 /\ key[h] = 1
  BY EndStep
<1>2. /\ list \in Seq(Announcement) /\ longer \in Seq(Announcement) /\ Extends(longer, list)
      /\ j \in DOMAIN list /\ list[j] = Latest(h) /\ j \in Int
  BY <1>1, HistoryExtends, LatestTyped DEF Latest
<1>3. Mixture(list, id, j, Len(list[j].found) + 1, 1, entry)
  BY <1>1, <1>2 DEF Mixed, Begun, At
<1>4. Mixture(list, id, j, MaxInfos + 1, 1, entry)
  BY <1>2, <1>3, MixedToTheEnd
<1>5. ASSUME NEW k \in Index, NEW n \in DOMAIN Keys
      PROVE  Said(longer, id, UpTo(j, MaxInfos + 1, 1, k, n), k, Keys[n], entry[k][Keys[n]])
  <2>1. UpTo(j, MaxInfos + 1, 1, k, n) = j
    BY MaxInfosIsCount DEF UpTo, Index
  <2>2. Said(list, id, UpTo(j, MaxInfos + 1, 1, k, n), k, Keys[n], entry[k][Keys[n]])
    BY <1>4 DEF Mixture
  <2>3. Said(list, id, j, k, Keys[n], entry[k][Keys[n]])
    BY <2>1, <2>2
  <2>4. j <= Len(list)
    BY <1>2
  <2>. HIDE DEF list, longer, id, entry
  <2>5. Said(longer, id, j, k, Keys[n], entry[k][Keys[n]])
    BY <1>2, <2>3, <2>4, SaidStays
  <2>. QED
    BY <2>1, <2>5
<1>6. Mixture(longer, id, j, MaxInfos + 1, 1, entry)
  <2>. HIDE DEF longer, id, entry, j
  <2>. QED
    BY <1>5 DEF Mixture
<1>. QED
  BY <1>1, <1>4, <1>6 DEF Mixed, At

\* Every step keeps the infos as they were said.
LEMMA MixedStep ==
  ASSUME TypeOK, HistoryOK, \A h \in Host : NodeSet(h), \A h \in Host : Mixed(h),
         [Next]_vars, HistoryOK'
  PROVE  \A h \in Host : Mixed(h)'
<1>1. ASSUME NEW h \in Host, Process(h) \/ Service(h), Mixed(h)'
      PROVE  \A g \in Host : Mixed(g)'
  BY <1>1, OtherHosts, SameMixed
<1>2. ASSUME NEW h \in Host, Use(h) PROVE Mixed(h)'
  BY <1>2, NewHasNotBegun DEF Mixed, Begun
<1>3. ASSUME NEW h \in Host, AnnounceNothing(h) PROVE Mixed(h)'
  <2>1. Same(h)
    BY <1>3 DEF AnnounceNothing, Same, localVars, historyVars
  <2>. QED
    BY <2>1, SameMixed
<1>4. ASSUME NEW h \in Host, Sets(h) PROVE Mixed(h)'
  <2>1. /\ UNCHANGED <<announced, process, index, key>> /\ pc[h] \in InNode
        /\ pc'[h] \in (InNode \ {"NodeID"}) \cup {"infos"}
        /\ data'[h].entry = data[h].entry
    BY <1>4, SetsStep DEF localVars, historyVars
  <2>2. pc[h] # "down" /\ pc[h] # "up" /\ pc'[h] # "up" /\ Current(h)
    BY <2>1 DEF HistoryOK, History, Outside, InNode
  <2>3. NodeID(h)' = NodeID(h) /\ At(h)' = index[h] /\ At(h) = index[h]
    BY <2>1, <2>2, SameProcesses DEF At
  <2>. QED
    BY <2>1, <2>2, <2>3 DEF Mixed, Begun
<1>5. ASSUME NEW h \in Host, Dispose(h) \/ Crash(h) PROVE Mixed(h)'
  <2>1. pc'[h] = "down"
    BY <1>5 DEF Dispose, Crash, Down, TypeOK
  <2>. QED
    BY <2>1 DEF Mixed, Begun
<1>6. ASSUME NEW h \in Host, Service(h) PROVE Mixed(h)'
  <2>1. UNCHANGED <<pc, process, index, key, data, announced>>
    BY <1>6 DEF Service, Refresh, Expire, daemonVars, localVars, historyVars
  <2>. QED
    BY <2>1, SameProcesses DEF Mixed, Begun, At, Current, Latest
<1>7. CASE Browser \/ UNCHANGED vars
  <2>1. \A h \in Host : Same(h)
    BY <1>7, BrowserLeaves DEF Same, daemonVars, localVars, historyVars
  <2>. QED
    BY <2>1, SameMixed
<1>8. ASSUME NEW h \in Host, SetKey(h) \/ AnnounceSucceeds(h) \/ AnnounceFails(h)
      PROVE  Mixed(h)'
  BY <1>8, MixedBySetKey, MixedByEnd
<1>9. ASSUME NEW h \in Host, NEW session \in Sessions, NEW found_ \in Findings[h],
             Announce(h, session, found_)
      PROVE  Mixed(h)'
  BY <1>9, MixedByAnnounce
<1>. QED
  BY <1>1, <1>2, <1>3, <1>4, <1>5, <1>6, <1>7, <1>8, <1>9 DEF Next, Process, Sets

LatestOK == HistoryOK /\ (\A h \in Host : NodeSet(h)) /\ (\A h \in Host : Mixed(h))

\* Initially, nothing is announced.
LEMMA InitLatest == Init => LatestOK
<1>. SUFFICES ASSUME Init PROVE LatestOK
  OBVIOUS
<1>1. announced = [h \in Host |-> << >>] /\ pc = [h \in Host |-> "down"]
  BY DEF Init, Nothing
<1>2. << >> \in Seq(Announcement) /\ DOMAIN << >> = {}
  OBVIOUS
<1>3. HistoryOK
  BY <1>1, <1>2 DEF HistoryOK, History, Outside
<1>. QED
  BY <1>1, <1>3 DEF LatestOK, NodeSet, Mixed, Begun

\* The history and the pairs of the latest announcements are right at any time.
THEOREM LatestInvariant == Spec => [](TypeOK /\ LatestOK)
<1>1. Init => TypeOK /\ LatestOK
  BY InitTyped, InitLatest
<1>2. TypeOK /\ LatestOK /\ [Next]_vars => (TypeOK /\ LatestOK)'
  BY TypeStep, HistoryStep, NodeSetStep, MixedStep DEF LatestOK
<1>. QED
  BY <1>1, <1>2, PTL DEF Spec

\* A text that was set is read up to its first blank, as a type setType() knows.
LEMMA ValueIsRead ==
  ASSUME NEW f \in Field, NEW text \in Text, text # Absent
  PROVE  GetField(f, text) = AsRead(f, text)
<1>1. text \in Seq(Word) /\ text # << >>
  BY DEF Text, Absent
<1>2. Head(text) = text[1]
  BY <1>1
<1>3. \A value : GetValue(text, value) = Cut(text)
  BY <1>2 DEF GetValue, Cut
<1>. HIDE DEF Cut
<1>. QED
  BY <1>3 DEF GetField, AsRead, SetType

\* Of what was not set the constructor's value stays.
LEMMA DefaultIsRead ==
  ASSUME NEW f \in Field
  PROVE  GetField(f, Absent) = Default[f]
<1>1. Resource = "Net" /\ f = "Type" => Default[f] = <<"UNKNOWN">>
  BY DEF Default, NetDefault
<1>2. SetType(Absent) = <<"UNKNOWN">>
  BY DEF SetType, Absent
<1>. QED
  BY <1>1, <1>2 DEF GetField, GetValue

\* What is found has values for the keys that are set, and the constructor's for
\* those that are not; required ones are always set.
LEMMA FieldsAreSet ==
  ASSUME NEW h \in Host, NEW list \in Findings[h], NEW k \in DOMAIN list
  PROVE  /\ list[k] \in [Field -> Text]
         /\ \A f \in Field : IsSet(f, list[k]) => list[k][f] # Absent
         /\ \A f \in Field : ~IsSet(f, list[k]) => list[k][f] = Default[f]
         /\ \A f \in Required : f \in Field /\ IsSet(f, list[k])
         /\ "Type" \in Required
<1>1. list \in Seq([Field -> Text])
  BY FindingsTyped
<1>2. list[k] \in [Field -> Text]
  BY <1>1
<1>3. \A f \in Field : /\ list[k][f] = Absent => f \in Name
                       /\ ~IsSet(f, list[k]) => list[k][f] = Default[f]
  BY FindingsArePossible, Zenon
<1>4. \A f \in Field \cap Name : Default[f] = Absent
  BY KnownResource DEF Field, Default, GPUDefault, NetDefault, Name
<1>5. ASSUME NEW f \in Field, IsSet(f, list[k]) PROVE list[k][f] # Absent
  <2>1. f \in Name => list[k][f] # Default[f]
    BY <1>5 DEF IsSet, Optional, View, Name
  <2>. QED
    BY <1>3, <1>4, <2>1
<1>6. "Type" \in Required
  BY DEF Required, Optional, View, Name, Field, Default, GPUDefault, NetDefault
<1>7. \A f \in Required : f \in Field /\ IsSet(f, list[k])
  BY DEF Required, IsSet
<1>. QED
  BY <1>2, <1>3, <1>5, <1>6, <1>7

\* A key is of an info, and has its place among the keys.
LEMMA FieldIsKey ==
  ASSUME NEW f \in Field
  PROVE  \E n \in DOMAIN Keys : Keys[n] = f
BY KeysAreFields

\* What the last announcement says is what is said.
LEMMA LastIsSaid ==
  ASSUME NEW list \in Seq(Announcement), NEW j \in DOMAIN list,
         NEW id, NEW k, NEW f, HasValue(list, id, j, k, f),
         NEW text, Said(list, id, j, k, f, text)
  PROVE  text = list[j].found[k][f]
<1>1. j <= j /\ \A i \in DOMAIN list : i <= j /\ i # j => i < j
  OBVIOUS
<1>. QED
  BY <1>1 DEF Said

\* When an announcement is complete every key has what was said last.
LEMMA AllIsSaid ==
  ASSUME NEW list, NEW id, NEW j, NEW entry, Mixture(list, id, j, MaxInfos + 1, 1, entry),
         NEW k \in Index, NEW f \in Field
  PROVE  Said(list, id, j, k, f, entry[k][f])
<1>1. UpTo(j, MaxInfos + 1, 1, k, 1) = j /\ \A n : UpTo(j, MaxInfos + 1, 1, k, n) = j
  BY MaxInfosIsCount DEF UpTo, Index
<1>2. PICK n \in DOMAIN Keys : Keys[n] = f
  BY FieldIsKey
<1>3. Said(list, id, UpTo(j, MaxInfos + 1, 1, k, n), k, Keys[n], entry[k][Keys[n]])
  BY DEF Mixture
<1>. QED
  BY <1>1, <1>2, <1>3

\* Whatever a process has announced before, when an announcement returns true its
\* record has as many infos, with their required fields, and keeps them until the
\* process announces again or is gone.
THEOREM LatestArePublished == Spec => []LatestIsPublished
<1>1. TypeOK /\ LatestOK => LatestIsPublished
  <2>. SUFFICES ASSUME TypeOK, LatestOK, NEW h \in Host, LatestSucceeded(h)
                PROVE  LET read == GetInfos(h, record[h])
                           latest == Last(announced[h])
                       IN /\ Published(h)
                          /\ DOMAIN read = DOMAIN latest.found
                          /\ \A k \in DOMAIN read : \A f \in Required :
                               read[k].resource[f] = AsRead(f, latest.found[k][f])
    BY DEF LatestIsPublished
  <2>. DEFINE a == Latest(h)
              list == announced[h]
              j == Len(list)
              entry == data[h].entry
  <2>1. Last(list) = a /\ pc[h] = "up" /\ Current(h) /\ a.returned
    BY DEF LatestSucceeded, Last, Latest, Current
  <2>2. /\ record[h] = data[h] /\ data[h] \in Data /\ data[h].Count = Len(a.found)
        /\ Mixture(list, NodeID(h), j, MaxInfos + 1, 1, entry)
    BY <2>1 DEF LatestOK, NodeSet, Mixed, Begun, At, TypeOK, Outside
  <2>3. Published(h)
    BY <2>2, NoRecordIsNoData DEF Published
  <2>4. /\ a.found \in Findings[h] /\ DOMAIN a.found = 1 .. Len(a.found)
        /\ \A k \in DOMAIN a.found : k \in Index
        /\ list \in Seq(Announcement) /\ j \in DOMAIN list /\ list[j] = a /\ a.id = NodeID(h)
    <3>1. a.found \in Seq([Field -> Text]) /\ Len(a.found) \in 0 .. MaxInfos
      BY <2>1, LatestTyped DEF LatestOK
    <3>2. DOMAIN a.found = 1 .. Len(a.found) /\ \A k \in DOMAIN a.found : k \in Index
      BY <3>1, MaxInfosIsCount DEF Index
    <3>. QED
      BY <2>1, <3>2, LatestTyped DEF LatestOK, HistoryOK, Latest, Current
  <2>5. ASSUME NEW k \in DOMAIN a.found, NEW f \in Required
        PROVE  entry[k][f] = a.found[k][f] /\ a.found[k][f] \in Text /\ a.found[k][f] # Absent
               /\ f \in Field
    <3>. HIDE DEF a, list, j, entry
    <3>1. /\ a.found[k] \in [Field -> Text] /\ f \in Field /\ IsSet(f, a.found[k])
          /\ a.found[k][f] # Absent
      BY <2>4, FieldsAreSet
    <3>2. HasValue(list, NodeID(h), j, k, f)
      BY <2>4, <3>1 DEF HasValue
    <3>3. Said(list, NodeID(h), j, k, f, entry[k][f])
      BY <2>2, <2>4, <3>1, AllIsSaid
    <3>4. entry[k][f] = list[j].found[k][f]
      BY <2>4, <3>2, <3>3, LastIsSaid
    <3>. QED
      BY <2>4, <3>1, <3>4
  <2>6. Counted(record[h]) = 1 .. Len(a.found)
    <3>1. ASSUME NEW k \in DOMAIN a.found PROVE entry[k]["Type"] # Absent
      <4>1. "Type" \in Required
        BY DEF Required, Optional, View, Name, Field, Default, GPUDefault, NetDefault
      <4>. QED
        BY <2>5, <4>1
    <3>. QED
      BY <2>2, <2>4, <3>1 DEF Counted
  <2>7. ASSUME NEW k \in DOMAIN a.found, NEW f \in Required
        PROVE  GetInfo(h, record[h], k).resource[f] = AsRead(f, a.found[k][f])
    <3>1. GetField(f, a.found[k][f]) = AsRead(f, a.found[k][f])
      BY <2>5, ValueIsRead
    <3>. QED
      BY <2>2, <2>5, <3>1 DEF GetInfo
  <2>. DEFINE read == GetInfos(h, record[h])
  <2>8. /\ DOMAIN read = 1 .. Len(a.found)
        /\ \A k \in 1 .. Len(a.found) : read[k] = GetInfo(h, record[h], k)
    BY <2>6 DEF GetInfos
  <2>. HIDE DEF a, read
  <2>9. /\ DOMAIN read = DOMAIN a.found
        /\ \A k \in DOMAIN read : \A f \in Required :
             read[k].resource[f] = AsRead(f, a.found[k][f])
    BY <2>4, <2>7, <2>8
  <2>. QED
    BY <2>1, <2>3, <2>9 DEF read
<1>. QED
  BY <1>1, LatestInvariant, PTL

-------------------------------------------------------------------------------
(* Hosts whose processes announce once each.                               *)

Written(a, k, f) ==
  IF k \in DOMAIN a.found /\ IsSet(f, a.found[k]) THEN a.found[k][f] ELSE Absent

\* The pairs a new service object has when all of an announcement is set.
Pairs(a) ==
  [NodeID |-> a.id, Hostname |-> Absent, Session |-> a.session, Count |-> Len(a.found),
   entry |-> [k \in Index |-> [f \in Field |-> Written(a, k, f)]]]

OfHistory(list, d) == \E i \in DOMAIN list : d = Pairs(list[i])

\* Then what is published is one announcement, and while the current process sets its
\* own nothing of it is published.
SetOnce(h) ==
  AnnouncesOnce(h) =>
    /\ record[h] # NoRecord => OfHistory(announced[h], record[h])
    /\ pc[h] \notin Outside /\ record[h] # NoRecord => record[h].NodeID # NodeID(h)

\* The history that grows: pairs of it stay pairs of it.
LEMMA OfHistoryGrows ==
  ASSUME TypeOK, HistoryOK, [Next]_vars, NEW h \in Host
  PROVE  /\ \A d : OfHistory(announced[h], d) => OfHistory(announced'[h], d)
         /\ AnnouncesOnce(h)' => AnnouncesOnce(h)
<1>1. \A i \in DOMAIN announced[h] :
        /\ i \in DOMAIN announced'[h] /\ announced'[h][i].id = announced[h][i].id
        /\ announced'[h][i].session = announced[h][i].session
        /\ announced'[h][i].found = announced[h][i].found
  BY HistoryGrows
<1>2. ASSUME NEW d, OfHistory(announced[h], d) PROVE OfHistory(announced'[h], d)
  <2>1. PICK i \in DOMAIN announced[h] : d = Pairs(announced[h][i])
    BY <1>2 DEF OfHistory
  <2>2. Pairs(announced'[h][i]) = Pairs(announced[h][i])
    BY <1>1 DEF Pairs, Written
  <2>. QED
    BY <1>1, <2>1, <2>2 DEF OfHistory
<1>3. ASSUME AnnouncesOnce(h)' PROVE AnnouncesOnce(h)
  BY <1>1, <1>3 DEF AnnouncesOnce
<1>. QED
  BY <1>2, <1>3

\* Pairs are the same if their values are.
LEMMA SameData ==
  ASSUME NEW d \in Data, NEW e \in Data,
         d.NodeID = e.NodeID, d.Hostname = e.Hostname, d.Session = e.Session,
         d.Count = e.Count, \A k \in Index : \A f \in Field : d.entry[k][f] = e.entry[k][f]
  PROVE  d = e
<1>1. \A k \in Index : d.entry[k] = e.entry[k]
  BY DEF Data
<1>2. d.entry = e.entry
  BY <1>1 DEF Data
<1>. QED
  BY <1>2 DEF Data

\* The pairs of an announcement are pairs.
LEMMA PairsTyped ==
  ASSUME NEW a \in Announcement, Len(a.found) \in 0 .. MaxInfos
  PROVE  /\ Pairs(a) \in Data
         /\ \A k \in Index : \A f \in Field : Pairs(a).entry[k][f] = Written(a, k, f)
<1>1. ASSUME NEW k \in Index, NEW f \in Field PROVE Written(a, k, f) \in Text
  <2>1. a.found \in Seq([Field -> Text])
    BY DEF Announcement
  <2>2. k \in DOMAIN a.found => a.found[k] \in [Field -> Text]
    BY <2>1
  <2>. QED
    BY <2>2, StartTyped DEF Written
<1>. DEFINE entry == [k \in Index |-> [f \in Field |-> Written(a, k, f)]]
<1>2. /\ entry \in [Index -> [Field -> Text]]
      /\ \A k \in Index : \A f \in Field : entry[k][f] = Written(a, k, f)
  BY <1>1
<1>3. a.id \in Text /\ a.session \in Text /\ Absent \in Text
  BY StartTyped DEF Announcement
<1>4. Pairs(a) = [NodeID |-> a.id, Hostname |-> Absent, Session |-> a.session,
                  Count |-> Len(a.found), entry |-> entry]
  BY DEF Pairs
<1>. HIDE DEF entry
<1>. QED
  BY <1>2, <1>3, <1>4 DEF Data

\* Of a process that announces once this announcement is all that was said.
LEMMA OnceIsSaid ==
  ASSUME NEW list \in Seq(Announcement), NEW j \in DOMAIN list,
         \A i \in DOMAIN list : list[i].id = list[j].id => i = j,
         NEW k, NEW f, NEW text, Said(list, list[j].id, j, k, f, text)
  PROVE  text = Written(list[j], k, f)
<1>1. \A i \in DOMAIN list :
        HasValue(list, list[j].id, i, k, f) =>
          i = j /\ k \in DOMAIN list[j].found /\ IsSet(f, list[j].found[k])
  BY DEF HasValue
<1>2. j <= j
  OBVIOUS
<1>3. k \in DOMAIN list[j].found /\ IsSet(f, list[j].found[k]) =>
        HasValue(list, list[j].id, j, k, f)
  BY DEF HasValue
<1>. QED
  BY <1>1, <1>2, <1>3 DEF Said, Written

\* When all is set, what a process that announces once has set is its announcement.
LEMMA CompleteIsPairs ==
  ASSUME TypeOK, Names, LatestOK, NEW h \in Host, AnnouncesOnce(h), Current(h),
         pc[h] \in {"infos", "up"},
         Mixture(announced[h], NodeID(h), Len(announced[h]), MaxInfos + 1, 1, data[h].entry)
  PROVE  data[h] = Pairs(Latest(h)) /\ OfHistory(announced[h], data[h])
<1>. DEFINE list == announced[h]
            j == Len(list)
            a == Latest(h)
            d == data[h]
<1>1. /\ list \in Seq(Announcement) /\ j \in DOMAIN list /\ list[j] = a
      /\ a \in Announcement /\ Len(a.found) \in 0 .. MaxInfos /\ a.id = NodeID(h)
  BY LatestTyped DEF LatestOK, HistoryOK, Latest, Current
<1>2. /\ d \in Data /\ d.NodeID = a.id /\ d.Hostname = Absent
      /\ d.Session = a.session /\ d.Count = Len(a.found)
  BY <1>1 DEF TypeOK, Names, Unnamed, LatestOK, NodeSet, Begun
<1>3. \A i \in DOMAIN list : list[i].id = list[j].id => i = j
  BY <1>1 DEF AnnouncesOnce
<1>4. Mixture(list, NodeID(h), j, MaxInfos + 1, 1, d.entry)
  OBVIOUS
<1>. HIDE DEF list, j, a, d
<1>5. ASSUME NEW k \in Index, NEW f \in Field PROVE d.entry[k][f] = Pairs(a).entry[k][f]
  <2>1. Said(list, NodeID(h), j, k, f, d.entry[k][f])
    BY <1>4, AllIsSaid
  <2>2. d.entry[k][f] = Written(a, k, f)
    BY <1>1, <1>3, <2>1, OnceIsSaid
  <2>. QED
    BY <1>1, <2>2, PairsTyped
<1>6. /\ Pairs(a) \in Data /\ Pairs(a).NodeID = a.id /\ Pairs(a).Hostname = Absent
      /\ Pairs(a).Session = a.session /\ Pairs(a).Count = Len(a.found)
  <2>1. Pairs(a) \in Data
    BY <1>1, PairsTyped
  <2>. QED
    BY <2>1 DEF Pairs
<1>7. d = Pairs(a)
  BY <1>2, <1>5, <1>6, SameData
<1>8. OfHistory(list, d)
  BY <1>1, <1>7 DEF OfHistory
<1>. QED
  BY <1>7, <1>8 DEF list, a, d

\* What a host keeps leaves it one announcement.
LEMMA SameSetOnce ==
  ASSUME NEW h \in Host, Same(h)
  PROVE  SetOnce(h)' = SetOnce(h)
<1>1. NodeID(h)' = NodeID(h)
  BY SameHistory
<1>. QED
  BY <1>1 DEF Same, SetOnce, AnnouncesOnce

\* A record that says it is of the current process is its announcement.
LEMMA RecordOfCurrent ==
  ASSUME TypeOK, HistoryOK, NEW h \in Host, pc[h] # "down",
         NEW d, OfHistory(announced[h], d), d.NodeID = NodeID(h)
  PROVE  Current(h)
<1>1. PICK i \in DOMAIN announced[h] : d = Pairs(announced[h][i])
  BY DEF OfHistory
<1>2. d.NodeID = announced[h][i].id
  BY <1>1 DEF Pairs
<1>. QED
  BY <1>2 DEF HistoryOK, History

\* A process that announces once publishes nothing but this announcement, and nothing
\* until it is complete.
LEMMA SetOnceStep ==
  ASSUME TypeOK, Names, LatestOK, \A h \in Host : SetOnce(h), [Next]_vars, LatestOK'
  PROVE  \A h \in Host : SetOnce(h)'
<1>0. HistoryOK /\ HistoryOK'
  BY DEF LatestOK
<1>1. ASSUME NEW h \in Host, Process(h) \/ Service(h), SetOnce(h)'
      PROVE  \A g \in Host : SetOnce(g)'
  BY <1>0, <1>1, OtherHosts, SameSetOnce
<1>2. ASSUME NEW h \in Host, AnnouncesOnce(h)'
      PROVE  /\ AnnouncesOnce(h)
             /\ record[h] # NoRecord => OfHistory(announced[h], record[h])
             /\ pc[h] \notin Outside /\ record[h] # NoRecord => record[h].NodeID # NodeID(h)
             /\ \A d : OfHistory(announced[h], d) => OfHistory(announced'[h], d)
  BY <1>0, <1>2, OfHistoryGrows DEF SetOnce
<1>3. ASSUME NEW h \in Host, record'[h] \in {record[h], NoRecord},
             pc'[h] \in Outside \/ (pc[h] \notin Outside /\ NodeID(h)' = NodeID(h))
      PROVE  SetOnce(h)'
  BY <1>2, <1>3 DEF SetOnce
<1>4. ASSUME NEW h \in Host, Use(h) \/ AnnounceNothing(h) \/ Dispose(h) \/ Crash(h)
      PROVE  SetOnce(h)'
  <2>1. pc'[h] \in Outside /\ record'[h] \in {record[h], NoRecord}
    BY <1>4 DEF Use, AnnounceNothing, Dispose, Crash, Down, Withdrawn, Outside, TypeOK
  <2>. QED
    BY <1>3, <2>1
<1>5. ASSUME NEW h \in Host, Sets(h) \/ SetKey(h) PROVE SetOnce(h)'
  <2>1. pc[h] \notin Outside /\ UNCHANGED <<record, process>>
    BY <1>5, SetsStep, SetKeyStep DEF InNode, Outside
  <2>. QED
    BY <1>3, <2>1, SameProcesses
<1>6. ASSUME NEW h \in Host, NEW session \in Sessions, NEW found_ \in Findings[h],
             Announce(h, session, found_), AnnouncesOnce(h)'
      PROVE  SetOnce(h)'
  <2>1. /\ Latest(h)' = [id |-> NodeID(h), session |-> session, found |-> found_,
                         returned |-> FALSE]
        /\ \A i \in DOMAIN announced[h] : announced'[h][i] = announced[h][i]
        /\ Len(announced'[h]) = Len(announced[h]) + 1
        /\ announced' \in [Host -> Seq(Announcement)]
    BY <1>0, <1>6, AnnouncedStep
  <2>2. pc[h] = "up" /\ UNCHANGED <<process, record>>
    BY <1>6 DEF Announce
  <2>3. /\ Len(announced[h]) \in Nat /\ Len(announced'[h]) \in DOMAIN announced'[h]
        /\ DOMAIN announced[h] = 1 .. Len(announced[h])
        /\ DOMAIN announced[h] \subseteq DOMAIN announced'[h]
    BY <1>0, <2>1 DEF HistoryOK
  <2>4. ASSUME NEW i \in DOMAIN announced[h] PROVE announced[h][i].id # NodeID(h)
    <3>1. announced'[h][Len(announced'[h])].id = NodeID(h)
      BY <2>1 DEF Latest
    <3>2. i # Len(announced'[h]) /\ i \in DOMAIN announced'[h]
      BY <2>1, <2>3
    <3>. QED
      BY <1>6, <2>1, <2>3, <3>1, <3>2 DEF AnnouncesOnce
  <2>5. ~Current(h)
    <3>1. announced[h] # << >> => Len(announced[h]) \in DOMAIN announced[h]
      BY <1>0 DEF HistoryOK
    <3>. QED
      BY <2>4, <3>1 DEF Current, Latest
  <2>6. record[h] # NoRecord => record[h].NodeID # NodeID(h)
    BY <1>0, <1>2, <1>6, <2>2, <2>5, RecordOfCurrent
  <2>. QED
    BY <1>2, <1>6, <2>2, <2>6, SameProcesses DEF SetOnce
<1>7. ASSUME NEW h \in Host, AnnounceSucceeds(h) \/ AnnounceFails(h), AnnouncesOnce(h)'
      PROVE  SetOnce(h)'
  <2>1. /\ pc[h] = "infos" /\ pc'[h] = "up" /\ Current(h)
        /\ record' = record \/ record' = [record EXCEPT ![h] = data[h]]
    BY <1>0, <1>7, EndStep
  <2>2. Mixture(announced[h], NodeID(h), Len(announced[h]), MaxInfos + 1, 1, data[h].entry)
    BY <1>0, <1>7, MixedByEnd DEF LatestOK
  <2>3. OfHistory(announced[h], data[h])
    BY <1>2, <1>7, <2>1, <2>2, CompleteIsPairs
  <2>4. record'[h] = record[h] \/ record'[h] = data[h]
    BY <2>1 DEF TypeOK
  <2>. QED
    BY <1>2, <1>7, <2>1, <2>3, <2>4 DEF SetOnce, Outside
<1>8. ASSUME NEW h \in Host, Service(h), AnnouncesOnce(h)' PROVE SetOnce(h)'
  <2>1. UNCHANGED <<pc, process, announced>>
    BY <1>8 DEF Service, Refresh, Expire, daemonVars, historyVars
  <2>2. CASE record'[h] = NoRecord
    BY <2>2 DEF SetOnce
  <2>3. CASE Refresh(h)
    <3>1. record'[h] = data[h] /\ ByCurrentProcess(h)
      BY <2>3 DEF Refresh, TypeOK
    <3>2. pc[h] = "up"
      BY <1>2, <1>8, <3>1 DEF ByCurrentProcess, Published, TypeOK, Outside
    <3>3. Current(h)
      BY <1>0, <1>2, <1>8, <3>1, <3>2, RecordOfCurrent DEF ByCurrentProcess, Published
    <3>4. Mixture(announced[h], NodeID(h), Len(announced[h]), MaxInfos + 1, 1, data[h].entry)
      BY <3>2, <3>3 DEF LatestOK, Mixed, Begun, At, TypeOK, Outside
    <3>5. OfHistory(announced[h], data[h])
      BY <1>2, <1>8, <3>2, <3>3, <3>4, CompleteIsPairs
    <3>. QED
      BY <2>1, <3>1, <3>2, <3>5 DEF SetOnce, Outside
  <2>. QED
    BY <1>8, <2>2, <2>3 DEF Service, Expire, TypeOK
<1>9. CASE Browser \/ UNCHANGED vars
  <2>1. \A h \in Host : Same(h)
    BY <1>9, BrowserLeaves DEF Same, daemonVars, localVars, historyVars
  <2>. QED
    BY <2>1, SameSetOnce
<1>10. \A h \in Host : ~AnnouncesOnce(h)' => SetOnce(h)'
  BY DEF SetOnce
<1>. QED
  BY <1>1, <1>4, <1>5, <1>6, <1>7, <1>8, <1>9, <1>10 DEF Next, Process, Sets

\* A default is one word, and read as it is.
LEMMA DefaultAsRead ==
  ASSUME NEW f \in Field, f # "Type"
  PROVE  AsRead(f, Default[f]) = Default[f]
<1>1. \A w : Cut(<<w>>) = <<w>>
  BY DEF Cut, Absent
<1>2. Cut(Absent) = Absent
  BY DEF Cut
<1>3. Default[f] = Absent \/ \E w : Default[f] = <<w>>
  BY KnownResource DEF Field, Default, GPUDefault, NetDefault
<1>4. Cut(Default[f]) = Default[f]
  BY <1>1, <1>2, <1>3
<1>. QED
  BY <1>4 DEF AsRead

\* A resource is read as it was announced, what was left out included.
LEMMA ResourceIsRead ==
  ASSUME NEW h \in Host, NEW a, a.found \in Findings[h], NEW k \in DOMAIN a.found,
         NEW f \in Field
  PROVE  GetField(f, Written(a, k, f)) = AsRead(f, a.found[k][f])
<1>1. /\ a.found[k] \in [Field -> Text]
      /\ IsSet(f, a.found[k]) => a.found[k][f] # Absent
      /\ ~IsSet(f, a.found[k]) => a.found[k][f] = Default[f]
      /\ "Type" \in Required /\ \A g \in Required : IsSet(g, a.found[k])
  BY FieldsAreSet
<1>2. CASE IsSet(f, a.found[k])
  <2>1. Written(a, k, f) = a.found[k][f]
    BY <1>2 DEF Written
  <2>2. a.found[k][f] \in Text
    BY <1>1
  <2>. QED
    BY <1>1, <1>2, <2>1, <2>2, ValueIsRead
<1>3. CASE ~IsSet(f, a.found[k])
  <2>1. Written(a, k, f) = Absent
    BY <1>3 DEF Written
  <2>2. f # "Type" /\ a.found[k][f] = Default[f]
    BY <1>1, <1>3
  <2>. QED
    BY <2>1, <2>2, DefaultIsRead, DefaultAsRead
<1>. QED
  BY <1>2, <1>3

\* What was announced is read as it was announced.
LEMMA PairsAreRead ==
  ASSUME NEW h \in Host, NEW a \in Announcement, a.found \in Findings[h],
         NEW u, a.id = <<u>>
  PROVE  /\ Counted(Pairs(a)) = DOMAIN a.found
         /\ \A k \in DOMAIN a.found : GetInfo(h, Pairs(a), k) = Meant(h, a, k)
<1>. DEFINE n == Len(a.found)
            d == Pairs(a)
<1>1. /\ DOMAIN a.found = 1 .. n /\ n \in 0 .. MaxInfos /\ 1 .. n \subseteq Index
  BY FindingsTyped, MaxInfosIsCount DEF Index
<1>2. /\ d.NodeID = a.id /\ d.Hostname = Absent /\ d.Session = a.session /\ d.Count = n
      /\ \A k \in 1 .. n : \A f \in Field : d.entry[k][f] = Written(a, k, f)
  BY <1>1, PairsTyped DEF Pairs
<1>3. ASSUME NEW k \in DOMAIN a.found
      PROVE  d.entry[k]["Type"] # Absent
  <2>1. "Type" \in Field /\ IsSet("Type", a.found[k]) /\ a.found[k]["Type"] # Absent
    BY FieldsAreSet
  <2>2. Written(a, k, "Type") = a.found[k]["Type"]
    BY <2>1 DEF Written
  <2>. QED
    BY <1>1, <1>2, <2>1, <2>2
<1>4. ASSUME NEW k \in DOMAIN a.found PROVE GetInfo(h, d, k) = Meant(h, a, k)
  <2>1. GetValue(d.NodeID, <<h>>) = a.id
    <3>1. <<u>> # << >> /\ Head(<<u>>) = u
      OBVIOUS
    <3>. QED
      BY <1>2, <3>1 DEF GetValue, Absent
  <2>2. GetValue(d.Hostname, <<h>>) = <<h>>
    BY <1>2 DEF GetValue
  <2>3. GetValue(d.Session, Local) = IF a.session = Absent THEN Local ELSE Cut(a.session)
    <3>1. a.session \in Seq(Word)
      BY DEF Announcement, Text
    <3>2. a.session # << >> => Head(a.session) = a.session[1]
      BY <3>1
    <3>. QED
      BY <1>2, <3>2 DEF GetValue, Cut, Absent
  <2>4. [f \in Field |-> GetField(f, d.entry[k][f])]
          = [f \in Field |-> AsRead(f, a.found[k][f])]
    <3>1. ASSUME NEW f \in Field
          PROVE  GetField(f, d.entry[k][f]) = AsRead(f, a.found[k][f])
      BY <1>1, <1>2, ResourceIsRead
    <3>. QED
      BY <3>1
  <2>. HIDE DEF d
  <2>. QED
    BY <2>1, <2>2, <2>3, <2>4 DEF GetInfo, Meant
<1>5. Counted(d) = DOMAIN a.found
  BY <1>1, <1>2, <1>3 DEF Counted
<1>. QED
  BY <1>4, <1>5

\* A browser reads of one announcement what it was made with.
LEMMA AnnouncementIsRead ==
  ASSUME TypeOK, HistoryOK, NEW h \in Host, NEW i \in DOMAIN announced[h]
  PROVE  LET a == announced[h][i] IN
           /\ Counted(Pairs(a)) = DOMAIN a.found
           /\ \A k \in DOMAIN a.found : GetInfo(h, Pairs(a), k) = Meant(h, a, k)
<1>. DEFINE a == announced[h][i]
<1>1. a \in Announcement /\ a.found \in Findings[h] /\ a.id \in Drawn(h)
  BY DEF HistoryOK, History
<1>2. PICK u : a.id = <<u>>
  BY <1>1 DEF Drawn
<1>. HIDE DEF a
<1>3. Counted(Pairs(a)) = DOMAIN a.found
  BY <1>1, <1>2, PairsAreRead
<1>4. \A k \in DOMAIN a.found : GetInfo(h, Pairs(a), k) = Meant(h, a, k)
  BY <1>1, <1>2, PairsAreRead
<1>. QED
  BY <1>3, <1>4 DEF a

OnceOK == \A h \in Host : SetOnce(h)

\* Initially, nothing is set and nothing published.
LEMMA InitOnce == Init => OnceOK
BY DEF Init, Nothing, NothingHeard, OnceOK, SetOnce, Outside

\* Processes that announce once publish one announcement, complete or not at all.
THEOREM OnceInvariant == Spec => [](TypeOK /\ Names /\ LatestOK /\ OnceOK)
<1>1. TypeOK /\ Names /\ LatestOK /\ LatestOK' /\ OnceOK /\ [Next]_vars => OnceOK'
  BY SetOnceStep DEF OnceOK
<1>. QED
  BY <1>1, InitOnce, LatestInvariant, NamesInvariant, PTL DEF Spec

\* When the first announce() of a process has succeeded, its record gives every
\* info it was called with, with all fields, and nothing of an earlier process.
THEOREM FirstArePublished == Spec => []FirstIsPublished
<1>1. TypeOK /\ Names /\ LatestOK => FirstIsPublished
  <2>. SUFFICES ASSUME TypeOK, Names, LatestOK, NEW h \in Host,
                       LatestSucceeded(h), AnnouncesOnce(h)
                PROVE  Published(h) /\ ReadAs(h, Last(announced[h]), GetInfos(h, record[h]))
    BY DEF FirstIsPublished
  <2>. DEFINE a == Latest(h)
  <2>1. /\ Last(announced[h]) = a /\ pc[h] = "up" /\ Current(h) /\ a.returned
    BY DEF LatestSucceeded, Last, Latest, Current
  <2>2. /\ record[h] = data[h] /\ data[h] \in Data
        /\ Mixture(announced[h], NodeID(h), Len(announced[h]), MaxInfos + 1, 1, data[h].entry)
    BY <2>1 DEF LatestOK, NodeSet, Mixed, Begun, At, TypeOK, Outside
  <2>3. data[h] = Pairs(a)
    BY <2>1, <2>2, CompleteIsPairs
  <2>4. Published(h)
    BY <2>2, NoRecordIsNoData DEF Published
  <2>5. Len(announced[h]) \in DOMAIN announced[h]
    BY <2>1, LatestTyped DEF LatestOK
  <2>6. /\ Counted(Pairs(a)) = DOMAIN a.found
        /\ \A k \in DOMAIN a.found : GetInfo(h, Pairs(a), k) = Meant(h, a, k)
    BY <2>5, AnnouncementIsRead DEF LatestOK, Latest
  <2>. HIDE DEF a
  <2>7. ReadAs(h, a, GetInfos(h, Pairs(a)))
    BY <2>6 DEF ReadAs, GetInfos
  <2>. QED
    BY <2>1, <2>2, <2>3, <2>4, <2>7
<1>. QED
  BY <1>1, OnceInvariant, PTL

-------------------------------------------------------------------------------
(* What the browser hears and reads of hosts that announce once.           *)

\* The infos as they were before marking.
Unmarked(h, read) == [k \in DOMAIN read |-> [read[k] EXCEPT !.nodeName = <<h>>]]

ReadOf(h, list, read) == \E i \in DOMAIN list : read = GetInfos(h, Pairs(list[i]))

\* It is always one announcement, and complete.
HeardOnce(h) ==
  AnnouncesOnce(h) =>
    /\ heard[h] # NoRecord => OfHistory(announced[h], heard[h])
    /\ infos[h] # << >> => ReadOf(h, announced[h], Unmarked(h, infos[h]))
    /\ scan = "local" /\ infos[h] # << >> => ReadOf(h, announced[h], infos[h])

\* What was read of an announcement stays read of it.
LEMMA ReadOfGrows ==
  ASSUME TypeOK, HistoryOK, [Next]_vars, NEW h \in Host,
         NEW read, ReadOf(h, announced[h], read)
  PROVE  ReadOf(h, announced'[h], read)
<1>1. PICK i \in DOMAIN announced[h] : read = GetInfos(h, Pairs(announced[h][i]))
  BY DEF ReadOf
<1>2. /\ i \in DOMAIN announced'[h] /\ announced'[h][i].id = announced[h][i].id
      /\ announced'[h][i].session = announced[h][i].session
      /\ announced'[h][i].found = announced[h][i].found
  BY HistoryGrows
<1>3. Pairs(announced'[h][i]) = Pairs(announced[h][i])
  BY <1>2 DEF Pairs, Written
<1>. QED
  BY <1>1, <1>2, <1>3 DEF ReadOf

\* What is read of an announcement is not marked.
LEMMA ReadIsUnmarked ==
  ASSUME NEW h, NEW a
  PROVE  Unmarked(h, GetInfos(h, Pairs(a))) = GetInfos(h, Pairs(a))
<1>. DEFINE d == Pairs(a)
            read == GetInfos(h, d)
<1>1. d.Hostname = Absent
  BY DEF Pairs
<1>. HIDE DEF d
<1>2. \A k : [GetInfo(h, d, k) EXCEPT !.nodeName = <<h>>] = GetInfo(h, d, k)
  BY <1>1 DEF GetInfo, GetValue
<1>3. DOMAIN read = Counted(d) /\ \A k \in Counted(d) : read[k] = GetInfo(h, d, k)
  BY DEF GetInfos
<1>4. [k \in Counted(d) |-> [read[k] EXCEPT !.nodeName = <<h>>]]
        = [k \in Counted(d) |-> GetInfo(h, d, k)]
  BY <1>2, <1>3
<1>5. Unmarked(h, read) = read
  BY <1>3, <1>4 DEF Unmarked, GetInfos
<1>. QED
  BY <1>5 DEF d

\* Marking is undone by unmarking.
LEMMA MarkedIsUnmarked ==
  ASSUME NEW h \in Host, NEW read
  PROVE  Unmarked(h, Mark(read)[h]) = Unmarked(h, infos[h])
<1>. DEFINE marked == Mark(read)[h]
<1>1. /\ DOMAIN marked = DOMAIN infos[h]
      /\ \A k \in DOMAIN infos[h] :
           \/ marked[k] = infos[h][k]
           \/ marked[k] = [infos[h][k] EXCEPT !.nodeName = Absent]
  BY DEF Mark
<1>2. \A info : [[info EXCEPT !.nodeName = Absent] EXCEPT !.nodeName = <<h>>]
                  = [info EXCEPT !.nodeName = <<h>>]
  OBVIOUS
<1>. HIDE DEF marked
<1>3. \A k \in DOMAIN infos[h] :
        [marked[k] EXCEPT !.nodeName = <<h>>] = [infos[h][k] EXCEPT !.nodeName = <<h>>]
  BY <1>1, <1>2
<1>4. Unmarked(h, marked) = Unmarked(h, infos[h])
  BY <1>1, <1>3 DEF Unmarked
<1>. QED
  BY <1>4 DEF marked

\* Every step keeps what is heard and read the one announcement.
LEMMA HeardOnceStep ==
  ASSUME TypeOK, HistoryOK, OnceOK, \A h \in Host : HeardOnce(h), [Next]_vars
  PROVE  \A h \in Host : HeardOnce(h)'
<1>1. ASSUME NEW h \in Host
      PROVE  /\ \A d : OfHistory(announced[h], d) => OfHistory(announced'[h], d)
             /\ \A read : ReadOf(h, announced[h], read) => ReadOf(h, announced'[h], read)
             /\ AnnouncesOnce(h)' => AnnouncesOnce(h)
  BY OfHistoryGrows, ReadOfGrows
<1>2. CASE UNCHANGED browserVars
  BY <1>1, <1>2 DEF browserVars, HeardOnce
<1>3. CASE Discover
  BY <1>3 DEF Discover, HeardOnce, Nothing, NothingHeard
<1>4. ASSUME NEW g \in Host, Hear(g) PROVE \A h \in Host : HeardOnce(h)'
  <2>1. UNCHANGED <<record, scan, infos, announced>> /\ heard' = [heard EXCEPT ![g] = record[g]]
    BY <1>4 DEF Hear, historyVars
  <2>2. \A h \in Host : heard'[h] = heard[h] \/ heard'[h] = record[h]
    BY <2>1 DEF TypeOK
  <2>. QED
    BY <2>1, <2>2 DEF HeardOnce, OnceOK, SetOnce, AnnouncesOnce
<1>5. ASSUME NEW h \in Host, AnnouncesOnce(h), Read(h) # << >>
      PROVE  ReadOf(h, announced[h], Read(h)) /\ Unmarked(h, Read(h)) = Read(h)
  <2>1. OfHistory(announced[h], heard[h]) /\ Read(h) = GetInfos(h, heard[h])
    BY <1>5 DEF Read, HeardOnce
  <2>2. PICK i \in DOMAIN announced[h] : heard[h] = Pairs(announced[h][i])
    BY <2>1 DEF OfHistory
  <2>. QED
    BY <2>1, <2>2, ReadIsUnmarked DEF ReadOf
<1>6. CASE EndScan
  <2>1. /\ announced' = announced
        /\ \A h \in Host : infos'[h] = Read(h) /\ heard'[h] = NoRecord
    BY <1>6 DEF EndScan, ReadAll, historyVars, NothingHeard
  <2>. QED
    BY <1>5, <2>1 DEF HeardOnce, AnnouncesOnce
<1>7. CASE EndLocalScan
  <2>1. /\ announced' = announced /\ scan' = "idle" /\ scan = "local"
        /\ \A h \in Host : infos'[h] = Mark(ReadAll)[h] /\ heard'[h] = NoRecord
    BY <1>7 DEF EndLocalScan, historyVars, NothingHeard
  <2>2. ASSUME NEW h \in Host PROVE Unmarked(h, infos'[h]) = Unmarked(h, infos[h])
    BY <2>1, MarkedIsUnmarked
  <2>3. ASSUME NEW h \in Host, infos[h] = << >> PROVE infos'[h] = << >>
    <3>. DEFINE empty == [k \in {} |-> Absent]
    <3>1. empty = << >>
      OBVIOUS
    <3>2. DOMAIN infos[h] = {}
      BY <2>3
    <3>3. infos'[h] = empty
      BY <2>1, <3>2 DEF Mark
    <3>. QED
      BY <3>1, <3>3
  <2>. QED
    BY <2>1, <2>2, <2>3 DEF HeardOnce, AnnouncesOnce
<1>. QED
  BY <1>2, <1>3, <1>4, <1>6, <1>7, OthersLeaveBrowser DEF Next, Browser, vars

HeardOK == \A h \in Host : HeardOnce(h)

\* Initially, nothing is heard.
LEMMA InitHeard == Init => HeardOK
BY DEF Init, Nothing, NothingHeard, HeardOK, HeardOnce

\* Of processes that announce once, the browser hears and reads one announcement.
THEOREM HeardInvariant ==
  Spec => [](TypeOK /\ Names /\ LatestOK /\ OnceOK /\ HeardOK)
<1>1. TypeOK /\ LatestOK /\ OnceOK /\ HeardOK /\ [Next]_vars => HeardOK'
  BY HeardOnceStep DEF LatestOK, HeardOK
<1>. QED
  BY <1>1, InitHeard, OnceInvariant, PTL DEF Spec

\* The infos of one host, as one discovery returns them, are those of a single
\* announcement of a single process, all and with all fields, however many processes
\* of the host start, stop, crash and announce while it runs, once each.
THEOREM ReadOneAnnouncement == Spec => []OfOneAnnouncement
<1>1. TypeOK /\ LatestOK /\ HeardOK => OfOneAnnouncement
  <2>. SUFFICES ASSUME TypeOK, LatestOK, HeardOK, NEW h \in Host, infos[h] # << >>,
                       AnnouncesOnce(h)
                PROVE  \E i \in DOMAIN announced[h] :
                         ReadAs(h, announced[h][i], Unmarked(h, infos[h]))
    BY DEF OfOneAnnouncement, Unmarked
  <2>1. PICK i \in DOMAIN announced[h] :
          Unmarked(h, infos[h]) = GetInfos(h, Pairs(announced[h][i]))
    BY DEF HeardOK, HeardOnce, ReadOf
  <2>. DEFINE a == announced[h][i]
              read == Unmarked(h, infos[h])
  <2>2. /\ Counted(Pairs(a)) = DOMAIN a.found
        /\ \A k \in DOMAIN a.found : GetInfo(h, Pairs(a), k) = Meant(h, a, k)
    BY AnnouncementIsRead DEF LatestOK
  <2>3. read = GetInfos(h, Pairs(a))
    BY <2>1
  <2>. HIDE DEF a, read
  <2>4. ReadAs(h, a, read)
    BY <2>2, <2>3 DEF ReadAs, GetInfos
  <2>. QED
    BY <2>4 DEF a, read
<1>. QED
  BY <1>1, HeardInvariant, PTL

\* Infos tell which announcement they are of.
LEMMA IDIsRead ==
  ASSUME TypeOK, HistoryOK, NEW h \in Host, NEW i \in DOMAIN announced[h],
         NEW k \in Counted(Pairs(announced[h][i]))
  PROVE  GetInfo(h, Pairs(announced[h][i]), k).id = announced[h][i].id
<1>. DEFINE a == announced[h][i]
<1>1. PICK u : a.id = <<u>>
  BY DEF HistoryOK, History, Drawn
<1>2. <<u>> # << >> /\ Head(<<u>>) = u
  OBVIOUS
<1>3. Pairs(a).NodeID = a.id
  BY DEF Pairs
<1>. QED
  BY <1>1, <1>2, <1>3 DEF GetInfo, GetValue, Absent

\* If both scans have heard the same announcement of this host, each of its infos is
\* marked when the second ends.
LEMMA MarkedAtEnd ==
  ASSUME TypeOK, LatestOK, HeardOK, EndLocalScan, AnnouncesOnce(Here),
         NEW k \in DOMAIN infos[Here], NEW j \in DOMAIN Read(Here),
         infos[Here][k].id = Read(Here)[j].id
  PROVE  SeenLocally(infos[Here][k], ReadAll)
<1>1. scan = "local" /\ infos[Here] # << >> /\ Read(Here) # << >> /\ heard[Here] # NoRecord
  BY DEF EndLocalScan, Read
<1>2. PICK i \in DOMAIN announced[Here] : infos[Here] = GetInfos(Here, Pairs(announced[Here][i]))
  BY <1>1, HereIsHost DEF HeardOK, HeardOnce, ReadOf
<1>3. PICK l \in DOMAIN announced[Here] : heard[Here] = Pairs(announced[Here][l])
  BY <1>1, HereIsHost DEF HeardOK, HeardOnce, OfHistory
<1>4. Read(Here) = GetInfos(Here, Pairs(announced[Here][l]))
  BY <1>1, <1>3 DEF Read
<1>5. infos[Here][k].id = announced[Here][i].id
  BY <1>2, IDIsRead, HereIsHost DEF LatestOK, GetInfos
<1>6. Read(Here)[j].id = announced[Here][l].id
  BY <1>4, IDIsRead, HereIsHost DEF LatestOK, GetInfos
<1>7. i = l
  BY <1>5, <1>6 DEF AnnouncesOnce
<1>8. Read(Here) = infos[Here]
  BY <1>2, <1>4, <1>7
<1>9. SameInfo(ReadAll[Here][k], infos[Here][k]) /\ k \in DOMAIN ReadAll[Here]
  BY <1>8, HereIsHost DEF ReadAll, SameInfo
<1>. QED
  BY <1>9, HereIsHost DEF SeenLocally

\* The end of the second scan marks what it has heard again.
LEMMA LocalIsMarkedStep ==
  ASSUME TypeOK, LatestOK, Names, HeardOK, LocalIsMarked, [Next]_vars
  PROVE  LocalIsMarked'
<1>1. AnnouncesOnce(Here)' => AnnouncesOnce(Here)
  BY OfHistoryGrows, HereIsHost DEF LatestOK
<1>2. CASE UNCHANGED browserVars
  BY <1>1, <1>2 DEF browserVars, LocalIsMarked, Returned
<1>3. CASE Discover \/ EndScan \/ \E h \in Host : Hear(h)
  BY <1>3 DEF Discover, EndScan, Hear, LocalIsMarked, Returned
<1>4. CASE EndLocalScan
  <2>1. infos' = Mark(ReadAll) /\ local' = ReadAll /\ announced' = announced /\ scan = "local"
    BY <1>4 DEF EndLocalScan, historyVars
  <2>2. ASSUME AnnouncesOnce(Here), NEW k \in DOMAIN infos'[Here], NEW j \in DOMAIN local'[Here],
               infos'[Here][k].id = local'[Here][j].id
        PROVE  infos'[Here][k].nodeName = Absent
    <3>1. k \in DOMAIN infos[Here] /\ j \in DOMAIN Read(Here) /\ local'[Here] = Read(Here)
      BY <2>1, <2>2, HereIsHost DEF Mark, ReadAll
    <3>2. infos'[Here][k].id = infos[Here][k].id
      BY <2>1, <2>2, MarkNames, HereIsHost
    <3>3. SeenLocally(infos[Here][k], ReadAll)
      BY <1>4, <2>2, <3>1, <3>2, MarkedAtEnd
    <3>4. infos'[Here][k] = [infos[Here][k] EXCEPT !.nodeName = Absent]
      BY <2>1, <3>1, <3>3, HereIsHost DEF Mark
    <3>5. "nodeName" \in DOMAIN infos[Here][k]
      BY <2>1, <3>1, HereIsHost DEF Names, Named
    <3>. QED
      BY <3>4, <3>5
  <2>. QED
    BY <2>1, <2>2 DEF LocalIsMarked, AnnouncesOnce
<1>. QED
  BY <1>2, <1>3, <1>4, OthersLeaveBrowser DEF Next, Browser, vars

\* If both scans hear the same process of this host, every info it announced is
\* known to be local, however the two interleave with its one announcement.
THEOREM LocalsAreMarked == Spec => []LocalIsMarked
<1>1. Init => LocalIsMarked
  BY HereIsHost DEF Init, Nothing, LocalIsMarked
<1>2. TypeOK /\ LatestOK /\ Names /\ HeardOK /\ LocalIsMarked /\ [Next]_vars => LocalIsMarked'
  BY LocalIsMarkedStep
<1>. QED
  BY <1>1, <1>2, HeardInvariant, NamesInvariant, PTL DEF Spec

-------------------------------------------------------------------------------
(* What is read while processes announce again.                            *)

KnownIn(list, d) ==
  \E j \in DOMAIN list, x \in 1 .. MaxInfos + 1, m \in DOMAIN Keys :
    d.NodeID = list[j].id /\ Mixture(list, list[j].id, j, x, m, d.entry)

\* What is published is cut in one place.
RecordKnown(h) == record[h] # NoRecord => KnownIn(announced[h], record[h])

\* The text the value of key n of info k was read from.
ReadFrom(list, id, j, x, m, k, n, info) ==
  \E text \in Text :
    /\ Said(list, id, UpTo(j, x, m, k, n), k, Keys[n], text)
    /\ info.resource[Keys[n]] = GetField(Keys[n], text)

CutAt(list, j, x, m, read) ==
  \A k \in DOMAIN read :
    /\ {"id", "resource"} \subseteq DOMAIN read[k]
    /\ read[k].id = list[j].id
    /\ \A n \in DOMAIN Keys : ReadFrom(list, list[j].id, j, x, m, k, n, read[k])

ReadOfTwo(list, read) ==
  \E j \in DOMAIN list, x \in 1 .. MaxInfos + 1, m \in DOMAIN Keys :
    CutAt(list, j, x, m, read)

\* What is heard and read too.
HeardOfTwo(h) ==
  /\ heard[h] # NoRecord => KnownIn(announced[h], heard[h])
  /\ infos[h] # << >> => ReadOfTwo(announced[h], infos[h])

\* A cut is between an announcement and the one before it.
LEMMA UpToIsBefore ==
  ASSUME NEW list \in Seq(Announcement), NEW j \in DOMAIN list, NEW x, NEW m, NEW k, NEW n
  PROVE  UpTo(j, x, m, k, n) \in Int /\ UpTo(j, x, m, k, n) <= Len(list)
<1>1. j \in 1 .. Len(list)
  OBVIOUS
<1>. QED
  BY <1>1 DEF UpTo

\* What is cut in one place stays so when the history grows.
LEMMA KnownGrows ==
  ASSUME TypeOK, HistoryOK, HistoryOK', [Next]_vars, NEW h \in Host
  PROVE  /\ \A d : KnownIn(announced[h], d) => KnownIn(announced'[h], d)
         /\ \A read : ReadOfTwo(announced[h], read) => ReadOfTwo(announced'[h], read)
<1>. DEFINE list == announced[h]
            longer == announced'[h]
<1>1. /\ list \in Seq(Announcement) /\ longer \in Seq(Announcement) /\ Extends(longer, list)
  BY HistoryExtends
<1>. HIDE DEF list, longer
<1>2. ASSUME NEW j \in DOMAIN list PROVE j \in DOMAIN longer /\ longer[j].id = list[j].id
  BY <1>1 DEF Extends
<1>3. ASSUME NEW id, NEW j \in DOMAIN list, NEW x, NEW m, NEW k, NEW n, NEW f, NEW text,
             Said(list, id, UpTo(j, x, m, k, n), k, f, text)
      PROVE  Said(longer, id, UpTo(j, x, m, k, n), k, f, text)
  <2>. DEFINE u == UpTo(j, x, m, k, n)
  <2>1. u \in Int /\ u <= Len(list)
    BY <1>1, UpToIsBefore
  <2>2. Said(list, id, u, k, f, text)
    BY <1>3
  <2>. HIDE DEF u
  <2>3. Said(longer, id, u, k, f, text)
    BY <1>1, <2>1, <2>2, SaidStays
  <2>. QED
    BY <2>3 DEF u
<1>4. ASSUME NEW d, KnownIn(list, d) PROVE KnownIn(longer, d)
  <2>1. PICK j \in DOMAIN list, x \in 1 .. MaxInfos + 1, m \in DOMAIN Keys :
          d.NodeID = list[j].id /\ Mixture(list, list[j].id, j, x, m, d.entry)
    BY <1>4 DEF KnownIn
  <2>2. Mixture(longer, list[j].id, j, x, m, d.entry)
    BY <1>3, <2>1 DEF Mixture
  <2>. QED
    BY <1>2, <2>1, <2>2 DEF KnownIn
<1>5. ASSUME NEW read, ReadOfTwo(list, read) PROVE ReadOfTwo(longer, read)
  <2>1. PICK j \in DOMAIN list, x \in 1 .. MaxInfos + 1, m \in DOMAIN Keys :
          CutAt(list, j, x, m, read)
    BY <1>5 DEF ReadOfTwo
  <2>2. CutAt(longer, j, x, m, read)
    <3>1. ASSUME NEW k \in DOMAIN read, NEW n \in DOMAIN Keys
          PROVE  ReadFrom(longer, list[j].id, j, x, m, k, n, read[k])
      <4>1. ReadFrom(list, list[j].id, j, x, m, k, n, read[k])
        BY <2>1 DEF CutAt
      <4>. QED
        BY <1>3, <4>1 DEF ReadFrom
    <3>. QED
      BY <1>2, <2>1, <3>1 DEF CutAt
  <2>. QED
    BY <1>2, <2>1, <2>2 DEF ReadOfTwo
<1>. QED
  BY <1>4, <1>5 DEF list, longer

\* What the current process has set is cut where announce() has come to.
LEMMA DataIsKnown ==
  ASSUME TypeOK, LatestOK, NEW h \in Host, Begun(h), data[h].NodeID = NodeID(h)
  PROVE  KnownIn(announced[h], data[h])
<1>1. Len(announced[h]) \in DOMAIN announced[h] /\ announced[h][Len(announced[h])].id = NodeID(h)
  BY LatestTyped DEF LatestOK, Begun, Current, Latest
<1>2. At(h) \in 1 .. MaxInfos + 1 /\ key[h] \in DOMAIN Keys
  BY MaxInfosIsCount DEF At, TypeOK
<1>3. Mixture(announced[h], NodeID(h), Len(announced[h]), At(h), key[h], data[h].entry)
  BY DEF LatestOK, Mixed
<1>. QED
  BY <1>1, <1>2, <1>3 DEF KnownIn

\* Only such pairs are published.
LEMMA RecordKnownStep ==
  ASSUME TypeOK, IDs, LatestOK, LatestOK', \A h \in Host : RecordKnown(h), [Next]_vars
  PROVE  \A h \in Host : RecordKnown(h)'
<1>0. HistoryOK /\ HistoryOK'
  BY DEF LatestOK
<1>1. ASSUME NEW h \in Host,
             \/ record'[h] \in {record[h], NoRecord}
             \/ record'[h] = data[h] /\ KnownIn(announced[h], data[h])
      PROVE  RecordKnown(h)'
  BY <1>0, <1>1, KnownGrows DEF RecordKnown
<1>2. ASSUME NEW g \in Host, Process(g) \/ Service(g), RecordKnown(g)'
      PROVE  \A h \in Host : RecordKnown(h)'
  BY <1>0, <1>1, <1>2, OtherHosts DEF Same
<1>3. ASSUME NEW h \in Host, AnnounceSucceeds(h) \/ AnnounceFails(h) PROVE RecordKnown(h)'
  <2>1. /\ pc[h] = "infos" /\ Current(h)
        /\ record' = record \/ record' = [record EXCEPT ![h] = data[h]]
    BY <1>0, <1>3, EndStep
  <2>2. record'[h] = record[h] \/ record'[h] = data[h]
    BY <2>1 DEF TypeOK
  <2>3. Begun(h) /\ data[h].NodeID = NodeID(h)
    BY <2>1 DEF Begun, LatestOK, NodeSet
  <2>. QED
    BY <1>1, <2>2, <2>3, DataIsKnown
<1>4. ASSUME NEW h \in Host, Refresh(h) PROVE RecordKnown(h)'
  <2>1. record'[h] = data[h] /\ ByCurrentProcess(h)
    BY <1>4 DEF Refresh, TypeOK
  <2>2. KnownIn(announced[h], record[h]) /\ record[h].NodeID = NodeID(h) /\ pc[h] # "down"
    BY <2>1 DEF ByCurrentProcess, Published, RecordKnown
  <2>3. Begun(h)
    <3>1. PICK j \in DOMAIN announced[h] : record[h].NodeID = announced[h][j].id
      BY <2>2 DEF KnownIn
    <3>. QED
      BY <1>0, <2>2, <3>1 DEF HistoryOK, History, Begun
  <2>4. data[h].NodeID = NodeID(h)
    BY <2>1, <2>2 DEF IDs, SetByProcess, ByCurrentProcess, Published
  <2>. QED
    BY <1>1, <2>1, <2>3, <2>4, DataIsKnown
<1>5. ASSUME NEW h \in Host,
             \/ Use(h) \/ AnnounceNothing(h) \/ Sets(h) \/ SetKey(h)
             \/ \E session \in Sessions, found_ \in Findings[h] : Announce(h, session, found_)
             \/ Dispose(h) \/ Crash(h) \/ Expire(h)
      PROVE  RecordKnown(h)'
  <2>1. Sets(h) \/ SetKey(h) => record' = record
    BY SetsStep, SetKeyStep
  <2>2. record'[h] \in {record[h], NoRecord}
    BY <1>5, <2>1 DEF Use, AnnounceNothing, Announce, Dispose, Crash, Withdrawn, Expire, TypeOK
  <2>. QED
    BY <1>1, <2>2
<1>6. CASE Browser \/ UNCHANGED vars
  BY <1>1, <1>6, BrowserLeaves
<1>. QED
  BY <1>2, <1>3, <1>4, <1>5, <1>6 DEF Next, Process, Service, Sets

\* What is cut in one place is read as cut in one place.
LEMMA KnownIsRead ==
  ASSUME TypeOK, HistoryOK, NEW h \in Host, NEW d \in Data, KnownIn(announced[h], d)
  PROVE  ReadOfTwo(announced[h], GetInfos(h, d))
<1>. DEFINE list == announced[h]
            read == GetInfos(h, d)
<1>1. PICK j \in DOMAIN list, x \in 1 .. MaxInfos + 1, m \in DOMAIN Keys :
        d.NodeID = list[j].id /\ Mixture(list, list[j].id, j, x, m, d.entry)
  BY DEF KnownIn
<1>2. PICK u : d.NodeID = <<u>>
  BY <1>1 DEF HistoryOK, History, Drawn
<1>3. ASSUME NEW k \in DOMAIN read
      PROVE  /\ {"id", "resource"} \subseteq DOMAIN read[k]
             /\ read[k].id = list[j].id
             /\ \A n \in DOMAIN Keys : ReadFrom(list, list[j].id, j, x, m, k, n, read[k])
  <2>1. k \in Index /\ read[k] = GetInfo(h, d, k)
    BY MaxInfosIsCount DEF GetInfos, Counted, Data, Index
  <2>2. read[k].id = list[j].id
    BY <1>1, <1>2, ReadIDs
  <2>3. ASSUME NEW n \in DOMAIN Keys PROVE ReadFrom(list, list[j].id, j, x, m, k, n, read[k])
    <3>1. Keys[n] \in Field
      BY KeysAreFields
    <3>2. Said(list, list[j].id, UpTo(j, x, m, k, n), k, Keys[n], d.entry[k][Keys[n]])
      BY <1>1, <2>1 DEF Mixture
    <3>3. d.entry[k][Keys[n]] \in Text
      BY <2>1, <3>1 DEF Data
    <3>4. read[k].resource[Keys[n]] = GetField(Keys[n], d.entry[k][Keys[n]])
      BY <2>1, <3>1 DEF GetInfo
    <3>. QED
      BY <3>2, <3>3, <3>4 DEF ReadFrom
  <2>4. {"id", "resource"} \subseteq DOMAIN read[k]
    BY <2>1 DEF GetInfo
  <2>. QED
    BY <2>2, <2>3, <2>4
<1>. HIDE DEF list, read
<1>4. CutAt(list, j, x, m, read)
  BY <1>3 DEF CutAt
<1>5. ReadOfTwo(list, read)
  BY <1>4 DEF ReadOfTwo
<1>. QED
  BY <1>5 DEF list, read

\* Marking leaves what was read of two announcements.
LEMMA MarkedOfTwo ==
  ASSUME NEW h \in Host, NEW list, ReadOfTwo(list, infos[h]), NEW read
  PROVE  ReadOfTwo(list, Mark(read)[h])
<1>. DEFINE marked == Mark(read)[h]
<1>1. /\ DOMAIN marked = DOMAIN infos[h]
      /\ \A k \in DOMAIN infos[h] :
           \/ marked[k] = infos[h][k]
           \/ marked[k] = [infos[h][k] EXCEPT !.nodeName = Absent]
  BY DEF Mark
<1>. HIDE DEF marked
<1>2. PICK j \in DOMAIN list, x \in 1 .. MaxInfos + 1, m \in DOMAIN Keys :
        CutAt(list, j, x, m, infos[h])
  BY DEF ReadOfTwo
<1>3. ASSUME NEW k \in DOMAIN infos[h]
      PROVE  /\ DOMAIN marked[k] = DOMAIN infos[h][k]
             /\ marked[k].id = infos[h][k].id /\ marked[k].resource = infos[h][k].resource
  <2>1. {"id", "resource"} \subseteq DOMAIN infos[h][k]
    BY <1>2 DEF CutAt
  <2>. QED
    BY <1>1, <2>1
<1>4. CutAt(list, j, x, m, marked)
  BY <1>1, <1>2, <1>3 DEF CutAt, ReadFrom
<1>5. ReadOfTwo(list, marked)
  BY <1>4 DEF ReadOfTwo
<1>. QED
  BY <1>5 DEF marked

\* The browser cuts nothing anew.
LEMMA HeardOfTwoStep ==
  ASSUME TypeOK, HistoryOK, HistoryOK', \A h \in Host : RecordKnown(h),
         \A h \in Host : HeardOfTwo(h), [Next]_vars
  PROVE  \A h \in Host : HeardOfTwo(h)'
<1>1. CASE UNCHANGED browserVars
  BY <1>1, KnownGrows DEF browserVars, HeardOfTwo
<1>2. CASE Discover
  BY <1>2 DEF Discover, HeardOfTwo, Nothing, NothingHeard
<1>3. ASSUME NEW g \in Host, Hear(g) PROVE \A h \in Host : HeardOfTwo(h)'
  <2>1. UNCHANGED <<infos, announced>> /\ heard' = [heard EXCEPT ![g] = record[g]]
    BY <1>3 DEF Hear, historyVars
  <2>2. \A h \in Host : heard'[h] = heard[h] \/ heard'[h] = record[h]
    BY <2>1 DEF TypeOK
  <2>. QED
    BY <2>1, <2>2 DEF HeardOfTwo, RecordKnown
<1>4. CASE EndScan
  <2>1. /\ announced' = announced
        /\ \A h \in Host : infos'[h] = Read(h) /\ heard'[h] = NoRecord
    BY <1>4 DEF EndScan, ReadAll, historyVars, NothingHeard
  <2>2. ASSUME NEW h \in Host, Read(h) # << >> PROVE ReadOfTwo(announced[h], Read(h))
    <3>1. heard[h] # NoRecord /\ Read(h) = GetInfos(h, heard[h])
      BY <2>2 DEF Read
    <3>2. heard[h] \in Data /\ KnownIn(announced[h], heard[h])
      BY <3>1 DEF TypeOK, DataOrNone, HeardOfTwo
    <3>. QED
      BY <3>1, <3>2, KnownIsRead
  <2>. QED
    BY <2>1, <2>2 DEF HeardOfTwo
<1>5. CASE EndLocalScan
  <2>1. /\ announced' = announced
        /\ \A h \in Host : infos'[h] = Mark(ReadAll)[h] /\ heard'[h] = NoRecord
    BY <1>5 DEF EndLocalScan, historyVars, NothingHeard
  <2>2. ASSUME NEW h \in Host, infos[h] = << >> PROVE infos'[h] = << >>
    <3>. DEFINE empty == [k \in {} |-> Absent]
    <3>1. empty = << >>
      OBVIOUS
    <3>2. DOMAIN infos[h] = {}
      BY <2>2
    <3>3. infos'[h] = empty
      BY <2>1, <3>2 DEF Mark
    <3>. QED
      BY <3>1, <3>3
  <2>. QED
    BY <2>1, <2>2, MarkedOfTwo DEF HeardOfTwo
<1>. QED
  BY <1>1, <1>2, <1>3, <1>4, <1>5, OthersLeaveBrowser DEF Next, Browser, vars

\* A GPU that was read has a type.
TypeRead(info) ==
  /\ "resource" \in DOMAIN info
  /\ Resource = "GPU" => info.resource["Type"] # Absent

TypesRead == \A h \in Host : \A k \in DOMAIN infos[h] : TypeRead(infos[h][k])

\* Where a record counts a GPU, it has a type.
LEMMA CountedHaveTypes ==
  ASSUME NEW h \in Host, NEW d \in Data, NEW k \in DOMAIN GetInfos(h, d)
  PROVE  TypeRead(GetInfos(h, d)[k])
<1>1. k \in Counted(d) /\ GetInfos(h, d)[k] = GetInfo(h, d, k)
  BY DEF GetInfos
<1>2. /\ "resource" \in DOMAIN GetInfo(h, d, k)
      /\ GetInfo(h, d, k).resource = [f \in Field |-> GetField(f, d.entry[k][f])]
  BY DEF GetInfo
<1>3. ASSUME Resource = "GPU" PROVE GetInfo(h, d, k).resource["Type"] # Absent
  <2>1. "Type" \in Field /\ d.entry[k]["Type"] # Absent
    BY <1>1, <1>3 DEF Field, Default, GPUDefault, Counted
  <2>2. GetInfo(h, d, k).resource["Type"] = <<Head(d.entry[k]["Type"])>>
    BY <1>2, <1>3, <2>1 DEF GetField, GetValue
  <2>. QED
    BY <2>2 DEF Absent
<1>. QED
  BY <1>1, <1>2, <1>3 DEF TypeRead

\* Marking leaves the types.
LEMMA TypesReadStep ==
  ASSUME TypeOK, TypesRead, [Next]_vars
  PROVE  TypesRead'
<1>1. CASE UNCHANGED infos
  BY <1>1 DEF TypesRead, TypeRead
<1>2. CASE Discover
  BY <1>2 DEF Discover, Nothing, TypesRead
<1>3. CASE EndScan
  <2>1. \A h \in Host : infos'[h] = Read(h)
    BY <1>3 DEF EndScan, ReadAll
  <2>2. ASSUME NEW h \in Host, NEW k \in DOMAIN Read(h) PROVE TypeRead(Read(h)[k])
    <3>1. heard[h] # NoRecord /\ Read(h) = GetInfos(h, heard[h])
      BY <2>2 DEF Read
    <3>2. heard[h] \in Data
      BY <3>1 DEF TypeOK, DataOrNone
    <3>. QED
      BY <2>2, <3>1, <3>2, CountedHaveTypes
  <2>. QED
    BY <2>1, <2>2 DEF TypesRead, TypeRead
<1>4. CASE EndLocalScan
  <2>1. ASSUME NEW h \in Host, NEW k \in DOMAIN infos'[h]
        PROVE  /\ k \in DOMAIN infos[h]
               /\ \/ infos'[h][k] = infos[h][k]
                  \/ infos'[h][k] = [infos[h][k] EXCEPT !.nodeName = Absent]
    <3>. DEFINE marked == Mark(ReadAll)[h]
    <3>1. infos'[h] = marked
      BY <1>4 DEF EndLocalScan, Mark
    <3>2. /\ DOMAIN marked = DOMAIN infos[h]
          /\ \A i \in DOMAIN infos[h] :
               \/ marked[i] = infos[h][i]
               \/ marked[i] = [infos[h][i] EXCEPT !.nodeName = Absent]
      BY DEF Mark
    <3>. HIDE DEF marked
    <3>. QED
      BY <2>1, <3>1, <3>2
  <2>2. ASSUME NEW h \in Host, NEW k \in DOMAIN infos'[h] PROVE TypeRead(infos'[h][k])
    <3>1. k \in DOMAIN infos[h] /\ TypeRead(infos[h][k])
      BY <2>1, <2>2 DEF TypesRead
    <3>2. CASE infos'[h][k] = infos[h][k]
      BY <3>1, <3>2
    <3>3. CASE infos'[h][k] = [infos[h][k] EXCEPT !.nodeName = Absent]
      BY <3>1, <3>3 DEF TypeRead
    <3>. QED
      BY <2>1, <2>2, <3>2, <3>3
  <2>. QED
    BY <2>2 DEF TypesRead, TypeRead
<1>. QED
  BY <1>1, <1>2, <1>3, <1>4, OthersLeaveBrowser DEF Next, Browser, Hear, vars, browserVars

KnownOK ==
  /\ \A h \in Host : RecordKnown(h)
  /\ \A h \in Host : HeardOfTwo(h)
  /\ TypesRead

\* Initially, nothing is published, heard or read.
LEMMA InitKnown == Init => KnownOK
BY DEF Init, Nothing, NothingHeard, KnownOK, RecordKnown, HeardOfTwo, TypesRead

\* What was said last is what the last announcement that has a value says.
LEMMA SaidIsLast ==
  ASSUME TypeOK, HistoryOK, NEW h \in Host, NEW id, NEW n \in Int, NEW k, NEW f \in Field,
         NEW text \in Text, Said(announced[h], id, n, k, f, text)
  PROVE  GetField(f, text) = LastSaid(h, id, n, k, f)
<1>. DEFINE list == announced[h]
            said == Setting(h, id, k, f) \cap 1 .. n
<1>0. list \in Seq(Announcement)
  BY DEF HistoryOK
<1>1. \A i \in DOMAIN list : HasValue(list, id, i, k, f) <=> i \in Setting(h, id, k, f)
  BY DEF HasValue, Setting
<1>2. Setting(h, id, k, f) \subseteq DOMAIN list /\ DOMAIN list \subseteq Nat \ {0}
  BY <1>0 DEF Setting
<1>3. CASE text = Absent /\ \A i \in DOMAIN list : i <= n => ~HasValue(list, id, i, k, f)
  <2>1. said = {}
    BY <1>1, <1>2, <1>3
  <2>. QED
    BY <1>3, <2>1, DefaultIsRead DEF LastSaid
<1>4. ASSUME NEW i \in DOMAIN list, i <= n, HasValue(list, id, i, k, f),
             text = list[i].found[k][f],
             \A l \in DOMAIN list : i < l /\ l <= n => ~HasValue(list, id, l, k, f)
      PROVE  GetField(f, text) = LastSaid(h, id, n, k, f)
  <2>1. i \in said /\ \A l \in said : i >= l
    BY <1>1, <1>2, <1>4
  <2>2. Max(said) = i
    <3>1. said \subseteq Int
      BY <1>2
    <3>. HIDE DEF said
    <3>2. \A l \in said : (\A y \in said : l >= y) => l = i
      BY <2>1, <3>1
    <3>. QED
      BY <2>1, <3>2 DEF Max
  <2>3. LastSaid(h, id, n, k, f) = AsRead(f, text)
    <3>1. said # {}
      BY <2>1
    <3>. HIDE DEF said
    <3>2. LastSaid(h, id, n, k, f) =
            IF said = {} THEN Default[f] ELSE AsRead(f, announced[h][Max(said)].found[k][f])
      BY DEF LastSaid, said
    <3>. QED
      BY <1>4, <2>2, <3>1, <3>2
  <2>4. text # Absent
    <3>1. list[i].found \in Findings[h] /\ k \in DOMAIN list[i].found
          /\ IsSet(f, list[i].found[k])
      BY <1>4 DEF HasValue, HistoryOK, History
    <3>. HIDE DEF list
    <3>. QED
      BY <1>4, <3>1, FieldsAreSet
  <2>. QED
    BY <2>3, <2>4, ValueIsRead
<1>. HIDE DEF said
<1>. QED
  BY <1>3, <1>4 DEF Said

\* However often the processes of a host announce, and although pairs may be published
\* as soon as they are set, what a discovery reads of the host is cut in one place: up
\* to some key of some info it is what one of its processes had said with one of its
\* announcements, and from there on what the same process had said before. It reads no
\* GPU without a type.
THEOREM ReadingsAreCutOnce == Spec => []OfTwoAnnouncements
<1>1. TypeOK /\ IDs /\ LatestOK /\ LatestOK' /\ KnownOK /\ [Next]_vars => KnownOK'
  <2>. SUFFICES ASSUME TypeOK, IDs, LatestOK, LatestOK', KnownOK, [Next]_vars PROVE KnownOK'
    OBVIOUS
  <2>1. \A h \in Host : RecordKnown(h)'
    BY RecordKnownStep DEF KnownOK
  <2>2. \A h \in Host : HeardOfTwo(h)'
    BY HeardOfTwoStep DEF KnownOK, LatestOK
  <2>3. TypesRead'
    BY TypesReadStep DEF KnownOK
  <2>. QED
    BY <2>1, <2>2, <2>3 DEF KnownOK
<1>2. TypeOK /\ LatestOK /\ KnownOK => OfTwoAnnouncements
  <2>. SUFFICES ASSUME TypeOK, LatestOK, KnownOK, NEW h \in Host, infos[h] # << >>
                PROVE  \E j \in DOMAIN announced[h], x \in 1 .. MaxInfos + 1, m \in DOMAIN Keys :
                         LET a == announced[h][j] IN
                           \A k \in DOMAIN infos[h] :
                             /\ infos[h][k].id = a.id
                             /\ Resource = "GPU" => infos[h][k].resource["Type"] # Absent
                             /\ \A n \in DOMAIN Keys :
                                  infos[h][k].resource[Keys[n]]
                                    = LastSaid(h, a.id,
                                               IF k < x \/ (k = x /\ n < m) THEN j ELSE j - 1,
                                               k, Keys[n])
    BY DEF OfTwoAnnouncements
  <2>1. PICK j \in DOMAIN announced[h], x \in 1 .. MaxInfos + 1, m \in DOMAIN Keys :
          CutAt(announced[h], j, x, m, infos[h])
    BY DEF KnownOK, HeardOfTwo, ReadOfTwo
  <2>2. ASSUME NEW k \in DOMAIN infos[h], NEW n \in DOMAIN Keys
        PROVE  infos[h][k].resource[Keys[n]]
                 = LastSaid(h, announced[h][j].id, UpTo(j, x, m, k, n), k, Keys[n])
    <3>1. PICK text \in Text :
            /\ Said(announced[h], announced[h][j].id, UpTo(j, x, m, k, n), k, Keys[n], text)
            /\ infos[h][k].resource[Keys[n]] = GetField(Keys[n], text)
      BY <2>1 DEF CutAt, ReadFrom
    <3>2. UpTo(j, x, m, k, n) \in Int /\ Keys[n] \in Field
      BY UpToIsBefore, KeysAreFields DEF LatestOK, HistoryOK
    <3>. QED
      BY <3>1, <3>2, SaidIsLast DEF LatestOK
  <2>3. \A k \in DOMAIN infos[h] : infos[h][k].id = announced[h][j].id
    BY <2>1 DEF CutAt
  <2>4. ASSUME NEW k \in DOMAIN infos[h], Resource = "GPU"
        PROVE  infos[h][k].resource["Type"] # Absent
    BY <2>4 DEF KnownOK, TypesRead, TypeRead
  <2>. QED
    BY <2>2, <2>3, <2>4 DEF UpTo
<1>. QED
  BY <1>1, <1>2, InitKnown, LatestInvariant, IDsInvariant, PTL DEF Spec

================================================================================
