------------------------------ MODULE ServiceData ------------------------------
(***************************************************************************)
(* How infos travel: the dns_sd modules turn each into key-value pairs of a *)
(* ZeroConf service and read infos out of the pairs of other services.      *)
(*                                                                         *)
(* Every value is text, here the sequence of its words. The service returns *)
(* the empty text for a key that was never set.                            *)
(***************************************************************************)
EXTENDS Naturals, Sequences

CONSTANTS
  Resource,     \* "GPU" or "Net"
  Word,         \* what text is made of
  MaxInfos      \* bound on the infos of one announcement

ASSUME KnownResource == Resource \in {"GPU", "Net"}
ASSUME MaxInfosIsCount == MaxInfos \in Nat

Text == Seq(Word)

Absent == << >>

Local == <<"local">>     \* NodeInfo::getLocalSession()

\* What the constructors of the infos set. A GPU without a pixel viewport has this
\* one; <<"max">> stands for the linkspeed nobody knows.
GPUDefault ==
  [Type |-> Absent, Port |-> <<"0">>, Device |-> <<"0">>, X |-> <<"0">>, Y |-> <<"0">>,
   Width |-> <<"-1">>, Height |-> <<"-1">>, Flags |-> <<"0">>]

NetDefault ==
  [Type |-> <<"UNKNOWN">>, Name |-> Absent, Hostname |-> Absent, MAC |-> Absent,
   IPv4 |-> Absent, IPv6 |-> Absent, Linkspeed |-> <<"max">>, Up |-> <<"0">>]

Default == IF Resource = "GPU" THEN GPUDefault ELSE NetDefault

Field == DOMAIN Default

\* The keys of an info, in the order announce() sets them.
Keys ==
  IF Resource = "GPU"
  THEN <<"Type", "Port", "Device", "X", "Y", "Width", "Height", "Flags">>
  ELSE <<"Type", "Name", "Hostname", "MAC", "IPv4", "IPv6", "Linkspeed", "Up">>

View == {"X", "Y", "Width", "Height"}

\* Text that may be empty.
Name == {"Name", "Hostname", "MAC", "IPv4", "IPv6"}

\* Not announced of every info.
Optional == View \cup Name \cup {"Flags", "Linkspeed"}

Index == 1 .. MaxInfos

Data == [NodeID : Text, Hostname : Text, Session : Text,
         Count : 0 .. MaxInfos, entry : [Index -> [Field -> Text]]]

\* A service no key of which is set; without a Count, none is read.
NoData == [NodeID |-> Absent, Hostname |-> Absent, Session |-> Absent, Count |-> 0,
           entry |-> [k \in Index |-> [f \in Field |-> Absent]]]

-------------------------------------------------------------------------------
(* Module::announce: setValue() on one key.                                *)

\* Whether announce() has a value for a key: the viewport has a size, the flags are
\* not zero, the name is not empty, the linkspeed is known.
IsSet(f, resource) ==
  f \in Optional =>
    IF f \in View
    THEN resource["Width"] # Default["Width"] /\ resource["Height"] # Default["Height"]
    ELSE resource[f] # Default[f]

SetNextValue(data, k, f, resource) ==
  [data EXCEPT !.entry[IF k < MaxInfos THEN k + 1 ELSE k][f] = resource[f]]

\* A service.set(), or none; a key that is not set keeps what the service had for it.
SetValue(data, k, f, resource) ==
  IF IsSet(f, resource) THEN [data EXCEPT !.entry[k][f] = resource[f]] ELSE data

-------------------------------------------------------------------------------
(* Module::discover: getValue() of every key.                              *)

\* in >> value reads one word of the data; without data the value stays.
GetValue(text, value) == IF text = Absent THEN value ELSE <<Head(text)>>

\* NetInfo::setType()
SetType(text) ==
  IF text \in {<<"ETHERNET">>, <<"INFINIBAND">>, <<"LOOPBACK">>} THEN text ELSE <<"UNKNOWN">>

GetField(f, text) ==
  IF Resource = "Net" /\ f = "Type"
  THEN SetType(GetValue(text, Absent)) ELSE GetValue(text, Default[f])

GetInfo(host, data, k) ==
  [id |-> GetValue(data.NodeID, <<host>>),
   nodeName |-> GetValue(data.Hostname, <<host>>),
   session |-> GetValue(data.Session, Local),
   resource |-> [f \in Field |-> GetField(f, data.entry[k][f])]]

AllCounted(data) == 1 .. data.Count

\* A GPU without a type is skipped, a network interface is not.
Counted(data) ==
  {k \in 1 .. data.Count : Resource = "GPU" => data.entry[k]["Type"] # Absent}

\* The infos of one host, in the order of their index.
GetInfos(host, data) == [k \in Counted(data) |-> GetInfo(host, data, k)]

-------------------------------------------------------------------------------
\* operator== on infos: all but the node ID and the flags.
SameInfo(a, b) ==
  /\ a.nodeName = b.nodeName
  /\ a.session = b.session
  /\ \A f \in Field \ {"Flags"} : a.resource[f] = b.resource[f]

\* operator== without NodeInfo's.
SameResource(a, b) ==
  \A f \in Field \ {"Flags"} : a.resource[f] = b.resource[f]

================================================================================
