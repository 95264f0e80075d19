-------------------------------- MODULE Filters --------------------------------
(***************************************************************************)
(* The infos discovery modules return, when two of them are the same, and  *)
(* the filters an application chains to select from them.                  *)
(*                                                                         *)
(* The library has the same code for GPUs and for network interfaces;       *)
(* Resource says which of the two a model is about.                        *)
(***************************************************************************)
EXTENDS Naturals, Sequences

CONSTANTS
  Resource,    \* "GPU" or "Net"
  Value        \* what the fields of an info hold: names, identifiers, positions

ASSUME ResourceAssumption == Resource \in {"GPU", "Net"}

\* std::string::empty()
Empty == ""

\* place stands for port, device and pvp[0..1], size for pvp[2..3].
GPUInfo == [id : Value, nodeName : Value, session : Value,
            type : Value, place : Value, size : Value, flags : SUBSET Value]

\* card stands for name, hostname, the addresses, linkspeed and up.
NetInfo == [id : Value, nodeName : Value, session : Value, type : Value, card : Value]

Info == IF Resource = "GPU" THEN GPUInfo ELSE NetInfo

NodeKey(info) == <<info.nodeName, info.session>>

GPUKey(info) == <<NodeKey(info), info.type, info.place, info.size>>

NetKey(info) == <<NodeKey(info), info.type, info.card>>

\* What operator== compares: everything but the node ID and the flags.
Key(info) == IF Resource = "GPU" THEN GPUKey(info) ELSE NetKey(info)

Same(a, b) == Key(a) = Key(b)

-------------------------------------------------------------------------------
(* A filter object is a record: its class is in test, the rest are the      *)
(* arguments of its constructor.                                           *)

Duplicate == [test |-> "Duplicate"]
Mirror == [test |-> "Mirror"]
Session(name) == [test |-> "Session", name |-> name]

\* matches is what the regex accepts of the <<nodeName, place>> of a GPU.
GPU(regex, matches) == [test |-> "GPU", regex |-> regex, matches |-> matches]

\* subnets is the set of cards with an address in one of the prefixes, types
\* the set of types in the mask, every type for TYPE_ALL.
Net(prefixes, subnets, types) ==
  [test |-> "Net", prefixes |-> prefixes, subnets |-> subnets, types |-> types]

SameAndId(a, b) == Same(a, b) /\ a.id = b.id

DuplicatePassesById(current, candidate) ==
  \A i \in DOMAIN current : ~SameAndId(current[i], candidate)

DuplicatePassesByNode(current, candidate) ==
  \A i \in DOMAIN current : NodeKey(current[i]) # NodeKey(candidate)

\* std::find with operator== over the infos selected so far.
DuplicatePasses(current, candidate) ==
  \A i \in DOMAIN current : ~Same(current[i], candidate)

Reflects(info, candidate) ==
  /\ info.id = candidate.id
  /\ info.session = candidate.session
  /\ info.place = candidate.place

MirrorPassesByType(current, candidate) ==
  Resource = "GPU" =>
    \A i \in DOMAIN current :
      ~(Reflects(current[i], candidate) /\ current[i].type = candidate.type)

MirrorPassesByProcess(current, candidate) ==
  Resource = "GPU" =>
    \A i \in DOMAIN current :
      ~(current[i].id = candidate.id /\ current[i].session = candidate.session)

MirrorPasses(current, candidate) ==
  Resource = "GPU" => \A i \in DOMAIN current : ~Reflects(current[i], candidate)

SessionPasses(f, candidate) == f.name = Empty \/ candidate.session = f.name

GPUPasses(f, candidate) ==
  Resource = "GPU" =>
    f.regex = Empty \/ <<candidate.nodeName, candidate.place>> \in f.matches

NetPasses(f, candidate) ==
  Resource = "Net" =>
    /\ candidate.type \in f.types
    /\ f.prefixes = {} \/ candidate.card \in f.subnets

\* The test of one filter object, without the filters chained to it.
Passes(f, current, candidate) ==
  CASE f.test = "Duplicate" -> DuplicatePasses(current, candidate)
    [] f.test = "Mirror" -> MirrorPasses(current, candidate)
    [] f.test = "Session" -> SessionPasses(f, candidate)
    [] f.test = "GPU" -> GPUPasses(f, candidate)
    [] f.test = "Net" -> NetPasses(f, candidate)

-------------------------------------------------------------------------------
(* operator| appends its right side to the filters called after the left    *)
(* one, so that a chain is the sequence of its filters in calling order,    *)
(* each called once the ones before it passed. No filter is << >>.          *)

AcceptsUnchained(chain, current, candidate) ==
  chain # << >> => Passes(chain[1], current, candidate)

Accepts(chain, current, candidate) ==
  \A i \in DOMAIN chain : Passes(chain[i], current, candidate)

\* A duplicate filter that was reached merges the flags of a GPU it drops.
Merges(chain, current, candidate) ==
  \E i \in DOMAIN chain :
    /\ chain[i].test = "Duplicate"
    /\ ~DuplicatePasses(current, candidate)
    /\ \A j \in 1 .. i - 1 : Passes(chain[j], current, candidate)

\* std::find: the first of the current infos that is the same.
FirstSame(current, candidate) ==
  CHOOSE i \in DOMAIN current :
    /\ Same(current[i], candidate)
    /\ \A j \in 1 .. i - 1 : ~Same(current[j], candidate)

NothingMerged(current, candidate) == current

FlagsMerged(current, candidate) ==
  IF Resource = "GPU"
  THEN [current EXCEPT ![FirstSame(current, candidate)].flags = @ \cup candidate.flags]
  ELSE current

Filter ==
  [test : {"Duplicate", "Mirror"}] \cup [test : {"Session"}, name : Value]
    \cup [test : {"GPU"}, regex : Value, matches : SUBSET (Value \X Value)]
    \cup [test : {"Net"}, prefixes : SUBSET Value, subnets : SUBSET Value,
          types : SUBSET Value]

Has(chain, test) == \E i \in DOMAIN chain : chain[i].test = test

================================================================================
