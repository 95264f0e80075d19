----------------------------- MODULE CGLDiscovery -----------------------------
(***************************************************************************)
(* The discover() of the cgl module: of the displays that are online it       *)
(* returns the main one. The user may rearrange displays at any time, between  *)
(* the two questions too.                                                    *)
(***************************************************************************)
EXTENDS Naturals, Sequences, SequencesExt

CONSTANTS
  Display,     \* the displays there may be, by their CGDirectDisplayIDs
  MaxGPUs,     \* MAX_GPUS: more of them are not listed
  MaxChanges   \* bound on the rearrangements

VARIABLES
  online,       \* the displays online, in the system's order
  main,         \* the main one
  pc,           \* "idle", "listed" or "returned"
  displayIDs,   \* the answer to the first question
  result,       \* the infos returned
  changes,      \* bound: how often displays were rearranged
  mains         \* history: the displays that were the main one during the discovery

vars == <<online, main, pc, displayIDs, result, changes, mains>>

Arrangements == UNION {Injection(1 .. n, Display) : n \in 1 .. Cardinality(Display)}

Init ==
  /\ \E list \in Arrangements : online = list /\ main = list[1]
  /\ pc = "idle"
  /\ displayIDs = << >> /\ result = << >>
  /\ changes = 0
  /\ mains = {}

Rearrange ==
  /\ changes < MaxChanges
  /\ online' \in Arrangements
  /\ main' \in ToSet(online')
  /\ changes' = changes + 1
  /\ mains' = IF pc = "listed" THEN mains \cup {main'} ELSE mains
  /\ UNCHANGED <<pc, displayIDs, result>>

\* CGGetOnlineDisplayList() fails.
CannotList ==
  /\ pc = "idle"
  /\ pc' = "returned"
  /\ UNCHANGED <<online, main, displayIDs, result, changes, mains>>

ListOnline ==
  /\ pc = "idle"
  /\ displayIDs' = SubSeq(online, 1, IF Len(online) < MaxGPUs THEN Len(online) ELSE MaxGPUs)
  /\ mains' = {main}
  /\ pc' = "listed"
  /\ UNCHANGED <<online, main, result, changes>>

FirstListed == IF displayIDs = << >> THEN 0 ELSE 1

\* Where the main display is in the list, 0 if it is not.
Position == SelectInSeq(displayIDs, LAMBDA d : d = main)

\* The info has the bounds of its display for a pixel viewport.
FindMain ==
  /\ pc = "listed"
  /\ result' = IF Position = 0 THEN << >>
               ELSE <<[display |-> displayIDs[Position], device |-> Position - 1]>>
  /\ pc' = "returned"
  /\ UNCHANGED <<online, main, displayIDs, changes, mains>>

Done ==
  /\ pc = "returned"
  /\ pc' = "idle"
  /\ displayIDs' = << >> /\ result' = << >> /\ mains' = {}
  /\ UNCHANGED <<online, main, changes>>

Step == FindMain \/ Done

Next == CannotList \/ ListOnline \/ Rearrange \/ Step

Spec == Init /\ [][Next]_vars /\ WF_vars(Step)

-------------------------------------------------------------------------------
\* However the displays are rearranged between the two questions, at most one is
\* returned, one of those listed that was the main one during the discovery; and if
\* all that were are listed, one is returned.
MainDisplayFound ==
  pc = "returned" /\ displayIDs # << >> =>
    /\ Len(result) <= 1
    /\ \A k \in DOMAIN result : result[k].display \in mains \cap ToSet(displayIDs)
    /\ mains \subseteq ToSet(displayIDs) => result # << >>

================================================================================
