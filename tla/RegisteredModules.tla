--------------------------- MODULE RegisteredModules ---------------------------
(***************************************************************************)
(* What the module stack of a resource type promises its users: the        *)
(* registered discovery modules form a sequence without repetition, a new  *)
(* module goes to its end, a removed one leaves the others in their order. *)
(***************************************************************************)
EXTENDS Naturals, Sequences, SequencesExt

CONSTANT Module       \* the module classes of one resource type: glx, dns_sd, ...

VARIABLE registered   \* the registered modules, first registered first

TypeOK == registered \in Seq(Module)

IsRegistered(m) == \E i \in DOMAIN registered : registered[i] = m

Init == registered = << >>

Register(m) ==
  /\ ~IsRegistered(m)
  /\ registered' = Append(registered, m)

Unregister(m) ==
  \E i \in DOMAIN registered :
    /\ registered[i] = m
    /\ registered' = RemoveAt(registered, i)

Next == \E m \in Module : Register(m) \/ Unregister(m)

Spec == Init /\ [][Next]_registered

(* No module is ever asked twice by one traversal.                         *)
NoRepetition == \A i, j \in DOMAIN registered :
                  registered[i] = registered[j] => i = j

================================================================================
