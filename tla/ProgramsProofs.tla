----------------------------- MODULE ProgramsProofs -----------------------------
(***************************************************************************)
(* What the daemon and the browser announce, list and leave behind, for any   *)
(* number of local GPU modules.                                             *)
(*                                                                         *)
(* A program is a sequence of statements put together of parts, the lengths    *)
(* of which depend on the modules and on the name it was started under. The     *)
(* lemmas on the layout say which statement is where; the invariants then       *)
(* give the stacks and the records as functions of the statement a program is   *)
(* at, whether it runs, waits or was killed there.                            *)
(***************************************************************************)
EXTENDS Programs, TLAPS

(* Sequences.                                                              *)

\* Modules that differ are used one after the other ...
LEMMA UseNext ==
  ASSUME NEW S, NEW modules \in Seq(S), NEW k \in Nat, k < Len(modules),
         \A l, m \in DOMAIN modules : modules[l] = modules[m] => l = m
  PROVE  /\ ~Contains(SubSeq(modules, 1, k), modules[k + 1])
         /\ Append(SubSeq(modules, 1, k), modules[k + 1]) = SubSeq(modules, 1, k + 1)
BY DEF Contains

LEMMA MinIs ==
  ASSUME NEW S \in SUBSET Nat, NEW n \in S, \A k \in S : n <= k
  PROVE  Min(S) = n
<1>. DEFINE isLeast(x) == \A y \in S : x <= y
            least == CHOOSE x \in S : isLeast(x)
<1>1. least \in S /\ isLeast(least)
  <2>. HIDE DEF isLeast
  <2>1. isLeast(n)
    BY DEF isLeast
  <2>. QED
    BY <2>1
<1>2. Min(S) = least
  BY DEF Min
<1>. HIDE DEF least
<1>. QED
  BY <1>1, <1>2

\* The first element is removed, and no other.
LEMMA RemoveHead ==
  ASSUME NEW S, NEW list \in Seq(S), list # << >>
  PROVE  RemoveFirst(list, list[1]) = SubSeq(list, 2, Len(list))
<1>. DEFINE found == {k \in 1 .. Len(list) : list[k] = list[1]}
<1>1. 1 \in found /\ \A k \in found : k \in Nat /\ 1 <= k
  OBVIOUS
<1>2. Min(found) = 1
  <2>. HIDE DEF found
  <2>. QED
    BY <1>1, MinIs
<1>3. SelectInSeq(list, LAMBDA v : v = list[1]) = 1
  BY <1>1, <1>2 DEF SelectInSeq
<1>4. RemoveFirst(list, list[1]) = RemoveAt(list, 1)
  BY <1>1, <1>3 DEF RemoveFirst
<1>5. SubSeq(list, 1, 0) = << >>
  OBVIOUS
<1>6. << >> \o SubSeq(list, 2, Len(list)) = SubSeq(list, 2, Len(list))
  OBVIOUS
<1>. QED
  BY <1>4, <1>5, <1>6 DEF RemoveAt

\* The last one, if it differs from the others.
LEMMA RemoveLast ==
  ASSUME NEW S, NEW list \in Seq(S), NEW last \in S, \A k \in DOMAIN list : list[k] # last
  PROVE  RemoveFirst(Append(list, last), last) = list
<1>. DEFINE all == Append(list, last)
            n == Len(list) + 1
            found == {k \in 1 .. Len(all) : all[k] = last}
<1>1. n \in Nat /\ Len(all) = n /\ all[n] = last /\ \A k \in 1 .. n - 1 : all[k] = list[k]
  OBVIOUS
<1>2. n \in found /\ \A k \in found : k \in Nat /\ n <= k
  BY <1>1
<1>3. Min(found) = n
  <2>1. n \in Nat
    OBVIOUS
  <2>. HIDE DEF found, n
  <2>. QED
    BY <1>2, <2>1, MinIs
<1>4. SelectInSeq(all, LAMBDA v : v = last) = n
  BY <1>2, <1>3 DEF SelectInSeq
<1>5. RemoveFirst(all, last) = RemoveAt(all, n)
  BY <1>2, <1>4 DEF RemoveFirst
<1>6. SubSeq(all, n + 1, n) = << >>
  OBVIOUS
<1>7. SubSeq(all, 1, n - 1) = list
  <2>1. all \in Seq(S) /\ Len(list) = n - 1 /\ Len(list) \in Nat
    OBVIOUS
  <2>. HIDE DEF all, n
  <2>2. SubSeq(all, 1, n - 1) = [k \in 1 .. n - 1 |-> all[k]]
    BY <1>1, <2>1
  <2>3. list = [k \in 1 .. n - 1 |-> list[k]]
    BY <2>1
  <2>. QED
    BY <1>1, <2>2, <2>3
<1>8. list \o << >> = list
  OBVIOUS
<1>. QED
  BY <1>1, <1>5, <1>6, <1>7, <1>8 DEF RemoveAt

\* Nothing is removed that is not there.
LEMMA RemoveNone ==
  ASSUME NEW list, NEW e, ~\E k \in 1 .. Len(list) : list[k] = e
  PROVE  RemoveFirst(list, e) = list
BY DEF RemoveFirst


\* Pairs of modules.
LEMMA OneMore ==
  ASSUME NEW S, NEW list \in Seq(S), NEW e \in S
  PROVE  list \o <<e>> = Append(list, e)
OBVIOUS

LEMMA PairIs ==
  ASSUME NEW S, NEW a \in S, NEW b \in S
  PROVE  /\ <<a>> \o <<b>> = <<a, b>> /\ Append(<<a>>, b) = <<a, b>>
         /\ RemoveFirst(<<a, b>>, a) = <<b>>
<1>. DEFINE both == <<a>> \o <<b>>
            pair == Append(<<a>>, b)
            tail == SubSeq(<<a, b>>, 2, 2)
<1>1. /\ both \in Seq(S) /\ Len(both) = 2 /\ both[1] = a /\ both[2] = b
      /\ pair \in Seq(S) /\ Len(pair) = 2 /\ pair[1] = a /\ pair[2] = b
  OBVIOUS
<1>2. tail \in Seq(S) /\ Len(tail) = 1 /\ tail[1] = b
  OBVIOUS
<1>3. RemoveFirst(<<a, b>>, a) = tail
  <2>. DEFINE list == <<a, b>>
  <2>1. list \in Seq(S) /\ list # << >> /\ list[1] = a /\ Len(list) = 2
    OBVIOUS
  <2>. HIDE DEF list
  <2>2. RemoveFirst(list, a) = SubSeq(list, 2, 2)
    BY <2>1, RemoveHead
  <2>. QED
    BY <2>2 DEF list
<1>. HIDE DEF both, pair, tail
<1>4. both = <<a, b>> /\ pair = <<a, b>> /\ tail = <<b>>
  BY <1>1, <1>2
<1>. QED
  BY <1>3, <1>4 DEF both, pair

-------------------------------------------------------------------------------
(* The layout of the programs.                                              *)

Op == {"use", "announce", "discover", "wait", "dispose"}
Statements == [op : Op, resource : Resource, module : Module]

Concatenates(both, first, second) ==
  /\ both \in Seq(Statements) /\ Len(both) = Len(first) + Len(second)
  /\ \A k \in 1 .. Len(first) : both[k] = first[k]
  /\ \A k \in 1 .. Len(second) : both[Len(first) + k] = second[k]

LEMMA ConcatIs ==
  ASSUME NEW first \in Seq(Statements), NEW second \in Seq(Statements)
  PROVE  Concatenates(first \o second, first, second)
<1>. DEFINE Each0 == Statements
<1>1. first \in Seq(Each0) /\ second \in Seq(Each0)
  OBVIOUS
<1>. HIDE DEF Each0
<1>. QED
  BY <1>1 DEF Concatenates, Each0

GPUModules == Append(GPULocals, DnsSd)
NetModules == <<DnsSd>> \o NetLocals

Modules == Len(GPUModules)

LEMMA ModulesAre ==
  /\ Len(GPULocals) \in Nat /\ Modules = Len(GPULocals) + 1
  /\ GPULocals \in Seq(Module) /\ GPUModules \in Seq(Module) /\ GPUModules[Modules] = DnsSd
  /\ \A k \in 1 .. Modules - 1 : GPUModules[k] = GPULocals[k] /\ GPUModules[k] # DnsSd
  /\ \A k, l \in DOMAIN GPUModules : GPUModules[k] = GPUModules[l] => k = l
  /\ NetModules \in Seq(Module) /\ NetModules = <<DnsSd, "sys">>
<1>1. GPULocals \in Seq(Module \ {DnsSd}) /\ DnsSd \in Module /\ "sys" \in Module
  BY LocalsAssumption DEF Module
<1>2. \A k, l \in DOMAIN GPULocals : GPULocals[k] = GPULocals[l] => k = l
  BY LocalsAssumption
<1>. DEFINE n == Len(GPULocals)
            Each0 == Module \ {DnsSd}
<1>3. n \in Nat /\ DOMAIN GPULocals = 1 .. n /\ GPULocals \in Seq(Module)
      /\ \A k \in 1 .. n : GPULocals[k] \in Module /\ GPULocals[k] # DnsSd
  BY <1>1
<1>4. /\ GPUModules \in Seq(Module) /\ Len(GPUModules) = n + 1 /\ GPUModules[n + 1] = DnsSd
      /\ DOMAIN GPUModules = 1 .. n + 1
      /\ \A k \in 1 .. n : GPUModules[k] = GPULocals[k]
  BY <1>1, <1>3 DEF GPUModules
<1>. HIDE DEF n
<1>5. \A k, l \in DOMAIN GPUModules : GPUModules[k] = GPUModules[l] => k = l
  <2>. SUFFICES ASSUME NEW k \in 1 .. n + 1, NEW l \in 1 .. n + 1, GPUModules[k] = GPUModules[l]
                PROVE  k = l
    BY <1>4
  <2>1. CASE k \in 1 .. n /\ l \in 1 .. n
    BY <1>2, <1>3, <1>4, <2>1
  <2>2. CASE k = n + 1 \/ l = n + 1
    BY <1>3, <1>4, <2>2
  <2>. QED
    BY <1>3, <2>1, <2>2
<1>6. \A k \in 1 .. Modules - 1 : GPUModules[k] = GPULocals[k] /\ GPUModules[k] # DnsSd
  BY <1>3, <1>4 DEF Modules
<1>7. NetModules \in Seq(Module) /\ NetModules = <<DnsSd, "sys">>
  <2>1. <<DnsSd>> \o <<"sys">> = <<DnsSd, "sys">>
    BY <1>1, PairIs
  <2>2. NetModules = <<DnsSd, "sys">>
    BY <2>1 DEF NetModules, NetLocals
  <2>. QED
    BY <1>1, <2>2
<1>. QED
  BY <1>1, <1>3, <1>4, <1>5, <1>6, <1>7 DEF n, Modules

LEMMA EachIs ==
  ASSUME NEW op \in Op, NEW resource \in Resource, NEW modules \in Seq(Module)
  PROVE  LET each == Each(op, resource, modules) IN
           /\ each \in Seq(Statements) /\ Len(each) = Len(modules)
           /\ \A k \in 1 .. Len(modules) : each[k] = Statement(op, resource, modules[k])
<1>1. \A module \in Module : Statement(op, resource, module) \in Statements
  BY DEF Statement, Statements
<1>2. Len(modules) \in Nat /\ DOMAIN modules = 1 .. Len(modules)
      /\ \A k \in 1 .. Len(modules) : modules[k] \in Module
  OBVIOUS
<1>3. Each(op, resource, modules) =
        [k \in 1 .. Len(modules) |-> Statement(op, resource, modules[k])]
  BY <1>2 DEF Each
<1>. QED
  BY <1>1, <1>2, <1>3

LEMMA OneStatement ==
  ASSUME NEW op \in Op, NEW resource \in Resource, NEW module \in Module
  PROVE  LET one == <<Statement(op, resource, module)>> IN
           /\ one \in Seq(Statements) /\ Len(one) = 1
           /\ one[1] = Statement(op, resource, module)
BY DEF Statement, Statements

\* The daemon: how many statements it has about the GPUs and about the interfaces
\* before it waits.
GPUPart(name) == IF name = "net_sd" THEN 0 ELSE Modules + 1
NetPart(name) == IF name = "gpu_sd" THEN 0 ELSE 3
WaitAt(name) == GPUPart(name) + NetPart(name) + 1

LEMMA DaemonLayout ==
  ASSUME NEW name \in Daemons
  PROVE  /\ DaemonMain(name) \in Seq(Statements)
         /\ Len(DaemonMain(name)) = WaitAt(name) + Modules + 2
         /\ name # "net_sd" =>
              /\ \A k \in 1 .. Modules :
                   DaemonMain(name)[k] = Statement("use", "GPU", GPUModules[k])
              /\ DaemonMain(name)[Modules + 1] = Statement("announce", "GPU", DnsSd)
         /\ name # "gpu_sd" =>
              /\ DaemonMain(name)[GPUPart(name) + 1] = Statement("use", "Net", DnsSd)
              /\ DaemonMain(name)[GPUPart(name) + 2] = Statement("use", "Net", "sys")
              /\ DaemonMain(name)[GPUPart(name) + 3] = Statement("announce", "Net", DnsSd)
         /\ DaemonMain(name)[WaitAt(name)] = Statement("wait", "Net", DnsSd)
         /\ \A k \in 1 .. Modules :
              DaemonMain(name)[WaitAt(name) + k] = Statement("dispose", "GPU", GPUModules[k])
         /\ DaemonMain(name)[WaitAt(name) + Modules + 1] = Statement("dispose", "Net", DnsSd)
         /\ DaemonMain(name)[WaitAt(name) + Modules + 2] = Statement("dispose", "Net", "sys")
<1>. DEFINE useGPU == Each("use", "GPU", GPUModules)
            announceGPU == <<Statement("announce", "GPU", DnsSd)>>
            useNet == Each("use", "Net", NetModules)
            announceNet == <<Statement("announce", "Net", DnsSd)>>
            wait == <<Statement("wait", "Net", DnsSd)>>
            disposeGPU == Each("dispose", "GPU", GPUModules)
            disposeNet == Each("dispose", "Net", NetModules)
            gpu == OnlyIf(name # "net_sd", useGPU \o announceGPU)
            net == OnlyIf(name # "gpu_sd", useNet \o announceNet)
            begin == (gpu \o net) \o wait
            dispose == disposeGPU \o disposeNet
<1>0. Op = {"use", "announce", "discover", "wait", "dispose"} /\ DnsSd \in Module
      /\ "GPU" \in Resource /\ "Net" \in Resource
  BY DEF Op, Module, Resource
<1>1. /\ useGPU \in Seq(Statements) /\ Len(useGPU) = Modules
      /\ \A k \in 1 .. Modules : useGPU[k] = Statement("use", "GPU", GPUModules[k])
  BY <1>0, EachIs, ModulesAre DEF Modules
<1>2. /\ disposeGPU \in Seq(Statements) /\ Len(disposeGPU) = Modules
      /\ \A k \in 1 .. Modules : disposeGPU[k] = Statement("dispose", "GPU", GPUModules[k])
  BY <1>0, EachIs, ModulesAre DEF Modules
<1>3. NetModules \in Seq(Module) /\ Len(NetModules) = 2 /\ NetModules[1] = DnsSd /\ NetModules[2] = "sys"
  BY ModulesAre
<1>4. /\ useNet \in Seq(Statements) /\ Len(useNet) = 2
      /\ useNet[1] = Statement("use", "Net", DnsSd) /\ useNet[2] = Statement("use", "Net", "sys")
  <2>1. /\ useNet \in Seq(Statements) /\ Len(useNet) = Len(NetModules)
        /\ \A k \in 1 .. Len(NetModules) : useNet[k] = Statement("use", "Net", NetModules[k])
    BY <1>0, <1>3, EachIs
  <2>. HIDE DEF useNet
  <2>2. 1 \in 1 .. 2 /\ 2 \in 1 .. 2
    OBVIOUS
  <2>. QED
    BY <1>3, <2>1, <2>2
<1>5. /\ disposeNet \in Seq(Statements) /\ Len(disposeNet) = 2
      /\ disposeNet[1] = Statement("dispose", "Net", DnsSd)
      /\ disposeNet[2] = Statement("dispose", "Net", "sys")
  <2>1. /\ disposeNet \in Seq(Statements) /\ Len(disposeNet) = Len(NetModules)
        /\ \A k \in 1 .. Len(NetModules) : disposeNet[k] = Statement("dispose", "Net", NetModules[k])
    BY <1>0, <1>3, EachIs
  <2>. HIDE DEF disposeNet
  <2>2. 1 \in 1 .. 2 /\ 2 \in 1 .. 2
    OBVIOUS
  <2>. QED
    BY <1>3, <2>1, <2>2
<1>6. /\ announceGPU \in Seq(Statements) /\ Len(announceGPU) = 1
      /\ announceGPU[1] = Statement("announce", "GPU", DnsSd)
      /\ announceNet \in Seq(Statements) /\ Len(announceNet) = 1
      /\ announceNet[1] = Statement("announce", "Net", DnsSd)
      /\ wait \in Seq(Statements) /\ Len(wait) = 1
      /\ wait[1] = Statement("wait", "Net", DnsSd)
  BY <1>0, OneStatement
<1>7. DaemonMain(name) = begin \o dispose
  BY DEF DaemonMain, UseAndAnnounceNet, DisposeAll, GPUModules, NetModules
<1>8. Modules \in Nat \ {0}
  BY ModulesAre
<1>. HIDE DEF useGPU, announceGPU, useNet, announceNet, wait, disposeGPU, disposeNet
<1>9. /\ gpu \in Seq(Statements) /\ Len(gpu) = GPUPart(name)
      /\ name # "net_sd" =>
           /\ \A k \in 1 .. Modules : gpu[k] = Statement("use", "GPU", GPUModules[k])
           /\ gpu[Modules + 1] = Statement("announce", "GPU", DnsSd)
  <2>1. CASE name = "net_sd"
    BY <2>1 DEF OnlyIf, GPUPart
  <2>2. CASE name # "net_sd"
    <3>1. gpu = useGPU \o announceGPU
      BY <2>2 DEF OnlyIf
    <3>. HIDE DEF gpu
    <3>2. Concatenates(gpu, useGPU, announceGPU)
      BY <1>1, <1>6, <3>1, ConcatIs
    <3>3. GPUPart(name) = Modules + 1
      BY <2>2 DEF GPUPart
    <3>. QED
      BY <1>1, <1>6, <1>8, <3>2, <3>3 DEF Concatenates
  <2>. QED
    BY <2>1, <2>2
<1>10. /\ net \in Seq(Statements) /\ Len(net) = NetPart(name)
       /\ name # "gpu_sd" =>
            /\ net[1] = Statement("use", "Net", DnsSd) /\ net[2] = Statement("use", "Net", "sys")
            /\ net[3] = Statement("announce", "Net", DnsSd)
  <2>1. CASE name = "gpu_sd"
    BY <2>1 DEF OnlyIf, NetPart
  <2>2. CASE name # "gpu_sd"
    <3>1. net = useNet \o announceNet
      BY <2>2 DEF OnlyIf
    <3>. HIDE DEF net
    <3>2. Concatenates(net, useNet, announceNet)
      BY <1>4, <1>6, <3>1, ConcatIs
    <3>3. NetPart(name) = 3
      BY <2>2 DEF NetPart
    <3>. QED
      BY <1>4, <1>6, <3>2, <3>3 DEF Concatenates
  <2>. QED
    BY <2>1, <2>2
<1>. HIDE DEF gpu, net
<1>. DEFINE g == GPUPart(name)
            m == NetPart(name)
<1>11. g \in Nat /\ m \in Nat
  BY <1>8 DEF GPUPart, NetPart
<1>. HIDE DEF g, m
<1>12. /\ begin \in Seq(Statements) /\ Len(begin) = g + m + 1
       /\ \A k \in 1 .. g : begin[k] = gpu[k]
       /\ \A k \in 1 .. m : begin[g + k] = net[k]
       /\ begin[g + m + 1] = wait[1]
  <2>. DEFINE both == gpu \o net
  <2>0. Concatenates(both, gpu, net)
    BY <1>9, <1>10, ConcatIs
  <2>1. /\ both \in Seq(Statements) /\ Len(both) = g + m
        /\ \A k \in 1 .. g : both[k] = gpu[k]
        /\ \A k \in 1 .. m : both[g + k] = net[k]
    BY <1>9, <1>10, <2>0 DEF g, m, Concatenates
  <2>. HIDE DEF both
  <2>2. /\ begin \in Seq(Statements) /\ Len(begin) = (g + m) + 1
        /\ \A k \in 1 .. g + m : begin[k] = both[k]
        /\ \A k \in 1 .. 1 : begin[(g + m) + k] = wait[k]
    <3>1. Concatenates(begin, both, wait)
      BY <1>6, <2>1, ConcatIs DEF both
    <3>. QED
      BY <1>6, <2>1, <3>1 DEF Concatenates
  <2>. HIDE DEF begin
  <2>. QED
    BY <1>11, <2>1, <2>2
<1>13. /\ dispose \in Seq(Statements) /\ Len(dispose) = Modules + 2
       /\ \A k \in 1 .. Modules : dispose[k] = disposeGPU[k]
       /\ dispose[Modules + 1] = disposeNet[1] /\ dispose[Modules + 2] = disposeNet[2]
  <2>1. /\ dispose \in Seq(Statements) /\ Len(dispose) = Modules + 2
        /\ \A k \in 1 .. Modules : dispose[k] = disposeGPU[k]
        /\ \A k \in 1 .. 2 : dispose[Modules + k] = disposeNet[k]
    <3>1. Concatenates(dispose, disposeGPU, disposeNet)
      BY <1>2, <1>5, ConcatIs
    <3>. HIDE DEF dispose
    <3>. QED
      BY <1>2, <1>5, <3>1 DEF Concatenates
  <2>. HIDE DEF dispose
  <2>. QED
    BY <2>1
<1>. HIDE DEF begin, dispose
<1>. DEFINE all == DaemonMain(name)
            w == WaitAt(name)
<1>14. w = g + m + 1
  BY DEF WaitAt, g, m
<1>. HIDE DEF w
<1>15. /\ all \in Seq(Statements) /\ Len(all) = w + (Modules + 2)
       /\ \A k \in 1 .. w : all[k] = begin[k]
       /\ \A k \in 1 .. Modules + 2 : all[w + k] = dispose[k]
  <2>1. Concatenates(all, begin, dispose)
    BY <1>7, <1>12, <1>13, ConcatIs
  <2>. HIDE DEF all
  <2>. QED
    BY <1>12, <1>13, <1>14, <2>1 DEF Concatenates
<1>. HIDE DEF all
<1>16. name # "net_sd" =>
         /\ \A k \in 1 .. Modules : all[k] = Statement("use", "GPU", GPUModules[k])
         /\ all[Modules + 1] = Statement("announce", "GPU", DnsSd)
  <2>. SUFFICES ASSUME name # "net_sd"
                PROVE  /\ \A k \in 1 .. Modules : all[k] = Statement("use", "GPU", GPUModules[k])
                       /\ all[Modules + 1] = Statement("announce", "GPU", DnsSd)
    OBVIOUS
  <2>1. g = Modules + 1
    BY DEF g, GPUPart
  <2>2. \A k \in 1 .. Modules + 1 : all[k] = gpu[k]
    BY <1>8, <1>11, <1>12, <1>14, <1>15, <2>1
  <2>. QED
    BY <1>8, <1>9, <2>2
<1>17. name # "gpu_sd" =>
         /\ all[g + 1] = Statement("use", "Net", DnsSd)
         /\ all[g + 2] = Statement("use", "Net", "sys")
         /\ all[g + 3] = Statement("announce", "Net", DnsSd)
  <2>. SUFFICES ASSUME name # "gpu_sd"
                PROVE  /\ all[g + 1] = Statement("use", "Net", DnsSd)
                       /\ all[g + 2] = Statement("use", "Net", "sys")
                       /\ all[g + 3] = Statement("announce", "Net", DnsSd)
    OBVIOUS
  <2>1. m = 3
    BY DEF m, NetPart
  <2>2. \A k \in 1 .. 3 : all[g + k] = net[k]
    BY <1>11, <1>12, <1>14, <1>15, <2>1
  <2>. QED
    BY <1>10, <2>2
<1>18. all[w] = Statement("wait", "Net", DnsSd)
  BY <1>6, <1>11, <1>12, <1>14, <1>15
<1>19. \A k \in 1 .. Modules : all[w + k] = Statement("dispose", "GPU", GPUModules[k])
  BY <1>2, <1>8, <1>13, <1>15
<1>20. /\ all[w + Modules + 1] = Statement("dispose", "Net", DnsSd)
       /\ all[w + Modules + 2] = Statement("dispose", "Net", "sys")
       /\ Len(all) = w + Modules + 2
  BY <1>5, <1>8, <1>11, <1>13, <1>14, <1>15
<1>. QED
  BY <1>15, <1>16, <1>17, <1>18, <1>19, <1>20 DEF all, w, g


-------------------------------------------------------------------------------
(* The daemon: its stacks when it is at statement p.                         *)

GPUStack(name, p) ==
  IF name = "net_sd" THEN << >>
  ELSE IF p <= Modules THEN SubSeq(GPUModules, 1, p - 1)
  ELSE IF p <= WaitAt(name) THEN GPUModules
  ELSE IF p <= WaitAt(name) + Modules THEN SubSeq(GPUModules, p - WaitAt(name), Modules)
  ELSE << >>

NetStack(name, p) ==
  IF name = "gpu_sd" \/ p <= GPUPart(name) + 1 THEN << >>
  ELSE IF p = GPUPart(name) + 2 THEN <<DnsSd>>
  ELSE IF p <= WaitAt(name) + Modules + 1 THEN <<DnsSd, "sys">>
  ELSE IF p = WaitAt(name) + Modules + 2 THEN <<"sys">>
  ELSE << >>

LEMMA PartsAre ==
  ASSUME NEW name \in Daemons
  PROVE  /\ Modules \in Nat \ {0} /\ GPUPart(name) \in Nat /\ NetPart(name) \in Nat
         /\ WaitAt(name) \in Nat /\ WaitAt(name) = GPUPart(name) + NetPart(name) + 1
         /\ name # "net_sd" => GPUPart(name) = Modules + 1
         /\ name = "net_sd" => GPUPart(name) = 0
         /\ name # "gpu_sd" => NetPart(name) = 3
         /\ name = "gpu_sd" => NetPart(name) = 0
<1>1. Modules \in Nat \ {0}
  BY ModulesAre
<1>. QED
  BY <1>1 DEF GPUPart, NetPart, WaitAt

\* Uses, disposals and all other statements of the GPU modules.
LEMMA GPUStackMoves ==
  ASSUME NEW name \in Daemons, NEW p \in Nat \ {0}
  PROVE  /\ name # "net_sd" /\ p <= Modules =>
              /\ ~Contains(GPUStack(name, p), GPUModules[p])
              /\ Append(GPUStack(name, p), GPUModules[p]) = GPUStack(name, p + 1)
         /\ \A k \in 1 .. Modules : p = WaitAt(name) + k =>
              RemoveFirst(GPUStack(name, p), GPUModules[k]) = GPUStack(name, p + 1)
         /\ (name = "net_sd" \/ p > Modules) /\ (p <= WaitAt(name) \/ p > WaitAt(name) + Modules) =>
              GPUStack(name, p + 1) = GPUStack(name, p)
         /\ name # "net_sd" /\ p = Modules + 1 => GPUStack(name, p) = GPUModules
<1>. DEFINE w == WaitAt(name)
            all == GPUModules
            n == Modules
<1>1. n \in Nat \ {0} /\ w \in Nat /\ (name # "net_sd" => w >= n + 2) /\ Len(all) = n
  BY PartsAre DEF Modules
<1>2. all \in Seq(Module) /\ \A k, l \in DOMAIN all : all[k] = all[l] => k = l
  BY ModulesAre
<1>3. SubSeq(all, 1, n) = all
  <2>. HIDE DEF all, n
  <2>1. SubSeq(all, 1, n) = [k \in 1 .. n |-> all[k]] /\ all = [k \in 1 .. n |-> all[k]]
    BY <1>1, <1>2
  <2>. QED
    BY <2>1
<1>4. /\ name = "net_sd" => GPUStack(name, p) = << >> /\ GPUStack(name, p + 1) = << >>
      /\ name # "net_sd" =>
           /\ p <= n => GPUStack(name, p) = SubSeq(all, 1, p - 1)
           /\ p <= n => GPUStack(name, p + 1) = SubSeq(all, 1, p)
           /\ n < p /\ p <= w => GPUStack(name, p) = all
           /\ n < p /\ p < w => GPUStack(name, p + 1) = all
           /\ p > w + n => GPUStack(name, p) = << >>
           /\ p >= w + n => GPUStack(name, p + 1) = << >>
           /\ p > w /\ p <= w + n => GPUStack(name, p) = SubSeq(all, p - w, n)
           /\ p >= w /\ p < w + n => GPUStack(name, p + 1) = SubSeq(all, (p + 1) - w, n)
  <2>1. name = "net_sd" => GPUStack(name, p) = << >> /\ GPUStack(name, p + 1) = << >>
    BY DEF GPUStack
  <2>2. ASSUME name # "net_sd", NEW q \in Nat \ {0}
        PROVE  /\ q <= n => GPUStack(name, q) = SubSeq(all, 1, q - 1)
               /\ n < q /\ q <= w => GPUStack(name, q) = all
               /\ q > w + n => GPUStack(name, q) = << >>
               /\ q > w /\ q <= w + n => GPUStack(name, q) = SubSeq(all, q - w, n)
    <3>. DEFINE prefix == SubSeq(all, 1, q - 1)
                suffix == SubSeq(all, q - w, n)
    <3>1. GPUStack(name, q) = IF q <= n THEN prefix ELSE IF q <= w THEN all
                              ELSE IF q <= w + n THEN suffix ELSE << >>
      BY <2>2 DEF GPUStack
    <3>. HIDE DEF prefix, suffix, all, n, w
    <3>2. /\ q <= n => GPUStack(name, q) = prefix
          /\ n < q /\ q <= w => GPUStack(name, q) = all
          /\ q > w + n => GPUStack(name, q) = << >>
          /\ q > w /\ q <= w + n => GPUStack(name, q) = suffix
      BY <1>1, <2>2, <3>1
    <3>. QED
      BY <3>2 DEF prefix, suffix
  <2>3. ASSUME name # "net_sd", p <= n PROVE GPUStack(name, p + 1) = SubSeq(all, 1, p)
    <3>1. CASE p < n
      <4>1. GPUStack(name, p + 1) = SubSeq(all, 1, (p + 1) - 1) /\ (p + 1) - 1 = p
        <5>. HIDE DEF all, n
        <5>. QED
          BY <1>1, <2>2, <2>3, <3>1
      <4>. QED
        BY <4>1
    <3>2. CASE p = n
      <4>1. GPUStack(name, p + 1) = all
        <5>. HIDE DEF all, n, w
        <5>. QED
          BY <1>1, <2>2, <2>3, <3>2
      <4>. QED
        BY <1>3, <3>2, <4>1
    <3>. HIDE DEF all, n
    <3>. QED
      BY <1>1, <2>3, <3>1, <3>2
  <2>. HIDE DEF all, n, w
  <2>. QED
    BY <1>1, <2>1, <2>2, <2>3
<1>5. ASSUME name # "net_sd", p <= n
      PROVE  /\ ~Contains(GPUStack(name, p), all[p])
             /\ Append(GPUStack(name, p), all[p]) = GPUStack(name, p + 1)
  <2>1. PICK k \in Nat : p = k + 1
    OBVIOUS
  <2>2. ~Contains(SubSeq(all, 1, k), all[k + 1])
        /\ Append(SubSeq(all, 1, k), all[k + 1]) = SubSeq(all, 1, k + 1)
    <3>. HIDE DEF all, n
    <3>. QED
      BY <1>1, <1>2, <1>5, <2>1, UseNext
  <2>3. p - 1 = k
    BY <2>1
  <2>. HIDE DEF all, n
  <2>. QED
    BY <1>4, <1>5, <2>1, <2>2, <2>3
<1>6. ASSUME NEW k \in 1 .. n, p = w + k
      PROVE  RemoveFirst(GPUStack(name, p), all[k]) = GPUStack(name, p + 1)
  <2>1. CASE name = "net_sd"
    <3>1. RemoveFirst(<< >>, all[k]) = << >>
      BY RemoveNone
    <3>. QED
      BY <1>4, <2>1, <3>1
  <2>2. CASE name # "net_sd"
    <3>. DEFINE rest == SubSeq(all, k, n)
    <3>1. /\ rest \in Seq(Module) /\ rest # << >> /\ rest[1] = all[k] /\ Len(rest) = (n - k) + 1
          /\ SubSeq(rest, 2, Len(rest)) = IF k < n THEN SubSeq(all, k + 1, n) ELSE << >>
      <4>. HIDE DEF all, n
      <4>1. /\ rest \in Seq(Module) /\ Len(rest) = (n - k) + 1
            /\ \A l \in 1 .. (n - k) + 1 : rest[l] = all[k + l - 1]
        BY <1>1, <1>2
      <4>. HIDE DEF rest
      <4>2. rest # << >> /\ rest[1] = all[k]
        BY <1>1, <4>1
      <4>3. CASE k < n
        <5>. DEFINE tail == SubSeq(rest, 2, Len(rest))
                    next == SubSeq(all, k + 1, n)
        <5>1. /\ tail = [l \in 1 .. n - k |-> rest[l + 1]]
              /\ next = [l \in 1 .. n - k |-> all[k + l]]
          <6>1. k \in Nat \ {0} /\ n \in Nat /\ (n - k) + 1 \in Nat /\ (n - k) + 1 - 2 + 1 = n - k
                /\ n - (k + 1) + 1 = n - k
            BY <1>1, <4>3
          <6>2. /\ tail = [l \in 1 .. (n - k) + 1 - 2 + 1 |-> rest[2 + l - 1]]
                /\ \A l \in 1 .. n - k : 2 + l - 1 = l + 1
            BY <4>1, <6>1
          <6>3. /\ next = [l \in 1 .. n - (k + 1) + 1 |-> all[(k + 1) + l - 1]]
                /\ \A l \in 1 .. n - k : (k + 1) + l - 1 = k + l
            BY <1>2, <6>1
          <6>. HIDE DEF tail, next
          <6>. QED
            BY <6>1, <6>2, <6>3
        <5>2. \A l \in 1 .. n - k : rest[l + 1] = all[k + l]
          BY <1>1, <4>1, <4>3
        <5>. HIDE DEF tail, next
        <5>3. tail = next
          BY <5>1, <5>2
        <5>. QED
          BY <4>1, <4>2, <4>3, <5>3 DEF tail, next
      <4>4. CASE k = n
        <5>1. Len(rest) = 1
          BY <1>1, <4>1, <4>4
        <5>2. SubSeq(rest, 2, 1) = << >>
          BY <4>1
        <5>. QED
          BY <1>1, <4>1, <4>2, <4>4, <5>1, <5>2
      <4>. QED
        BY <1>1, <4>3, <4>4
    <3>2. RemoveFirst(rest, all[k]) = IF k < n THEN SubSeq(all, k + 1, n) ELSE << >>
      <4>. HIDE DEF rest, all, n
      <4>. QED
        BY <3>1, RemoveHead
    <3>3. GPUStack(name, p) = rest
      <4>1. p > w /\ p <= w + n /\ p - w = k
        BY <1>1, <1>6
      <4>. QED
        BY <1>4, <2>2, <4>1
    <3>4. GPUStack(name, p + 1) = IF k < n THEN SubSeq(all, k + 1, n) ELSE << >>
      <4>1. /\ k < n => p >= w /\ p < w + n /\ (p + 1) - w = k + 1
            /\ ~(k < n) => p >= w + n
        <5>. HIDE DEF w, n
        <5>. QED
          BY <1>1, <1>6
      <4>. HIDE DEF all, w, n
      <4>. QED
        BY <1>4, <2>2, <4>1
    <3>. QED
      BY <3>2, <3>3, <3>4
  <2>. QED
    BY <2>1, <2>2
<1>7. ASSUME name = "net_sd" \/ p > n, p <= w \/ p > w + n
      PROVE  GPUStack(name, p + 1) = GPUStack(name, p)
  <2>1. CASE name = "net_sd"
    BY <1>4, <2>1
  <2>2. CASE name # "net_sd" /\ p = w
    <3>1. (p + 1) - w = 1 /\ p >= w /\ p < w + n /\ n < p
      BY <1>1, <2>2
    <3>. HIDE DEF all, w, n
    <3>. QED
      BY <1>3, <1>4, <2>2, <3>1
  <2>3. CASE name # "net_sd" /\ p # w
    <3>. HIDE DEF all, w, n
    <3>. QED
      BY <1>1, <1>4, <1>7, <2>3
  <2>. QED
    BY <2>1, <2>2, <2>3
<1>8. ASSUME name # "net_sd", p = n + 1
      PROVE  GPUStack(name, p) = all
  <2>. HIDE DEF all, w, n
  <2>. QED
    BY <1>1, <1>4, <1>8
<1>. QED
  BY <1>5, <1>6, <1>7, <1>8


LEMMA NetStackMoves ==
  ASSUME NEW name \in Daemons, NEW p \in Nat \ {0}
  PROVE  /\ name # "gpu_sd" /\ p = GPUPart(name) + 1 =>
              NetStack(name, p) = << >> /\ NetStack(name, p + 1) = <<DnsSd>>
         /\ name # "gpu_sd" /\ p = GPUPart(name) + 2 =>
              NetStack(name, p) = <<DnsSd>> /\ NetStack(name, p + 1) = <<DnsSd, "sys">>
         /\ name # "gpu_sd" /\ p = GPUPart(name) + 3 => NetStack(name, p) = <<DnsSd, "sys">>
         /\ p = WaitAt(name) + Modules + 1 =>
              RemoveFirst(NetStack(name, p), DnsSd) = NetStack(name, p + 1)
         /\ p = WaitAt(name) + Modules + 2 =>
              RemoveFirst(NetStack(name, p), "sys") = NetStack(name, p + 1)
         /\ p \notin {GPUPart(name) + 1, GPUPart(name) + 2,
                      WaitAt(name) + Modules + 1, WaitAt(name) + Modules + 2}
              \/ name = "gpu_sd" =>
              NetStack(name, p + 1) = NetStack(name, p)
<1>. DEFINE g == GPUPart(name)
            w == WaitAt(name)
            n == Modules
            DS == DnsSd
<1>1. n \in Nat \ {0} /\ g \in Nat /\ w \in Nat /\ w >= g + 1 /\ (name # "gpu_sd" => w = g + 4)
  BY PartsAre
<1>2. /\ RemoveFirst(<< >>, DS) = << >> /\ RemoveFirst(<< >>, "sys") = << >>
      /\ RemoveFirst(<<DS, "sys">>, DS) = <<"sys">> /\ RemoveFirst(<<"sys">>, "sys") = << >>
  <2>1. RemoveFirst(<< >>, DS) = << >> /\ RemoveFirst(<< >>, "sys") = << >>
    BY RemoveNone
  <2>2. RemoveFirst(<<DS, "sys">>, DS) = <<"sys">>
    <3>1. DS \in {DS, "sys"} /\ "sys" \in {DS, "sys"}
      OBVIOUS
    <3>. QED
      BY <3>1, PairIs
  <2>3. RemoveFirst(<<"sys">>, "sys") = << >>
    <3>. DEFINE list == <<"sys">>
    <3>1. list \in Seq({"sys"}) /\ list # << >> /\ list[1] = "sys" /\ Len(list) = 1
          /\ SubSeq(list, 2, 1) = << >>
      OBVIOUS
    <3>. HIDE DEF list
    <3>2. RemoveFirst(list, "sys") = << >>
      BY <3>1, RemoveHead
    <3>. QED
      BY <3>2 DEF list
  <2>. QED
    BY <2>1, <2>2, <2>3
<1>3. ASSUME NEW q \in Nat \ {0}
      PROVE  /\ name = "gpu_sd" \/ q <= g + 1 => NetStack(name, q) = << >>
             /\ name # "gpu_sd" /\ q = g + 2 => NetStack(name, q) = <<DS>>
             /\ name # "gpu_sd" /\ q > g + 2 /\ q <= w + n + 1 => NetStack(name, q) = <<DS, "sys">>
             /\ name # "gpu_sd" /\ q = w + n + 2 => NetStack(name, q) = <<"sys">>
             /\ q > w + n + 2 => NetStack(name, q) = << >>
  <2>. DEFINE one == <<DS>>
              both == <<DS, "sys">>
              last == <<"sys">>
  <2>1. NetStack(name, q) =
          IF name = "gpu_sd" \/ q <= g + 1 THEN << >> ELSE IF q = g + 2 THEN one
          ELSE IF q <= w + n + 1 THEN both ELSE IF q = w + n + 2 THEN last ELSE << >>
    BY DEF NetStack
  <2>. HIDE DEF one, both, last, g, w, n
  <2>2. /\ name = "gpu_sd" \/ q <= g + 1 => NetStack(name, q) = << >>
        /\ name # "gpu_sd" /\ q = g + 2 => NetStack(name, q) = one
        /\ name # "gpu_sd" /\ q > g + 2 /\ q <= w + n + 1 => NetStack(name, q) = both
        /\ name # "gpu_sd" /\ q = w + n + 2 => NetStack(name, q) = last
        /\ q > w + n + 2 => NetStack(name, q) = << >>
    BY <1>1, <2>1
  <2>. QED
    BY <2>2 DEF one, both, last
<1>. DEFINE one == <<DS>>
            both == <<DS, "sys">>
            last == <<"sys">>
            now == NetStack(name, p)
            next == NetStack(name, p + 1)
<1>4. p + 1 \in Nat \ {0}
  OBVIOUS
<1>5. /\ name = "gpu_sd" \/ p <= g + 1 => now = << >>
      /\ name # "gpu_sd" /\ p = g + 2 => now = one
      /\ name # "gpu_sd" /\ p > g + 2 /\ p <= w + n + 1 => now = both
      /\ name # "gpu_sd" /\ p = w + n + 2 => now = last
      /\ p > w + n + 2 => now = << >>
  BY <1>3
<1>6. /\ name = "gpu_sd" \/ p + 1 <= g + 1 => next = << >>
      /\ name # "gpu_sd" /\ p + 1 = g + 2 => next = one
      /\ name # "gpu_sd" /\ p + 1 > g + 2 /\ p + 1 <= w + n + 1 => next = both
      /\ name # "gpu_sd" /\ p + 1 = w + n + 2 => next = last
      /\ p + 1 > w + n + 2 => next = << >>
  BY <1>3, <1>4
<1>. HIDE DEF one, both, last, now, next, g, w, n, DS
<1>7. /\ name # "gpu_sd" /\ p = g + 1 => now = << >> /\ next = one
      /\ name # "gpu_sd" /\ p = g + 2 => now = one /\ next = both
      /\ name # "gpu_sd" /\ p = g + 3 => now = both
  BY <1>1, <1>5, <1>6
<1>8. /\ p = w + n + 1 => (now = << >> /\ next = << >>) \/ (now = both /\ next = last)
      /\ p = w + n + 2 => (now = << >> /\ next = << >>) \/ (now = last /\ next = << >>)
  BY <1>1, <1>5, <1>6
<1>9. p \notin {g + 1, g + 2, w + n + 1, w + n + 2} => next = now
  BY <1>1, <1>5, <1>6
<1>10. name = "gpu_sd" => next = now
  BY <1>5, <1>6
<1>11. /\ RemoveFirst(<< >>, DS) = << >> /\ RemoveFirst(<< >>, "sys") = << >>
       /\ RemoveFirst(both, DS) = last /\ RemoveFirst(last, "sys") = << >>
  BY <1>2 DEF both, last
<1>12. /\ p = w + n + 1 => RemoveFirst(now, DS) = next
       /\ p = w + n + 2 => RemoveFirst(now, "sys") = next
  BY <1>8, <1>11
<1>. QED
  BY <1>7, <1>9, <1>10, <1>12 DEF one, both, now, next, g, w, n, DS


LEMMA Split ==
  ASSUME NEW n \in Nat, NEW w \in Nat, NEW p \in Nat, p <= w + n + 2
  PROVE  p < w \/ p = w \/ (\E k \in 1 .. n : p = w + k) \/ p \in {w + n + 1, w + n + 2}
<1>1. p > w /\ p <= w + n => p - w \in 1 .. n /\ p = w + (p - w)
  OBVIOUS
<1>. QED
  BY <1>1

\* Which statements are of which kind.
LEMMA DaemonStatement ==
  ASSUME NEW name \in Daemons, NEW p \in 1 .. Len(DaemonMain(name))
  PROVE  LET s == DaemonMain(name)[p] IN
           /\ s.op = "use" =>
                \/ name # "net_sd" /\ p <= Modules /\ s = Statement("use", "GPU", GPUModules[p])
                \/ name # "gpu_sd" /\ p = GPUPart(name) + 1 /\ s = Statement("use", "Net", DnsSd)
                \/ name # "gpu_sd" /\ p = GPUPart(name) + 2 /\ s = Statement("use", "Net", "sys")
           /\ s.op = "announce" =>
                \/ name # "net_sd" /\ p = Modules + 1 /\ s = Statement("announce", "GPU", DnsSd)
                \/ name # "gpu_sd" /\ p = GPUPart(name) + 3 /\ s = Statement("announce", "Net", DnsSd)
           /\ s.op = "wait" => p = WaitAt(name)
           /\ s.op = "dispose" =>
                \/ \E k \in 1 .. Modules : /\ p = WaitAt(name) + k
                                           /\ s = Statement("dispose", "GPU", GPUModules[k])
                \/ p = WaitAt(name) + Modules + 1 /\ s = Statement("dispose", "Net", DnsSd)
                \/ p = WaitAt(name) + Modules + 2 /\ s = Statement("dispose", "Net", "sys")
           /\ s.op # "discover"
<1>. DEFINE s == DaemonMain(name)[p]
            g == GPUPart(name)
            w == WaitAt(name)
            n == Modules
<1>0. p \in Nat /\ p > 0 /\ p <= w + n + 2
  <2>1. Len(DaemonMain(name)) = w + n + 2 /\ w \in Nat /\ n \in Nat
    BY DaemonLayout, PartsAre
  <2>. HIDE DEF w, n
  <2>. QED
    BY <2>1
<1>1. \/ name # "net_sd" /\ p <= n
      \/ name # "net_sd" /\ p = n + 1
      \/ name # "gpu_sd" /\ p \in {g + 1, g + 2, g + 3}
      \/ p = w
      \/ \E k \in 1 .. n : p = w + k
      \/ p \in {w + n + 1, w + n + 2}
  <2>1. /\ n \in Nat \ {0} /\ g \in Nat /\ NetPart(name) \in Nat
        /\ w \in Nat /\ w = g + NetPart(name) + 1
        /\ name # "net_sd" => g = n + 1
        /\ name = "net_sd" => g = 0
        /\ name # "gpu_sd" => NetPart(name) = 3
        /\ name = "gpu_sd" => NetPart(name) = 0
    BY PartsAre
  <2>2. p < w \/ p = w \/ (\E k \in 1 .. n : p = w + k) \/ p \in {w + n + 1, w + n + 2}
    <3>. HIDE DEF w, n
    <3>. QED
      BY <1>0, <2>1, Split
  <2>3. p < w => \/ name # "net_sd" /\ p <= n
                 \/ name # "net_sd" /\ p = n + 1
                 \/ name # "gpu_sd" /\ (p = g + 1 \/ p = g + 2 \/ p = g + 3)
    <3>. DEFINE m == NetPart(name)
    <3>1. /\ p \in Nat /\ p > 0 /\ n \in Nat /\ g \in Nat /\ w \in Nat /\ w = g + m + 1
          /\ g = IF name = "net_sd" THEN 0 ELSE n + 1
          /\ m = IF name = "gpu_sd" THEN 0 ELSE 3
      BY <1>0, <2>1
    <3>. HIDE DEF w, g, n, m
    <3>2. p < w => p <= g \/ (m = 3 /\ (p = g + 1 \/ p = g + 2 \/ p = g + 3))
      <4>1. CASE m = 3
        BY <3>1, <4>1
      <4>2. CASE m = 0
        BY <3>1, <4>2
      <4>. QED
        BY <3>1, <4>1, <4>2
    <3>3. p <= g => name # "net_sd" /\ (p <= n \/ p = n + 1)
      BY <3>1
    <3>. QED
      BY <3>1, <3>2, <3>3
  <2>. QED
    BY <2>2, <2>3
<1>2. \A op, resource, module : Statement(op, resource, module).op = op
  BY DEF Statement
<1>3. CASE name # "net_sd" /\ p <= n
  <2>1. s = Statement("use", "GPU", GPUModules[p])
    BY <1>0, <1>3, DaemonLayout
  <2>. HIDE DEF s
  <2>. QED
    BY <1>2, <1>3, <2>1 DEF s
<1>4. CASE name # "net_sd" /\ p = n + 1
  <2>1. s = Statement("announce", "GPU", DnsSd)
    BY <1>4, DaemonLayout
  <2>. HIDE DEF s
  <2>. QED
    BY <1>2, <1>4, <2>1 DEF s
<1>5. CASE name # "gpu_sd" /\ p \in {g + 1, g + 2, g + 3}
  <2>1. /\ p = g + 1 => s = Statement("use", "Net", DnsSd)
        /\ p = g + 2 => s = Statement("use", "Net", "sys")
        /\ p = g + 3 => s = Statement("announce", "Net", DnsSd)
    BY <1>5, DaemonLayout
  <2>. HIDE DEF s
  <2>. QED
    BY <1>2, <1>5, <2>1 DEF s
<1>6. CASE p = w
  <2>1. s = Statement("wait", "Net", DnsSd)
    BY <1>6, DaemonLayout
  <2>. HIDE DEF s
  <2>. QED
    BY <1>2, <1>6, <2>1 DEF s
<1>7. CASE \E k \in 1 .. n : p = w + k
  <2>1. PICK k \in 1 .. n : p = w + k
    BY <1>7
  <2>2. s = Statement("dispose", "GPU", GPUModules[k])
    BY <2>1, DaemonLayout
  <2>. HIDE DEF s
  <2>. QED
    BY <1>2, <2>1, <2>2 DEF s
<1>8. CASE p \in {w + n + 1, w + n + 2}
  <2>1. /\ p = w + n + 1 => s = Statement("dispose", "Net", DnsSd)
        /\ p = w + n + 2 => s = Statement("dispose", "Net", "sys")
    BY <1>8, DaemonLayout
  <2>. HIDE DEF s
  <2>. QED
    BY <1>2, <1>8, <2>1 DEF s
<1>. QED
  BY <1>1, <1>3, <1>4, <1>5, <1>6, <1>7, <1>8

\* What the daemon has at statement p, and where it can wait or end.
DaemonHas(name, p) ==
  /\ p \in 1 .. WaitAt(name) + Modules + 3
  /\ registered = [resource \in Resource |->
                     IF resource = "GPU" THEN GPUStack(name, p) ELSE NetStack(name, p)]
  /\ record \in [Resource -> {NoRecord, GPULocals, NetLocals}]
  /\ record["GPU"] # NoRecord => /\ record["GPU"] = GPULocals /\ name # "net_sd"
                                 /\ Modules + 1 < p /\ p <= WaitAt(name) + Modules
  /\ record["Net"] # NoRecord => /\ record["Net"] = NetLocals /\ name # "gpu_sd"
                                 /\ GPUPart(name) + 3 < p /\ p <= WaitAt(name) + Modules + 1
  /\ listed = Of(<< >>)
  /\ status \in {"new", "running", "waiting", "success", "failure", "killed"}
  /\ status = "new" => p = 1
  /\ status = "waiting" => p = WaitAt(name)
  /\ status = "success" => p = 1 \/ p = WaitAt(name) + Modules + 3
  /\ status = "failure" => \/ p = 1
                           \/ name # "net_sd" /\ p = Modules + 1
                           \/ name # "gpu_sd" /\ p = GPUPart(name) + 3

DaemonInv ==
  executable \in Daemons =>
    \A name, p : name = executable /\ p = at => DaemonHas(name, p)


\* A statement that uses, disposes of or announces takes the stacks and the
\* records from p to p + 1.
LEMMA DaemonUses ==
  ASSUME NEW name \in Daemons, name = executable, NEW p, p = at, DaemonHas(name, p), Use
  PROVE  DaemonHas(name, p + 1)'
<1>. DEFINE s == DaemonMain(name)[p]
            g == GPUPart(name)
            w == WaitAt(name)
            n == Modules
            stack == registered[s.resource]
<1>1. /\ status = "running" /\ p <= Len(DaemonMain(name)) /\ s.op = "use"
      /\ registered' = [registered EXCEPT ![s.resource] =
                          IF Contains(@, s.module) THEN @ ELSE Append(@, s.module)]
      /\ UNCHANGED <<status, record, listed>>
  BY DEF Use, AtStatement, Current, Main
<1>2. p \in Nat \ {0} /\ p \in 1 .. Len(DaemonMain(name)) /\ p <= w + n + 2
  <2>1. p \in 1 .. w + n + 3 /\ Len(DaemonMain(name)) = w + n + 2 /\ w \in Nat /\ n \in Nat
    BY DaemonLayout, PartsAre DEF DaemonHas
  <2>. HIDE DEF w, n
  <2>. QED
    BY <1>1, <2>1
<1>3. \/ name # "net_sd" /\ p <= n /\ s = Statement("use", "GPU", GPUModules[p])
      \/ name # "gpu_sd" /\ p = g + 1 /\ s = Statement("use", "Net", DnsSd)
      \/ name # "gpu_sd" /\ p = g + 2 /\ s = Statement("use", "Net", "sys")
  BY <1>1, <1>2, DaemonStatement
<1>4. /\ registered = [resource \in Resource |->
                         IF resource = "GPU" THEN GPUStack(name, p) ELSE NetStack(name, p)]
      /\ registered["GPU"] = GPUStack(name, p) /\ registered["Net"] = NetStack(name, p)
  BY DEF DaemonHas, Resource
<1>5. /\ n \in Nat \ {0} /\ g \in Nat /\ w \in Nat
      /\ name # "net_sd" => g = n + 1 /\ w > n
      /\ name # "gpu_sd" => w = g + 4
  BY PartsAre
<1>6. registered' = [resource \in Resource |->
                       IF resource = "GPU" THEN GPUStack(name, p + 1) ELSE NetStack(name, p + 1)]
  <2>1. CASE name # "net_sd" /\ p <= n /\ s = Statement("use", "GPU", GPUModules[p])
    <3>1. s.resource = "GPU" /\ s.module = GPUModules[p]
      <4>. HIDE DEF s
      <4>. QED
        BY <2>1 DEF Statement
    <3>2. /\ ~Contains(GPUStack(name, p), GPUModules[p])
          /\ Append(GPUStack(name, p), GPUModules[p]) = GPUStack(name, p + 1)
      BY <1>2, <2>1, GPUStackMoves
    <3>3. NetStack(name, p + 1) = NetStack(name, p)
      <4>1. p \notin {g + 1, g + 2, w + n + 1, w + n + 2}
        <5>. HIDE DEF g, w, n
        <5>. QED
          BY <1>2, <1>5, <2>1
      <4>. QED
        BY <1>2, <4>1, NetStackMoves
    <3>. HIDE DEF s
    <3>4. registered' = [registered EXCEPT !["GPU"] = GPUStack(name, p + 1)]
      BY <1>1, <1>4, <3>1, <3>2
    <3>. QED
      BY <1>4, <3>3, <3>4 DEF Resource
  <2>2. CASE name # "gpu_sd" /\ p \in {g + 1, g + 2} /\ s.resource = "Net"
             /\ s.module = (IF p = g + 1 THEN DnsSd ELSE "sys")
    <3>1. /\ p = g + 1 => NetStack(name, p) = << >> /\ NetStack(name, p + 1) = <<DnsSd>>
          /\ p = g + 2 => NetStack(name, p) = <<DnsSd>> /\ NetStack(name, p + 1) = <<DnsSd, "sys">>
      BY <1>2, <2>2, NetStackMoves
    <3>2. GPUStack(name, p + 1) = GPUStack(name, p)
      <4>1. (name = "net_sd" \/ p > n) /\ p <= w
        <5>. HIDE DEF g, w, n
        <5>. QED
          BY <1>2, <1>5, <2>2
      <4>. QED
        BY <1>2, <4>1, GPUStackMoves
    <3>3. /\ ~Contains(<< >>, DnsSd) /\ Append(<< >>, DnsSd) = <<DnsSd>>
          /\ ~Contains(<<DnsSd>>, "sys") /\ Append(<<DnsSd>>, "sys") = <<DnsSd, "sys">>
      <4>1. DnsSd \in {DnsSd, "sys"} /\ "sys" \in {DnsSd, "sys"} /\ DnsSd # "sys"
        BY DEF DnsSd
      <4>2. Append(<<DnsSd>>, "sys") = <<DnsSd, "sys">>
        BY <4>1, PairIs
      <4>3. ~Contains(<< >>, DnsSd) /\ ~Contains(<<DnsSd>>, "sys")
        BY <4>1 DEF Contains
      <4>. QED
        BY <4>2, <4>3
    <3>4. IF Contains(NetStack(name, p), s.module) THEN FALSE
          ELSE Append(NetStack(name, p), s.module) = NetStack(name, p + 1)
      <4>1. g + 1 # g + 2
        BY <1>5
      <4>. HIDE DEF s, g
      <4>. QED
        BY <2>2, <3>1, <3>3, <4>1
    <3>. HIDE DEF s
    <3>5. registered' = [registered EXCEPT !["Net"] = NetStack(name, p + 1)]
      BY <1>1, <1>4, <2>2, <3>4
    <3>. QED
      BY <1>4, <3>2, <3>5 DEF Resource
  <2>3. ASSUME name # "gpu_sd",
               \/ p = g + 1 /\ s = Statement("use", "Net", DnsSd)
               \/ p = g + 2 /\ s = Statement("use", "Net", "sys")
        PROVE  s.resource = "Net" /\ s.module = (IF p = g + 1 THEN DnsSd ELSE "sys")
    <3>1. g + 1 # g + 2
      BY <1>5
    <3>. HIDE DEF s, g
    <3>. QED
      BY <2>3, <3>1 DEF Statement
  <2>. HIDE DEF s
  <2>. QED
    BY <1>3, <2>1, <2>2, <2>3
<1>7. /\ p + 1 \in 1 .. w + n + 3 /\ p + 1 <= w + n
      /\ n + 1 < p => n + 1 < p + 1
      /\ name # "gpu_sd" => ~(g + 3 < p)
  <2>1. \/ name # "net_sd" /\ p <= n
        \/ name # "gpu_sd" /\ p = g + 1
        \/ name # "gpu_sd" /\ p = g + 2
    BY <1>3
  <2>2. name = "net_sd" => g = 0
    BY PartsAre
  <2>. HIDE DEF s, g, w, n
  <2>3. p \in Nat /\ p < w
    BY <1>2, <1>5, <2>1, <2>2
  <2>4. name # "gpu_sd" => ~(g + 3 < p)
    BY <1>2, <1>5, <2>1
  <2>. QED
    BY <1>5, <2>3, <2>4
<1>8. /\ record \in [Resource -> {NoRecord, GPULocals, NetLocals}]
      /\ record["GPU"] # NoRecord => /\ record["GPU"] = GPULocals /\ name # "net_sd" /\ n + 1 < p
      /\ record["Net"] # NoRecord => /\ name # "gpu_sd" /\ g + 3 < p
      /\ listed = Of(<< >>)
  BY DEF DaemonHas
<1>. HIDE DEF s
<1>. QED
  BY <1>1, <1>6, <1>7, <1>8 DEF DaemonHas, Of


LEMMA DaemonDisposes ==
  ASSUME NEW name \in Daemons, name = executable, NEW p, p = at, DaemonHas(name, p), Dispose
  PROVE  DaemonHas(name, p + 1)'
<1>. DEFINE s == DaemonMain(name)[p]
            w == WaitAt(name)
            n == Modules
<1>1. /\ status = "running" /\ p <= Len(DaemonMain(name)) /\ s.op = "dispose"
      /\ registered' = [registered EXCEPT ![s.resource] = RemoveFirst(@, s.module)]
      /\ record' = [record EXCEPT ![s.resource] = IF s.module = DnsSd THEN NoRecord ELSE @]
      /\ UNCHANGED <<status, listed>>
  BY DEF Dispose, AtStatement, Current, Main
<1>2. p \in Nat \ {0} /\ p \in 1 .. Len(DaemonMain(name)) /\ p <= w + n + 2
  <2>1. p \in 1 .. w + n + 3 /\ Len(DaemonMain(name)) = w + n + 2 /\ w \in Nat /\ n \in Nat
    BY DaemonLayout, PartsAre DEF DaemonHas
  <2>. HIDE DEF w, n
  <2>. QED
    BY <1>1, <2>1
<1>3. \/ \E k \in 1 .. n : p = w + k /\ s = Statement("dispose", "GPU", GPUModules[k])
      \/ p = w + n + 1 /\ s = Statement("dispose", "Net", DnsSd)
      \/ p = w + n + 2 /\ s = Statement("dispose", "Net", "sys")
  BY <1>1, <1>2, DaemonStatement
<1>4. /\ registered = [resource \in Resource |->
                         IF resource = "GPU" THEN GPUStack(name, p) ELSE NetStack(name, p)]
      /\ registered["GPU"] = GPUStack(name, p) /\ registered["Net"] = NetStack(name, p)
      /\ record \in [Resource -> {NoRecord, GPULocals, NetLocals}]
      /\ record["GPU"] # NoRecord => /\ record["GPU"] = GPULocals /\ name # "net_sd"
                                     /\ n + 1 < p /\ p <= w + n
      /\ record["Net"] # NoRecord => /\ record["Net"] = NetLocals /\ name # "gpu_sd"
                                     /\ GPUPart(name) + 3 < p /\ p <= w + n + 1
      /\ listed = Of(<< >>)
  BY DEF DaemonHas, Resource
<1>5. /\ n \in Nat \ {0} /\ w \in Nat /\ GPUPart(name) \in Nat
      /\ GPUPart(name) + 1 <= w /\ (name # "gpu_sd" => w = GPUPart(name) + 4)
  BY PartsAre
<1>6. CASE \E k \in 1 .. n : p = w + k /\ s = Statement("dispose", "GPU", GPUModules[k])
  <2>1. PICK k \in 1 .. n : p = w + k /\ s = Statement("dispose", "GPU", GPUModules[k])
    BY <1>6
  <2>2. s.resource = "GPU" /\ s.module = GPUModules[k]
    <3>. HIDE DEF s
    <3>. QED
      BY <2>1 DEF Statement
  <2>. HIDE DEF s
  <2>3. RemoveFirst(GPUStack(name, p), GPUModules[k]) = GPUStack(name, p + 1)
    BY <1>2, <2>1, GPUStackMoves
  <2>4. /\ p > w /\ p <= w + n /\ (k < n => p + 1 <= w + n) /\ (k >= n => k = n)
        /\ p + 1 \in 1 .. w + n + 3 /\ p + 1 <= w + n + 1
    <3>. HIDE DEF w, n
    <3>. QED
      BY <1>5, <2>1
  <2>5. NetStack(name, p + 1) = NetStack(name, p)
    <3>1. \/ name = "gpu_sd"
          \/ p \notin {GPUPart(name) + 1, GPUPart(name) + 2, w + n + 1, w + n + 2}
      <4>. HIDE DEF w, n
      <4>. QED
        BY <1>2, <1>5, <2>4
    <3>. QED
      BY <1>2, <3>1, NetStackMoves
  <2>6. registered' = [resource \in Resource |->
                         IF resource = "GPU" THEN GPUStack(name, p + 1) ELSE NetStack(name, p + 1)]
    <3>1. registered' = [registered EXCEPT !["GPU"] = GPUStack(name, p + 1)]
      BY <1>1, <1>4, <2>2, <2>3
    <3>. QED
      BY <1>4, <2>5, <3>1 DEF Resource
  <2>7. /\ k = n => GPUModules[k] = DnsSd
        /\ k < n => GPUModules[k] # DnsSd
    <3>1. GPUModules[n] = DnsSd /\ \A l \in 1 .. n - 1 : GPUModules[l] # DnsSd
      BY ModulesAre
    <3>2. k < n => k \in 1 .. n - 1
      BY <1>5
    <3>. QED
      BY <3>1, <3>2
  <2>8. /\ record' \in [Resource -> {NoRecord, GPULocals, NetLocals}]
        /\ record'["Net"] = record["Net"]
        /\ record'["GPU"] # NoRecord => k < n /\ record'["GPU"] = record["GPU"]
    <3>1. record' = [record EXCEPT !["GPU"] = IF GPUModules[k] = DnsSd THEN NoRecord ELSE @]
      BY <1>1, <2>2
    <3>2. k = n \/ k < n
      BY <1>5, <2>4
    <3>. QED
      BY <1>4, <2>7, <3>1, <3>2 DEF Resource
  <2>9. /\ n + 1 < p => n + 1 < p + 1
        /\ GPUPart(name) + 3 < p => GPUPart(name) + 3 < p + 1
    <3>. HIDE DEF n
    <3>. QED
      BY <1>2, <1>5
  <2>. QED
    BY <1>1, <1>4, <2>4, <2>6, <2>8, <2>9 DEF DaemonHas, Of
<1>7. CASE \/ p = w + n + 1 /\ s = Statement("dispose", "Net", DnsSd)
           \/ p = w + n + 2 /\ s = Statement("dispose", "Net", "sys")
  <2>1. /\ s.resource = "Net"
        /\ p = w + n + 1 => s.module = DnsSd
        /\ p = w + n + 2 => s.module = "sys"
    <3>1. w + n + 1 # w + n + 2
      BY <1>5
    <3>. HIDE DEF s, w, n
    <3>. QED
      BY <1>7, <3>1 DEF Statement
  <2>. HIDE DEF s
  <2>2. p = w + n + 1 \/ p = w + n + 2
    BY <1>7
  <2>3. RemoveFirst(NetStack(name, p), s.module) = NetStack(name, p + 1)
    BY <1>2, <2>1, <2>2, NetStackMoves
  <2>4. GPUStack(name, p + 1) = GPUStack(name, p)
    <3>1. p > n /\ p > w + n
      <4>. HIDE DEF w, n
      <4>. QED
        BY <1>5, <2>2
    <3>. QED
      BY <1>2, <3>1, GPUStackMoves
  <2>5. registered' = [resource \in Resource |->
                         IF resource = "GPU" THEN GPUStack(name, p + 1) ELSE NetStack(name, p + 1)]
    <3>1. registered' = [registered EXCEPT !["Net"] = NetStack(name, p + 1)]
      BY <1>1, <1>4, <2>1, <2>3
    <3>. QED
      BY <1>4, <2>4, <3>1 DEF Resource
  <2>6. record["GPU"] = NoRecord /\ (p = w + n + 2 => record["Net"] = NoRecord)
    <3>1. ~(p <= w + n) /\ (p = w + n + 2 => ~(p <= w + n + 1))
      <4>. HIDE DEF w, n
      <4>. QED
        BY <1>5, <2>2
    <3>. QED
      BY <1>4, <3>1
  <2>7. /\ record' \in [Resource -> {NoRecord, GPULocals, NetLocals}]
        /\ record'["GPU"] = NoRecord /\ record'["Net"] = NoRecord
    BY <1>1, <1>4, <2>1, <2>2, <2>6 DEF Resource
  <2>8. p + 1 \in 1 .. w + n + 3
    <3>. HIDE DEF w, n
    <3>. QED
      BY <1>5, <2>2
  <2>. QED
    BY <1>1, <1>4, <2>5, <2>7, <2>8 DEF DaemonHas, Of
<1>. QED
  BY <1>3, <1>6, <1>7

LEMMA DaemonAnnounces ==
  ASSUME NEW name \in Daemons, name = executable, NEW p, p = at, DaemonHas(name, p),
         AnnounceFound \/ AnnounceNothing \/ AnnounceFails
  PROVE  IF AnnounceFails THEN DaemonHas(name, p)' ELSE DaemonHas(name, p + 1)'
<1>. DEFINE s == DaemonMain(name)[p]
            g == GPUPart(name)
            w == WaitAt(name)
            n == Modules
<1>1. /\ status = "running" /\ p <= Len(DaemonMain(name)) /\ s.op = "announce"
      /\ UNCHANGED <<registered, listed>>
  BY DEF AnnounceFound, AnnounceNothing, AnnounceFails, AtStatement, Current, Main
<1>2. p \in Nat \ {0} /\ p \in 1 .. Len(DaemonMain(name)) /\ p <= w + n + 2
  <2>1. p \in 1 .. w + n + 3 /\ Len(DaemonMain(name)) = w + n + 2 /\ w \in Nat /\ n \in Nat
    BY DaemonLayout, PartsAre DEF DaemonHas
  <2>. HIDE DEF w, n
  <2>. QED
    BY <1>1, <2>1
<1>3. \/ name # "net_sd" /\ p = n + 1 /\ s = Statement("announce", "GPU", DnsSd)
      \/ name # "gpu_sd" /\ p = g + 3 /\ s = Statement("announce", "Net", DnsSd)
  BY <1>1, <1>2, DaemonStatement
<1>4. /\ registered = [resource \in Resource |->
                         IF resource = "GPU" THEN GPUStack(name, p) ELSE NetStack(name, p)]
      /\ registered["GPU"] = GPUStack(name, p) /\ registered["Net"] = NetStack(name, p)
      /\ record \in [Resource -> {NoRecord, GPULocals, NetLocals}]
      /\ record["GPU"] # NoRecord => /\ record["GPU"] = GPULocals /\ name # "net_sd"
                                     /\ n + 1 < p /\ p <= w + n
      /\ record["Net"] # NoRecord => /\ record["Net"] = NetLocals /\ name # "gpu_sd"
                                     /\ g + 3 < p /\ p <= w + n + 1
      /\ listed = Of(<< >>)
  BY DEF DaemonHas, Resource
<1>5. /\ n \in Nat \ {0} /\ w \in Nat /\ g \in Nat /\ g + 1 <= w
      /\ (name # "gpu_sd" => w = g + 4) /\ (name # "net_sd" => g = n + 1)
  BY PartsAre
<1>6. /\ p < w /\ p + 1 \in 1 .. w + n + 3 /\ p + 1 <= w + n
      /\ p \notin {g + 1, g + 2, w + n + 1, w + n + 2} \/ name = "gpu_sd"
      /\ (name = "net_sd" \/ p > n) /\ p <= w
      /\ name = "gpu_sd" \/ p <= g + 3
  <2>1. \/ name # "net_sd" /\ p = n + 1
        \/ name # "gpu_sd" /\ p = g + 3
    BY <1>3
  <2>. HIDE DEF s, g, w, n
  <2>2. CASE name # "net_sd" /\ p = n + 1
    BY <1>5, <2>2
  <2>3. CASE name # "gpu_sd" /\ p = g + 3
    BY <1>5, <2>3
  <2>. QED
    BY <2>1, <2>2, <2>3
<1>7. GPUStack(name, p + 1) = GPUStack(name, p) /\ NetStack(name, p + 1) = NetStack(name, p)
  BY <1>2, <1>6, GPUStackMoves, NetStackMoves
<1>8. registered' = [resource \in Resource |->
                       IF resource = "GPU" THEN GPUStack(name, p + 1) ELSE NetStack(name, p + 1)]
  BY <1>1, <1>4, <1>7
<1>9. /\ record["Net"] = NoRecord
      /\ record["GPU"] # NoRecord => /\ record["GPU"] = GPULocals /\ name # "net_sd"
                                     /\ n + 1 < p + 1 /\ p + 1 <= w + n
  <2>1. name = "gpu_sd" \/ ~(g + 3 < p)
    <3>. HIDE DEF s, g, w, n
    <3>. QED
      BY <1>2, <1>5, <1>6
  <2>2. n + 1 < p => n + 1 < p + 1
    <3>. HIDE DEF n
    <3>. QED
      BY <1>2, <1>5
  <2>. HIDE DEF s
  <2>. QED
    BY <1>4, <1>6, <2>1, <2>2
<1>10. CASE AnnounceFails
  <2>1. status' = "failure" /\ record' = record
    BY <1>10 DEF AnnounceFails
  <2>2. \/ name # "net_sd" /\ p = n + 1
        \/ name # "gpu_sd" /\ p = g + 3
    BY <1>3
  <2>3. p \in 1 .. w + n + 3
    BY DEF DaemonHas
  <2>. HIDE DEF s
  <2>. QED
    BY <1>1, <1>4, <1>10, <2>1, <2>2, <2>3 DEF DaemonHas, Of
<1>11. CASE AnnounceNothing
  <2>1. status' = "running" /\ record' = record /\ ~AnnounceFails
    BY <1>1, <1>11 DEF AnnounceNothing, AnnounceFails
  <2>. HIDE DEF s
  <2>. QED
    BY <1>4, <1>1, <1>6, <1>8, <1>9, <2>1 DEF DaemonHas, Of
<1>12. CASE AnnounceFound
  <2>1. /\ status' = "running" /\ ~AnnounceFails
        /\ record' = [record EXCEPT ![s.resource] = RemoveFirst(registered[s.resource], DnsSd)]
    BY <1>1, <1>12 DEF AnnounceFound, AnnounceFails, Current, Main, Stack
  <2>2. CASE name # "net_sd" /\ p = n + 1 /\ s = Statement("announce", "GPU", DnsSd)
    <3>1. s.resource = "GPU"
      BY <2>2 DEF Statement
    <3>2. GPUStack(name, p) = GPUModules
      BY <1>2, <2>2, GPUStackMoves
    <3>3. RemoveFirst(GPUModules, DnsSd) = GPULocals
      <4>1. /\ GPULocals \in Seq(Module) /\ DnsSd \in Module
            /\ \A k \in DOMAIN GPULocals : GPULocals[k] # DnsSd
        BY LocalsAssumption DEF Module
      <4>. QED
        BY <4>1, RemoveLast DEF GPUModules
    <3>. HIDE DEF s
    <3>4. record' = [record EXCEPT !["GPU"] = GPULocals]
      BY <1>4, <2>1, <3>1, <3>2, <3>3
    <3>5. /\ record' \in [Resource -> {NoRecord, GPULocals, NetLocals}]
          /\ record'["GPU"] = GPULocals /\ record'["Net"] = record["Net"]
      BY <1>4, <3>4 DEF Resource
    <3>6. n + 1 < p + 1
      BY <1>5, <2>2
    <3>. QED
      BY <1>1, <1>4, <1>6, <1>8, <1>9, <2>1, <2>2, <3>5, <3>6 DEF DaemonHas, Of
  <2>3. CASE name # "gpu_sd" /\ p = g + 3 /\ s = Statement("announce", "Net", DnsSd)
    <3>1. s.resource = "Net"
      BY <2>3 DEF Statement
    <3>2. NetStack(name, p) = <<DnsSd, "sys">>
      BY <1>2, <2>3, NetStackMoves
    <3>3. RemoveFirst(<<DnsSd, "sys">>, DnsSd) = NetLocals
      <4>1. DnsSd \in {DnsSd, "sys"} /\ "sys" \in {DnsSd, "sys"}
        OBVIOUS
      <4>. QED
        BY <4>1, PairIs DEF NetLocals
    <3>. HIDE DEF s
    <3>4. record' = [record EXCEPT !["Net"] = NetLocals]
      BY <1>4, <2>1, <3>1, <3>2, <3>3
    <3>5. /\ record' \in [Resource -> {NoRecord, GPULocals, NetLocals}]
          /\ record'["Net"] = NetLocals /\ record'["GPU"] = record["GPU"]
      BY <1>4, <3>4 DEF Resource
    <3>6. g + 3 < p + 1 /\ p + 1 <= w + n + 1
      BY <1>5, <1>6, <2>3
    <3>. QED
      BY <1>1, <1>4, <1>6, <1>8, <1>9, <2>1, <2>3, <3>5, <3>6 DEF DaemonHas, Of
  <2>. HIDE DEF s
  <2>. QED
    BY <1>3, <2>2, <2>3
<1>. QED
  BY <1>10, <1>11, <1>12


\* A daemon that was asked to quit goes on.
LEMMA DaemonGoesOn ==
  ASSUME NEW name \in Daemons, NEW p, p = at, DaemonHas(name, p), Enter
  PROVE  DaemonHas(name, p + 1)'
<1>. DEFINE g == GPUPart(name)
            w == WaitAt(name)
            n == Modules
<1>1. /\ status = "waiting" /\ status' = "running"
      /\ UNCHANGED <<registered, record, listed>>
  BY DEF Enter
<1>2. /\ p = w /\ n \in Nat \ {0} /\ w \in Nat \ {0} /\ g \in Nat
      /\ name # "net_sd" => w > n
      /\ name # "gpu_sd" => w = g + 4
  <2>1. /\ n \in Nat \ {0} /\ g \in Nat /\ NetPart(name) \in Nat
        /\ w \in Nat /\ w = g + NetPart(name) + 1
        /\ name # "net_sd" => g = n + 1
        /\ name # "gpu_sd" => NetPart(name) = 3
    BY PartsAre
  <2>2. p = w
    BY <1>1 DEF DaemonHas
  <2>. HIDE DEF g, w, n
  <2>. QED
    BY <2>1, <2>2
<1>3. GPUStack(name, p + 1) = GPUStack(name, p) /\ NetStack(name, p + 1) = NetStack(name, p)
  <2>1. p \in Nat \ {0} /\ (name = "net_sd" \/ p > n) /\ p <= w
        /\ (p \notin {g + 1, g + 2, w + n + 1, w + n + 2} \/ name = "gpu_sd")
    <3>. HIDE DEF g, w, n
    <3>. QED
      BY <1>2
  <2>. QED
    BY <2>1, GPUStackMoves, NetStackMoves
<1>4. /\ p + 1 \in 1 .. w + n + 3 /\ p + 1 <= w + n /\ p + 1 <= w + n + 1
      /\ n + 1 < p => n + 1 < p + 1
      /\ g + 3 < p => g + 3 < p + 1
  <2>. HIDE DEF g, w, n
  <2>. QED
    BY <1>2
<1>. QED
  BY <1>1, <1>3, <1>4 DEF DaemonHas, Of

LEMMA DaemonStep ==
  ASSUME DaemonInv, [Next]_vars
  PROVE  DaemonInv'
<1>1. executable' = executable
  BY DEF Next, Run, Start, EndAtOptions, Use, Dispose, AnnounceFound, AnnounceNothing,
         AnnounceFails, Discover, Wait, Enter, End, Kill, Expire, vars
<1>. SUFFICES ASSUME NEW name \in Daemons, name = executable, NEW p, p = at, DaemonHas(name, p)
              PROVE  \A q : q = at' => DaemonHas(name, q)'
  <2>1. PICK name, p : name = executable /\ p = at
    OBVIOUS
  <2>2. CASE executable \in Daemons
    <3>1. name \in Daemons /\ DaemonHas(name, p)
      BY <2>1, <2>2 DEF DaemonInv
    <3>2. \A q : q = at' => DaemonHas(name, q)'
      BY <2>1, <3>1
    <3>. QED
      BY <1>1, <2>1, <3>2 DEF DaemonInv
  <2>3. CASE executable \notin Daemons
    BY <1>1, <2>3 DEF DaemonInv, Daemons
  <2>. QED
    BY <2>2, <2>3
<1>3. p \in Nat /\ p \in 1 .. Len(DaemonMain(name)) + 1
      /\ Len(DaemonMain(name)) = WaitAt(name) + Modules + 2
  <2>1. /\ Len(DaemonMain(name)) = WaitAt(name) + Modules + 2
        /\ WaitAt(name) \in Nat /\ Modules \in Nat
        /\ p \in 1 .. WaitAt(name) + Modules + 3
    BY DaemonLayout, PartsAre DEF DaemonHas
  <2>. QED
    BY <2>1
<1>4. Main = DaemonMain(name)
  BY DEF Main
<1>5. ASSUME UNCHANGED <<at, registered, record, listed>>,
             status' \in {"running", "waiting", "success", "failure", "killed"},
             status' = "waiting" => p = WaitAt(name),
             status' = "success" => p = 1 \/ p = WaitAt(name) + Modules + 3,
             status' = "failure" => p = 1
      PROVE  DaemonHas(name, p)'
  BY <1>5 DEF DaemonHas, Of
<1>6. CASE Start \/ EndAtOptions
  <2>1. status = "new" /\ status' \in {"running", "success", "failure"} /\ p = 1
        /\ UNCHANGED <<at, registered, record, listed>>
    BY <1>6 DEF Start, EndAtOptions, DaemonHas
  <2>. QED
    BY <1>5, <2>1
<1>7. CASE Use
  BY <1>7, DaemonUses DEF Use, Go
<1>8. CASE Dispose
  BY <1>8, DaemonDisposes DEF Dispose, Go
<1>9. CASE AnnounceFound \/ AnnounceNothing \/ AnnounceFails
  <2>1. CASE AnnounceFails
    <3>1. at' = p
      BY <2>1 DEF AnnounceFails
    <3>. QED
      BY <2>1, <3>1, DaemonAnnounces
  <2>2. CASE ~AnnounceFails
    <3>1. at' = p + 1
      BY <1>9, <2>2 DEF AnnounceFound, AnnounceNothing, Go
    <3>. QED
      BY <1>9, <2>2, <3>1, DaemonAnnounces
  <2>. QED
    BY <2>1, <2>2
<1>10. CASE Discover
  <2>1. p \in 1 .. Len(DaemonMain(name)) /\ DaemonMain(name)[p].op = "discover"
    BY <1>3, <1>4, <1>10 DEF Discover, AtStatement, Current
  <2>. QED
    BY <2>1, DaemonStatement
<1>11. CASE Wait
  <2>1. /\ p \in 1 .. Len(DaemonMain(name)) /\ DaemonMain(name)[p].op = "wait"
        /\ status' = "waiting" /\ UNCHANGED <<at, registered, record, listed>>
    BY <1>3, <1>4, <1>11 DEF Wait, AtStatement, Current
  <2>2. p = WaitAt(name)
    BY <2>1, DaemonStatement
  <2>. QED
    BY <1>5, <2>1, <2>2
<1>12. CASE Enter
  BY <1>12, DaemonGoesOn DEF Enter, Go
<1>13. CASE End
  <2>1. /\ p > Len(DaemonMain(name)) /\ status' = "success"
        /\ UNCHANGED <<at, registered, record, listed>>
    BY <1>4, <1>13 DEF End
  <2>2. p = WaitAt(name) + Modules + 3
    <3>1. WaitAt(name) \in Nat /\ Modules \in Nat
      BY PartsAre
    <3>. QED
      BY <1>3, <2>1, <3>1
  <2>. QED
    BY <1>5, <2>1, <2>2
<1>14. CASE Kill
  BY <1>5, <1>14 DEF Kill
<1>15. CASE \E resource \in Resource : Expire(resource)
  <2>1. PICK resource \in Resource : Expire(resource)
    BY <1>15
  <2>2. /\ UNCHANGED <<at, registered, listed, status>>
        /\ record' = [record EXCEPT ![resource] = NoRecord]
    BY <2>1 DEF Expire
  <2>3. /\ record' \in [Resource -> {NoRecord, GPULocals, NetLocals}]
        /\ \A r \in Resource : record'[r] # NoRecord => record'[r] = record[r]
    BY <2>2 DEF DaemonHas
  <2>4. "GPU" \in Resource /\ "Net" \in Resource
    BY DEF Resource
  <2>. QED
    BY <2>2, <2>3, <2>4 DEF DaemonHas, Of
<1>16. CASE UNCHANGED vars
  BY <1>16 DEF vars, DaemonHas, Of
<1>. QED
  BY <1>6, <1>7, <1>8, <1>9, <1>10, <1>11, <1>12, <1>13, <1>14, <1>15, <1>16 DEF Next, Run


-------------------------------------------------------------------------------
(* The browser.                                                             *)

LEMMA UseAndDiscoverIs ==
  ASSUME NEW resource \in Resource
  PROVE  LET both == UseAndDiscover(resource) IN
           /\ both \in Seq(Statements) /\ Len(both) = 2
           /\ both[1] = Statement("use", resource, DnsSd)
           /\ both[2] = Statement("discover", resource, DnsSd)
<1>1. DnsSd \in Module /\ "use" \in Op /\ "discover" \in Op
  BY DEF Module, Op
<1>2. Statement("use", resource, DnsSd) \in Statements
      /\ Statement("discover", resource, DnsSd) \in Statements
  BY <1>1 DEF Statement, Statements
<1>. QED
  BY <1>2 DEF UseAndDiscover

\* Started under the name of one resource, it only hears the network.
Only(name) == IF name = "gpu_sd_list" THEN "GPU" ELSE "Net"

LEMMA OneResourceLayout ==
  ASSUME NEW name \in Browsers \ {"hw_sd_list"}
  PROVE  BrowserMain(name) = UseAndDiscover(Only(name)) /\ Only(name) \in Resource
<1>. DEFINE gpu == UseAndDiscover("GPU")
            net == UseAndDiscover("Net")
<1>0. name \in {"gpu_sd_list", "net_sd_list"} /\ "GPU" \in Resource /\ "Net" \in Resource
  BY DEF Browsers, Resource
<1>1. gpu \in Seq(Statements) /\ net \in Seq(Statements)
  BY <1>0, UseAndDiscoverIs
<1>2. \A part \in Seq(Statements) : (<< >> \o part) \o << >> = part /\ (<< >> \o << >>) \o part = part
  OBVIOUS
<1>3. CASE name = "gpu_sd_list"
  <2>1. BrowserMain(name) = (<< >> \o gpu) \o << >>
    BY <1>3 DEF BrowserMain, OnlyIf
  <2>. QED
    BY <1>0, <1>1, <1>2, <1>3, <2>1 DEF Only
<1>4. CASE name = "net_sd_list"
  <2>1. BrowserMain(name) = (<< >> \o << >>) \o net
    BY <1>4 DEF BrowserMain, OnlyIf
  <2>. QED
    BY <1>0, <1>1, <1>2, <1>4, <2>1 DEF Only
<1>. QED
  BY <1>0, <1>3, <1>4

\* Under its own it uses the local modules first.
LEMMA BrowserLayout ==
  LET all == BrowserMain("hw_sd_list") IN
    /\ all \in Seq(Statements) /\ Len(all) = Modules + 4
    /\ \A k \in 1 .. Modules - 1 : all[k] = Statement("use", "GPU", GPUModules[k])
    /\ all[Modules] = Statement("use", "Net", "sys")
    /\ all[Modules + 1] = Statement("use", "GPU", DnsSd)
    /\ all[Modules + 2] = Statement("discover", "GPU", DnsSd)
    /\ all[Modules + 3] = Statement("use", "Net", DnsSd)
    /\ all[Modules + 4] = Statement("discover", "Net", DnsSd)
<1>. DEFINE useGPU == Each("use", "GPU", GPULocals)
            useNet == Each("use", "Net", NetLocals)
            gpu == UseAndDiscover("GPU")
            net == UseAndDiscover("Net")
            locals == useGPU \o useNet
            begin == locals \o gpu
            all == BrowserMain("hw_sd_list")
            n == Modules
<1>0. "use" \in Op /\ "GPU" \in Resource /\ "Net" \in Resource /\ "sys" \in Module
  BY DEF Op, Resource, Module
<1>1. n \in Nat \ {0} /\ GPULocals \in Seq(Module) /\ Len(GPULocals) = n - 1
      /\ \A k \in 1 .. n - 1 : GPUModules[k] = GPULocals[k]
  BY ModulesAre
<1>2. /\ useGPU \in Seq(Statements) /\ Len(useGPU) = n - 1
      /\ \A k \in 1 .. n - 1 : useGPU[k] = Statement("use", "GPU", GPUModules[k])
  <2>1. /\ useGPU \in Seq(Statements) /\ Len(useGPU) = Len(GPULocals)
        /\ \A k \in 1 .. Len(GPULocals) : useGPU[k] = Statement("use", "GPU", GPULocals[k])
    BY <1>0, <1>1, EachIs
  <2>. HIDE DEF useGPU
  <2>. QED
    BY <1>1, <2>1
<1>3. useNet \in Seq(Statements) /\ Len(useNet) = 1 /\ useNet[1] = Statement("use", "Net", "sys")
  <2>1. NetLocals \in Seq(Module) /\ Len(NetLocals) = 1 /\ NetLocals[1] = "sys"
    BY <1>0 DEF NetLocals
  <2>2. /\ useNet \in Seq(Statements) /\ Len(useNet) = Len(NetLocals)
        /\ \A k \in 1 .. Len(NetLocals) : useNet[k] = Statement("use", "Net", NetLocals[k])
    BY <1>0, <2>1, EachIs
  <2>. HIDE DEF useNet
  <2>. QED
    BY <2>1, <2>2
<1>4. /\ gpu \in Seq(Statements) /\ Len(gpu) = 2
      /\ gpu[1] = Statement("use", "GPU", DnsSd) /\ gpu[2] = Statement("discover", "GPU", DnsSd)
      /\ net \in Seq(Statements) /\ Len(net) = 2
      /\ net[1] = Statement("use", "Net", DnsSd) /\ net[2] = Statement("discover", "Net", DnsSd)
  BY <1>0, UseAndDiscoverIs
<1>5. all = begin \o net
  BY DEF BrowserMain, OnlyIf, UseLocals
<1>. HIDE DEF useGPU, useNet, gpu, net, all, n
<1>6. /\ locals \in Seq(Statements) /\ Len(locals) = n
      /\ \A k \in 1 .. n - 1 : locals[k] = useGPU[k]
      /\ locals[n] = useNet[1]
  <2>1. Concatenates(locals, useGPU, useNet)
    BY <1>2, <1>3, ConcatIs
  <2>. HIDE DEF locals
  <2>. QED
    BY <1>1, <1>2, <1>3, <2>1 DEF Concatenates
<1>. HIDE DEF locals
<1>7. /\ begin \in Seq(Statements) /\ Len(begin) = n + 2
      /\ \A k \in 1 .. n : begin[k] = locals[k]
      /\ begin[n + 1] = gpu[1] /\ begin[n + 2] = gpu[2]
  <2>1. Concatenates(begin, locals, gpu)
    BY <1>4, <1>6, ConcatIs
  <2>. HIDE DEF begin
  <2>. QED
    BY <1>1, <1>4, <1>6, <2>1 DEF Concatenates
<1>. HIDE DEF begin
<1>8. /\ all \in Seq(Statements) /\ Len(all) = n + 4
      /\ \A k \in 1 .. n + 2 : all[k] = begin[k]
      /\ all[(n + 2) + 1] = net[1] /\ all[(n + 2) + 2] = net[2]
  <2>1. Concatenates(all, begin, net)
    BY <1>4, <1>5, <1>7, ConcatIs
  <2>. QED
    BY <1>1, <1>4, <1>7, <2>1 DEF Concatenates
<1>9. /\ \A k \in 1 .. n - 1 : all[k] = Statement("use", "GPU", GPUModules[k])
      /\ all[n] = Statement("use", "Net", "sys")
      /\ all[n + 1] = Statement("use", "GPU", DnsSd)
      /\ all[n + 2] = Statement("discover", "GPU", DnsSd)
  BY <1>1, <1>2, <1>3, <1>4, <1>6, <1>7, <1>8
<1>10. /\ all[n + 3] = Statement("use", "Net", DnsSd)
       /\ all[n + 4] = Statement("discover", "Net", DnsSd)
  BY <1>1, <1>4, <1>8
<1>. QED
  BY <1>8, <1>9, <1>10 DEF all, n


\* The stacks of a browser that is at statement p, under its own name and others.
GPUsHeard(p) ==
  IF p <= Modules THEN SubSeq(GPUModules, 1, p - 1)
  ELSE IF p = Modules + 1 THEN SubSeq(GPUModules, 1, Modules - 1) ELSE GPUModules

NetHeard(p) ==
  IF p <= Modules THEN << >> ELSE IF p <= Modules + 3 THEN <<"sys">> ELSE <<"sys", DnsSd>>

BrowserStack(name, resource, p) ==
  IF name = "hw_sd_list" THEN IF resource = "GPU" THEN GPUsHeard(p) ELSE NetHeard(p)
  ELSE IF resource = Only(name) /\ p > 1 THEN <<DnsSd>> ELSE << >>

\* What a discovery asks.
Heard(name, resource) ==
  (IF name = "hw_sd_list" THEN Locals(resource) ELSE << >>) \o <<DnsSd>>

\* One statement of a browser: a module is used on top of the stack of its resource,
\* or that stack is as it should be when it is asked.
Goes(name, p) ==
  LET s == BrowserMain(name)[p] IN
    \/ /\ s.op = "use" /\ s.resource \in Resource
       /\ ~Contains(BrowserStack(name, s.resource, p), s.module)
       /\ \A resource \in Resource :
            BrowserStack(name, resource, p + 1) =
              IF resource = s.resource THEN Append(BrowserStack(name, resource, p), s.module)
              ELSE BrowserStack(name, resource, p)
    \/ /\ s.op = "discover" /\ s.resource \in Resource
       /\ BrowserStack(name, s.resource, p) = Heard(name, s.resource)
       /\ \A resource \in Resource :
            BrowserStack(name, resource, p + 1) = BrowserStack(name, resource, p)

LEMMA FirstModule ==
  ~Contains(<< >>, DnsSd) /\ Append(<< >>, DnsSd) = <<DnsSd>> /\ << >> \o <<DnsSd>> = <<DnsSd>>
BY DEF Contains

LEMMA OneResourceGoes ==
  ASSUME NEW name \in Browsers \ {"hw_sd_list"}, NEW p \in 1 .. Len(BrowserMain(name))
  PROVE  Goes(name, p)
<1>. DEFINE r == Only(name)
            s == BrowserMain(name)[p]
<1>1. /\ r \in Resource /\ p \in 1 .. 2
      /\ p = 1 => s = Statement("use", r, DnsSd)
      /\ p = 2 => s = Statement("discover", r, DnsSd)
  BY OneResourceLayout, UseAndDiscoverIs
<1>2. ASSUME NEW resource, NEW q \in Nat
      PROVE  BrowserStack(name, resource, q) = IF resource = r /\ q > 1 THEN <<DnsSd>> ELSE << >>
  BY DEF BrowserStack
<1>3. Heard(name, r) = <<DnsSd>>
  BY FirstModule DEF Heard
<1>4. p \in Nat /\ p + 1 \in Nat /\ 1 + 1 > 1 /\ 2 > 1 /\ 2 + 1 > 1 /\ ~(1 > 1)
  OBVIOUS
<1>. HIDE DEF r, s
<1>5. CASE p = 1
  <2>1. s.op = "use" /\ s.resource = r /\ s.module = DnsSd
    BY <1>1, <1>5 DEF Statement
  <2>2. \A resource \in Resource :
          /\ BrowserStack(name, resource, p) = << >>
          /\ BrowserStack(name, resource, p + 1) = IF resource = r THEN <<DnsSd>> ELSE << >>
    BY <1>2, <1>4, <1>5
  <2>. QED
    BY <1>1, <2>1, <2>2, FirstModule DEF Goes, s
<1>6. CASE p = 2
  <2>1. s.op = "discover" /\ s.resource = r
    BY <1>1, <1>6 DEF Statement
  <2>2. \A resource \in Resource :
          /\ BrowserStack(name, resource, p) = IF resource = r THEN <<DnsSd>> ELSE << >>
          /\ BrowserStack(name, resource, p + 1) = BrowserStack(name, resource, p)
    BY <1>2, <1>4, <1>6
  <2>. QED
    BY <1>1, <1>3, <2>1, <2>2 DEF Goes, s
<1>. QED
  BY <1>1, <1>5, <1>6

LEMMA BrowserGoes ==
  ASSUME NEW p \in 1 .. Len(BrowserMain("hw_sd_list"))
  PROVE  Goes("hw_sd_list", p)
<1>. DEFINE name == "hw_sd_list"
            n == Modules
            s == BrowserMain("hw_sd_list")[p]
<1>1. n \in Nat \ {0} /\ p \in Nat \ {0} /\ p <= n + 4
  <2>1. n \in Nat \ {0} /\ Len(BrowserMain("hw_sd_list")) = n + 4
    BY ModulesAre, BrowserLayout
  <2>. HIDE DEF n
  <2>. QED
    BY <2>1
<1>2. /\ GPUModules \in Seq(Module) /\ Len(GPUModules) = n /\ GPUModules[n] = DnsSd
      /\ \A k, l \in DOMAIN GPUModules : GPUModules[k] = GPUModules[l] => k = l
  BY ModulesAre DEF Modules
<1>3. ASSUME NEW q \in Nat \ {0}
      PROVE  /\ BrowserStack(name, "GPU", q) = GPUsHeard(q)
             /\ BrowserStack(name, "Net", q) = NetHeard(q)
  BY DEF BrowserStack
<1>4. \A op, resource, module :
        /\ Statement(op, resource, module).op = op
        /\ Statement(op, resource, module).resource = resource
        /\ Statement(op, resource, module).module = module
  BY DEF Statement
<1>5. SubSeq(GPUModules, 1, n) = GPUModules
  <2>. HIDE DEF n
  <2>1. /\ SubSeq(GPUModules, 1, n) = [k \in 1 .. n |-> GPUModules[k]]
        /\ GPUModules = [k \in 1 .. n |-> GPUModules[k]]
    BY <1>1, <1>2
  <2>. QED
    BY <2>1
<1>6. ASSUME NEW k \in Nat, k < n
      PROVE  /\ ~Contains(SubSeq(GPUModules, 1, k), GPUModules[k + 1])
             /\ Append(SubSeq(GPUModules, 1, k), GPUModules[k + 1]) = SubSeq(GPUModules, 1, k + 1)
  BY <1>2, <1>6, UseNext
<1>7. Resource = {"GPU", "Net"}
  BY DEF Resource
<1>8. p + 1 \in Nat \ {0}
  BY <1>1
<1>9. CASE p < n
  <2>1. s = Statement("use", "GPU", GPUModules[p])
    <3>1. p \in 1 .. n - 1
      BY <1>1, <1>9
    <3>. QED
      BY <3>1, BrowserLayout
  <2>2. PICK k \in Nat : p = k + 1
    BY <1>1
  <2>3. GPUsHeard(p) = SubSeq(GPUModules, 1, k) /\ GPUsHeard(p + 1) = SubSeq(GPUModules, 1, k + 1)
        /\ NetHeard(p) = << >> /\ NetHeard(p + 1) = << >>
    <3>1. p <= n /\ p + 1 <= n /\ p - 1 = k /\ (p + 1) - 1 = k + 1
      BY <1>1, <1>9, <2>2
    <3>. QED
      BY <3>1 DEF GPUsHeard, NetHeard
  <2>4. k < n
    BY <1>1, <1>9, <2>2
  <2>5. /\ ~Contains(GPUsHeard(p), GPUModules[p])
        /\ Append(GPUsHeard(p), GPUModules[p]) = GPUsHeard(p + 1)
    BY <1>6, <2>2, <2>3, <2>4
  <2>. HIDE DEF s
  <2>6. s.op = "use" /\ s.resource = "GPU" /\ s.module = GPUModules[p]
    BY <1>4, <2>1
  <2>. QED
    BY <1>1, <1>3, <1>7, <1>8, <2>3, <2>5, <2>6 DEF Goes, s
<1>10. CASE p = n
  <2>1. s = Statement("use", "Net", "sys")
    BY <1>10, BrowserLayout
  <2>2. GPUsHeard(p) = SubSeq(GPUModules, 1, n - 1) /\ GPUsHeard(p + 1) = SubSeq(GPUModules, 1, n - 1)
        /\ NetHeard(p) = << >> /\ NetHeard(p + 1) = <<"sys">>
    <3>1. p <= n /\ ~(p + 1 <= n) /\ p + 1 = n + 1 /\ p - 1 = n - 1 /\ p + 1 <= n + 3
      BY <1>1, <1>10
    <3>. QED
      BY <3>1 DEF GPUsHeard, NetHeard
  <2>3. ~Contains(<< >>, "sys") /\ Append(<< >>, "sys") = <<"sys">>
    BY DEF Contains
  <2>. HIDE DEF s
  <2>4. s.op = "use" /\ s.resource = "Net" /\ s.module = "sys"
    BY <1>4, <2>1
  <2>. QED
    BY <1>1, <1>3, <1>7, <1>8, <2>2, <2>3, <2>4 DEF Goes, s
<1>11. CASE p = n + 1
  <2>1. s = Statement("use", "GPU", DnsSd)
    BY <1>11, BrowserLayout
  <2>2. GPUsHeard(p) = SubSeq(GPUModules, 1, n - 1) /\ GPUsHeard(p + 1) = GPUModules
        /\ NetHeard(p) = <<"sys">> /\ NetHeard(p + 1) = <<"sys">>
    <3>1. ~(p <= n) /\ p = n + 1 /\ ~(p + 1 <= n) /\ p + 1 # n + 1 /\ p + 1 <= n + 3 /\ p <= n + 3
      BY <1>1, <1>11
    <3>. QED
      BY <3>1 DEF GPUsHeard, NetHeard
  <2>3. PICK k \in Nat : n = k + 1
    BY <1>1
  <2>4. k < n /\ n - 1 = k
    BY <2>3
  <2>5. /\ ~Contains(SubSeq(GPUModules, 1, n - 1), DnsSd)
        /\ Append(SubSeq(GPUModules, 1, n - 1), DnsSd) = GPUModules
    <3>1. ~Contains(SubSeq(GPUModules, 1, k), GPUModules[k + 1])
          /\ Append(SubSeq(GPUModules, 1, k), GPUModules[k + 1]) = SubSeq(GPUModules, 1, k + 1)
      BY <1>6, <2>4
    <3>. HIDE DEF n
    <3>. QED
      BY <1>2, <1>5, <2>3, <2>4, <3>1
  <2>. HIDE DEF s
  <2>6. s.op = "use" /\ s.resource = "GPU" /\ s.module = DnsSd
    BY <1>4, <2>1
  <2>. QED
    BY <1>1, <1>3, <1>7, <1>8, <2>2, <2>5, <2>6 DEF Goes, s
<1>12. CASE p = n + 2
  <2>1. s = Statement("discover", "GPU", DnsSd)
    BY <1>12, BrowserLayout
  <2>2. GPUsHeard(p) = GPUModules /\ GPUsHeard(p + 1) = GPUModules
        /\ NetHeard(p) = <<"sys">> /\ NetHeard(p + 1) = <<"sys">>
    <3>1. ~(p <= n) /\ p # n + 1 /\ ~(p + 1 <= n) /\ p + 1 # n + 1 /\ p + 1 <= n + 3 /\ p <= n + 3
      BY <1>1, <1>12
    <3>. QED
      BY <3>1 DEF GPUsHeard, NetHeard
  <2>3. Heard(name, "GPU") = GPUModules
    <3>1. GPULocals \in Seq(Module) /\ DnsSd \in Module
      BY ModulesAre DEF Module
    <3>2. GPULocals \o <<DnsSd>> = Append(GPULocals, DnsSd)
      BY <3>1, OneMore
    <3>. QED
      BY <3>2 DEF Heard, Locals, GPUModules
  <2>. HIDE DEF s
  <2>4. s.op = "discover" /\ s.resource = "GPU"
    BY <1>4, <2>1
  <2>. QED
    BY <1>1, <1>3, <1>7, <1>8, <2>2, <2>3, <2>4 DEF Goes, s
<1>13. CASE p = n + 3
  <2>1. s = Statement("use", "Net", DnsSd)
    BY <1>13, BrowserLayout
  <2>2. GPUsHeard(p) = GPUModules /\ GPUsHeard(p + 1) = GPUModules
        /\ NetHeard(p) = <<"sys">> /\ NetHeard(p + 1) = <<"sys", DnsSd>>
    <3>1. ~(p <= n) /\ p # n + 1 /\ ~(p + 1 <= n) /\ p + 1 # n + 1 /\ ~(p + 1 <= n + 3) /\ p <= n + 3
      BY <1>1, <1>13
    <3>. QED
      BY <3>1 DEF GPUsHeard, NetHeard
  <2>3. ~Contains(<<"sys">>, DnsSd) /\ Append(<<"sys">>, DnsSd) = <<"sys", DnsSd>>
    <3>1. DnsSd # "sys" /\ DnsSd \in {DnsSd, "sys"} /\ "sys" \in {DnsSd, "sys"}
      BY DEF DnsSd
    <3>2. Append(<<"sys">>, DnsSd) = <<"sys", DnsSd>>
      BY <3>1, PairIs
    <3>3. ~Contains(<<"sys">>, DnsSd)
      BY <3>1 DEF Contains
    <3>. QED
      BY <3>2, <3>3
  <2>. HIDE DEF s
  <2>4. s.op = "use" /\ s.resource = "Net" /\ s.module = DnsSd
    BY <1>4, <2>1
  <2>. QED
    BY <1>1, <1>3, <1>7, <1>8, <2>2, <2>3, <2>4 DEF Goes, s
<1>14. CASE p = n + 4
  <2>1. s = Statement("discover", "Net", DnsSd)
    BY <1>14, BrowserLayout
  <2>2. GPUsHeard(p) = GPUModules /\ GPUsHeard(p + 1) = GPUModules
        /\ NetHeard(p) = <<"sys", DnsSd>> /\ NetHeard(p + 1) = <<"sys", DnsSd>>
    <3>1. ~(p <= n) /\ p # n + 1 /\ ~(p + 1 <= n) /\ p + 1 # n + 1 /\ ~(p + 1 <= n + 3)
          /\ ~(p <= n + 3)
      BY <1>1, <1>14
    <3>. QED
      BY <3>1 DEF GPUsHeard, NetHeard
  <2>3. Heard(name, "Net") = <<"sys", DnsSd>>
    <3>1. <<"sys">> \o <<DnsSd>> = <<"sys", DnsSd>>
      <4>1. DnsSd \in {DnsSd, "sys"} /\ "sys" \in {DnsSd, "sys"}
        OBVIOUS
      <4>. QED
        BY <4>1, PairIs
    <3>. QED
      BY <3>1 DEF Heard, Locals, NetLocals
  <2>. HIDE DEF s
  <2>4. s.op = "discover" /\ s.resource = "Net"
    BY <1>4, <2>1
  <2>. QED
    BY <1>1, <1>3, <1>7, <1>8, <2>2, <2>3, <2>4 DEF Goes, s
<1>15. p < n \/ p = n \/ p = n + 1 \/ p = n + 2 \/ p = n + 3 \/ p = n + 4
  BY <1>1
<1>. QED
  BY <1>9, <1>10, <1>11, <1>12, <1>13, <1>14, <1>15


BrowserHas(name, p) ==
  /\ p \in 1 .. Len(BrowserMain(name)) + 1
  /\ registered = [resource \in Resource |-> BrowserStack(name, resource, p)]
  /\ record = Of(NoRecord)
  /\ listed = [resource \in Resource |-> listed[resource]]
  /\ \A resource \in Resource :
       listed[resource] # << >> => listed[resource] = Heard(name, resource)
  /\ status # "waiting"

BrowserInv ==
  executable \in Browsers =>
    \A name, p : name = executable /\ p = at => BrowserHas(name, p)

LEMMA BrowserRuns ==
  ASSUME NEW name \in Browsers
  PROVE  /\ Len(BrowserMain(name)) \in Nat
         /\ \A p \in 1 .. Len(BrowserMain(name)) : Goes(name, p)
<1>1. CASE name = "hw_sd_list"
  <2>1. BrowserMain(name) \in Seq(Statements)
    BY <1>1, BrowserLayout
  <2>. QED
    BY <1>1, <2>1, BrowserGoes
<1>2. CASE name # "hw_sd_list"
  <2>1. Only(name) \in Resource /\ BrowserMain(name) = UseAndDiscover(Only(name))
    BY <1>2, OneResourceLayout
  <2>2. Len(BrowserMain(name)) = 2
    BY <2>1, UseAndDiscoverIs
  <2>. QED
    BY <1>2, <2>2, OneResourceGoes
<1>. QED
  BY <1>1, <1>2

LEMMA BrowserStep ==
  ASSUME BrowserInv, [Next]_vars
  PROVE  BrowserInv'
<1>1. executable' = executable
  BY DEF Next, Run, Start, EndAtOptions, Use, Dispose, AnnounceFound, AnnounceNothing,
         AnnounceFails, Discover, Wait, Enter, End, Kill, Expire, vars
<1>. SUFFICES ASSUME NEW name \in Browsers, name = executable, NEW p, p = at, BrowserHas(name, p)
              PROVE  \A q : q = at' => BrowserHas(name, q)'
  <2>1. PICK name, p : name = executable /\ p = at
    OBVIOUS
  <2>2. CASE executable \in Browsers
    <3>1. name \in Browsers /\ BrowserHas(name, p)
      BY <2>1, <2>2 DEF BrowserInv
    <3>2. \A q : q = at' => BrowserHas(name, q)'
      BY <2>1, <3>1
    <3>. QED
      BY <1>1, <2>1, <3>2 DEF BrowserInv
  <2>3. CASE executable \notin Browsers
    BY <1>1, <2>3 DEF BrowserInv, Browsers
  <2>. QED
    BY <2>2, <2>3
<1>. DEFINE s == BrowserMain(name)[p]
<1>2. Main = BrowserMain(name)
  BY DEF Main, Daemons, Browsers
<1>3. /\ Len(BrowserMain(name)) \in Nat /\ p \in Nat /\ p <= Len(BrowserMain(name)) + 1
      /\ \A q \in 1 .. Len(BrowserMain(name)) : Goes(name, q)
  BY BrowserRuns DEF BrowserHas
<1>4. ASSUME NEW op, AtStatement(op)
      PROVE  /\ s.op = op /\ s = Current /\ Goes(name, p) /\ op \in {"use", "discover"}
             /\ p + 1 \in 1 .. Len(BrowserMain(name)) + 1
  <2>1. p \in 1 .. Len(BrowserMain(name)) /\ s.op = op /\ s = Current
    BY <1>2, <1>3, <1>4 DEF AtStatement, Current, BrowserHas
  <2>2. Goes(name, p)
    BY <1>3, <2>1
  <2>. HIDE DEF s
  <2>3. s.op \in {"use", "discover"}
    BY <2>2 DEF Goes, s
  <2>. QED
    BY <1>3, <2>1, <2>2, <2>3
<1>5. ASSUME UNCHANGED <<at, registered, record, listed>>, status' # "waiting"
      PROVE  BrowserHas(name, p)' /\ at' = p
  BY <1>5 DEF BrowserHas, Of
<1>6. CASE Start \/ EndAtOptions \/ End \/ Kill
  <2>1. UNCHANGED <<at, registered, record, listed>> /\ status' # "waiting"
    BY <1>6 DEF Start, EndAtOptions, End, Kill
  <2>. QED
    BY <1>5, <2>1
<1>7. CASE Use
  <2>1. /\ s.op = "use" /\ s = Current /\ Goes(name, p)
        /\ p + 1 \in 1 .. Len(BrowserMain(name)) + 1
    BY <1>4, <1>7 DEF Use
  <2>2. /\ at' = p + 1 /\ UNCHANGED <<status, record, listed>>
        /\ registered' = [registered EXCEPT ![s.resource] =
                            IF Contains(@, s.module) THEN @ ELSE Append(@, s.module)]
    BY <1>7, <2>1 DEF Use, Go
  <2>. HIDE DEF s
  <2>3. /\ s.resource \in Resource /\ ~Contains(BrowserStack(name, s.resource, p), s.module)
        /\ \A resource \in Resource :
             BrowserStack(name, resource, p + 1) =
               IF resource = s.resource THEN Append(BrowserStack(name, resource, p), s.module)
               ELSE BrowserStack(name, resource, p)
    BY <2>1 DEF Goes, s
  <2>4. registered = [resource \in Resource |-> BrowserStack(name, resource, p)]
    BY DEF BrowserHas
  <2>5. registered' = [resource \in Resource |-> BrowserStack(name, resource, p + 1)]
    BY <2>2, <2>3, <2>4
  <2>6. BrowserHas(name, p + 1)'
    BY <2>1, <2>2, <2>5 DEF BrowserHas, Of
  <2>. QED
    BY <2>2, <2>6
<1>8. CASE Discover
  <2>1. /\ s.op = "discover" /\ s = Current /\ Goes(name, p)
        /\ p + 1 \in 1 .. Len(BrowserMain(name)) + 1
    BY <1>4, <1>8 DEF Discover
  <2>2. /\ at' = p + 1 /\ UNCHANGED <<status, record, registered>>
        /\ listed' = [listed EXCEPT ![s.resource] = registered[s.resource]]
    BY <1>8, <2>1 DEF Discover, Go, Stack
  <2>. HIDE DEF s
  <2>3. /\ s.resource \in Resource
        /\ BrowserStack(name, s.resource, p) = Heard(name, s.resource)
        /\ \A resource \in Resource :
             BrowserStack(name, resource, p + 1) = BrowserStack(name, resource, p)
    BY <2>1 DEF Goes, s
  <2>4. registered = [resource \in Resource |-> BrowserStack(name, resource, p)]
        /\ listed = [resource \in Resource |-> listed[resource]]
        /\ \A resource \in Resource :
             listed[resource] # << >> => listed[resource] = Heard(name, resource)
    BY DEF BrowserHas
  <2>5. registered' = [resource \in Resource |-> BrowserStack(name, resource, p + 1)]
    BY <2>2, <2>3, <2>4
  <2>6. /\ listed' = [resource \in Resource |-> listed'[resource]]
        /\ \A resource \in Resource :
             listed'[resource] # << >> => listed'[resource] = Heard(name, resource)
    BY <2>2, <2>3, <2>4
  <2>7. BrowserHas(name, p + 1)'
    BY <2>1, <2>2, <2>5, <2>6 DEF BrowserHas, Of
  <2>. QED
    BY <2>2, <2>7
<1>9. ~Dispose /\ ~AnnounceFound /\ ~AnnounceNothing /\ ~AnnounceFails /\ ~Wait
  BY <1>4 DEF Dispose, AnnounceFound, AnnounceNothing, AnnounceFails, Wait
<1>10. ~Enter
  BY DEF Enter, BrowserHas
<1>11. ASSUME NEW resource \in Resource PROVE ~Expire(resource)
  BY DEF Expire, BrowserHas, Of
<1>12. CASE UNCHANGED vars
  BY <1>5, <1>12 DEF vars, BrowserHas
<1>. QED
  BY <1>6, <1>7, <1>8, <1>9, <1>10, <1>11, <1>12 DEF Next, Run


-------------------------------------------------------------------------------
(* Both, from the start.                                                     *)

ProgramInv ==
  /\ executable \in Daemons \cup Browsers
  /\ DaemonInv
  /\ BrowserInv

LEMMA ProgramStarts == Init => ProgramInv
<1>. SUFFICES ASSUME Init PROVE ProgramInv
  OBVIOUS
<1>1. executable \in Daemons \cup Browsers /\ at = 1
  BY DEF Init
<1>2. Modules \in Nat \ {0} /\ GPUModules \in Seq(Module)
  BY ModulesAre
<1>3. SubSeq(GPUModules, 1, 1 - 1) = << >>
  BY <1>2
<1>4. ASSUME NEW name \in Daemons, name = executable PROVE DaemonHas(name, 1)
  <2>1. /\ WaitAt(name) \in Nat /\ GPUPart(name) \in Nat
    BY PartsAre
  <2>2. GPUStack(name, 1) = << >> /\ NetStack(name, 1) = << >>
    <3>1. 1 <= Modules /\ 1 <= GPUPart(name) + 1
      BY <1>2, <2>1
    <3>. QED
      BY <1>3, <3>1 DEF GPUStack, NetStack
  <2>3. 1 \in 1 .. WaitAt(name) + Modules + 3
    BY <1>2, <2>1
  <2>4. "GPU" \in Resource /\ "Net" \in Resource
    BY DEF Resource
  <2>5. registered = [resource \in Resource |->
                        IF resource = "GPU" THEN GPUStack(name, 1) ELSE NetStack(name, 1)]
    BY <2>2 DEF Init, Of
  <2>6. record \in [Resource -> {NoRecord, GPULocals, NetLocals}]
        /\ record["GPU"] = NoRecord /\ record["Net"] = NoRecord
    BY <2>4 DEF Init, Of
  <2>. QED
    BY <2>3, <2>5, <2>6 DEF DaemonHas, Init
<1>5. ASSUME NEW name \in Browsers, name = executable PROVE BrowserHas(name, 1)
  <2>1. 1 \in 1 .. Len(BrowserMain(name)) + 1
    BY BrowserRuns
  <2>2. \A resource : BrowserStack(name, resource, 1) = << >>
    <3>1. 1 <= Modules /\ ~(1 > 1)
      BY <1>2
    <3>. QED
      BY <1>3, <3>1 DEF BrowserStack, GPUsHeard, NetHeard
  <2>3. registered = [resource \in Resource |-> BrowserStack(name, resource, 1)]
    BY <2>2 DEF Init, Of
  <2>. QED
    BY <2>1, <2>3 DEF BrowserHas, Init, Of
<1>. QED
  BY <1>1, <1>4, <1>5 DEF ProgramInv, DaemonInv, BrowserInv

THEOREM ProgramInvariant == Spec => []ProgramInv
<1>1. ProgramInv /\ [Next]_vars => ProgramInv'
  <2>1. [Next]_vars => executable' = executable
    BY DEF Next, Run, Start, EndAtOptions, Use, Dispose, AnnounceFound, AnnounceNothing,
           AnnounceFails, Discover, Wait, Enter, End, Kill, Expire, vars
  <2>. QED
    BY <2>1, DaemonStep, BrowserStep DEF ProgramInv
<1>. QED
  BY <1>1, ProgramStarts, PTL DEF Spec

\* Whatever the name the daemon was started under and whatever GPU modules the build
\* has, what it publishes of a resource is what all local modules of that resource
\* found (hw_sd.cpp uses each before it announces).
THEOREM LocalsAreAnnounced == Spec => []LocalsAnnounced
<1>1. ProgramInv => LocalsAnnounced
  <2>. SUFFICES ASSUME ProgramInv, NEW resource \in Resource, record[resource] # NoRecord
                PROVE  record[resource] = Locals(resource)
    BY DEF LocalsAnnounced
  <2>1. CASE executable \in Daemons
    <3>1. PICK name, p : name = executable /\ p = at
      OBVIOUS
    <3>2. DaemonHas(name, p)
      BY <2>1, <3>1 DEF ProgramInv, DaemonInv
    <3>. QED
      BY <3>2 DEF DaemonHas, Resource, Locals
  <2>2. CASE executable \in Browsers
    <3>1. PICK name, p : name = executable /\ p = at
      OBVIOUS
    <3>2. BrowserHas(name, p)
      BY <2>2, <3>1 DEF ProgramInv, BrowserInv
    <3>. QED
      BY <3>2 DEF BrowserHas, Of
  <2>. QED
    BY <2>1, <2>2 DEF ProgramInv
<1>. QED
  BY <1>1, ProgramInvariant, PTL

\* A daemon that ends with success has given every module back and withdrawn every
\* record; one whose announcement fails leaves at most the GPUs published (hw_sd.cpp
\* returns without disposing).
THEOREM EndsAreClean == Spec => []EndsClean
<1>1. ProgramInv => EndsClean
  <2>. SUFFICES ASSUME ProgramInv, NEW resource \in Resource
                PROVE  /\ status = "success" /\ executable \in Daemons =>
                            record[resource] = NoRecord /\ registered[resource] = << >>
                       /\ status = "failure" /\ record[resource] # NoRecord =>
                            executable = "hw_sd" /\ resource = "GPU"
    BY DEF EndsClean
  <2>1. PICK name, p : name = executable /\ p = at
    OBVIOUS
  <2>2. CASE executable \in Daemons
    <3>. DEFINE g == GPUPart(name)
                w == WaitAt(name)
                n == Modules
    <3>1. name \in Daemons /\ DaemonHas(name, p)
      BY <2>1, <2>2 DEF ProgramInv, DaemonInv
    <3>2. /\ n \in Nat \ {0} /\ g \in Nat /\ w \in Nat /\ p \in Nat
          /\ name # "net_sd" => g = n + 1 /\ w >= n + 2
          /\ name # "gpu_sd" => w = g + 4
      <4>1. /\ n \in Nat \ {0} /\ g \in Nat /\ NetPart(name) \in Nat
            /\ w \in Nat /\ w = g + NetPart(name) + 1
            /\ name # "net_sd" => g = n + 1
            /\ name # "gpu_sd" => NetPart(name) = 3
            /\ p \in 1 .. w + n + 3
        BY <3>1, PartsAre DEF DaemonHas
      <4>. HIDE DEF g, w, n
      <4>. QED
        BY <4>1
    <3>3. /\ record["GPU"] # NoRecord => name # "net_sd" /\ n + 1 < p /\ p <= w + n
          /\ record["Net"] # NoRecord => name # "gpu_sd" /\ g + 3 < p /\ p <= w + n + 1
          /\ status = "success" => p = 1 \/ p = w + n + 3
          /\ status = "failure" => \/ p = 1
                                   \/ name # "net_sd" /\ p = n + 1
                                   \/ name # "gpu_sd" /\ p = g + 3
      BY <3>1 DEF DaemonHas
    <3>4. resource = "GPU" \/ resource = "Net"
      BY DEF Resource
    <3>5. status = "success" => record["GPU"] = NoRecord /\ record["Net"] = NoRecord
      <4>. HIDE DEF g, w, n
      <4>. QED
        BY <3>2, <3>3
    <3>6. status = "success" => registered[resource] = << >>
      <4>1. registered[resource] = IF resource = "GPU" THEN GPUStack(name, p) ELSE NetStack(name, p)
        BY <3>1 DEF DaemonHas
      <4>2. GPUModules \in Seq(Module)
        BY ModulesAre
      <4>3. CASE p = 1
        <5>1. SubSeq(GPUModules, 1, p - 1) = << >>
          BY <4>2, <4>3
        <5>2. p <= n /\ p <= g + 1
          BY <3>2, <4>3
        <5>. QED
          BY <4>1, <5>1, <5>2 DEF GPUStack, NetStack
      <4>4. CASE p = w + n + 3
        <5>1. /\ ~(p <= n) /\ ~(p <= w) /\ ~(p <= w + n) /\ ~(p <= w + n + 1) /\ p # w + n + 2
              /\ name # "gpu_sd" => p # g + 2
          <6>. HIDE DEF g, w, n
          <6>. QED
            BY <3>2, <4>4
        <5>. QED
          BY <4>1, <5>1 DEF GPUStack, NetStack
      <4>. QED
        BY <3>3, <4>3, <4>4
    <3>7. status = "failure" => record["Net"] = NoRecord
      <4>. HIDE DEF g, w, n
      <4>. QED
        BY <3>2, <3>3
    <3>8. status = "failure" /\ record["GPU"] # NoRecord => name # "net_sd" /\ name # "gpu_sd"
      <4>. HIDE DEF g, w, n
      <4>. QED
        BY <3>2, <3>3
    <3>. QED
      BY <2>1, <3>1, <3>4, <3>5, <3>6, <3>7, <3>8 DEF Daemons
  <2>3. CASE executable \in Browsers
    <3>1. record = Of(NoRecord)
      BY <2>1, <2>3 DEF ProgramInv, BrowserInv, BrowserHas
    <3>. QED
      BY <2>3, <3>1 DEF Of, Daemons, Browsers
  <2>. QED
    BY <2>2, <2>3 DEF ProgramInv
<1>. QED
  BY <1>1, ProgramInvariant, PTL

\* A browser hears the network after its own host, or alone if its name selects one
\* resource (hw_sd_list.cpp uses the local modules first).
THEOREM LocalsAreListedFirst == Spec => []LocalsListedFirst
<1>1. ProgramInv => LocalsListedFirst
  <2>. SUFFICES ASSUME ProgramInv, NEW resource \in Resource, listed[resource] # << >>
                PROVE  listed[resource] = Heard(executable, resource)
    BY DEF LocalsListedFirst, Heard
  <2>1. PICK name, p : name = executable /\ p = at
    OBVIOUS
  <2>2. CASE executable \in Daemons
    BY <2>1, <2>2 DEF ProgramInv, DaemonInv, DaemonHas, Of
  <2>3. CASE executable \in Browsers
    BY <2>1, <2>3 DEF ProgramInv, BrowserInv, BrowserHas
  <2>. QED
    BY <2>2, <2>3 DEF ProgramInv
<1>. QED
  BY <1>1, ProgramInvariant, PTL

=================================================================================
