-------------------------------- MODULE Programs --------------------------------
(***************************************************************************)
(* The main functions of the daemon and of the browser, over both resource    *)
(* types: which modules they use in which order, when they announce and        *)
(* discover, and what is left of them when they end, are killed or fail.       *)
(*                                                                         *)
(* A program is the sequence of its statements. The stack of a resource type   *)
(* is the sequence RegisteredModules has, a call of announce*Infos() or        *)
(* discover*Infos() the one step that Discovery has many for. A record on the   *)
(* network outlives the process that does not withdraw it, until it expires,   *)
(* as in DnsSd.                                                            *)
(***************************************************************************)
EXTENDS Naturals, Sequences, SequencesExt

CONSTANTS
  GPULocals,  \* the GPU modules of the build besides dns_sd, in the order of use
  NoRecord    \* nothing is published

DnsSd == "dns_sd"
NetLocals == <<"sys">>
Resource == {"GPU", "Net"}
Locals(resource) == IF resource = "GPU" THEN GPULocals ELSE NetLocals

Module == ToSet(GPULocals) \cup {DnsSd, "sys"}

\* Each module is compiled in once.
ASSUME LocalsAssumption ==
  /\ GPULocals \in Seq(Module \ {DnsSd})
  /\ \A k, l \in DOMAIN GPULocals : GPULocals[k] = GPULocals[l] => k = l

VARIABLES
  executable,  \* the name the process was started under, which selects the
               \* program and its resources
  status,      \* "new", "running", "waiting", "success", "failure" or "killed"
  daemon,      \* it was asked to run as a daemon
  at,          \* the statement it is at
  registered,  \* registered[resource]: its module stacks
  record,      \* record[resource]: what it has published
  listed       \* listed[resource]: the modules its discovery asked, in order

vars == <<executable, status, daemon, at, registered, record, listed>>

\* Any other name is as good as hw_sd, or hw_sd_list.
Daemons == {"hw_sd", "gpu_sd", "net_sd"}
Browsers == {"hw_sd_list", "gpu_sd_list", "net_sd_list"}

Of(value) == [resource \in Resource |-> value]

Init ==
  /\ executable \in Daemons \cup Browsers
  /\ status = "new"
  /\ daemon = FALSE
  /\ at = 1
  /\ registered = Of(<< >>)
  /\ record = Of(NoRecord)
  /\ listed = Of(<< >>)

-------------------------------------------------------------------------------
(* The programs.                                                           *)

Statement(op, resource, module) == [op |-> op, resource |-> resource, module |-> module]

Each(op, resource, modules) == [k \in DOMAIN modules |-> Statement(op, resource, modules[k])]

OnlyIf(condition, statements) == IF condition THEN statements ELSE << >>

AnnounceFirst ==
  <<Statement("use", "Net", DnsSd), Statement("announce", "Net", DnsSd)>>
    \o Each("use", "Net", NetLocals)

UseAndAnnounceNet ==
  Each("use", "Net", <<DnsSd>> \o NetLocals) \o <<Statement("announce", "Net", DnsSd)>>

GPUsOnly == Each("dispose", "GPU", Append(GPULocals, DnsSd))

\* At its end the daemon disposes of what it may never have used.
DisposeAll ==
  Each("dispose", "GPU", Append(GPULocals, DnsSd)) \o Each("dispose", "Net", <<DnsSd>> \o NetLocals)

DaemonMain(name) ==
  OnlyIf(name # "net_sd",
         Each("use", "GPU", Append(GPULocals, DnsSd)) \o <<Statement("announce", "GPU", DnsSd)>>)
    \o OnlyIf(name # "gpu_sd", UseAndAnnounceNet)
    \o <<Statement("wait", "Net", DnsSd)>>
    \o DisposeAll

UseAndDiscover(resource) ==
  <<Statement("use", resource, DnsSd), Statement("discover", resource, DnsSd)>>

DnsSdFirst ==
  Each("use", "GPU", <<DnsSd>> \o GPULocals) \o Each("use", "Net", NetLocals)

\* The browser uses the local modules of both resource types, or of none if its
\* name selects one of them. It disposes of nothing.
UseLocals == Each("use", "GPU", GPULocals) \o Each("use", "Net", NetLocals)

BrowserMain(name) ==
  OnlyIf(name \notin {"net_sd_list", "gpu_sd_list"}, UseLocals)
    \o OnlyIf(name # "net_sd_list", UseAndDiscover("GPU"))
    \o OnlyIf(name # "gpu_sd_list", UseAndDiscover("Net"))

Main ==
  IF executable \in Daemons THEN DaemonMain(executable) ELSE BrowserMain(executable)

-------------------------------------------------------------------------------
Start ==
  /\ status = "new"
  /\ status' = "running"
  /\ daemon' \in {d \in BOOLEAN : d => executable \in Daemons}
  /\ UNCHANGED <<executable, at, registered, record, listed>>

\* Wrong options, --help and --version end a program before it does anything.
EndAtOptions ==
  /\ status = "new"
  /\ status' \in {"success", "failure"}
  /\ UNCHANGED <<executable, daemon, at, registered, record, listed>>

Current == Main[at]
Stack == registered[Current.resource]

AtStatement(op) ==
  /\ status = "running"
  /\ at <= Len(Main)
  /\ Current.op = op

Go == at' = at + 1

Use ==
  /\ AtStatement("use")
  /\ registered' = [registered EXCEPT ![Current.resource] =
                      IF Contains(@, Current.module) THEN @ ELSE Append(@, Current.module)]
  /\ Go
  /\ UNCHANGED <<executable, status, daemon, record, listed>>

\* The destructor of a dns_sd module withdraws the record.
Dispose ==
  /\ AtStatement("dispose")
  /\ registered' = [registered EXCEPT ![Current.resource] =
                      RemoveFirst(@, Current.module)]
  /\ record' = [record EXCEPT ![Current.resource] =
                  IF Current.module = DnsSd THEN NoRecord ELSE @]
  /\ Go
  /\ UNCHANGED <<executable, status, daemon, listed>>

\* The other modules are asked; what they found is published.
AnnounceFound ==
  /\ AtStatement("announce")
  /\ record' = [record EXCEPT ![Current.resource] = RemoveFirst(Stack, DnsSd)]
  /\ Go
  /\ UNCHANGED <<executable, status, daemon, registered, listed>>

\* They found nothing, which counts as success.
AnnounceNothing ==
  /\ AtStatement("announce")
  /\ Go
  /\ UNCHANGED <<executable, status, daemon, registered, record, listed>>

\* The announcement fails: main returns at once, with nothing disposed of.
AnnounceFails ==
  /\ AtStatement("announce")
  /\ status' = "failure"
  /\ UNCHANGED <<executable, daemon, at, registered, record, listed>>

\* discover*Infos() asks the modules from the head of the stack on.
Discover ==
  /\ AtStatement("discover")
  /\ listed' = [listed EXCEPT ![Current.resource] = Stack]
  /\ Go
  /\ UNCHANGED <<executable, status, daemon, registered, record>>

Wait ==
  /\ AtStatement("wait")
  /\ status' = "waiting"
  /\ UNCHANGED <<executable, daemon, at, registered, record, listed>>

\* The user presses Enter, or there is no input; a daemon sleeps for ever.
Enter ==
  /\ status = "waiting"
  /\ ~daemon
  /\ status' = "running"
  /\ Go
  /\ UNCHANGED <<executable, daemon, registered, record, listed>>

End ==
  /\ status = "running"
  /\ at > Len(Main)
  /\ status' = "success"
  /\ UNCHANGED <<executable, daemon, at, registered, record, listed>>

Kill ==
  /\ status \in {"running", "waiting"}
  /\ status' = "killed"
  /\ UNCHANGED <<executable, daemon, at, registered, record, listed>>

Ended == status \in {"success", "failure", "killed"}

\* External: the record of a process that is gone times out.
Expire(resource) ==
  /\ Ended
  /\ record[resource] # NoRecord
  /\ record' = [record EXCEPT ![resource] = NoRecord]
  /\ UNCHANGED <<executable, status, daemon, at, registered, listed>>

Run ==
  \/ Use \/ Dispose
  \/ AnnounceFound \/ AnnounceNothing \/ AnnounceFails
  \/ Discover
  \/ Wait \/ End

Next ==
  \/ Start \/ EndAtOptions
  \/ Run \/ Enter \/ Kill
  \/ \E resource \in Resource : Expire(resource)

Spec == Init /\ [][Next]_vars

-------------------------------------------------------------------------------
(* Whatever the name it was started under, a daemon announces what all local     *)
(* modules of the resource found: each was used before, in its order, and the    *)
(* other resource's modules have no part in it.                               *)
LocalsAnnounced ==
  \A resource \in Resource :
    record[resource] # NoRecord => record[resource] = Locals(resource)

(* A program that ends as it should after its announcements has withdrawn them   *)
(* and used nothing up. One that fails leaves at most the GPUs on the network,    *)
(* announced before the interfaces could not be.                               *)
EndsClean ==
  \A resource \in Resource :
    /\ status = "success" /\ executable \in Daemons =>
         record[resource] = NoRecord /\ registered[resource] = << >>
    /\ status = "failure" /\ record[resource] # NoRecord =>
         executable = "hw_sd" /\ resource = "GPU"

(* A browser hears the network only after it has asked the modules of its own     *)
(* host. Of a GPU that both know, which they do if the daemon announces it for     *)
(* the local session, as equality compares sessions, the local info is kept.      *)
LocalsListedFirst ==
  \A resource \in Resource :
    listed[resource] # << >> =>
      listed[resource] =
        (IF executable = "hw_sd_list" THEN Locals(resource) ELSE << >>) \o <<DnsSd>>

================================================================================
