-------------------------------- MODULE MCDnsSd --------------------------------
(* Small instances of DnsSd: a host that announces to another one, and two      *)
(* hosts with equal interfaces.                                              *)
EXTENDS DnsSd

TwoHosts == {"hostA", "hostB"}

\* A GPU without pixel viewport and flags.
GPUAt(port, device) ==
  [GPUDefault EXCEPT !.Type = <<"GLX">>, !.Port = <<port>>, !.Device = <<device>>]

\* The default one of a desktop, with both.
Desktop ==
  [GPUAt("0", "1") EXCEPT !.Width = <<"1920">>, !.Height = <<"1080">>, !.Flags = <<"8">>]

GPUFindings ==
  [hostA |-> {<<Desktop, GPUAt("0", "0")>>, <<GPUAt("1", "0")>>}, hostB |-> {}]

InterfaceOf(type, name) ==
  [NetDefault EXCEPT !.Type = <<type>>, !.Name = name, !.Linkspeed = <<"1000">>, !.Up = <<"1">>]

Ethernet == InterfaceOf("ETHERNET", <<"eth0">>)
Tunnel == InterfaceOf("TUNNEL_6TO4", <<"Local", "Area", "Connection">>)
Nameless == InterfaceOf("UNKNOWN", << >>)

\* No interface is what is left of a loopback interface alone.
NetFindings ==
  [hostA |-> {<<Ethernet, Nameless>>, <<Tunnel>>}, hostB |-> {<<Ethernet>>, << >>}]

OneSession == {<<"default">>}
TwoWords == {<<"render", "farm">>}
NoSession == {<< >>}

OnceEach == [hostA |-> <<"a1">>, hostB |-> <<"b1">>]
Restarts == [hostA |-> <<"a1", "a2">>, hostB |-> <<"b1">>]

Once == [hostA |-> 1, hostB |-> 1]
Twice == [hostA |-> 2, hostB |-> 1]

Words ==
  {"hostA", "hostB", "a1", "a2", "b1", "default", "local", "render", "farm",
   "GLX", "0", "1", "-1", "1920", "1080", "8",
   "ETHERNET", "TUNNEL_6TO4", "UNKNOWN", "eth0", "Local", "Area", "Connection",
   "1000", "max"}

================================================================================
