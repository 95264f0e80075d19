------------------------------ MODULE MCDiscovery ------------------------------
(* Small instances of Discovery: a few GPUs, or network interfaces, that     *)
(* differ in what the filters tell apart.                                   *)
EXTENDS Discovery

GPUOf(id, nodeName, session_, type, place, flags) ==
  [id |-> id, nodeName |-> nodeName, session |-> session_, type |-> type,
   place |-> place, size |-> "1920x1080", flags |-> flags]

\* This process sees one X screen, with its default flag if DISPLAY is set.
LocalGLX == GPUOf("own", "", "local", "GLX", ":0.0", {})
DefaultGLX == GPUOf("own", "", "local", "GLX", ":0.0", {"DEFAULT"})
SecondGLX == GPUOf("own", "", "local", "GLX", ":1.0", {})

\* The same GPU as the cgl module of this process names it.
LocalCGL == GPUOf("own", "", "local", "CGL", ":0.0", {})

\* The same GPU announced by the daemon of this host for the local session.
DaemonGLX == GPUOf("daemon", "", "local", "GLX", ":0.0", {"VIRTUALGL"})

\* A GPU of another host.
RemoteGLX == GPUOf("remote", "hostB", "default", "GLX", ":0.0", {})

GPUModule == {"glx", "cgl", "dns_sd"}

GPUFindings ==
  [glx |-> {<< >>, <<DefaultGLX>>, <<DefaultGLX, LocalGLX>>, <<LocalGLX, SecondGLX>>},
   cgl |-> {<< >>, <<LocalCGL>>},
   dns_sd |-> {<< >>, <<RemoteGLX, DaemonGLX>>, <<DaemonGLX, RemoteGLX, RemoteGLX>>}]

GPUChains ==
  {<< >>, <<Duplicate>>, <<Mirror>>, <<Duplicate, Mirror>>, <<Mirror, Duplicate>>,
   <<Duplicate, Session("local")>>,
   <<GPU("^:0", {<<"", ":0.0">>}), Session(""), Duplicate>>}

NetOf(id, nodeName, session_, type, card) ==
  [id |-> id, nodeName |-> nodeName, session |-> session_, type |-> type, card |-> card]

Loopback == NetOf("own", "", "local", "LOOPBACK", "lo")
SecondLoopback == NetOf("own", "", "local", "LOOPBACK", "lo1")
Ethernet == NetOf("own", "", "local", "ETHERNET", "eth0")
DaemonEthernet == NetOf("daemon", "", "local", "ETHERNET", "eth0")
RemoteInfiniband == NetOf("remote", "hostB", "default", "INFINIBAND", "ib0")

NetModule == {"sys", "dns_sd"}

NetFindings ==
  [sys |-> {<< >>, <<Loopback>>, <<Loopback, SecondLoopback>>, <<Loopback, Ethernet>>,
            <<Ethernet, Loopback, SecondLoopback>>},
   dns_sd |-> {<< >>, <<RemoteInfiniband, DaemonEthernet>>,
               <<RemoteInfiniband, RemoteInfiniband>>}]

AllTypes == {"ETHERNET", "INFINIBAND", "LOOPBACK"}

NetChains ==
  {<< >>, <<Duplicate>>, <<Mirror>>,
   <<Duplicate, Net({}, {}, AllTypes)>>,
   <<Duplicate, Net({}, {}, {"ETHERNET", "INFINIBAND"}), Session("default")>>,
   <<Net({"10.1.0.0/16"}, {"eth0"}, AllTypes), Duplicate>>}

OneSession == {"default"}

Values ==
  {"", "own", "daemon", "remote", "hostB", "local", "default",
   "GLX", "CGL", ":0.0", ":1.0", "1920x1080", "^:0", "DEFAULT", "VIRTUALGL",
   "lo", "lo1", "eth0", "ib0", "10.1.0.0/16"} \cup AllTypes

================================================================================
