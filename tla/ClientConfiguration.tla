------------------------- MODULE ClientConfiguration -------------------------
(***************************************************************************)
(* How the clients of a UT2 test get their configuration.  runTest of      *)
(* AbstractUT2TestStand writes configuration.json, starts a client, sleeps *)
(* half a second and does the same for the next client, with the same      *)
(* file; nothing tells it whether the client has read the file by then.    *)
(* Each client (client.cpp, configuration.cpp) reads the whole file, which *)
(* takes one read for what there is and one more to see its end, parses it *)
(* (module JsonParser) and sets its pool up, or dies in an assertion.      *)
(*                                                                         *)
(* Text: indentation goes with the line break before it, and the network   *)
(* part of an address is one symbol.                                       *)
(***************************************************************************)
EXTENDS JsonParser, FiniteSets, FiniteSetsExt

CONSTANTS
  NClients,     \* the number of clients of the test
  ClientHosts,  \* last bytes of the addresses that clients may have
  ServerHosts,  \* and of the addresses of the servers of the test
  Ports,        \* ports that a server may be bound to
  Uninitialised \* bound: what uninitialised memory may hold

MaxPort == 65535

ASSUME ConfigurationAssumption ==
  /\ NClients \in Nat \ {0}
  /\ ClientHosts \subseteq 0..255 /\ Cardinality(ClientHosts) >= NClients
  /\ ServerHosts \subseteq 0..255 /\ IsFiniteSet(ServerHosts)
  /\ Ports \subseteq 1..MaxPort /\ Uninitialised \subseteq 0..MaxPort

Clients == 1..NClients

VARIABLES
  ut2Mode,     \* of the test: TCP or UDP
  hosts,       \* the address of every client
  servers,     \* ClusterUtils.hosts, in the order of its iterator: some order
               \* of the servers, the same for all clients
  javaPc, current,   \* runTest, and the client it is at
  file,        \* configuration.json
  clientPc,    \* every client program
  text,        \* what it has read
  pool,        \* and what it has made of it
  late         \* history: clients overtaken by the configuration of the next

testVars == <<ut2Mode, hosts, servers>>
vars == <<testVars, javaPc, current, file, clientPc, text, pool, late>>

NoPool == [tcp |-> FALSE, udp |-> FALSE, bind |-> -1, hosts |-> <<>>]
NServers == Cardinality(ServerHosts)
Server == [host : ServerHosts, udpPort : Ports \cup {0}, tcpPort : Ports \cup {0}]

TypeOK ==
  /\ ut2Mode \in {"TCP", "UDP"}
  /\ hosts \in [Clients -> ClientHosts]
  /\ servers \in [1..NServers -> Server]
  /\ javaPc \in {"new", "opened", "written", "sleep", "done", "failed"}
  /\ current \in Clients
  /\ clientPc \in [Clients -> {"none", "started", "read", "parse", "configured", "aborted"}]
  /\ \A c \in Clients : pool[c].bind \in ClientHosts \cup {-1}
  /\ late \subseteq Clients

\* Only the port of the mode of the test is set in a ClusterHost2.
HostOf(mode, host, port) ==
  [host |-> host, udpPort |-> IF mode = "UDP" THEN port ELSE 0,
                  tcpPort |-> IF mode = "TCP" THEN port ELSE 0]

Init ==
  /\ ut2Mode \in {"TCP", "UDP"}
  /\ hosts \in Injection(Clients, ClientHosts)
  /\ \E port \in [1..NServers -> Ports] :
       servers = [i \in 1..NServers |-> HostOf(ut2Mode, SetToSeq(ServerHosts)[i], port[i])]
  /\ javaPc = "new" /\ current = 1
  /\ file = <<>>
  /\ clientPc = [c \in Clients |-> "none"]
  /\ text = [c \in Clients |-> <<>>]
  /\ pool = [c \in Clients |-> NoPool]
  /\ late = {}

---------------------------------------------------------------------------
(***************************************************************************)
(* writeClientConfiguration.                                               *)
(***************************************************************************)
\* The digits of a byte of an address or of a port.
Decimal[n \in 0..MaxPort] ==
  IF n < 10 THEN <<Digits[n + 1]>> ELSE Append(Decimal[n \div 10], Digits[(n % 10) + 1])

Quoted(chars) == <<Quote>> \o chars \o <<Quote>>
Name(name) == Quoted(<<name>>) \o <<":">>
BoolText(b) == <<IF b THEN "true" ELSE "false">>
IpAddr(host) == Quoted(<<"net.">> \o Decimal[host])

ServerParam(s) ==
  <<LeftBrace, Break>> \o Name("ip") \o IpAddr(s.host) \o <<",", Break>>
    \o Name("port") \o Decimal[IF ut2Mode = "UDP" THEN s.udpPort ELSE s.tcpPort] \o <<Break, RightBrace>>

Listed(i) == (IF i = 1 THEN <<Break>> ELSE <<",", Break>>) \o ServerParam(servers[i])

Configuration(c) ==
  <<LeftBrace, Break>> \o Name("tcp_mode") \o BoolText(ut2Mode = "TCP") \o <<",", Break>>
    \o Name("udp_mode") \o BoolText(ut2Mode = "UDP") \o <<",", Break>>
    \o Name("client_ip") \o IpAddr(hosts[c]) \o <<",", Break>>
    \o Name("servers") \o <<"[">> \o FlattenSeq([i \in DOMAIN servers |-> Listed(i)])
    \o <<Break, "]", Break, RightBrace>>

---------------------------------------------------------------------------
(***************************************************************************)
(* The loop of runTest over the clients, with the constructor of the       *)
(* client.  FileWriter truncates the file at once and writes it in one     *)
(* piece when it is closed.  Every exception ends the test and leaves the  *)
(* clients that were started running.                                      *)
(***************************************************************************)
Underway == {c \in Clients : clientPc[c] \in {"started", "read"}}

OpenWriter ==
  /\ javaPc = "new"
  /\ file' = <<>>
  /\ late' = late \cup Underway
  /\ javaPc' = "opened"
  /\ UNCHANGED <<testVars, current, clientPc, text, pool>>

WriteClientConfiguration ==
  /\ javaPc = "opened"
  /\ file' = Configuration(current)
  /\ javaPc' = "written"
  /\ UNCHANGED <<testVars, current, clientPc, text, pool, late>>

\* The disk is full: some of the text, or none, has been written.
WriteFails ==
  /\ javaPc = "opened"
  /\ \E n \in 0..(Len(Configuration(current)) - 1) : file' = SubSeq(Configuration(current), 1, n)
  /\ javaPc' = "failed"
  /\ UNCHANGED <<testVars, current, clientPc, text, pool, late>>

\* The file cannot be opened, or a log file or the process not be created.
ConstructorFails ==
  /\ javaPc \in {"new", "written"}
  /\ javaPc' = "failed"
  /\ UNCHANGED <<testVars, current, file, clientPc, text, pool, late>>

\* Mutant: the client is started before its configuration is written.
StartClientFirst ==
  /\ javaPc \in {"new", "written"}
  /\ IF javaPc = "new" THEN clientPc' = [clientPc EXCEPT ![current] = "started"]
                       ELSE UNCHANGED clientPc
  /\ javaPc' = IF javaPc = "new" THEN "opened" ELSE "sleep"
  /\ UNCHANGED <<testVars, current, file, text, pool, late>>

StartClient ==
  /\ javaPc = "written"
  /\ clientPc' = [clientPc EXCEPT ![current] = "started"]
  /\ javaPc' = "sleep"
  /\ UNCHANGED <<testVars, current, file, text, pool, late>>

\* Half a second has passed, however far the client has got.
Slept ==
  /\ javaPc = "sleep"
  /\ IF current < NClients THEN /\ current' = current + 1
                                /\ javaPc' = "new"
                           ELSE /\ UNCHANGED current
                                /\ javaPc' = "done"
  /\ UNCHANGED <<testVars, file, clientPc, text, pool, late>>

RunTest ==
  \/ OpenWriter
  \/ WriteClientConfiguration
  \/ WriteFails
  \/ ConstructorFails
  \/ StartClient
  \/ Slept

---------------------------------------------------------------------------
(***************************************************************************)
(* The client program.                                                     *)
(***************************************************************************)
Open(c) ==
  /\ clientPc[c] = "started"
  /\ clientPc' = [clientPc EXCEPT ![c] = "read"]
  /\ UNCHANGED <<testVars, javaPc, current, file, text, pool, late>>

\* fread asks again until nothing comes: what the file has grown by is read too.
Read(c) ==
  /\ clientPc[c] = "read"
  /\ Len(file) > Len(text[c])
  /\ text' = [text EXCEPT ![c] = @ \o SubSeq(file, Len(@) + 1, Len(file))]
  /\ UNCHANGED <<testVars, javaPc, current, file, clientPc, pool, late>>

ReadEnd(c) ==
  /\ clientPc[c] = "read"
  /\ Len(file) <= Len(text[c])
  /\ clientPc' = [clientPc EXCEPT ![c] = "parse"]
  /\ UNCHANGED <<testVars, javaPc, current, file, text, pool, late>>

\* The asserts of Configuration::Configuration and of the values it asks for.
Complete(document) ==
  /\ \A name \in {"tcp_mode", "udp_mode", "client_ip", "servers"} : HasMember(document, name)
  /\ \A name \in {"tcp_mode", "udp_mode"} : Member(document, name).type = "bool"
  /\ Member(document, "client_ip").type = "string"
  /\ Member(document, "servers").type = "array"
  /\ \A s \in Range(Member(document, "servers").value) :
       /\ HasMember(s, "ip") /\ Member(s, "ip").type = "string"
       /\ HasMember(s, "port") /\ Member(s, "port").type = "number"

\* The number that digits are read as.
NumberOf(digits) ==
  LET first[i \in 0..Len(digits)] ==
        IF i = 0 THEN 0 ELSE 10 * first[i - 1] + DigitValue(digits[i])
  IN first[Len(digits)]

InetPton(ip) == NumberOf(Tail(ip.value))

(***************************************************************************)
(* A server gets one port; the other field of the ut2_Addr on the stack    *)
(* stays uninitialised, whatever that memory holds.                        *)
(***************************************************************************)
\* Mutant: the port is taken for the one of the mode that is off.
ServerAddrOfOther(s, tcp, junk) ==
  [host     |-> InetPton(Member(s, "ip")),
   port_tcp |-> IF tcp THEN junk ELSE Member(s, "port").value,
   port_udp |-> IF tcp THEN Member(s, "port").value ELSE junk]

ServerAddr(s, tcp, junk) ==
  [host     |-> InetPton(Member(s, "ip")),
   port_tcp |-> IF tcp THEN Member(s, "port").value ELSE junk,
   port_udp |-> IF tcp THEN junk ELSE Member(s, "port").value]

\* The arguments of the pool, and the hosts put into the cluster.
PoolOf(document, junk) ==
  LET tcp  == Member(document, "tcp_mode").value
      list == Member(document, "servers").value
  IN [tcp   |-> tcp,
      udp   |-> Member(document, "udp_mode").value,
      bind  |-> InetPton(Member(document, "client_ip")),
      hosts |-> [i \in DOMAIN list |-> ServerAddr(list[i], tcp, junk)]]

SetUp(c) ==
  /\ clientPc[c] = "parse"
  /\ Complete(ParseStream(text[c]))
  /\ \E junk \in Uninitialised : pool' = [pool EXCEPT ![c] = PoolOf(ParseStream(text[c]), junk)]
  /\ clientPc' = [clientPc EXCEPT ![c] = "configured"]
  /\ UNCHANGED <<testVars, javaPc, current, file, text, late>>

Abort(c) ==
  /\ clientPc[c] = "parse"
  /\ ~Complete(ParseStream(text[c]))
  /\ clientPc' = [clientPc EXCEPT ![c] = "aborted"]
  /\ UNCHANGED <<testVars, javaPc, current, file, text, pool, late>>

Program(c) == Open(c) \/ Read(c) \/ ReadEnd(c) \/ SetUp(c) \/ Abort(c)

Next ==
  \/ RunTest
  \/ \E c \in Clients : Program(c)

Spec == Init /\ [][Next]_vars

---------------------------------------------------------------------------
Configured == {c \in Clients : clientPc[c] = "configured"}

(***************************************************************************)
(* The file is rewritten under clients that are reading it, and may stay   *)
(* truncated or half written: no client ever runs on a text that is not    *)
(* the whole configuration of one client, but for white space after it.    *)
(* What is read of two of them is refused by the parser because more       *)
(* follows the first.                                                      *)
(***************************************************************************)
WholeTextOnly ==
  \A c \in Configured : \E d \in Clients :
    /\ IsPrefix(Configuration(d), text[c])
    /\ \A i \in (Len(Configuration(d)) + 1)..Len(text[c]) : text[c][i] = Break

(***************************************************************************)
(* A client that runs has the transport of the test, and no other, bound   *)
(* to the address of a client, and knows every server in its place, with   *)
(* the port that the server is bound to for that transport.                *)
(***************************************************************************)
Agrees(p, d) ==
  /\ p.bind = hosts[d]
  /\ p.tcp = (ut2Mode = "TCP") /\ p.udp = (ut2Mode = "UDP")
  /\ Len(p.hosts) = Len(servers)
  /\ \A i \in DOMAIN servers :
       /\ p.hosts[i].host = servers[i].host
       /\ p.tcp => p.hosts[i].port_tcp = servers[i].tcpPort
       /\ p.udp => p.hosts[i].port_udp = servers[i].udpPort

ReadsBack == \A c \in Configured : \E d \in Clients : Agrees(pool[c], d)

(***************************************************************************)
(* A client that has read its configuration when runTest opens the file    *)
(* again has its own address and never aborts; one that has not may abort  *)
(* or take the address of a client started after it, never of one before.  *)
(***************************************************************************)
OwnUnlessOvertaken ==
  /\ \A c \in Configured \ late : pool[c].bind = hosts[c]
  /\ \A c \in Configured : \E d \in c..current : pool[c].bind = hosts[d]
  /\ \A c \in Clients : clientPc[c] = "aborted" => c \in late
===============================================================================
