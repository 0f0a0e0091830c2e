------------------------------- MODULE Launch -------------------------------
(***************************************************************************)
(* From the command line to the proxy.  "config" (installer/config.py) and *)
(* "service install" (service/_windows) write down how the proxy is to be  *)
(* started; the MCP client, the user or the scheduled task starts it later *)
(* and from another directory (main and _cmd_serve of cli.py), and it      *)
(* looks for idat by itself (spawner/locator.py).                          *)
(***************************************************************************)
EXTENDS Integers, Sequences

CONSTANTS
  Hosts, PortTexts, Homes,    \* texts typed for --host, --port and --ida-home
  NumberOf, TextOf,           \* int() of a text, or Unset; str() of a port
  Dashed, Colons, Relative,   \* texts that begin with "-", hosts with a ":", relative paths
  Directories,                \* directory -> file name -> "exec", "plain" or "none"
  DefaultHost, DefaultPort, Placeholder, Unset

ServeOptions == {"--transport", "--host", "--port"}

Empty == ""

HttpTransports == {"streamable-http", "sse"}

TransportChoices(cmd) == HttpTransports \cup (IF cmd = "install" THEN {} ELSE {"stdio"})

Defaults == [transport |-> "stdio", host |-> DefaultHost, port |-> DefaultPort, unsafe |-> FALSE]

PortRange == 1..65535

\* A set: the port, or nothing if argparse is told to refuse it.
PortType(text) == {NumberOf[text]} \cap PortRange

\* A word that argparse takes for the value of the option before it.
Argument(text) == text \notin ServeOptions \cup Dashed \cup {"--unsafe"}

\* What a URL is made of.
Urls == [host : Hosts \cup {"127.0.0.1", "::1"}, brackets : BOOLEAN, port : PortRange, path : {"/sse", "/mcp"}]

\* Ports are printed as decimals, and a host that is an option begins with "-".
ASSUME WordsAssumption ==
  /\ \A p \in PortTexts : NumberOf[p] \in PortRange =>
       Argument(TextOf[NumberOf[p]]) /\ NumberOf[TextOf[NumberOf[p]]] = NumberOf[p]
  /\ \A t \in HttpTransports : Argument(t)
  /\ \A h \in Hosts : h \in ServeOptions \cup {"--unsafe"} => h \in Dashed

\* What is not there is none of the things it could be.
ASSUME UnsetAssumption == Unset \notin ServeOptions /\ Unset \notin Urls

\* The placeholder is a relative path that nobody has.
ASSUME PlaceholderAssumption == Placeholder \in Relative /\ Placeholder \notin Homes \cup {Unset}

-----------------------------------------------------------------------------
(* The proxy.                                                              *)

SetOption(args, option, text) ==
  CASE option = "--transport" -> {[args EXCEPT !.transport = t] : t \in {text} \cap TransportChoices("serve")}
    [] option = "--host" -> {[args EXCEPT !.host = text]}
    [] option = "--port" -> {[args EXCEPT !.port = p] : p \in PortType(text)}

\* argparse, for one word: what is known by then, and the option that waits for its value
\* (Unset if none does).  That is the next word, which must not look like an option.
Reading(args, option) == [args |-> args, option |-> option]

ReadWord(r, word) ==
  CASE r.option = Unset /\ word = "--unsafe" -> {Reading([r.args EXCEPT !.unsafe = TRUE], Unset)}
    [] r.option = Unset /\ word \in ServeOptions -> {Reading(r.args, word)}
    [] r.option # Unset /\ Argument(word) ->
         {Reading(args, Unset) : args \in SetOption(r.args, r.option, word)}
    [] OTHER -> {}

ParseServe(words) ==
  LET read[n \in 0..Len(words)] ==
        IF n = 0 THEN {Reading(Defaults, Unset)} ELSE UNION {ReadWord(r, words[n]) : r \in read[n - 1]}
  IN  {r.args : r \in {x \in read[Len(words)] : x.option = Unset}}

CmdServe(args) ==
  IF args.transport # "stdio" THEN args
  ELSE [args EXCEPT !.host = DefaultHost, !.port = DefaultPort]

\* What is served, if the words are accepted.
Main(argv) ==
  LET words == IF argv = <<>> THEN <<"serve">> ELSE argv
  IN  IF words[1] # "serve" THEN {} ELSE {CmdServe(a) : a \in ParseServe(Tail(words))}

\* A directory by its name, from where a process runs.
Directory(place, home) == <<IF home \in Relative THEN place ELSE "/", home>>

IdatBasenames(platform) == IF platform = "win32" THEN <<"idat.exe">> ELSE <<"idat", "idat.exe">>

\* With the usual PATHEXT.
IsExecutable(platform, name, kind) ==
  IF platform = "win32" THEN kind # "none" /\ name = "idat.exe" ELSE kind = "exec"

\* locate_idat_in_home: the first name of an executable file.
LocateIdat(platform, place, home) ==
  LET dir    == Directory(place, home)
      names  == IdatBasenames(platform)
      usable == {n \in DOMAIN names : IsExecutable(platform, names[n], Directories[dir][names[n]])}
  IN  IF dir \notin DOMAIN Directories THEN {}
      ELSE {<<dir, names[n]>> : n \in {m \in usable : \A l \in usable : m <= l}}

-----------------------------------------------------------------------------
(* What is written down.                                                   *)

ServeArgv(args, host) ==
  <<"serve">>
    \o (IF args.transport = "stdio" THEN <<>>
        ELSE <<"--transport", args.transport, "--host">> \o host \o <<"--port", TextOf[args.port]>>)
    \o (IF args.unsafe THEN <<"--unsafe">> ELSE <<>>)

BuildServeArgv(args) == ServeArgv(args, <<args.host>>)

ResolveIdaHome(explicit, env) ==
  IF explicit \notin {Unset, Empty} THEN [value |-> explicit, placeholder |-> FALSE]
  ELSE IF env \notin {Unset, Empty} THEN [value |-> env, placeholder |-> FALSE]
  ELSE [value |-> Placeholder, placeholder |-> TRUE]

\* Refused if it is a real path without idat.
ValidatedIdaHome(platform, explicit, env) ==
  LET home == ResolveIdaHome(explicit, env)
  IN  IF home.placeholder \/ LocateIdat(platform, "shell", home.value) # {} THEN {home.value} ELSE {}

Path(transport) == IF transport = "sse" THEN "/sse" ELSE "/mcp"

Url(args, host, brackets) ==
  [host |-> host, brackets |-> brackets, port |-> args.port, path |-> Path(args.transport)]

StdioConfig(args, home) == [words |-> BuildServeArgv(args), home |-> home, url |-> Unset]

\* The command is printed with its words side by side, so that an empty one is lost.
HttpConfig(args) ==
  [words |-> ServeArgv(args, IF args.host = Empty THEN <<>> ELSE <<args.host>>), home |-> Unset,
   url |-> Url(args, args.host, FALSE)]

PrintMcpConfig(args, platform, home, env) ==
  IF args.transport = "stdio"
  THEN {StdioConfig(args, h) : h \in ValidatedIdaHome(platform, home, env)}
  ELSE {HttpConfig(args)}

ProbeHost(host) ==
  IF host = "0.0.0.0" THEN "127.0.0.1" ELSE IF host = "::" THEN "::1" ELSE host

SpecValid(spec) ==
  spec.transport \in HttpTransports /\ spec.host # Empty /\ spec.port \in PortRange

EndpointUrl(spec, host) == Url(spec, host, host \in Colons)

\* The supervisor's command, past the interpreter and the module.
ChildCommand(spec) == BuildServeArgv(spec)

\* The ServiceSpec that install writes and the supervisor reads; home is the proxy's
\* IDA_PRO_HOME, and url the one that is shown for local clients.
InstalledSpec(args, home, env) ==
  {[words |-> ChildCommand(args), home |-> h, url |-> EndpointUrl(args, ProbeHost(args.host))] :
     h \in IF SpecValid(args) THEN ValidatedIdaHome("win32", home, env) ELSE {}}

\* cmd is "config" or "install"; every option is typed as --option=value.
Written(l) ==
  UNION {LET args == [transport |-> l.transport, host |-> l.host, port |-> p, unsafe |-> l.unsafe]
         IN  IF l.transport \notin TransportChoices(l.cmd) THEN {}
             ELSE IF l.cmd = "install" THEN InstalledSpec(args, l.home, l.env)
             ELSE PrintMcpConfig(args, l.platform, l.home, l.env) :
           p \in PortType(l.port)}

-----------------------------------------------------------------------------

\* The proxy serves what was typed.  It is refused only for a host that no option can
\* be given as its next word.
ServesWhatWasTyped(l, w) ==
  /\ Main(w.words) = {} => l.transport # "stdio" /\ l.host \in Dashed \cup {Empty}
  /\ \A p \in Main(w.words) :
       /\ p.transport = l.transport /\ p.unsafe = l.unsafe
       /\ l.transport = "stdio" => p.host = DefaultHost
       /\ l.transport # "stdio" => p.host = l.host /\ p.port = NumberOf[l.port]

\* A client that follows the URL comes to where the proxy listens: to its address or, for
\* a service on every address, to the local one.  The URL that config prints for a host
\* with colons cannot be read.
UrlLeadsToProxy(l, w) ==
  LET readable == w.url.host \notin Colons \/ w.url.brackets
  IN  /\ w.url = Unset <=> l.transport = "stdio"
      /\ w.url # Unset =>
           /\ readable \/ (l.cmd = "config" /\ l.host \in Colons)
           /\ w.url.port = NumberOf[l.port]
           /\ w.url.path = "/sse" <=> l.transport = "sse"
           /\ l.cmd = "install" => w.url.host \notin {"0.0.0.0", "::"}
           /\ \/ w.url.host = l.host
              \/ <<l.host, w.url.host>> \in {<<"0.0.0.0", "127.0.0.1">>, <<"::", "::1">>}

\* The proxy finds the idat that was there when the path was accepted, unless the path
\* means another directory where the proxy runs, as the placeholder does, which stands
\* only where no path was given.
FindsIdat(l, w) ==
  LET platform == IF l.cmd = "install" THEN "win32" ELSE l.platform
      found    == LocateIdat(platform, "launch", w.home)
  IN  w.home # Unset =>
        /\ w.home = Placeholder <=> {l.home, l.env} \subseteq {Unset, Empty}
        /\ w.home \notin Relative => found # {} /\ found = LocateIdat(platform, "shell", w.home)

\* A line that can be carried out is not refused.
RefusedForReason(l) ==
  \/ l.transport = "stdio" /\ l.cmd = "install"
  \/ NumberOf[l.port] \notin PortRange
  \/ l.host = Empty /\ l.cmd = "install"
  \/ \E h \in {l.home, l.env} \ {Unset, Empty} :
       LocateIdat(IF l.cmd = "install" THEN "win32" ELSE l.platform, "shell", h) = {}

LaunchExact(l) ==
  /\ Written(l) = {} => RefusedForReason(l)
  /\ \A w \in Written(l) : ServesWhatWasTyped(l, w) /\ UrlLeadsToProxy(l, w) /\ FindsIdat(l, w)

Launches ==
  [cmd : {"config", "install"}, platform : {"linux", "win32"}, transport : TransportChoices("config"),
   host : Hosts, port : PortTexts, unsafe : BOOLEAN, home : Homes, env : Homes]
=============================================================================
