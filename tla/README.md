# Models and proofs for ida-pro-mcp-headless

TLA+ modules of the processes, files and locks of this repository, TLC
configurations that check them on small instances, and TLAPS proofs of their
main invariants. Paths below are relative to `src/ida_pro_mcp/`.

## The system

An MCP host talks to a *proxy* (FastMCP, `server.py`); the proxy spawns one
headless IDA process per binary, finds it again through a JSON *sidecar* file,
and forwards tool calls to it by JSON-RPC over a local HTTP port. A CLI in
another process can list and close the same sessions.

| component | state | operations | interacts with |
|---|---|---|---|
| session sidecars, `plugin/session.py`, `plugin/_pid_check.py` | one file per session id, temporary files | write, remove, get, list_all | everybody, through the directory |
| kill switch, `spawner/kill_switch.py` | one file per session id | request_shutdown, cleanup | closers and the watcher in IDA |
| headless bootstrap, `plugin/headless_bootstrap.py` | shutdown event, registered hooks | main, watcher thread, signal handlers, finally, atexit | HTTP server, sidecars, kill switch |
| HTTP server, `plugin/http_server.py` | `_server`, `_serving`, `_stop_lock`, the socket | bind, serve_in_current_thread, stop, do_POST | bootstrap; RPC clients |
| spawner, `spawner/core.py` | lock per session id, Popen handles | open, close | sidecars, kill switch, the operating system |
| session registry, `session_registry.py`; client, `client.py` | client per session, request-id counters | resolve, invalidate, call | sidecars, HTTP servers |
| tool bridge, `_tool_bridge.py` | none after start-up | dispatch, local tools | registry, spawner |
| session control, `session_control.py`, `cli.py` | none | close_sessions, resolve_targets | spawner, sidecars |
| RPC registry, `plugin/registry.py`, `plugin/ida_sync.py`, `plugin/coerce.py` | methods, the active call | dispatch, _sync_call | HTTP server, IDA tools |
| caches, `plugin/caches.py`, `plugin/idb_hooks.py`, `plugin/names.py` | demangled names, the installed hook | lookups, invalidate_all | IDA events |
| IDA tools, `plugin/tools/` | none of their own: the database and the debugger are IDA's | 49, of which 22 write | names, RPC registry, IDA |
| service installer, `installer/service/` | scheduled task, config files | install, uninstall, status | Windows task scheduler |

What is hard in it, and what makes each part correct:

* **Sidecars** are files written, read and collected by unrelated processes
  without a lock. A sidecar must be whole when it is there, a live session must
  not be missed or a dead one reported, and the collection must not judge the
  living by what it read of the dead.
* **The bootstrap** serves on the main thread while a watcher thread, signal
  handlers and its own teardown all call `Server.stop`. The socket must be
  closed once and never under the loop; a stop must get through; an exit must
  leave neither sidecar nor socket behind.
* **The spawner** waits for a process that may die, hang or never publish, under
  a deadline, with other threads and other processes doing the same. A binary
  must not be opened twice in one proxy, no process may be left over from a
  failed open, a close must end and must not leave its kill switch behind.
* **The proxy** reads a sidecar outside its lock and uses it under it, against
  processes that restart on another port. A call must reach the session it names
  and no other, and no stale client may be used.
* **The service commands** change a registered task, a file, a running process and a
  port one after the other, with other programs and the task's own triggers in
  between. Whatever fails, what is registered must be able to start; a report of
  success must be true; the supervisor must not give up.
* **A call** is taken apart, run and answered by one thread, while its caller may
  leave and its connection break between any two of these. What the caller
  learns must be what happened; synchronised code must not run inside
  synchronised code; nothing a request does may stop the next one.
* **Commands on sessions** choose by a listing, act one session after the other, and
  meet other commands and dying processes at every step. A choice must be of a
  session that is the only one; a batch must try them all and its exit code must
  tell; a fresh analysis must not load the old database.
* **The tools** take a name for a thing that other calls rename and IDA analyses
  again in between, through a map of demangled names that is built once and
  flushed by events. A call must act on what the caller named, touch nothing else, and
  answer what it did.
* **Arguments** are decoded twice, once in the proxy and once in IDA, from types that
  nest. What a tool gets must be of the type it declares and mean what was sent.
* **A launch** is checked when it is written into a client's configuration or a service's,
  and carried out later by another process in another directory. It must still mean what
  was typed.

`PROJECT.json` lists the hazards at their lines, with the properties for each.

## Modules

| module | models | runs |
|---|---|---|
| `HeadlessServer` | one IDA process: bootstrap, HTTP server life cycle, watcher, signals | `headless`, `headless_signal`, `headless_startup` |
| `SessionStore` | the sidecar directory, one file operation per step | `sessions` |
| `Spawner` | one session id: open and close in several hosts, the IDA processes as seen from outside | `spawner`, `spawner_live`, `spawner_two` |
| `Control` | commands on whole sessions: the local tools of the proxy, `session close`, re-analysis and the databases on disk | `control` |
| `Proxy` | tool calls of several threads through registry and client to IDA processes | `proxy` |
| `Rpc` | one call end to end: client, HTTP handler, method registry, guard on IDA's main thread | `rpc` |
| `Call` | what a call promises, without any of that: the abstract specification of `Rpc` | `rpc` |
| `Names` | how a tool finds what its caller names: name table, demangled-name map, IDB hooks | `tools` |
| `Tools` | the tools that change the database or the debugged process; extends `Names` | `tools` |
| `Numerals` | pure functions of tools: number conversion, addresses, pages | `tools` |
| `Arguments` | pure functions on the way to a tool: coercion and binding; extends `Numerals` and `Launch` | `tools` |
| `Launch` | pure functions from a typed command to the proxy: configuration, service specification, command line, search for idat | `tools` |
| `Service` | the Windows service: install, uninstall, supervisor, proxies, ports | `service` |

`X_proofs` has the proofs about `X`, for `HeadlessServer`, `SessionStore`, `Spawner`,
`Control`, `Proxy`, `Rpc`, `Tools` (with `Names`) and `Service`. `Rpc_proofs` also has the
proof that `Rpc` implements `Call`, and what becomes of arguments before a tool runs
(`Arguments`, `Numerals`, `Launch`). `MC*` modules give the constants their values for TLC.

The modules divide the running system by the interleavings that matter. Each takes
one thing as a single step that another takes apart: `Spawner`, `Control` and `Proxy`
treat `session.get` as one step, which `SessionStore` splits into file operations, and
reduce an IDA process to what its spawner, commander or client can see of it, which
`HeadlessServer` opens up. `Control` takes the calls of open and close that `Spawner`
takes apart for one session, and puts several sessions side by side. `Proxy` follows a
request to the right process and stops there; `Rpc` follows it through one process and
knows no other, and treats a tool as something that ends in one of a few ways; `Tools`
says what tools do, one at a time, as `Rpc` shows they run. `Service` stands apart: it is
about the process that a proxy runs in.

### HeadlessServer

Contexts (the main thread, the watcher, one per delivered signal) have a program
counter `pc`; one step is one access to shared state. CPython runs signal
handlers on the main thread, so a handler is a context that suspends what is
below it: `running` says which context has the main thread, `under` what to
return to. `lock`, `server`, `serving` are `_stop_lock`, `_server`, `_serving`;
`shutReq` and `isShut` are the two private fields of `socketserver.BaseServer`,
which is outside the repository and is modelled from its documented handshake
(`shutdown` sets a request and waits for an event that `serve_forever` clears on
entry and sets on exit). `sock` has two instances, because a stop before
`serve_in_current_thread` makes it bind again and there is no third call of
`bind`. A kill-switch file may be there from the start (a closer that died).

### SessionStore

`file` maps a path (a session id or a process's own temporary name) to what is in
it. A process writes, renames and removes; a reader runs `get` or `list_all`:
list, read, test the pid, unlink, each a step. A pid that still answers after its
process has gone (a zombie, or reuse) is the state `ghost`. `kept` and `old` are
history variables: who was published and running, and who was gone, when the
call began.

### Spawner

Threads of several hosts (a proxy, a CLI) run `open` and `close` for one session
id; all the code's state is keyed by id. `lock` and `handles` belong to a host,
as the code's do. A deadline is an alternative that a polling loop always has,
so time needs no clock. An IDA process is a state machine from `booting` to
`gone`; `wedged` and `stuck` are the outcomes of the stop races that
`HeadlessServer` shows (deaf to kill switch and signals; blocked on the stop
lock), and a zombie lasts until its parent waits for it or dies. Not modelled:
Popen's collection of abandoned children at the next Popen, which only makes
zombies go earlier.

### Proxy

Each worker makes one call: resolve (`list_all`, `get`, the block under
`_lock`), connect, wait. IDA processes come up on a port nobody had before,
handle their backlog one request at a time, withdraw and die. A caller that gives
up leaves its request in the backlog. `since` is a history variable: which
processes have been advertised and alive since the call began.

### Rpc

Each caller makes one call over one connection (`conn`), which the main thread
takes from the backlog. `stage` is how far `do_POST` is with the request of
`cur`. A request is what is wrong with it, in the order the code finds it out,
or a well-formed call of a tool; a reply is a kind of result or an error code.
`stack` holds the synchronised calls in progress, each with the token
`_active_call.set` gave it, and `active` is the ContextVar itself. A tool ends
with a value, with `None`, with something `json.dumps` rejects, or with one of
the exceptions the layers treat differently. The reply is written in two steps,
header and body, and each may find the caller gone; what was written to `got`
stays readable when the connection is closed. `ran`, how a caller's tool ended,
is a history variable. Requests that are not POST, responses that are not
JSON-RPC and the draining of an unread body are left out: none of them reaches
the registry. An answer cut off after its header ends a call with
`http.client.IncompleteRead` (outcome `incomplete`), which is neither of the two
errors that `call` declares in `client.py`.

### Call

A call is asked with a tool or with none that can be run, its tool runs at most once and
alone, and the answer says how it ended; a call may get lost at any point. `Rpc` maps
its state to this one (`C == INSTANCE Call WITH ...`): `asked` is the tool of the request
once the caller has begun, `run` the history variable `ran`, `answer` what the caller
has concluded (`outcome`), and `up` that the loop runs. `CallImplemented` is `Call`'s
specification as a property of `Rpc`.

### Control

Commands of the proxy and of the command line (`pc`, `req`) run against each other and
against IDA processes that start, analyse, save, die. Six kinds of command: `open_file`,
`reanalyse_file`, `close_file`, `check_connection`, `list_ida_sessions` and
`session close` with its arguments (`--all`, `--force`, ids, paths). Which of them exist
follows `serve --unsafe` and whether the backend has a spawner. A listing visits one
sidecar per step, which is why two commands can disagree about what there is; `close`
reads the sidecar and later acts on what it read; `open` holds the lock of its session
from the check to the published sidecar, and `delete_idb_artifacts` unlinks the files of
one name at a time, the one after the binary's stem included. `db` says who wrote the
database beside a binary and `base` what an IDA process loaded. `SessionOf` stands for
`session_id_for_path`, so two spellings of a path are one session. `before` and `unseen`
are history variables: who was advertised when a command began, and who was still on the
binary when `open` looked and saw nobody.

### Names and Tools

`owner` (address to function start) and `name` are IDA's, and are changed by tools and by
IDA itself; `cache` is `_DemangledNameCache` with its contents, `hooked` that the
IDB hooks could be installed, which is only logged if they could not. A text that
a client passes is a raw name, a demangled one or a number, and may be more than
one of these. `Resolve` follows `resolve_function_target`: address, raw name, demangled
name, demangled name in a new map. A look-up may build the map, so it returns the map it
leaves; of overloads any may be the one that is kept.

`Tools` adds what the writing tools change: stack frames with their sizes and special
members, local variables, applied types, comments in disassembly and pseudocode, patched
instructions, breakpoints, the debugged process. One action is one call; each of IDA's own
functions may refuse, and does one thing if it does not. `reply` is the answer with the
target it was asked about and the function or address it acted on. `Ida` is what happens
between calls: functions appear, vanish and merge, their frames go with them, comments
lose their place, the debugged process halts. Reading tools share one action
(`GetFunction`), as they share the look-up and change nothing else. `MaxSteps` bounds the
calls and analyses.

### Numerals

Functions without state, and written without recursive operators so that they can be
proved about: `Power`, `Worth` and `Walk` are recursive functions, and the digits of a
number are given each by itself. Hexadecimal digits are numbers, so that the prefixes that
are digits themselves (`0b`, `0d`) can be told. Bytes are the digits in base 256.

### Arguments

Functions without state. A JSON value has a type and a number, a text or items; a text is
a token with a table of what `int()` and `float()` make of it. Values and declared types
are built in levels (`Nested`, `Declared`): level `n` has the values and types that take
lists, unions or `Annotated` of those of level `n - 1`, and `Nesting` is the last level.
`coerce` calls itself on the types within a type; so `Coercions` gives, for every level, the
function from types to conversions, made by `Convert` from that of the level below, and
`ValuesOf` says in the same way what the values of a type are. `Declared(FALSE)` are the
types whose unions have one member besides `None`, which is all that tools declare;
`Declared(TRUE)` also has unions of several, of which only the first one may convert
(`UnionSettled`).
`input` is one input to one of the functions, and a behaviour of the run `tools` looks
either at one input or at the tools.

### Launch

Two commands write a launch (`Written`): the words to start the proxy with, its
`IDA_PRO_HOME` and the URL for clients. `Main` is what the proxy makes of such words,
with the part of argparse that it needs: an option's value is the next word and must not
begin with `-`. A text is a token; tables say which begin with `-`, have a colon or are
relative paths. The words are read one by one (`ReadWord`, `ParseServe`): a state of the
reading is what is known and which option waits for its value. A relative path names one
directory for the user's shell and another for the proxy, which a client or the task
scheduler starts somewhere else. The inputs are all combinations of seven hosts, six
port texts, three transports and six paths, typed and in the environment, on both
platforms.

### Service

A command (`at` is its next step) is typed while the supervisor, its proxy and
other programs run. `task` is the registered definition, `config` the content of
`service.json`, `wrapper` the file that the definition of an old version runs. The
supervisor `sup` has read `spec` and launched `child`; `job` holds the proxies that
die with it. A proxy launched and not yet assigned when the supervisor is ended
stays behind (`Orphans`). Ports are held by proxies, by killed proxies that the
system is not done with, and by other programs (`foreign`). The task scheduler
answers in English or not (`english`), since `schtasks.py` reads its messages; a
process that runs in the service directory keeps it from being removed, as on
Windows. `excused` is a history variable: something has come between that the
command has no means to see. `status` only reads and is left out, and so are the
contents of the task XML.

## Runs

| run | shows | bounds |
|---|---|---|
| `headless` | type invariant; no double close; no close under the loop; the advertised port is open until a shutdown is asked for; a clean exit leaves nothing; the kill switch ends a serving process | two signals, so a handler can interrupt another; one watcher; two socket instances are all the code can make |
| `headless_signal` | violated: a handler's stop waits for the loop it suspends | the same |
| `headless_startup` | violated: a stop between `_serving = True` and the loop | no signal is needed |
| `sessions` | sidecars are whole; decisions to drop are right; a call misses nobody who was there all along and returns nobody who was gone | one id (ids share nothing but the listing), two processes, so that a successor meets its predecessor's file, two readers, so that one collects what the other read |
| `spawner` | opens are serialised and a booting child has a thread that answers for it; a failed open leaves no child; handles belong to their pid; no kill switch is left behind | two opens and a close in a proxy, a close in a CLI, two IDA processes: one and its successor or rival; both platforms |
| `spawner_live` | every open and close returns | one closer less, for the cost of liveness |
| `spawner_two` | violated: two proxies spawn twice | one open each |
| `control` | a finished `session close` tells the truth; a fresh analysis does not load the old database; what is chosen without a name is the only session there is | two commands, which is what it takes for one to disturb another; two IDA processes and two binaries, one named like the other's stem; four command lines: `--all`, a contradiction, names in an order with repetitions, `--force` |
| `proxy` | a tool runs in its session; a steady session is reached, not missed, not guessed; one client per session that has one process and was not missed | two calls, enough for one to act on older news than the other; two sessions, one with a restart; symmetric in the workers and in the two processes of the restarted session |
| `rpc` | synchronised code is never nested and the slot is always given back; a caller learns what happened to its own tool; who waits is answered; the whole implements `Call` | two callers, so that one's failure can hurt the next; two tools, one of which may answer `None`; tools may try to call tools twice deep, which the guard must refuse before the bound does |
| `service` | what is registered can start; an install or uninstall that reports success has succeeded; the supervisor brings its proxy back | two commands, so that one meets what the other left; three configurations of two ports, two of them for one port, so that a proxy with old settings can be mistaken for one with new; two faults, one to spoil a command and one to spoil its repair; one proxy without an owner |
| `tools` | a call acts on what its target means; an answer is true, of what was touched and of what was not; arguments reach a tool, and the proxy, as what they mean | four addresses and two functions, one of more than one address; two overloads and a data name that reads as a number, too; a frame of three bytes with a local, a saved register and an argument; two calls or analyses, of which one can invalidate what the other goes by; inputs of `Arguments`, `Numerals` and `Launch` on both sides of every limit the code tests; types nested three deep (`Nesting`), as the deepest that is tried is a list of a float with two layers of bounds |

Deadlock is not checked where the modelled calls may all have returned and the
processes ended. The violated runs are documented in `PROJECT.json` under
findings, each with the comment of the source it contradicts.

The properties of `Names`, `Tools` and `Control` speak of one call or one command against
what others did in between, and none of them counts. A third command or call brings no
step that two cannot bring; the proofs, where there is one, are for any number.

**Fairness.** `HeadlessServer`: the main thread, the watcher and handlers that
have begun keep running, as threads of a live process do; a new request, a crash,
a signal and the closers are not assumed to come, and a tool in progress is
assumed to finish, without which nothing can end the single-threaded loop.
`Spawner`: a thread that can go on does. That includes its deadline, since both
loops are bounded by `time.monotonic`; nothing is assumed of IDA. Waiting for
the spawn lock needs no strong fairness, since a thread calls open once. `Rpc`:
the main thread goes on and a tool finishes; a caller that connected sends its
body, and reads what arrives or notices that its connection is closed. A time-out,
a shutdown and a death are not assumed to come, so `AnswersArrive` does not lean
on them. Weak fairness of `Accept` is on the server and not on each caller: a
call is made once, so the backlog cannot pass a caller over for ever. `Service`: the
supervisor goes on and a launched proxy gets as far as its port; commands need no
fairness, as their waits are bounded. `ServiceRecovers` speaks of the time after
the last fault and the last command, when nothing else will help the supervisor.

## Proofs

`HeadlessServer_proofs`, for any set of signals. The invariants checked are not
inductive. `IInv` adds that whoever is past the test in `stop` holds the lock
(`LockInv`), that what it holds is open and no longer `_server` (`HeldInv`), what
is true at each stage of `main` (`PhaseInv`) and that while the loop runs a stop
of its instance has not reached the close (`LoopInv`). The last one needs
`_serving` to be set before the loop is entered and only cleared after it.
`ExitInv` adds that an open socket always has somebody who will close it
(`OpenInv`), that after the main thread's stop there is nothing left to stop
(`QuietInv`), and when the sidecar can exist. From these: `TypeCorrect`,
`SingleClose`, `LoopSocketOpen`, `AdvertisedPort`, `CleanExit`.

`SessionStore_proofs`, for any ids, processes and readers. `IInv` says what a
temporary file and a sidecar can contain given how far their process is, that a
reader only holds processes that were born, that a decision to drop is about a
process that is gone, and where a kept process still is: in the result, under the
reader's eyes, or in the rest of the listing. From it: `SidecarsComplete`,
`DropDecisions`, `ScansComplete`, `ScansSound`.

`Rpc_proofs`, for any callers, tools and nesting bound. `SafeInv` adds to the type
invariant and `SyncExclusive` that the outermost call remembers an empty slot
(`TokenInv`), which is why giving its token back empties it. `TruthInv` says what
stage the current call is in and how its tool ended (`CurrentInv`), that a
connection is closed only behind its request (`ConnInv`), and that what is on the
wire is as true as what has been read (`GotInv`). From these: `TypeCorrect`,
`SlotExclusive`, `OutcomesTrue`.

`Service_proofs` proves the invariants of the Windows service for any configurations,
ports, processes and bounds, in two layers. `SafeInv` has the types, `FileInv` (how
far a command is tells what is registered and on disk: an install that has written
still has its own configuration there, a removal that has got to the files has
unregistered the task) and `RemoveInv`, whose `HeldInv` says that whatever runs keeps
the directory, which is why an empty directory means that nothing runs. From these:
`TypeCorrect`, `TaskCanStart`, `UninstallLeavesNothing`. The second layer is about
processes: `ProcInv` (a supervisor's proxy serves what the supervisor has read, and
its job object holds that proxy and what is being ended) and `TruthInv`, which
follows an install that nothing has come between: only the supervisor's proxy is
about to listen (`StartingInv`), the supervisor serves the new configuration once
the old task has ended (`NewSpecInv`), and a port seen free is taken by nothing else
(`PortInv`). With them `InstallReportsTruth`. `excused` is set exactly where one of
these would break: the supervisor ends before its proxy is in the job object, such a
proxy has not listened yet when the install begins, the old task does not end, or
another program takes a port.

The second half of `Rpc_proofs` proves `CallImplemented` (`Implementation`): the initial
states of `Rpc` are initial states of `Call`, and every step of `Rpc` is a step of `Call`
or changes nothing of it (`Simulates`, one lemma per action). It adds to `IInv` the
invariant `RunInv`: a tool that has begun was asked for, while IDA serves only the current
call's tool can be running, a refusal is only written for a request that no tool could be
run for, and an answer that was cut off had begun. What is read from the wire is a step
`Answer` of `Call` because of `GotInv`.

`Proxy_proofs`, for any number of calls, sessions and processes that take each other's
place. A port is one process's for good (`PortInv`), so a client that was made for a
session never leads to another (`ClientInv`, `ServedInv`): `RunsInSession`. Of a process
that has been there since the call began, the call's news is right at each of its steps
(`SinceInv`), so the client it ends up with has that process's port, whatever the cache
held before: `SteadySessionsReached`, `SteadySessionsFound`. Types are inductive only with
counts of the calls that have made a client or a request (`CountInv`). `OneClient` counts
the clients of a session that has had one process only (`SoleInv`): one is cached, and any
other was dropped by a call that was turned down. It covers what the run cannot reach, as
it takes three calls: one finds no sidecar, a second makes a client of the session that
has come up since, the first drops it from the cache (`_get_client` reads outside the lock
and pops inside), a third makes another, and its request ids start from the beginning.

`Spawner_proofs`, for any hosts, threads and processes. `IInv` says what a thread holds at
each step (`PcInv`), that an open that failed has waited for its child (`FailInv`), that
past the lock one has it (`LockInv`), that a sidecar is of a process that has got to
publish (`SideInv`), that processes have parents and threads die with their hosts. From
it: `TypeCorrect`, `KillSwitchesOwned`, `FailedOpensReap`, with any number of proxies. The
other two need that all opens are made in one proxy (`OneProxyOpens`), as `spawner_two`
shows: then a booting process has a thread that waits for it (`BootInv`), so no other
process can publish between the check and the child's sidecar, so the session that `open`
finds is its child's (`OwnInv`). From these: `OpensSerialised`, `HandlesOfTheirPids`.

`Control_proofs`, for any sessions, paths, command lines, processes and commands. For
`FreshAnalyses`, the lock covers a fresh open from its check to the end (`LockInv`,
`ChildInv`), whoever could still write the old database is then among `unseen`
(`AbsentInv`), and the database that remains once `left` is empty is one of the three
that `FreshAnalysis` allows (`FreshInv`). For `SoleSessions`, a session that was there
from the start of a listing is in `listed` or still in `left` (`ScanInv`).
The second layer, `CloseInv`, is about the calls of a command and rests on `IInv`. The
targets of a `session close` are the sessions it names, each once, or take in every one
that was advertised when the command began and still is (`TargetInv`). The first are put
together by `Ordered`, a recursive function whose values are found by induction on the
number of candidates. `StageInv` says what a call of close has at each of its stages: a
target that is left, and a process that was found there. `OutcomeInv` says that there is
one outcome for each target in their order, and that a session reported closed has, of
those found there now and at the start, nobody left who is not settled; this stays true,
as a process that is settled remains so. `CallTypes` is what the types add. From these:
`TypeCorrect`, and `BatchesTruthful`, with any number of targets.

`Tools_proofs` is about `Tools` and `Names` together, for any database, texts and bound.
`IInv` adds to the types that no name is given twice, which the look-up by name relies on,
and `CacheFresh`: while the hooks are in, the map of demangled names contradicts none,
however many renames and analyses there have been (`MapNeverContradicts`). It is kept by
look-ups because they only ever put a new map in its place (`MapsFresh`), by renames
because they flush it, and by analyses because the map is of names and not of functions.
`ResolveSound` says what a look-up may answer in such a state; each tool's lemma then
shows that it acts on that, and leaves what it changes well typed. From these:
`TypeCorrect`, `TargetsResolved`. `AnswersTruthful` is about what a tool reports: each
tool's `...Tells` lemma compares its answer with the state before and after, for what it
says it has changed and for what else has changed. Two need more than a case split. The
instructions of a patch lie one behind the other, each as long as it takes (`Before`), so
none is put where another one is (`PlacesApart`) and all that the answer counts are there
in the end (`PatchedIs`): inductions on the number of instructions. `_check_mutable`
recognises an argument of a function by its offset, which is right because the members of
a frame do not overlap (`FramesInv`, inductive, stated as `FramesWellFormed`; `MutableIs`).

The third part of `Rpc_proofs` begins with `Numerals`, for every input there is.
`NumbersExact` and `AddressesExact` rest on one fact, that digits got by dividing are worth
the number they came from (`DigitsWorth`), by induction on their count: dividing by a
power and then by the base is dividing by the next power (`DivisionTwice`). For bytes,
`256^w = 2^(8w)` relates the width that is inferred from the bit length to what fits
(`PowersOfTwo`, `MinimumByteWidthIs`), and a number below zero is packed as what it is
modulo `256^w`. That the text shows every byte although it leaves out the zeros at the end
is because these are leading zeros of the number (`LeadingZeros`). `PagesAllExact` is by
induction on how much of the listing is left: a page that is not the last is not empty,
and the next one begins where it ends (`PageIs`, `Pieces`). What a recursive function
computes is known only once it is shown to exist; `Recursion` does this once for those on
natural numbers whose values are numbers.

`CoercionsExact` is about every value and every type, by induction on how deep types are
nested. What is shown of a level (`Sound`) is of each of its types: what conversion returns
is of the type and is returned as it is when it is converted again (`Decodes`), and, of the
types without unions of several, a value of the type is returned as it is (`Keeps`). The
step is a lemma for each kind of type and `TypeDecodes` for all of them. A union takes the
first member that accepts a value, and that must still be the first for the converted
value: where there are several, no earlier member accepts it because all but the first
leave a value as it is (`UnionSettled`). A list is converted item by item, and its result
is a value because levels of values contain one another. That `Coercions`, `ValuesOf`,
`Nested` and `Declared` exist is shown once for all of them, since each level is made from
the one below (`LevelsExist`). `CallsExact` follows for a whole call.

`LaunchesExact` is by reading a launch as argparse does, word by word: what was written for
each transport is at most seven words, and after each of them the reading is known, whatever
the texts are, or has stopped at a host that begins with `-`. What `config` and the service
accept, the URL and the search for idat are compared with the line that was typed in
`TypedReached`, `TypedFinds` and `TypedWritten`. `ArgumentsAllExact` puts the parts
together: for any constants, every input of `Inputs` has `ArgumentsExact`.

The library's induction theorems take an operator and cannot be used. In the modules
that need one (`Control_proofs`, `Tools_proofs`, `Rpc_proofs`) `Induction` has its
place: a set of natural numbers that has 0 and the successor of each of its members has
them all. It comes from `LeastMember` (a set of numbers that is not empty has a least
one), which comes from the library's theorem that the subsets of a finite set are
well-founded under strict inclusion. What is to be shown of every number is then put as
a set of numbers.

The only assumptions are those on the constants, all named in the modules: names are
distinct from one another, `Nothing` is not a number, bounds are natural numbers, a
configuration has a port, there are finitely many sessions (`SESSION_DIR` is a
directory), and a database as it is loaded gives no name twice and has frames whose
slots do not overlap, as IDA keeps them. For arguments, the values and types that are
looked at are among those of the last level, and a table gives each text a number or
nothing (`ArgumentsAssumption`); for launches, ports are printed so that they can be read
back, no transport or port looks like an option, and a host that is one begins with `-`
(`WordsAssumption`), `Unset` is neither an option nor a URL (`UnsetAssumption`), and the
placeholder is a relative path that is nobody's (`PlaceholderAssumption`).

Only model-checked are the liveness properties `KillSwitchStopsLoop`, `CallsReturn`,
`AnswersArrive` and `ServiceRecovers`, which are out of the prover's reach. Every
invariant and every action property that a passing run checks, and the refinement, is
also a theorem. What the tables of texts say (`int()`, `float()`, `str()` of a port), and
which texts there are, is given to the proofs and not derived by them.

## What was seen on the way

Things the models contain that no comment of the source speaks about, so that no property
is refuted by them:

* `list_all` reads the temporary file of a write in progress (`plugin/session.py:229`). It
  unlinks one that is incomplete, and that write then fails; a complete one puts its
  session into the answer, possibly a second time.
* The `atexit` hook removes the sidecar by id, which may be a successor's by then
  (`plugin/headless_bootstrap.py:283`); so may close's escalation (`spawner/core.py:291`).
* A `CloseOutcome` is graceful as soon as the sidecar is gone, whatever the process does.
* Re-analysing `app.exe` deletes the database of `app`, too, as both have the stem `app`
  (`delete_idb_artifacts`).
* Overloads share one demangled name, and the map keeps the last that IDA enumerates.
* A variable with the raw name `t` hides a function shown as `t` from every function tool.
* A union of several types need not survive a second decoding: `bool | float` makes 1.0 of
  the text `1.0`, and then `True` (`_coerce_union`). No tool declares such a type.
* Bounds on a union of several types may refuse a value of that type: the text `7` is of
  `Annotated[int | str, Doc(gt=10)]`, becomes 7 and is refused. No tool declares that.
* `parse_ea` reads bare hexadecimal that begins with `0b` or `0d` as binary or decimal.
* Setting a comment throws away pseudocode comments of that function which have lost
  their place (`plugin/tools/comments.py:73`).
* `parse_c_type` ignores the result of `parse_decl`, so a declaration that does not parse
  may become an empty type (`plugin/types.py:111`).
* `config` prints a URL without brackets for an IPv6 host (`installer/config.py:100`), which
  no client can read; the service's URL has them.
* `config` and `service install` check a relative `--ida-home` against the directory they
  run in and write it down as it is; the proxy runs in another one.
* A host that begins with `-`, given as `--host=-x`, is written as two words, which the
  proxy refuses; so is an empty one in the command that `config` prints.
* `create_stack_frame_variable` overwrites what it overlaps, special slots included.

## Not modelled, and the plan

Left for a continuation, in this order:

1. An abstract session directory (a session is absent, starting, live or withdrawn) that
   `SessionStore` and `Spawner` implement, and that `Control` and `Proxy` use.
2. The stdio side of `server.py` and the forwarding of a request by `_tool_bridge.py`,
   which composes `Control`, `Proxy` and `Arguments`.

Left out: rendering of JSON and task XML and schema translation at import time,
which have no state and no order in which they could go wrong; the tools that only read
and what they print, which is a query to an API outside the repository; what IDA does
inside its own functions.
