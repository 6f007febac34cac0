# PowerMan in TLA+

PowerMan switches the power of cluster nodes. `powermand` keeps a connection to
each power control device (over TCP, a serial line or a coprocess), runs the
scripts of its device specification (`etc/*.dev`) on it, and serves clients (the
`powerman` command, `libpowerman`) that ask for nodes to be switched on, off, or
reported on. This directory holds TLA+ models of the daemon, of the containers it
is built on, of the library and the command that talk to it and of one of its
helper programs, the TLC runs that check them on small instances, and proofs
checked by TLAPS.

Line numbers refer to `src/powermand/` unless a path is given.

## 1. Inventory

| Component | State | Operations | What makes it correct | Modules |
|---|---|---|---|---|
| Device engine, `device.c` | per device: connection state, `logged_in`, queue of actions, each with a stack of execution contexts; `to`/`from` buffers, back-off, ping clock | `dev_enqueue_actions`, `dev_initial_connect`, `dev_pre_poll`, `dev_post_poll` → `_handle_ready_device`, `_reconnect`, `_enqueue_ping`, `_process_action` → `_process_stmt` | login before anything else; one script at a time on the wire; no answer to one action matched by another; every action ends, once; poll wakes up when a timer is due | `Script`, `Device`, `DeviceProofs` |
| Client protocol, `client.c` | per client: buffers, `client_quit`, the one command with its `pending` and `error` | accept, `_parse_input`, `_create_command`, `_act_finish`, `_destroy_client` | `pending` counts exactly the queued actions; success is answered only if all was done; a prompt means idle; one response a line | `Client`, `Session`, `Targets` |
| Select loop, `powermand.c` | the time-out of the next poll | `_select_loop` | the loop never sleeps past a due timer | `Powermand`, `Device` |
| Argument lists, `arglist.c` | node → state, a reference count | create, link, unlink, find, iterate | shared by a command and its actions; freed once, not too early, not too late | `ArgList` |
| Device methods, `device_tcp.c`, `device_pipe.c`, `device_serial.c` | descriptor, address list, coprocess, telnet state | connect, finish_connect, disconnect, preprocess | a device uses its own descriptor only; nothing leaks; scripts see the data and no telnet | `Connection`, `Telnet` |
| Poll wrapper, `src/libcommon/xpoll.c` | array of descriptors | set, revents, wait | a wait ends on time although signals interrupt it | `Xpoll` |
| Configuration, `parse_tab.y`, `parse_util.c`; plug lists, `src/libcommon/pluglist.c` | specifications, devices, plugs, nodes, aliases | one statement of `powerman.conf` each; look-ups for clients | a node is on one plug, the one its line names; a request means what it says | `Config`, `PlugMap`, `Targets` |
| Client library, `src/libpowerman/libpowerman.c` | one connection, what was read | connect, request, read to the prompt, disconnect | a call returns what came of that call | `Library`, `Calls` |
| Command, `src/powerman/powerman.c` | the list of commands | options → commands → responses → exit status | the exit status tells the truth | `Tool` |
| `cbuf`, `list`, `hash`, `hostlist` (`src/liblsd/`) | a circular buffer; a list and its iterators; chains; ranges of host names | every call of their headers that powerman makes, and more | they are a queue, a sequence with cursors, a dictionary, a sequence of names | `Cbuf`, `List`, `Hash`, `Hostlist` and what they implement |
| Coprocesses: `plmpower`, `httppower`, `snmppower` | for plmpower, a modem and what it is doing | read a command, do it, print a line | what is reported done was done | `Plm` |
| Other of `libcommon`, start-up code, scripts, heartbeat agent | none of their own | | | not modelled |

### Interactions

`powermand` is one thread. A pass of `_select_loop` (lines 208-228) is: `poll`, then
all that clients sent, then each device in the order of the configuration, first
its descriptor, then its queue until the head action *stalls* (waits for input, for
output to drain, for a delay, or for a connection). Clients and devices interact in
three ways: a command queues actions on several devices; an action that ends calls
back its client by id; and the actions of a command share an arglist. Every device and
client has two circular buffers; the queues, clients, devices, plugs and scripts are lists with
long-lived iterators; arglists are hash tables. The library and the command
see the daemon through a stream of bytes that comes in pieces and may end.

What is hard here is not parallelism inside the daemon but the orders of events
around it: a connection that comes up, is lost and comes up again while an action is
in the middle of its script (the login preempts it and it is *rewound*); time-outs
that end an action whose answer is on its way, and abort the actions behind;
clients that leave while their actions run on; descriptors whose numbers are given out again;
commands cut in two by a read; list items removed while an iterator is on them; and the bookkeeping of
one time-out for a poll that has to wake up for all. `PROJECT.json` lists these hazards
line by line with the properties that cover them.

## 2. Modules

An arrow reads "is extended by"; what is in brackets is the abstract module that is implemented.

```
Script -> Device -> Client -> Powermand -> MCPowermand -> MCDaemon    [Device]
            |-> MCDevice

Cbuf, List, Hash -> ArgList, Hostlist -> MCContainers     [ByteQueue, Cursors, Dictionary, Names]

Xpoll -> Connection, Telnet, Plm -> MCConnection

Selection -> Targets; PlugMap, Targets -> Config -\
Targets -> Session -> Library, Tool ---------------> MCFrontend  [Calls]
```

`Selection` (also extended by `Telnet` and `Hash`) has the elements at some places of a sequence, in order.

`MCContainers`, `MCConnection` and `MCFrontend` hold several models that share no
state. Each has a variable `scene` that is chosen at the start and says which of them a
behaviour is about; the others stay as they are. So the states of a run are the sum, not the product, of those of its scenes,
and one configuration is one suite. In `MCDevice` and `MCDaemon` the scenes are restrictions of the same model.

The proofs stand in modules of their own:

```
Device -> DeviceProofs -> WireProofs -\
Client -> Powermand -------------------> PowermandProofs
FoldLemmas, Connection, Telnet -> ConnectionProofs
FoldLemmas, Config, Library, Tool -> FrontendProofs
FoldLemmas, Cbuf, List, ArgList -> ContainerProofs
Plm -> PlmProofs
```

### The daemon

**Script** — a script is a block of statements, `foreach` and `if` hold inner
blocks; blocks are named by the constant `Block`, so a context (`ExecCtx`, lines 87-98) is
a small record and a stack a sequence of them, its top first.
`next_stmt` is the end of a statement (877-885), `rewind_action` is `_rewind_action` (254-271):
like the code it resets the statement only.

**Device** — the devices under the loop. Each action is one step of the loop:

| Actions | Code |
|---|---|
| `dev_initial_connect` | one turn of the loop of `dev_initial_connect` (1364-1378) |
| `PollReturns`, `ClientsDone` | `_select_loop`: `timerclear(&tmout)` after the poll; after `cli_post_poll` |
| `ClientCommand` | `dev_check_actions` and `dev_enqueue_actions` for a client with nothing queued |
| `VisitUnconnected`, `VisitFinishConnect`, `VisitConnected`, `VisitConnecting` | the first half of a turn of `dev_post_poll` (1513-1540): `_handle_ready_device` or `_reconnect`, then `_enqueue_ping` |
| `ProcessIdle`, `ProcessTimeout`, `ProcessUnconnected`, `process_send`, `process_expect`, `process_delay`, `process_setplugstate`, `process_foreach`, `process_ifonoff` | one turn of the loop of `_process_action` (809-921), by what it meets |
| `LinkOpens`, `LinkDrops`, `Answers` | the network and the device: not code of this repository |
| `StampExpires`, `DelayExpires`, `RetryExpires`, `PingFallsDue` | the passing of time, as `gettimeofday` would tell |

State: `connect_state`, `logged_in`, `acts`, `to`, `from`, `xmatch` have the names of the
code. `retry` and `ping` are the clocks of the back-off and of the ping, `args` the arglist of
each client's command. `link`, `heard`, `rx` are the network's side of the connection.
`phase`, `cur` say where the loop is. `calls` holds the completion callbacks of the step.
`delivered` and `answered` are history, read by properties only: the plugs a command was
transmitted for, and what devices answered about plugs.

**Client** — the clients: connecting, typing lines, hanging up; `create_client`,
`parse_input`, `destroy_client` are the handlers of `cli_post_poll`; `act_finish` counts
the callbacks of a device step in. The callbacks of one step all go through it together:
between two of them the code does nothing but call it again.

**Powermand** — the daemon: `Poll` adds what `PollReturns` leaves open, *when* poll
returns (a descriptor that was asked about is ready, or a timer of `tmout` expired), and
`DevPostPoll` feeds the callbacks to the clients. Fairness is stated here. `Device`
states what it assumes of clients (`ClientCommand`: one command at a time
each) and nothing about when poll returns; `Powermand` implements it (`DevicesAsSpecified`).

Abstractions:

* **Time.** The code compares clock readings with fixed lengths. Here a timer is unset,
  running or expired, and expires at any moment after it is started. The number
  that bounds the next poll is the *set* `tmout` of the timers that were
  taken into account; the minimum of their remaining times is what the code keeps. Actions of
  a device share one time-out length, so the one stamped first expires first
  (`StampExpires`). A timer expires while the loop polls or while it is at
  that device: nothing else reads the clock for that device.
* **Steps of the interpreter.** `_process_action` executes a pushed inner block
  without looking at the time-out in between; the model may look. A time-out
  noticed there has the effect of one noticed just before the push, because failing discards the stack.
* **The network moves while the daemon is in poll**, since that is when its moves
  become visible. Writes are complete: `VisitConnected` transmits all that is
  buffered, as `_handle_write` does unless the kernel's buffer is full. A descriptor is
  writable whenever its connection is up.
* **Data.** A transmission is a record (command, client, plugs, kind of reply), an
  answer a line; a device answers each transmission once or never, in order, while
  connected. A regular expression matches one line, or the row of lines, one for each plug, that some scripts read at once. Bytes are the business of `Cbuf` and `Telnet`.
* **Connections.** A connect succeeds at once, later or not; how it does is in `Connection`.
* **Clients.** A line is a device command with its hosts, or one of `other`, `toolong`, `quit`;
  what each is answered is in `Session`. A client connects once; ids are not reused.
* **Configuration.** Every device has a login script (without one `_enqueue_login`
  creates an action with no script; the parser has a `FIXME` at parse_tab.y:459). A login or
  ping script has no `setplugstate`.

### Connections

**Xpoll** — the array `pfd` of `xpoll.c` (built with `poll`): `Zero`, `Ask` (`xpollfd_set`, growing by
`XPOLLFD_ALLOC_CHUNK`), `Call`, `Signal`, `Return`. `Tick` is the clock; a unit of poll is `MSEC` ticks, so that
what rounding does to the rest of a wait that was interrupted is there.

**Connection** — the methods, driven by the loop as `device.c` does: `dev_initial_connect`, one turn per device of `dev_post_poll`, `_reconnect`
with the table `rtab` of back-off times, `_disconnect`. Descriptors are numbers handed out again, lowest first; `opened` is the
kernel's table, with the device each was opened for. An attempt may be up at once, in progress, fail at
once, or find no socket; one that is up, at once or when poll returns, may fail when `SO_ERROR` is read, and leaves its descriptor open. An assertion that
fails (`aborted`) ends the daemon. A coprocess is a child forked and waited for.

**Telnet** — `_telnet_preprocess` and its helpers over a stream cut into reads anywhere, with scripts that take bytes out
of the buffer in between. A device is sent one byte for each role: data, IAC, DO, another verb, options that are granted or
refused.

**Plm** — `plmpower`: its shell, the packet and its echo, the answer of an Insteon device with its time-out, the X10 packets
that are repeated; the modem refuses, passes on what it hears, packets and answers get lost or come late. `doing.timed`
says whether the read in progress has a time-out, which one inside `plm_recv` loses. Messages are whole.

### Containers

Each is modelled with the representation of the code: **Cbuf** with its array, the sentinel cell, the three indices, growth and
wrap-around; **List** with nodes, `next` addresses, the free list and iterators as pairs of a node and an address; **Hash**
with chains and the free list all tables share; **Hostlist** with ranges of numbers behind a prefix, their widths, and the
iterator as index and depth. Each call is an action and leaves in `op`/`res`-like variables what it was called with and
returned. The abstract modules **ByteQueue**, **Cursors**, **Dictionary** and **Names** are written from what the
headers promise of the calls (a capacity shared by unread and replayable bytes; iterators that survive insertion and
removal; and so on) over plain sequences and functions. Memory may run out where the code has a path for it.

**ArgList** extends `Hash`: a command with its actions, which end in any order and outlive their client; the list is freed with the last
reference. `_act_finish` unlinks the command's reference inside the callback of an action that holds its own.

Host names are sequences of symbols; those below `Radix` are digits. `qsort` leaves the order of equals open.

### Configuration, sessions, library and command

**PlugMap** is `pluglist.c`; **Targets** the expansion of aliases and the look-up of hosts; **Config** one action
for each kind of statement that makes something, in any order, and `validate_config` for the checks at the end of the file; then a client's
request is looked up in what came out.

**Session** — one client's lines and the responses to them, with their codes; toggles; telemetry; the daemon that refuses or ends
the session. `to` is the daemon's buffer, `down` the bytes on their way, which the reader takes in any cut.
Devices are left open: an action of a command ends in any order, with any result. A line with a faulty range ends the daemon
(`lsd_fatal_error`), so the library and the command meet that too.

**Library** — `pm_connect` (over the addresses of the server, the greeting, the `exprange` toggle), the calls, `pm_disconnect`,
reads that fail and a connection that ends. **Tool** — `powerman`: options become commands (one with no hosts takes the
remaining arguments), sent one by one until one fails. **Calls** is what the library promises: a call is carried out at most once and
returns what came of it, or an error of its own.

## 3. What the runs check

| Run | Instance | Properties | Distinct states |
|---|---|---|---|
| `device` | 1 device with 3 plugs, the middle one unused, 1 client, in two scenes. `acts`: connects at once, later, or not at all; connections end by hang-up or end of file; commands for one node or both: cycle (with a delay), scripts that ask first (`ifon`), ping. `queries`: status by plug, `foreachplug`, `foreachnode`, and a row of lines for all plugs of which each is read under its literal name; answers on, off, unintelligible, or too late | `TypeOK`, `LoginFirst`, `OnlyLoginBeforeLogin`, `OutputIsHeads`, `NoStaleAnswer`, `ClientsAreTimed`, `StatusIsAnAnswer`, `CallsBackOnce` | 452 000 |
| `daemon` | 2 devices, a coprocess and a network device, in two scenes. `together`: 2 clients that hang up at any time, while actions of both time out. `alone`: 1 client, while the devices connect, fail and are lost | `PendingExact`, `SuccessDelivered` | 1 484 000 |
| `live` | 1 client that types 2 lines, ahead of the answer, and leaves; 1 device with 3 plugs and scripts for one and for all, all ways to connect; `FairSpec` | `PromptMeansIdle`, `PendingExact`, `DevicesAsSpecified`, `Answered` | 181 000 |
| `containers` | one or two buffers of 1 to 2 bytes that grow by 2; a list of 3 nodes with 2 iterators; a table with 3 keys, two of which collide; 2 commands on shared arglists; host lists of 3, or 6 that are sorted, and texts that end the process or are rejected | `Valid`, `ImplementsQueue`; `IteratorsPointIntoList`, `NodesAccounted`, `ImplementsSequence`; `ImplementsDictionary`; `HoldersFindTheirArgs`, `ArgsAreFreed`; `ImplementsNames` | 34 000 |
| `connection` | a network device with 2 addresses beside a coprocess, or a serial line; attempts that fail in every way; two descriptors over several turns of poll; waits of 1 to 4 ticks; 4 bytes of telnet; plmpower with one device of each kind | `HoldsItsDescriptor`, `NothingElseLeaks`, `ChildrenAreReaped`, `TriesAgain`; `AsksForAll`, `WaitsAsLongAsAsked`; `ScriptsSeeTheData`, `OptionsAnsweredOnce`; `CarriedOut`, `PlmEnds` | 491 000 |
| `frontend` | files of up to 6 statements in any order, and requests; 2 library calls; 8 command lines; 2 nodes, an alias, 2 addresses | `NodesOnOnePlug`, `DevicesMatchSpecs`, `RequestsAreExact`; `ImplementsCalls`; `StatusIsTrue`; `ExchangesEnd` | 603 000 |
| `foreach`, `skipped`, `telnet`, `stale`, `iterators`, `hosts` | see *Findings* | violated | |

The daemon:

* **`LoginFirst`**: a login is queued exactly while the device is connected and not
  logged in, and then it is at the head. **`OnlyLoginBeforeLogin`**: until the login is done nothing else was
  or will be sent on this connection.
* **`OutputIsHeads`**: what is in the output buffer was written by the statement the
  head is at. **`NoStaleAnswer`**: all input that could be matched answers the head action;
  whatever failed or was aborted before left nothing. It is a property of scripts that expect every
  answer they ask for, as those of the instances do.
* **`CallsBackOnce`**: outside of a new command, a client's queued actions
  and callbacks balance in every step. **`PendingExact`**: the counter of a
  client's command is the number of its queued actions, over all devices; this is what the assertion
  at client.c:673 rests on.
* **`StatusIsAnAnswer`**: what a query reports of a node was answered by the device, to this command,
  about the plug of that node. **`SuccessDelivered`**: a command answered with success was
  transmitted for every plug of every node it names.
* **`ClientsAreTimed`**: while an action of a client is queued, poll is bounded by the time-out of the action at the head. It says nothing of
  a login with no client's action behind it, nor of the back-off, where the code has gaps (section 5).
* **`PromptMeansIdle`**: no prompt while a command is in progress. **`DevicesAsSpecified`**: `Powermand` implements `Device`.
* **`Answered`**: if connections are not dropped for ever, every command is answered
  or its client leaves.

Connections:

* **`HoldsItsDescriptor`**: a number that was closed and handed out again is never taken for a device's own.
  **`NothingElseLeaks`**: every open descriptor is held, but for those that a network device leaves behind when it moves on to the
  next address after `SO_ERROR` (`leaked`, see below: that leak itself is modelled and exempted). **`ChildrenAreReaped`**.
* **`TriesAgain`**: the back-off delays an attempt and never prevents it.
* **`AsksForAll`**: each descriptor is polled once, for all that was asked in this turn, whatever the array holds from the turns before.
  **`WaitsAsLongAsAsked`**: signals do not lengthen a wait, and shorten it by less than a unit - but for one that is interrupted when nothing is left of it (section 5).
* **`ScriptsSeeTheData`**, **`OptionsAnsweredOnce`**: the meaning of a stream does not depend on how it is cut
  into reads - except in the cases of the finding `telnet`, which `mixed` describes.
* **`CarriedOut`**: what plmpower reports done was done, until an answer has come after its time-out. **`PlmEnds`**: every command ends, but
  for one that lost its time-out.

Containers: **`ImplementsQueue`**, **`ImplementsSequence`**, **`ImplementsDictionary`**, **`ImplementsNames`** are refinements: every call changes the
abstract value and returns what the header promises. `Cursors` has one exception, `ForgetsReturned`, that is on in
`containers` and off in `iterators`; `containers` pushes no host whose number in brackets makes a name too large (`LargeTexts`), which is what `hosts` pushes.
A text with a range that is bad ends the process, as `lsd_fatal_error` does in this build (`exits`). **`Valid`** is the predicate that `cbuf.c` asserts in a debugging build (`cbuf_is_valid`),
**`IteratorsPointIntoList`** that no iterator holds a freed node, **`NodesAccounted`** that none is lost or both in the list and free, and that what is appended comes to its end,
**`HoldersFindTheirArgs`** and **`ArgsAreFreed`** that an arglist lives exactly as long as somebody holds it.

Configuration, library, command:

* **`NodesOnOnePlug`**: in a file that is accepted a node has one plug, of the device and the name its line gives.
  **`DevicesMatchSpecs`**: nothing of one specification gets into another. **`RequestsAreExact`**: a request stands for its hosts and those of
  its aliases, as often as they are named, and is granted if and only if all are nodes.
* **`ImplementsCalls`**: a call returns what the server made of that call, until a read has failed.
  **`StatusIsTrue`**: exit status 0 means that every command was carried out; the code of a failure, that the commands up to that one were
  and none after it. **`ExchangesEnd`**: every call returns; every run of the command ends, or waits at the end of
  the connection for a prompt.

Each property of a passing run has a mutant in `PROJECT.json`: a plausible bug in a
mapped definition (buffers not flushed on disconnect, callbacks only for the head, `i_rep` not moved when the buffer grows, an iterator
not told of a removal, the descriptor not closed, the prompt taken for part of the response ...) that the run detects. The mutated forms stand
before the definitions they replace.

**Bounds.** `MaxActs` limits the queue a ping is added to (2 in `device`); `MaxLines` the lines a client types. Two plugs tell a command
for all from one for some; the scripts have each kind of statement, in the
combinations used in `etc/`. Nothing bounds the number of reconnections, time-outs and commands in the `MCDevice` runs.
A buffer of one byte that may double meets every position of the indices, growth with wrapped data and overflow; three nodes are one between
two others, two iterators one that removes under another; two digits in base 2 have a leading zero, a carry and a change of width. Four bytes of
telnet hold a whole negotiation and one more byte. The models that count (time, retries, statements, calls, typed commands, losses) have a constant `Max...` with
its meaning at its declaration. Symmetry is used in `daemon` only, which checks invariants only; the two
clients are interchangeable in every definition, and in `alone` the one that stays may be either. The scenes of `daemon` divide what together is out of reach: `together` has the
interleavings of clients, whose actions do not see each other but in the queues, on connections that stay and of which one does not answer in time; `alone` has the failures of devices, which hang-ups of the client would only leave unanswered. `containers` has a `VIEW` that leaves out the record of the last call: no call reads it.

**Deadlock** is checked in the `MCDevice`, `MCContainers` and `MCConnection` runs (plmpower at rest may stutter). It is not in
`MCPowermand`, where a daemon whose clients have all said what they had to say waits in poll for ever, nor in `MCFrontend`, where programs end.

**Fairness.** `live`: the daemon's thread runs (weak fairness of `Daemon`; poll is only
enabled when the system call would return), and a running timer expires (strong
fairness, as timers advance only in the phases in which they are read). Nothing is
assumed of users, network or devices, which may stay silent. The premise of
`Answered` is needed: time stamps of preempted actions are only read when they are at the head
again, so a connection that drops in every login postpones the answer for ever.
`connection`: the clock goes on, and plmpower's process, the modem, and the devices behind it go on (weak fairness), while losses, late answers and refusals are finite in
number: with endless losses plmpower rightly asks for ever. That the loop turns is a premise of `TriesAgain`. `frontend`: the
daemon handles what it was sent, every action ends (which `Answered` shows of the daemon) and the program reads while it waits; nothing is assumed of a daemon that
exits, which may happen at any moment.

## 4. What is proved

By TLAPS, for every value of the constants that satisfies the assumptions of the modules: any number of devices, plugs,
clients, descriptors and retries, any scripts and any file. `BlockAssumption` says that no block is empty and that statements are as the parser
makes them, `DeviceAssumption` that every device has a login script and every script is a block.

### The device engine

* **`TypeCorrect`** (`DeviceProofs`): `Spec => []TypeOK`. Inductive as it stands. Its weight is in the
  interpreter: a stack is never empty and never past the end of a block (`NextStmtType`, `RewindType`), and
  the plug an action is created for exists (`NthPlugType`: ranks in a finite
  set of numbers are distinct, so by counting each is taken; `NthPlugOf` is the converse, no plug is left out).
* **`LoginComesFirst`** (`LoginFirst`). Not inductive alone: `dev_initial_connect` queues a login without
  looking at the queue, which is right only because no device it has yet to visit is
  connected (the code asserts it, line 1373). The inductive invariant is `TypeOK /\ LoginFirst /\ NotYet`.
  The proof shows, for each operation on a queue, where the login is afterwards (`LoginAt...`), then that each
  action touches one device (`OneDevice`).
* **`OutputIsOfHead`** (`OutputIsHeads`, in `WireProofs`), with `OutputIsSent`: output is kept for connected devices only, and was written by the
  send the head is still at, for the plugs it is still for. **`LoginIsSentAlone`** (`OnlyLoginBeforeLogin`) adds
  `HeardIsLogin`, that the device has *heard* nothing else; it uses `LoginFirst` for what the head is.
* **`AnswersAreFresh`** (`NoStaleAnswer`) is about the whole exchange. Its invariant `AllInStep` says that device and head action are
  in one of four stages, and in one only: nothing is under way (`Quiet`), something waits to be sent (`Writes`), the device has it and has not answered (`Asks`), or
  the answer is here and the head's expect has not read it (`Reads`). Whatever ends or rewinds the head also ends the connection, which makes everything quiet (`FailStage`, `ReconnectedQuiet`).
  The hypothesis `AnswersAwaited` is about scripts: each send is one transmission and the
  next statement expects its answer. The blocks of the scene `acts` of `device` satisfy it; without it an answer nobody expected really does stay in the buffer.
  It leaves out `foreachplug` around a send, where the finding `foreach` shows what goes wrong.
* **`StatusIsAnswered`** (`StatusIsAnAnswer`) adds the hypothesis `SetAfterExpect`: a `setplugstate` follows the expect whose match it
  reads, and names no plug literally (a row of lines, of which several `setplugstate` read one line each, is checked by the scene `queries` only). Its invariant adds `AllMatch` (the match a `setplugstate` reads is the answer to its own action) and `QueuesInOrder`: only the head of a queue
  has begun, and a stack runs from the top down to the block of its script. All of them were checked by TLC on such blocks first.
* **`EachCallsBackOnce`** (the action property `CallsBackOnce`): for each operation on a queue, the actions of a client
  that go are as many as its callbacks (lemmas about counting in a sequence). It rests on **`LoginsStayOwn`**: the actions without a client, for which nobody is
  called back, are the logins and pings.
* **`PollsAreTimed`** (`ClientsAreTimed`): inductive with `PassOK`, which says at each point of a turn of the loop which devices have been served,
  so have their stamp in `tmout` if a client's action is left.

### The daemon

* **`CommandsWaitForTheirActions`** (`PendingExact`) with the invariant `DaemonOK`: types, `LoginsAreOwn`, and `Counted`,
  that the counter of a command equals the sum over devices of its queued actions, and that none is queued for a client without a command. The
  callbacks of a step are counted in client by client, and that these are as many as the actions that go is what `EachCallsBackOnce` rests on.
  `ClientCommand` is shown to queue what `parse_command` counts.
* **`PromptsMeanIdle`** (`PromptMeansIdle`), from the same invariant.
* **`DaemonServesDevices`** (`DevicesAsSpecified`): the refinement `PSpec => Spec`. Initial states are the same, and each step is one of the devices or leaves them
  alone; that a client has nothing queued when it gives a new command, which `Device` assumes of its clients, is `Counted`. So all the theorems about `Spec` above hold in the daemon.
* **`SuccessIsDelivered`** (`SuccessDelivered`) runs through all of it: what a user is told against what the devices were sent. A
  command is answered with success when its last action calls back without an error, so each action must have sent what it is for before it ends, and no plug may be
  without an action. In the engine, `HeadsHaveSent` says that an action past the answer to its first send has transmitted to all its plugs (the answer, by
  `AllInStep`, is one to that send), and `ServeStep` that in any step a plug an action is for still has an action, was transmitted to, or the client is told of a failure: reconnections and
  logins rewind actions and keep their plugs, a time-out fails all of the queue. In the daemon `AllServed` says it of a command: while it has not failed, each of its
  plugs has been sent to or has an action queued; `PendingExact` (nothing queued when it ends) does the rest. Three hypotheses, which the instance `daemon` satisfies:
  `AnswersAwaited`; `FirstIsSend`, a script for plugs begins with its send; and `NoneSkipped`, a device that implements a command has a script for any of its plugs.
  The findings `foreach` and `skipped` are what happens without the first two and without the third. `SentOK`, `AllServed` and `ServeStep` were checked by TLC on small instances first.
* **`ClientsTyped`**.

### Connections, plmpower, configuration

* **`DescriptorsAreOwn`** (`HoldsItsDescriptor`), **`OnlyAttemptsLeak`** (`NothingElseLeaks`), **`CoprocessesAreReaped`** (`ChildrenAreReaped`), in `ConnectionProofs`. The methods are
  operators on one record of all that they change, so the invariant `Sound` is a predicate of that record and there is one lemma for each
  method. Its heart is that an open number belongs to one holder: numbers that were closed may be handed out again, but a stale one is held only by a device that is not connected.
  **`OnlyTcpFails`**: with pipe and serial devices only, that does not happen, and the assertions of the finding `stale` do not fail.
* **`TurnsAskForAll`** (`AsksForAll`), with `Entered`: the part of the array that is in use has each descriptor once and with all that was asked.
  **`WaitsAreExact`** (the action property `WaitsAsLongAsAsked`), with `WaitOK`, which relates the time that has passed, the rest that was computed after a signal and the ticks
  lost in rounding.
* **`DataIsSeen`** (`ScriptsSeeTheData`) and **`OptionsAreAnswered`** (`OptionsAnsweredOnce`), for `TelnetSpec`. The reference is the meaning of the whole stream, a role for
  each byte that follows from the role of the byte before. The invariant relates the state of the machine to the role of the last byte that was read, and what is in
  the buffer and has been taken out to the bytes whose role is data; it holds until a command is cut while data waits (`mixed`). The lemmas `RolesMore`, `DataMore` and `AsksMore` say that a byte more
  does not change the roles of those before.
* **`DoneIsCarriedOut`** (`CarriedOut`, in `PlmProofs`): the invariant is `OneAtATime`, which relates what plmpower waits for to what is on its way from the modem and to the
  states of the devices. It holds until an answer has come after its time-out, as the property says.
* **`NodesAreOnOnePlug`** (`NodesOnOnePlug`, in `FrontendProofs`), for every file. The invariant has a part `Placed` that relates the plugs to the lines that were accepted. `pluglist_map`
  is applied to the nodes of a line by a fold, of which `Puts`, `Places`, `PairsOf` and `News` say what one turn changes.
* **`DevicesAreAsSpecified`** (`DevicesMatchSpecs`), for every file: the specification that is being read has what the statements since its begin say, those that were read have what their
  own say, and a device what its specification has. That the fields are cleared between two specifications is what makes the first part inductive.
* **`RequestsAreGrantedExactly`** (`RequestsAreExact`), for every file and request. The walk over the aliases is a recursive function of its number of turns; at each turn what is left, with what the
  aliases that remain stand for and what has been collected, counts every host as often as the request means it (`Covers`), and either no alias is left or the list is shorter by one for each turn
  (`Expanded`), so in the end there is none. `SumsUp` is about the fold by which the property counts.
* **`StatusTellsTheTruth`** (`StatusIsTrue`), for `ToolSpec`: any command line, any answers, a daemon that may end at any moment. The inductive invariant `ToolInv` has one part for each place where the
  command can be (`Greeted`, `AtNext`, `Requested`, `Working`, `Answered`, `Leaving` ...). Each says what can be on its way in the two buffers and how many commands have been answered: what `Sent` counts differs
  from what was served by the one command that is under way, and a response is talk, a code that ends it and the prompt, of which any beginning may be left when the daemon has ended
  (`Responds`). So the command cannot take a prompt for that of another command, or the talk of one for the end of another. TLC checked `ToolInv` on the scene
  `tool` of `frontend` first.

* **`CallsAreKept`** (`ImplementsCalls`): the refinement `LibrarySpec => Promise!Spec`, for any nodes, aliases, bounds, cuts of the stream and ends of the daemon, and the calls there are
  (`LibraryAssumption`: the list of the nodes, or a command on one node). The inductive invariant `LibraryInv` says that as long as no read has failed (`CallInv`) the program is in one of eight places: it has not connected,
  is greeted, asks for single lines (`exprange`), has no call, or has one of which the line is on its way (`Made`), the actions are under way (`Underway`), the daemon has ended before
  it was answered (`Broken`) or the answer has been served (`Told`). In each, `Flow` (what was read, is on its way and waits in the daemon) is nothing, errors of
  actions that have no prompt behind them, or the beginning of one whole response and its prompt (`Brings`). So a call never ends before its own response does and nothing of it is left for the next. `ReturnsValue` says that what the
  library makes of such a response is what came of the call (`Answer`): the code that ends it (`RetcodeIs`), the state that is shown of the node, the nodes in their order (`NodesAreFound`). Once a read has failed the abstract specification
  promises nothing, which is the finding about interrupted reads below.

### Containers

* **`BuffersAreValid`** (`Valid`, in `ContainerProofs`): the invariant is `AllSound`. It says what `cbuf_is_valid` says without arithmetic modulo the size: `i_rep`, `i_out` and `i_in` follow
  each other around the circle and `used` counts from the second to the third (`InOrder`). Three lemmas about numbers say that this stays so
  when the buffer grows, takes bytes in and gives bytes up (`OrderGrows`, `OrderTakesIn`, `OrderMoves`), one that `%` is a subtraction for a number that goes around at most once. No
  call gives up more than is there, because a scan for lines sees no more bytes than there are (`ScanBounds`, about a fold).
* **`IteratorsStayInList`** and **`NodesStayAccounted`** (`IteratorsPointIntoList`, `NodesAccounted`), for any set of nodes and any items. The invariant `WellFormed` says that there is
  a sequence of nodes, each once, that the pointers link in its order (`IsList`): the free list has all the others, and each iterator has passed some of the nodes and is to return the next,
  or the one after if it has just returned that one (`Walks`). The property alone is not inductive: it does not say that the nodes are distinct, so it
  does not tell where an iterator is after a removal. `PutWalks` and `CutWalks` say what `list_node_create` and `list_node_destroy` do to one iterator;
  `DeleteAllList` and `FindList` are about the calls that take several steps, as functions that stay in a set at each step (`Recurs`).
  It rests on the nodes being finitely many.
* **`HashesAreDictionaries`** (`ImplementsDictionary`): the refinement `HashSpec => Mapping!Spec`, for any keys, hash function and sizes. The dictionary a table stands for is what
  `hash_find` returns for each key. The invariant `TableIs` says that a node is in the chain its key belongs to, that each key has one node (`OneEach`) and that the count is the number of keys.
  Without it the refinement is false: a second node of a key would appear when the first is removed. `InsertTable` and `DeleteTable` say what the two calls that change a table make of
  the dictionary, `HashStep` that each call maps to the same call of `Dictionary` with the same result.
* **`HoldersFindArgs`** (`HoldersFindTheirArgs`) and **`ArgsAreAllFreed`** (`ArgsAreFreed`), for any clients, hosts and hash function. Neither is inductive: `ArgInv` adds
  that the count of a list is the number of the commands and actions that hold it (`Counted`), that a command waits for as many actions as call back to it and they
  have its list (`Held`), and that the `Arg`s on the heap are divided among the tables and those that were lost (`Divided`).
  `InsertFinds` and `InsertsAll` say what a hash table finds after one insertion, and after all of `arglist_create`; `UnlinkCounts` is
  about giving back references, which `UserLeavesKeeps` and `ActionEndsKeeps` use.

**Folds.** The library's induction theorems take an operator and cannot be used. `FoldLemmas` states
induction over the steps of a fold in first order: the sequence of its values exists, and a set of numbers that has 0 and with each number the next one has
all. That is enough for invariants of folds over clients, plugs and items; it is not for what a recursive function
computes.

**What the proofs changed in the models.** Cases that overlapped, where TLA+ leaves open which is taken, were made disjoint in
`pluglist_map` (`PlugMap`), `step` and `meaning` (`Telnet`) and `Walk` (`Names`); `MaxRetries`, `Node` and `Users` got their assumptions; the
lists of `ArgList` became a function whose domain is what is allocated, so that a record of a freed list has no fields.
`SelectSeq` and `SetToSortSeq` are recursive operators of which the prover knows nothing: where a property depends on what is selected (the data of a stream, the hosts that are no nodes, the
lines that were served, the nodes that stay in a chain, the nodes in a response) the selection is `elements_at` of `Selection`. The body of the walk of `conf_exp_aliases` has a name, `remove_alias`. `ConfigAssumption` says that a `plug name` list is not empty, as the grammar
says, and that hosts have names; `ToolAssumption` that options are those of the command, `LibraryAssumption` that calls are those of the library. The lines of a response became
the set of their places in what was read, of which the library takes the first that has a code: the sequence of them was built only to be searched.

### What stays with TLC

* Liveness (`Answered`, `TriesAgain`, `PlmEnds`, `ExchangesEnd`) and what depends on ENABLED: out of the prover's reach.
* `ImplementsNames` depends on what recursive operators compute.
* The refinements of the other containers (`ByteQueue` by `Cbuf`, `Cursors` by `List`) have not been proved.

## 5. Findings

Each is a run in which TLC finds the statement of the code's own comment or assertion violated.

* **`foreach`** — `_rewind_action` keeps the plug iterator and the processing flag of the
  outer block. A command preempted inside `foreachplug` skips a plug and
  is answered with success. etc/baytech-rpc3-nc.dev:36-37 works around it.
* **`skipped`** — a device with only an `_all` script passes `dev_check_actions`, but is skipped
  unless the command names all of its plugs; the command is answered with success if another device did its part.
* **`telnet`** — `_telnet_preprocess` runs over the whole input buffer with each read but keeps its state from the
  read before: when a command is cut in two while data waits in the buffer, a data byte is taken for the rest of the
  command; an escaped IAC that waits is taken for a command the second time.
* **`stale`** — an attempt that fails at once leaves the number of its closed socket in `dev->fd`; when no address is left, the assertions
  of the next turn stop the daemon.
* **`iterators`** — an iterator that has returned an item stands before the next one. If that next item is removed by another call,
  `list_node_destroy` (list.c:709) moves the iterator in a way that forgets which item it returned: `list_remove` then returns NULL and removes nothing, `list_insert` inserts behind the item instead of before it. list.h:247-248
  and 264 say that both act on the item returned last. powermand removes through the iterator it walks with and does not meet it.
* **`hosts`** — a name is searched by its trailing digits as a number, unless they are larger than `MAX_HOST_SUFFIX`; a host pushed with a number in brackets has its digits divided
  between the prefix and the number. If all of them together are too large (`n9999999[10-12]`) `hostlist_find` does not find it and `hostlist_delete_host` does not delete it, though it is in the list (hostlist.h:202-210, 221-227). A client that
  names it in brackets is granted the request, and `_enqueue_targetted_actions` (device.c:680) finds the node in no plug.

The scripts of the other runs do not meet the first two: their `foreach` is in a
query, or their devices have a script for a single plug.

Met while modelling, in the models as the code has them, without a run of their own:

* a login queued by a connect that succeeds at once, at the start (powermand.c:204) or after a failed action (device.c:914-917), waits
  in a poll that nothing bounds; `ClientsAreTimed` shows that a client's action is not affected. Likewise poll is not told of the back-off when an attempt fails at once
  (device.c:430). No property covers either: it would not hold;
* `tcp_finish_connect` opens a socket for the next address without closing the one that failed, and the list of addresses is never rewound, so a device that has
  run out of addresses is not tried again (device_tcp.c:200-203 says otherwise); built with `poll`, a refused connection is reported as
  an error or hang-up, so the next address is not tried at all;
* a wait that a signal interrupts when nothing is left of it becomes a wait without end (xpoll.c:146);
* `cli_pre_poll` misses braces (client.c:1042), which is harmless as long as a client has a descriptor; a client that half-closes its connection loses its replies;
* plmpower: `plm_recv` drops a message of another kind and waits for the next without a time-out, so a command whose answer was lost never ends (`Untimed`);
  an answer that comes after its time-out is taken for that of the next command;
* library: a command longer than its buffer is cut together with its line end, so the call hangs and `PM_ETOOLONG` is never returned; after an interrupted read the next call
  takes the response of the one before;
* command: `_expect` reads for ever at the end of the connection (`Waiting`); `powerman -Q ""` queries all nodes;
* an argument list that names a host twice loses an `Arg` (`lost`);
* the exceptions of host lists and lists that nothing in the daemon meets, because nothing calls them: `list_sort` leaves the iterators of a list of at most one item
  (list.c:407; list.h:169 says they are reset), and `hostlist_uniq` keeps duplicates of different widths (hostlist.h:260-265). Neither is modelled;
* host lists: a range that is bad or larger than `MAX_RANGE` is handed to `lsd_fatal_error` (hostlist.c:1421, 1431), which in this build (configure.ac:82, src/libcommon/error.c:113-116) ends the process,
  so a client's line with such a range ends the daemon, and the error path that answers it (client.c:208-214, "report detailed error since 'str' comes from the user") is never taken; a line cannot hold more ranges than there is
  room for. Hosts of one prefix are sorted by width first if some of them have zeros in front. Deletions do not move the depth of iterators;
* connections: a connection that `connect` reports up and `SO_ERROR` broken is left open (device_tcp.c:191-192), as `tcp_finish_connect` does above;
* configuration: two devices, or two hardwired plugs, of one name are not refused.

## 6. Not modelled

* Of the daemon: partial writes to a full kernel buffer at the level of `Device` (the buffers themselves are `Cbuf`), clocks set back, client ids that wrap,
  a client on standard input, names (`getnameinfo`), signals, daemonisation, option parsing.
* Of connections: name resolution (its result is `NumAddrs`), serial settings (one step that may fail), the `select` variant of xpoll, a coprocess
  that does not end when told to (the daemon would wait in `waitpid`).
* Of the configuration: lexer and grammar, numbers, regular expressions, tcpwrappers, copying of a script's statements into an action's, choice of a
  device's method. One device per name is assumed.
* Of containers: magic cookies, locks, host sets, `list_sort`, `hostlist_uniq` and the other calls of hostlist.h that nothing uses.
* Of the command: a partial write of a line (src/liblsd/hprintf.c:85 would begin it again). Its socket blocks and it installs no signal handler, so a write is whole or fails.
* Of the library: a prompt cut in two by a read that fails, and what a call returns after one. Of the command: what it makes of a daemon that ends between a response and its prompt is that it reads for ever
  (src/powerman/powerman.c:611-633), which `ExchangesEnd` exempts (`Waiting`).
* httppower and snmppower, which ask a server for each line they read and keep nothing; plmpower's test mode; utilities of libcommon; start-up scripts and the heartbeat agent;
  all texts.

Hazards without a property, with the reason in `PROJECT.json`: client.c:569, device.c:809, device.c:354, device_pipe.c:144, and those that the code does not master and a property can only exempt: device.c:914, device.c:430, xpoll.c:146,
device_tcp.c:214, libpowerman.c:307.

## 7. What is next

* The refinement of `ByteQueue` by `Cbuf`, call by call.
* The refinement of `Cursors` by `List`, call by call.
