# A TLA+ model of shadowsocks-bootstrap

`ss-bootstrap-local` and `ss-bootstrap-server` let a shadowsocks program without
plugin support use a SIP003 plugin.  They read options and a JSON file, pick a
port for the plugin, start shadowsocks and the plugin as children, relay the UDP
traffic that plugins do not carry, and end when a child ends or a signal asks
for it.  This directory models that program, checks the models with TLC, and
proves with TLAPS what the supervisor, the UDP proxy, the port picker, the
configuration and the launch promise, that the parser stays in its buffer and
leaves nothing behind, and that it reads and prints strings as they are meant.

All line numbers are those of the source tree; `PROJECT.json` names the lines of
every definition.

## 1. The system

| Part | Source | State | Operations |
|---|---|---|---|
| supervisor | `utils/process.c` | `ss_pid`, `plugin_pid`, `plugin`, `exiting`, `exited`, the children, pending signals | `process_exec`, `start_bootstrap`; the handlers `normal_exit` (INT, TERM) and `get_sub_exit` (CHLD); `kill_sub_process`, `error_exit` |
| UDP proxy | `utils/network.c` 180-355 | the listening socket, one receive buffer and client address, per request a thread, three heap blocks and a socket; `PROXY_EXIT` | `proxy`, `ipv4_proxy`/`ipv6_proxy`, `*_send_and_receive`, `*_receive` |
| port picker | `utils/network.c` 48-120 | the port under test, sockets | `get_random_num`, `check_port_available`, `get_available_port` |
| address helpers | `utils/network.c` 122-178 | none | `is_ip_addr`, `create_*_udp_sock` |
| configuration | `load.c`, `common.c` | the struct `bootstrap`, its heap strings, `shadowsocks_opts` | `init`, `load_info`, `add_field`, `json_decode`, `add_extra_opts` |
| launch | `sip003.c`, `process.c` 123-146 and 188-212 | the struct `sip003` | `load_sip003`, `add_sip003_arg`, `load_plugin_env` |
| DNS | `utils/dns.c` | lists inside one call | `dns_resolve` |
| JSON parser | `utils/cJSON.c` (vendored) | the parse buffer, the items | `cJSON_Parse`, `cJSON_Delete` and what they call |
| JSON editor and printer | `utils/cJSON.c` (vendored, not called) | doubly linked lists of items, the print buffer | `cJSON_Create*`, `Add*`, `Insert*`, `Detach*`, `Replace*`, `Delete*`, `cJSON_Duplicate`, `cJSON_Compare`, `cJSON_Print*` |
| logger | `utils/logger.c` | `LOG_LEVEL` | `log_printf`, `log_perror` |
| entry points | `local.c`, `server.c` | none | `main` |

`main` runs them in order: `init`, `load_info` (which calls the JSON parser),
`load_sip003` (which calls the port picker), `start_bootstrap`.  Up to there the
program is sequential.  `start_bootstrap` installs the handlers, forks, and may
turn the main thread into the UDP proxy, whose workers are threads.  From then
on everything that ends the program runs inside signal handlers, on whichever
thread the kernel picks, and the parts share `exiting`, `exited`, `PROXY_EXIT`
and the pids without locks.

What is hard, and so what the properties are for:

* **Handlers over handlers.** A teardown never returns to the code it
  interrupted; another signal can start a frame on top of it.  Nested frames,
  threads, a fork whose pid is not stored yet, and SIGCHLDs that merge make up
  most of the list of hazards.
* **The program's own kills look like deaths.**  They must not turn a stop into
  an error, and a real death must not be lost among them.
* **One socket per request.**  Answers may be late, lost or duplicated, and
  ephemeral ports and descriptor numbers are used again.
* **A port that was free.**  It is checked and closed again, and bound by others
  later.
* **Settings from two sources** that free one another, and whose order matters.
* **A parser over a terminated buffer** that must not read beyond it, nor leak
  when it gives up at any depth.
* **Lists whose first item knows the last.**  Every call that changes a list must
  keep that up, or a later one loses an item; and a call that allocates twice
  must undo the first when the second fails.

## 2. Modules

| Module | Models | Extends / uses |
|---|---|---|
| `Supervisor` | `process.c` | |
| `Lifecycle` | what the supervisor promises | |
| `SupervisorProperties` | its properties, the refinement of `Lifecycle` | `Supervisor` |
| `SupervisorProofs` | the proofs | `SupervisorProperties`, `TLAPS` |
| `UdpProxy` | the UDP proxy | |
| `UdpRelay` | what the proxy promises | |
| `UdpProxyProperties` | properties, the refinement of `UdpRelay` | `UdpProxy` |
| `UdpProxyProofs` | the proofs | `UdpProxyProperties`, `TLAPS` |
| `PortPicker`, `PortPickerProperties` | the port picker | |
| `PortPickerProofs` | the proofs | `PortPickerProperties`, `TLAPS` |
| `Config` | `init` and `load_info` | |
| `Sip003` | configuration composed with the launch | `Config` |
| `Sip003Properties`, `MCSip003` | properties, instance | `Sip003` |
| `Numbers` | induction over numbers, as facts about sets of numbers and functions on them | `TLAPS` |
| `SettingsProofs` | proofs about the memory and the settings | `Sip003Properties`, `Numbers`, `TLAPS` |
| `LaunchProofs` | proofs about what is refused and what the children are told | `SettingsProofs` |
| `Json`, `JsonBounds`, `JsonProperties` | the parser's recursion, items and links; its bounds; its grammar and trees | |
| `JsonParserProofs` | proofs of the bounds, of what is freed, of which texts are accepted and of the tree | `JsonProperties`, `Numbers`, `TLAPS` |
| `JsonEdit`, `JsonEditProperties` | the functions that edit a parsed tree | `Json` |
| `JsonTree` | what they promise: trees without pointers or memory | |
| `JsonPrint`, `JsonPrintProperties`, `MCJson` | printing, properties, instance of all of these | `JsonEdit` |
| `JsonString` | `parse_string` byte by byte | |
| `JsonScalar`, `JsonScalarProperties`, `MCJsonScalar` | `parse_value` of strings, numbers and words, `print_string_ptr`, `int_to_string` | `JsonString` |
| `JsonScalarProofs` | proofs about strings: their blocks, their meaning, their printing | `JsonScalarProperties`, `Numbers`, `TLAPS` |

### Supervisor

A thread is its normal code, the frame `"body"`, and a stack of handler frames,
of which only the top one runs.  `signal()` of glibc and musl masks a signal in
its own handler and restarts blocking calls, so a signal occurs at most once in
a stack.  `Deliver(t, s)` puts a frame on top of any thread that does not have
that frame already, between any two steps.  Every statement that reads or writes
shared state is a step of its own: fork and the store of the pid
(`Fork`/`StorePid`, lines 149 and 167), the test and the set of `exiting`
(`KillWait`, `KillSet`), each `kill`, each `waitpid`, the test of `exited` and
`pause()` (`LoopTest`, `Pause`).  `pid` is `"zero"`, `"real"` or `"minus_one"`,
the value fork returned being stored even when it is -1.  `child` is the
kernel's view: `forked`, `guarded` (after `prctl`), `running`, `zombie`,
`reaped`.  `doomed` are the children a SIGKILL is on its way to.  The environment
makes forks and execs fail, ends children, stops and continues them (SIGCHLD
without a death), signals a child before its exec (it still has the parent's
handlers), sends INT and TERM, and kills the bootstrap.  `crashed` and `struck`
are history variables.

`Lifecycle` says the same without threads, signals or pids: children start in
order and only while the service is up, a teardown is final, a child is killed
only in a teardown or after the other has failed, an error is reported only
after a failure.

### UdpProxy

A request is the number of its datagram.  The main thread overwrites `addr` and
`recv_buffer` with each datagram, copies both (`Copy`), and creates a thread
(`Create`), which may not be possible.  A worker allocates, sends from a fresh
ephemeral port, waits with a timeout, closes its socket, answers and frees.
`Interrupted` is the `select` that a handler cut short: the set is left as it
was, and `recvfrom` blocks without a timeout.  The network loses, delays and
duplicates answers and delivers them to whoever has the port now, and a stranger's
datagram may come instead, since `recvfrom` does not look at the sender
(`StrangerAnswers`).  A `bind` that fails leaves its socket open (`BindError`): the
helper returns -1, and nobody knows the number any more.  Descriptors are numbers, and `socket` and `bind` give the lowest free one (`NewFd`), so a
worker that is late may get the number of the closed listening socket, and an
answer goes through whatever `client_fd` stands for by then.  `UdpRelay` promises
that a client is sent at most one datagram for each of its own, at its own
address, and only the answer to something that was forwarded or what a stranger sent.
The IPv4 and the IPv6 functions are the same text twice; the model stands for
either.

### PortPicker

`Draw` is `get_random_num` and the conversion to `unsigned short`, `Probe`,
`Reject` and `Pass` the four checks, which close their sockets when they pass
and leave them open when they do not.  `Use` is the bind of the programs that
get the port.  Other processes take and release slots at any time.  `families`
is what the kernel supports: where IPv6 is missing its two checks fail on every
port.

### Config and Sip003

One action for each kind of argument and of JSON member.  A pointer is its text
and the heap block it points to, 0 for NULL and literals; `Set` frees the old
block.  The text of NULL is `NoText`, which is no string.  A member of the file
has a key and a value of the type `Values` names, text being a string that is
compared and never taken apart; `extra_opts` is a sequence of characters, which
`Split` cuts at the blanks that no backslash hides, one `Scan` for each character.  The file may be missing, a directory, a pipe (which
`ftell` cannot measure), no JSON, an array of at least one element, or an object (an empty array and a scalar, whose items have no children, behave like
`{}`).  `LoadPlugin`, `Command` and `Udp` are `load_sip003` and the end of
`start_bootstrap`: the plugin takes the server's place, the settings come behind
the options that are passed on, the proxy gets its two ends.  Crashes the code
really has (an array, a dangling backslash, no server port) are the outcome
`crashed`, not excluded.

### Json, JsonString and JsonScalar

`Json` has one cell per token and keeps the calls of `parse_array` and
`parse_object` as a stack of frames; the items, their links, the blocks and the
position are those of the code.  The terminator is read as a blank, as the code
does.  `JsonString` is a token that is more than a cell: two passes over bytes,
the escapes, and UTF-16 to UTF-8.  `JsonScalar` adds the other tokens: what
`parse_number` hands to `strtod`, the saturated `valueint`, the port that the
program makes of it and its text; and it prints the string that was read.
`strtod` is external and is described by what it accepts.

### JsonEdit, JsonTree and JsonPrint

`JsonEdit` goes on where `Json` has parsed a text: each public function is an
action, applied to any item the caller may name, with any number of its
allocations succeeding (`left`).  `Added`, `Inserted`, `Detached` and `Replaced`
are the pointer assignments in the order of the code; `Created`, `CreatedArray`,
`Duplicated` and `Named` say which blocks are allocated and freed on every path.
A caller keeps what the functions cannot check: what it adds is a root it owns,
and what it detaches or replaces is a child of the parent it names.  A reference
to an item shares its children; the model adds, detaches and deletes references
but does not read through them, since the caller may have deleted what they
refer to.  `held` are the roots the caller owns, `lost` what no one does.

`JsonTree` says the same without pointers: an item is a root or in one sequence of
children, and a call puts one in, takes one out or exchanges one.
`ImplementsTree` is the refinement, with the lists read along `next` as the
sequences.

`JsonPrint` is a last call on an edited tree.  A print buffer is its cells, its
length and offset; `Ensured` is `ensure` with `INT_MAX` a small constant, and
`Written` records a write beyond the length that `ensure` granted.

## 3. Runs

| Run | Instance | Shows |
|---|---|---|
| `SupOneThread` | one thread, TERM; forks and execs fail, children exit, stop and continue, and are signalled before their exec | a child that survives `exit()` is one whose pid was not stored (`OrphanHasNoStoredPid`); a reaped child is never forgotten (`NobodyReapedQuietly`); no fork during a teardown (`NoForkDuringTeardown`); the model implements `Lifecycle`; a teardown that knows every living child ends the program, and so does a handler that sees a death, unless a handler sits on top of the teardown it waits for (`RecordedTeardownExits`, `SeenDeathExits`); *any* death does but in three situations (`DeathExits`, below) |
| `SupThreads` | main thread and a worker, TERM; failed forks and execs, job control, the bootstrap killed | status 1 has a cause (`ErrorExitHasCause`) although handlers run on both threads (a death after exec adds no cause of another kind, and the theorem has them all) |
| `SupKillTarget` | a fork may fail | **violated**: `kill(-1, SIGKILL)` |
| `SupExited` | a child is stopped or continued | **violated**: `exited` is set while the children run, and the service ends with status 0 |
| `SupSelfDeadlock` | TERM and a death | **violated**: a handler on top of a teardown waits for it for ever |
| `UdpRelayed` | 2 datagrams, 2 clients, 2 ports, 2 threads, every fault, datagrams of strangers | blocks and descriptors have one owner, except the blocks of a thread that could not be created and the socket of a failed bind (`ResourcesOwned`); an answer to another datagram can only be a late one; the model implements `UdpRelay`; workers end, or are in a `recvfrom` without a timeout |
| `UdpThreads` | 2 datagrams, 1 thread | **violated**: a datagram that finds no thread is dropped |
| `PortPicked` | 2 ports at the end of a 2-bit short, 3 descriptors, with and without IPv6 | no port outside the range is tried, only a race can spoil the port, none is found without IPv6, the loop ends if there is IPv6 and a port stays free |
| `Settings` | any 2 arguments, 3 or 4 groups, files of up to 2 members | ownership, the last setting wins, what is passed on keeps its order, only what is ill-formed is refused, shadowsocks and the plugin are told what the user meant |
| `JsonParsed` | every text of 4 cells, 5 pieces that nest; 3 calls on each of 4 trees; every way to print | the reading position stays in the buffer, the grammar is accepted exactly, the tree is the text; lists stay linked both ways (`WellLinked`), edits implement `JsonTree`, what is not in a tree is freed once (`NothingLeaked`), a call that fails changes no list, a copy compares equal; printing stays in its buffer, spells the tree, and needs one byte more than the text |
| `JsonScalars` | short texts of any bytes, all boundary code units, numbers around 2147483647 and of about the 63 bytes the number buffer holds | the output of `parse_string` fits what was allocated, a well-formed literal gives its bytes and a well-formed number its value, printing a string gives a literal that means it, a setting is the number of the file |
| `JsonIntText` | the texts 1, 0, -0 and 0.5 | **violated**: the text of 0 does not fit the block `int_to_string` allocates for it |

**Bounds.**  *Supervisor:* the two children are the real number.  Each signal is
at most once in a stack, so one thread already has every nesting of CHLD and TERM;
INT has the same handler as TERM and is left out to save states.  A second
thread is needed for handlers that run at the same time; `SupThreads` has it, and
the theorems hold for any number.  *UdpProxy:* two
workers at once, or one after the other with the same port, thread slot and
descriptor; a thread may also be refused at any time.  Every property is about
two requests at most.  *PortPicker:* a range with two ports whose upper end
is the last value of the type, as 65535 is; three descriptors are one more than a
single rejected port can leak.  *Settings:* a field set three times, an option as
the value of another, and a file before, between and after options.  *Json:* two
levels of nesting and texts long enough for three siblings, with a failing
allocation at every point.  *JsonEdit:* three calls: the first makes or takes out an
item, the second uses it, the third meets what the second left; a stale `prev` of
a first item needs two additions to lose one.  New items are made while there are
less than four, which gives lists of up to six.  `"string"` and `"STRING"` are
names that only one of the two comparisons tells apart.  *JsonPrint:* buffers from
0 to 12 bytes, one byte short of some texts and exactly enough for others, and an
`INT_MAX` of 13 that some texts reach.  *JsonScalar:* `\u` followed by any six bytes
covers every way the two passes can disagree; three code units cover a pair with
a neighbour on one side, at each boundary value; numbers lie around `INT_MAX` on either
side, with the point moved, and are as long as the number buffer or a byte longer.

**Deadlock checking** is off for `Settings`, `JsonParsed`, `JsonScalars` and `JsonIntText`, which
model sequential code that returns.  The supervisor stops in `Stopped`, where
the process is gone and the children have settled, so a state where all is stuck
would be reported.  (A frame that waits for itself is no deadlock in that sense
as long as the environment can still act; that is what the liveness properties
are for.)

**Fairness.**  The scheduler runs every thread that can run, the kernel delivers
pending signals and runs the children (weak fairness on `MainStep`, each
`ThreadStep`, `Deliver` of each signal, each `ChildStep`).  What the environment
does, faults, deaths, datagrams, is never promised.  In the UDP proxy weak
fairness on the main thread and on each worker includes that time passes: a
timeout is a step of the worker.  In the port picker each port of the range is
drawn again and again (strong fairness of the draws of each port): `srand` with
the microseconds of the clock keeps no port out.

**Mutants.**  Each property of a passing run has an operator in the modelled
module, marked `Mutant:`, that changes one definition the way a plausible edit
would; with it, TLC finds the property violated.

### When a death ends the program

No line of the code says that every death does, and it does not; `DeathExits` says
exactly when.  A SIGCHLD handled between `fork()` and the store of its result finds no
child to look at and is not repeated (`process.c:98`), but the same handler sets
`exited`, and the loop of `start_bootstrap` then ends the program, with status 0.  Three
situations are left, and the run shows that there is no fourth:

* `Blocked`: a handler on top of the teardown it waits for (`process.c:72`, `95`);
* `Stranded`: the teardown of a death of shadowsocks that began between the plugin's
  fork and the store of its pid.  It does not kill the plugin, and waits for it at
  `process.c:87`;
* `Unnoticed`: the main thread is the UDP proxy and waits for a datagram, so nobody
  looks at `exited`.

Without any one of the three excuses TLC finds the property violated.  A SIGCHLD that
comes for ever, from a child that is stopped and continued, may keep the program in its
handler, which is the premise of the property.

### What the code does differently from what it says

* `process.c:78`.  A failed fork leaves -1 in the pid, and the teardown's
  `!= 0` lets it through: `kill(-1, SIGKILL)` reaches every process of the user.
* `process.c:120`.  `exited`, "all sub process exited" (line 25), is set by every
  SIGCHLD after which `get_sub_exit` has found no death: a child that is stopped or
  continued ends the service with status 0.
* `process.c:72`.  TERM on top of a teardown on the same thread (for instance
  one that `get_sub_exit` began) waits for a flag that only process exit ends.
* `network.c:331`.  Threads are not joined and `pthread_create` is not checked.
* `common.c:21`.  `int_to_string(0)` allocates one byte and writes two.

Met while modelling, without a run of their own: a failed `bind` leaks its socket
(`network.c:157`, `175`); a stranger's datagram is handed to a client as its answer
(`network.c:193`); `get_available_port` never returns on a host without IPv6, or once the sockets
it leaves open have used the descriptors up (`network.c:66`, `92`); the parser
ignores what follows the first value, and takes `\u` without digits as NUL
(`cJSON.c:618`);
`cJSON_AddItemReferenceToObject` loses the reference when its key cannot be
allocated (`cJSON.c:2072`), and `cJSON_Minify` takes the quote behind an escaped
backslash for an escaped one (`cJSON.c:2820`).

## 4. Proofs

The theorems hold for every value of the constants.  What they assume of them is
named in the modules and checked by TLC on every instance:

| Assumption | Says |
|---|---|
| `ThreadsAssumption`, `EnvironmentAssumption` (`Supervisor`) | the main thread is a thread; signals and faults are of the listed kinds |
| `RequestsAssumption`, `LimitsAssumption`, `NoneAssumption`, `StrangerAssumption` (`UdpProxy`) | requests are positive numbers, finitely many; the number that stands for "none" is no client and no port, and a stranger's datagram is no answer to a request |
| `RangeAssumption`, `FdAssumption` (`PortPicker`) | the range of ports lies within the width of the type; a kernel supports some of the two families |
| `InputsAssumption` (`Config`) | arguments are a finite sequence of strings, the file is of one of six kinds, and its members are a finite sequence of keys and values of the types of cJSON |
| `NoTextAssumption`, `LiteralsAssumption` (`Config`) | what stands for NULL is no string; two literals are strings (a fact, which the provers do not know) |
| `LimitAssumption`, `TextsAssumption` (`Json`) | the nesting limit is a number, and a text a finite sequence of cells |
| `BytesAssumption` (`JsonString`) | a text is a finite sequence of bytes, none of which is the terminator |
| `SizesAssumption` (`JsonScalar`) | the buffer of `parse_number` has room for a byte; `INT_MAX` is positive and has at most ten digits |

| Theorem | States |
|---|---|
| **`SupervisorProofs`** | *any threads, signals of INT and TERM, faults* |
| `TypeCorrect` | `Spec => []TypeOK` |
| `NoForkInTeardown` | `Spec => NoForkDuringTeardown` |
| `ErrorHasCause` | `Spec => []ErrorExitHasCause` |
| `OrphansHaveNoStoredPid` | `Spec => []OrphanHasNoStoredPid` |
| `NobodyForgotten` | `Spec => []NobodyReapedQuietly` |
| `KeepsThePromise` | `Spec => ImplementsLifecycle` |
| **`UdpProxyProofs`** | *any number of datagrams, clients, ports, threads; every fault* |
| `UdpTypeCorrect` | `Spec => []TypeOK` |
| `UdpResourcesOwned` | `Spec => []ResourcesOwned`: one owner each, but for the blocks of a refused thread and the socket of a failed bind |
| `UdpStrayAnswersAreLate` | `Spec => []StrayAnswersAreLate` |
| `UdpImplementsRelay` | `Spec => ImplementsRelay` |
| **`PortPickerProofs`** | *any range, width, number of descriptors, kernels* |
| `PickerTypeCorrect` | `Spec => []TypeOK` |
| `PickerOnlyRaces` | `Spec => []OnlyARaceCanSpoilThePort` |
| **`SettingsProofs`** | *arguments and files of any length* |
| `LaunchTypeCorrect` | `Spec => []TypeOK` |
| `LaunchHeapOwned` | `Spec => []HeapOwned` |
| `SettingsLastWins` | `Spec => []LastSettingWins` |
| **`LaunchProofs`** | *the same* |
| `SettingsRefusesTheRest` | `Spec => []RefusesTheRest` |
| `LaunchCommandMeansSettings` | `Spec => []CommandMeansSettings` |
| `LaunchPluginIsInBetween` | `Spec => []PluginIsInBetween` |
| **`JsonParserProofs`** | *any text, any nesting limit* |
| `ParserTypeCorrect` | `Spec => []TypeOK` |
| `ParserInBuffer` | `Spec => []InBuffer` |
| `ParserFreesTheRest` | `Spec => []ParserLosesNothing`, the parser's part of `NothingLeaked`; any fault |
| `ParserReadsTheGrammar` | `Spec => []AcceptsTheGrammar`: every text, nesting limit and fault |
| `ParserBuildsTheTree` | `Spec => []TreeIsTheText`: the same |
| **`JsonScalarProofs`** | *any text of bytes, any size of int and of the number buffer* |
| `TypesHold` | `Spec => []TypeOK` |
| `BlocksAreLargeEnough` | `Spec => []BlocksFit`: the block of a string |
| `OnlyZeroOverflows` | `Spec => []OnlyZeroIsTooLong`: the block of `int_to_string` has room for every number but 0 |
| `StringsAreRead` | `Spec => []StringIsItsMeaning` |
| `StringsAreWritten` | `Spec => []PrintsWhatItReads` |

None of the properties is inductive.  Each module names its invariant `IInv`, a
conjunction of named parts with one lemma for the initial states and one for each
kind of step.

**Supervisor.**

* `TypeOK`;
* `FramesOK`: bodies run body code, a handler that is active is on its thread's
  stack, workers exist only after the main thread has reached the proxy.  This is
  what makes "the main thread is at a fork" exclude every handler on it;
* `OwnerOK`: whoever is in the teardown's steps has set `exiting`, and while the
  process is alive and `exiting` holds, some frame is in them: that frame never
  returns.  With `FramesOK` it gives `NoForkInTeardown`: before the proxy there
  is one thread only, and a frame in a teardown on it covers the fork;
* `StartOK`: pids, the plugin flag and children follow the main thread's
  progress, which ties "not yet stored" to a position in the code;
* `CauseOK`: a dead child was killed or ended on its own, and kills come after
  `exiting` or a failure; a frame that will report status 1 has a cause, unless it
  still waits for a teardown that it will then never pass.  It gives
  `ErrorHasCause`;
* `HitOK`: what a teardown has dealt with stays dealt with until exit.  It gives
  `OrphansHaveNoStoredPid`;
* `ReapedOK`: a child is reaped by a teardown or by a handler that goes on to
  one.  It gives `NobodyForgotten`.

`KeepsThePromise` maps `exiting` and the process state to the phase of
`Lifecycle`, the kernel's view of a child to unborn, live or gone, and shows under
`IInv` that every step is a step of `Lifecycle` or a stutter.

**UDP proxy.**

* `DatagramOK`: the main thread works on the datagram it received last, which has
  no worker yet (before `bind`, and after one that failed, there is none), and a
  worker's copy is of its own datagram and of the address it
  came from.  Without it a copy made after the next `recvfrom` could not be told
  from one made in time;
* `DescriptorOK`: open descriptors are those of the workers that have a socket and
  of the listening socket, one each, and after a failed bind the one that is lost, when
  there are no workers (`NoHolders`).  That a new socket has a number of its own,
  and that numbers stay small, is a count: the lowest free number is at most the
  number of sockets plus one (`NewFd` and its lemmas);
* `PortOK`: a port has one worker; what is under way from a port, or to it, belongs
  to the worker that has the port or to one that is past its `close`.  So does
  the answer a worker has taken, which gives `UdpStrayAnswersAreLate`;
* `ReplyOK`: who has replied is past its reply, so that no request is answered
  twice, which `UdpRelay` asks for.

**Port picker.**  A check that has passed says something of the past; other
processes act all the time.  `PassedChecksHold` says what it is still good for:
every slot that a passed check covers is free, or in `since`, the slots taken
after the draw.  `SocketIsTheChecks` says that the only socket of the picker is the
one of the current check, so that the picker does not stand in its own way.

**Settings.**  The program reads forward and overwrites; the properties look at the
whole: *the last* place that sets a field.  Two invariants bridge that.

* `IInv` is about control and memory.  `PointersOK` says that while settings are
  loaded a pointer that is not NULL has a block, which is what the test
  `*target != NULL` of `add_field` relies on: literals come in later.  `MemoryOK`
  is `HeapOwned` with the blocks numbered, so that a new one is new.
* `SInv` says while loading that each field and flag is what the latest place
  *already read* says (`FieldsTold`, `FlagsTold`), and that load_info stands at an
  option, never at a value (`Position`); when it has read all, places read are all
  places.  A file is read where its `-c` stands, so places are ordered by the
  argument and then by the member, and the latest exists because the set of
  places is finite and ordered: an induction over numbers.

**Launch.**

* `RInv`: everything load_info has passed over was acceptable (`AcceptedSoFar`).
  That a set of extra options is cut where `NoDangling` and `Dangling` look for it
  needs an induction over its characters (`SplitSeesEscapes`): `Split` has seen an
  odd run of backslashes exactly where the definition finds one.
* `EndsOK`: the ends the plugin was told, still as they were when shadowsocks
  and the proxy are started.
* `CInv`: the command line is a sequence, shadowsocks reads it as the program meant,
  and each of the three parts is told the matching ends.  Shadowsocks reads
  options and their values in turn, and an option that is passed on may look like
  a setting or ask for a value: what it reads last is decided behind the options
  that were passed on, provided these end where an option begins (`CompleteIn`).
  `GivesIn` is what a list of options gives, and a lemma says how appending one
  pair changes it.

**Parser.**  `InBuffer` fails to be inductive where a byte is passed without a
check.  `OffsetOK` says that in those places a byte is left before the terminator:
`element` is entered on an opening bracket or a comma, and `close` on what is not
the terminator.  `LabelsOK` says what each label has at hand, `DepthOK` that each
frame is a level, and `LinksOK` that links lead to items.

`ParserFreesTheRest` rests on `MemoryOK`.  Items are allocated in the order in which
they stand in the text, and links lead from older items to younger ones, so what
`cJSON_Delete` finds from an item is a stretch of the allocations: the list of a frame
is everything allocated after the frame's item, up to the item of the next frame
(`Span`).  The root and the frames together have every item once, and the youngest
frame has the youngest.  A call that fails deletes just those, and its caller is left
with one stretch less.  That needs to be known of every link that is set: a list hung
onto an item is found wherever the item is, and nowhere else (`ListedAttached`).

`ParserReadsTheGrammar` compares a machine that goes forward through a text with a
grammar that says of stretches of it whether they are phrases.  `GrammarOK` says: the
text starts with a value exactly if the parser can go on from where it is and end well.
What it can go on with is a path (`Path`): from the reading position a phrase of the
kind that the label asks for (a value, an element, the rest of a list), and then, at the
level of each frame from the youngest to the oldest, the rest of that frame's array or
object.  A branch that consumes a cell shortens the path at both ends of the
equivalence, because a cell begins at most one of the phrases that may stand there
(`ValueShape`, `ElementsShape`, `MoreShape`); a branch that fails has no path.  At
`parsed` nothing is left of the path, and at `fail` there is none.  The grammar is a
function defined by recursion on the length of a stretch and then on the kind of phrase;
it is unfolded once (`GrammarUnfolds`) and nothing else uses its recursion.

`ParserBuildsTheTree` compares the cells that a tree spells, which are defined from the
root down, with a text that is read from left to right.  `TreeOK` says that every item
has a place in the text (`Places`): the cells before it, before its value and up to its
end, and the item whose list it is in.  What is asked of a place is local: it follows
from the item it belongs to, and from the place of the item above, before or behind
it.  An item is behind the comma after the one before it (`NextPlace`), the first of a
list behind its opening bracket (`ChildPlace`), and the last of one stands before the
closing bracket (`EndPlace`); an item that a frame is still at has no end yet
(`Unfinished`), so a step has to say something of one or two places only.
`ReadingPlace` ties the youngest place to what has been read.  That places give the
spelling (`PlacesSpell`) is one induction from the youngest item to the root, and blanks
are dealt with on the way: skipping them reads nothing (`SkippedIsNothing`).  The first
element's `prev` leads to the last because a list has one item without a `next`
(`ListPlaces`), and a walk along `next` ends there (`EndIsListed`).

**Strings and numbers.**  The two passes of `parse_string` see different things: the first steps
over a backslash and whatever follows it, the second over whole escapes, and on a
`\u` without digits it may go on in the middle of what the first took for an escape.

* For the blocks, every byte of a text is escaped or not (`Escaped`), and `Skipped`
  counts the escaped ones.  The first pass stands at a byte that is not escaped and
  has counted `Skipped` up to there.  The second keeps
  `Len(output) + Skipped(text)[input_pointer] <= input_pointer - 1`: an escape of six
  bytes writes at most three and no more than three of the six can be escaped, of
  twelve no more than six, wherever in a run of backslashes it starts.
* For the meaning, the second pass is in step with the definition: what it has
  written, followed by what the rest of the literal means, is what the whole means
  (`InSync`).  The only way out of step is a `\u` without digits, from where on the
  literal means nothing (`OutOfSync`).  The closing quote is met only where the first
  pass has found it.
* `Utf8` divides by 64 from the last byte to the first, as the code shifts; the
  definition of the meaning has the tables of RFC 3629.  The two are compared case
  by case of the length.
* `OnlyZeroIsTooLong` compares the digits that repeated division counts with those that
  are written: they are as many for every number but 0, whose one digit is not counted.
* For printing, the sums of the first pass are the positions of the second.  Each
  byte of the string gives a literal of one, two or six bytes that means it, and the
  meaning of the whole follows from the last byte to the first.

**Induction.**  The provers cannot use an induction theorem whose parameter is an
operator.  `Numbers` has the facts in a form without one: a set of numbers that
is not empty has a least element (`LeastNumber`), a set with 0 and every
successor has them all (`InductiveSet`), and so has one with every number of which
it has the larger ones (`Descends`); a function that is given step by step exists
(`Iterates`) and stays where its steps stay (`StaysIn`), and so does one whose values
are given by values at arguments of a smaller measure (`RecursionSolves`).  What is to be shown of all
n is stated as membership in the set of such n.  That is enough for the recursive
*functions* of these modules (`ArgIsOption`, `Split`, `Escaped`, `Meaning`, `Listed`,
`Grammar`, `Tokens`, `Spelling`), which must be shown to have a solution before they
can be unfolded.  It is no help with operators that are declared RECURSIVE, which the
provers cannot unfold.

**Only model-checked:**

* every liveness property: the prover has no rule for fairness and `ENABLED`;
* `OptionsInOrder`: it compares words that are concatenated from characters, and
  the provers take strings as values without structure;
* `JsonEdit`, `JsonTree`, `JsonPrint`: the functions of the code they model are
  recursive on the tree (`cJSON_Delete`, `cJSON_Duplicate`, `cJSON_Compare`,
  `print_value`);
* `SettingIsTheNumber`: it is about the one `INT_MAX` whose digits the number is
  compared with, and so no statement for every value of the constants.

## 5. Not modelled

`cJSON_Minify`, `cJSON_SetValuestring`, `cJSON_SetNumberHelper`, items that refer to a
string or a list of the caller, and the options, error pointer and locales of the
parser (never called); reading through a reference to an item; the wording and
formatting of logs and help; the CMake files; locks inside the C library that
handlers may meet (`log_info` and `exit` in a handler, a listed hazard); the tree
that `json_decode` leaks (a listed hazard); `strlen` of uninitialised memory in
`string_list_join`, which only the log shows; `recvfrom` failing on the listening
socket, which the environment of the model gives no reason for.

## 6. Plan

Written, in this order: `Supervisor`, `SupervisorProperties`, `Lifecycle` and their
proofs; `UdpProxy`, `UdpRelay`; `PortPicker`; `Json`, `JsonString`; `Config`,
`Sip003`; `JsonScalar`; `JsonEdit`, `JsonTree`, `JsonPrint`; the proofs about the UDP
proxy, the port picker, the settings, the launch, the parser's bounds, strings,
what the parser frees, the texts it accepts and the trees it builds.

What would come next, the most important first:

1. A composition of `Supervisor` with `UdpProxy` in which the teardown of one
   thread, the drain of the proxy and `exit()` interleave with real workers,
   instead of the worker with one step that `Supervisor` has.
2. The lists of `JsonEdit` as recursive functions instead of RECURSIVE operators, so
   that `WellLinked` can be proved for any number of calls.
