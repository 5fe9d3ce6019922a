# myVPNproject: TLA+ specifications

myVPNproject is an Android VPN application that changes outgoing traffic so
that DPI equipment does not recognise it. A `VpnService` opens a TUN device,
the native library tun2socks (badvpn, lwIP) turns its packets into SOCKS5
connections to 127.0.0.1, and the native SOCKS5 server ciadpi (byedpi) makes
the real connections, after having each socket exempted from the VPN by
`VpnService.protect()`.

## Inventory

| Part | Source | State it keeps | Operations | What makes it correct |
|---|---|---|---|---|
| Native engine | `ProxyEngine.kt`, `ciadpi_jni.c`, `tun2socks_jni.c` | per library `g_running`, `g_thread`, the global a stop uses (`server_fd`, `bridge_stop_pipe`) | `start()`, `stop()`, two pthreads | one event loop per library; a stop reaches and ends it; the protect server outlives ciadpi |
| VPN service | `BypassVpnService.kt` | `isRunning`, `vpnInterface`, `vpnThread`, `monitorThread`, `proxyEngineStopThread`, `activePresetId` | START, STOP, destroy; `runVpn`; preset monitor; ASN detector; asynchronous stop thread | a stop closes the TUN and stops the engine; a start starts one; the preset shown is the one that runs |
| Protect bridge | `ProtectSocketServer.kt`, `protect()` in `byedpi/extend.c` | listener, accept thread, pool of 32; one request at a time on the C side | `start()`, `stop()`, accept loop, `handleClient()`, `protect()` | no socket is used before it was asked about; no crash at shutdown; no descriptor lost |
| tun2socks event loop | `badvpn/tun2socks/tun2socks.c` | TCP clients with their lwIP and SOCKS halves | accept, receive, send, errors, abort | buffers bounded, each client freed once (its ASSERTs) |
| ciadpi event loop | `byedpi/proxy.c`, `conev.c` | event pool, pairs of connections | accept, SOCKS handshake, connect, tunnel, close | pairs closed together, no event of a closed pair |
| Desync | `byedpi/desync.c`, `extend.c`, `mpool.c`, `packets.c` | desync group, address cache | split, disorder, OOB, fake, retry with the next group | the parts sent are the buffer |
| Kotlin packet path | `PacketProcessor.kt`, `DnsInterceptor.kt`, `ChecksumUtils.kt`, the packet loop of `BypassVpnService.kt` | pool of tasks, the monitor of the output stream | packet in, packets out | a split segment is the packet's bytes with valid lengths and checksums; an intercepted query never leaves |
| DoH resolver | `DohResolver.kt` | cache with expiry | `resolve` | no address older than the cache allows |
| Presets, detection | `ConfigManager.kt`, `NetworkProfileDetector.kt`, `Ipv6Connectivity.kt` | preferences | load, save, detect | round trip |
| Crash log | `CrashLogger.kt`, `crash_handler.c` | three log files, `g_log_fd` in two libraries | checkpoint, crash, clear | what was written is kept; a crash leaves its report |
| Activity | `MainActivity.kt` | a local copy of "running" | sends START and STOP | agrees with the service |

How they interact. The activity sends intents to the service, on the main
thread. `startVpn()` starts a VPN thread; that calls `ProxyEngine.start()`,
which starts `ProtectSocketServer`, ciadpi and tun2socks in this order, and
starts the monitor and the detector, which call `ProxyEngine.stop()` and
`start()` again to change the preset. `stopVpn()` closes the TUN and leaves
`ProxyEngine.stop()` to a thread of its own. ciadpi calls back into Kotlin over
a Unix socket for each outbound connection. There is no lock anywhere in this
chain: what is hard is which thread reads a flag, handle or descriptor when.
The hazards are listed in `PROJECT.json` at the lines where they bite.

## Modules

`EngineContract` is what the service may rely on: an event loop is started only
when its library has none, and the protect server goes down only when no loop
is left.

`ProxyEngine` is the engine as the code implements it. A caller is a Kotlin
thread inside `start()` or `stop()`; `op`, `on`, `at` are its program counter,
one step per access to a global. The phases of a pthread are those that matter
to a stop: before its listener or stop pipe exists (`init`), after it (`bound`),
in the loop (`up`), out of it (`ending`), ended (`done`). `channel` is
`server_fd` or `bridge_stop_pipe`. `server_fd` is not reset when the listener is
closed, so a stop may hit a new descriptor with the same number (`Reached`). A
second `pthread_join` of a handle is undefined in POSIX; bionic returns an error
at once, and the model does the same and remembers it (`rejoined`). The history
variable `overlap` says whether calls have met: `none`, only calls of `stop()`
(`stops`), or a `start()` and another call (`mixed`).

`VpnService` is the service: sessions (`Run`), instances (named after their
first session), the VPN thread of each session (`vpn`), its monitor and detector
(`sw`), the asynchronous stop threads (`stopper`) and the main thread (`main`).
`stopVpn()` is three steps (the test, up to the close of the TUN, the rest),
because it is called by the main thread and by VPN threads. The engine is one
record with the semantics `ProxyEngine` gives it: a `start()` that finds
`g_running` set succeeds and does nothing. A `stopSelf()` or a revocation by the
system destroys the instance at some later time (Android, external), and a START
does not take it back. The history variable `races` records which calls have
met (`Race`); the properties say what holds before a given kind of race, and
with it which race is needed to break what. A signalled engine may end
(`EngineEnds`) or never react: `ProxyEngine` loses a stop that comes too early, and
`BypassVpnService.kt:187-194` expects `getaddrinfo()` to hang the pthread.

`ProtectBridge` is the bridge: `start()`/`stop()` of the server (`ctl`), one
accept thread per start (`accept`), `handleClient()` per request (`handler`) and
`protect()` of the single ciadpi event loop (`conn`). Requests are made only
while the server is up, and `stop()` comes only after ciadpi has ended: this is
`BridgeServed` and the order of `ProxyEngine.stop()`, proved in
`ProxyEngineProofs`. An accept() under way keeps its socket when the listener
is closed, so it may still deliver a connection (external). A handler that gets
no descriptor, or cannot read its number, answers without calling
`VpnService.protect()` (`verdict` is `skip`), and what the C side reads is a 0 like
that of a refusal.

`TcpClient` is one TCP connection of a phone application inside tun2socks: the
lwIP pcb (`pcb`), the `struct tcp_client` (`client`) and its SOCKS connection
(`socks`). There is one thread, but its handlers nest. A segment makes
`tcp_input()` call up to three callbacks, one after the other (`input.phase`); a
callback runs the SOCKS jobs it has queued before it returns (`cb`, the
`SYNC_COMMIT` of the code), and these may abort the pcb or free the client. The
handlers are operators named after the C functions, on the record `Cur` of the
whole state, because they call each other. A failed `ASSERT`, a use of a freed
pcb or client, a write through a dead frame pointer (`dead_aborted`) and a return
value that disagrees with `tcp_abort()` are collected in `faults`. Bytes are
numbered, so that order and completeness can be stated. What the proxy has sent
(`srv.sent`, `srv.eof`) waits in the kernel's receive queue until a receive takes it
(`srv.read`), and is lost with the socket when an error closes it. Of lwIP the module has
what a client can see: window, send queue, close, abort, timers; in this use
`tcp_close()` does not really fail, and the model lets it (`CloseMayFail`)
because the client has code for it.

`EventLoop` is the ciadpi proxy from `start_event_loop()` on: the pool of evals
with their `mod_iter` stamps (`ev`, `batch`), the timer list, the SOCKS5
handlers, the tunnel, and `desync()` for the first round. A batch of
`epoll_wait()` is a set: the events of one batch are handled in any order, and
each handler may delete an eval that has another event in the batch. The kernel
and both peers move between any two steps; `on_tunnel()` is two steps (flush, then
one step per chunk it reads), since the kernel's buffers move meanwhile. A socket
has its receive and send queues, what of the send queue was never transmitted
(`sock_has_notsent()`), and whether it has the short TTL. The history `causes`
names what a connection has met; the properties say which of these is needed to
lose bytes or to stall.

`CrashLog` is the three diagnostic files: `checkpoint()` as the five system
calls it makes, `clearAll()`, the Java and the native crash, the two copies of
`crash_handler.c` (both libraries link it, tun2socks' is installed last and calls
ciadpi's, so a native crash is reported twice), and the death and restart of the
process between any two of them. Every call may be refused, and no caller looks:
`fail`, `deleteFails` (`undeleted` remembers it), `Kept` for a clear, `appendFails` for
the Java report, `ok` of `safe_write` for a piece of the native one (`crash.lost`).

`KotlinPath` is the data path without tun2socks: the loop and its pool, whose
tasks hold the monitor of the output stream, lookups included; the split of a
ClientHello; the answer to a DNS query; the resolver with its cache, used by a
task and by the connectivity monitor. Packets are records; checksums are computed
over their bytes with the arithmetic of `ChecksumUtils.kt`, and the property
compares them with what a receiver computes (a sum modulo 65535, without
folding). An address is a pair of its family and the time of the answer it
came with; an entry's life begins at the end of the lookup, so it also has how
long that took (`took`, history). A stop leaves the tasks that are blocked on the
monitor: `shutdownNow()` interrupts them, which ends neither the wait nor the task.

How the new modules fit the others. `TcpClient` is what runs in the `up` phase of
tun2socks' pthread in `ProxyEngine` and `Teardown` is what follows a stop;
`EventLoop` is the same for ciadpi, and its `on_accept` failure is one of the
exits from the loop `ProxyEngine` allows. They are checked apart: they share only
bytes of a socket, for which each has the other as its environment.

`MCProxyEngine`, `MCVpnService`, `MCProtectBridge`, `MCTcpClient`, `MCEventLoop`,
`MCCrashLog` and `MCKotlinPath` are the instances TLC checks. `ProxyEngineProofs`,
`VpnServiceProofs`, `ProtectBridgeProofs`, `TcpClientProofs` (with
`TcpClientInvariant`), `CrashLogProofs`, `KotlinPathProofs` and `EventLoopProofs`
hold the theorems.
Operators marked `(mutant)` are plausible mistakes in the operation they precede,
used to confirm that the properties notice them.

## Runs

| Run | Instance | Shows |
|---|---|---|
| `engine_safety` | 2 callers, 2 pthreads per library | `OneThread`, `NeverOrphaned`: with any number of stops at once, as long as no `start()` has met another call; `FailedStartUndone`: a `start()` that cannot start tun2socks leaves no ciadpi; `NoRejoin`, `BridgeServed`, `StopStops`: as long as no calls have met |
| `engine_stop` | 1 caller, 2 pthreads | `StopReturns` under fairness, and `ImplementsContract` |
| `engine_lost_stop` | 1 caller, 1 pthread | violation of `BridgeStopStops`: a stop before `pipe()` is lost, although `tun2socks_bridge.h` promises that the run returns |
| `vpn_sessions` | 2 sessions, 2 switches, 2 presets | `TunReferenced`, `EngineNotAbandoned`, `SilentOnlyAfterRace`, `PresetApplied`, `CleanStop`; `StopCompletes`: whatever the engine does, all of a stop ends but one thread in `pthread_join()` |
| `vpn_early_stop` | 1 session | violation of `StoppedMeansClosed`: STOP during the IPv6 probe leaves a TUN that nobody closes |
| `vpn_restart` | 2 sessions | violation of `RestartWaits`: the new service object has no stop thread to wait for |
| `protect_bridge` | 3 requests, 2 starts, pool of 2 | `UsedAnswered`: the server has dealt with a socket before it is used; `CrashOnlyAfterTimeout`, `QueueOnlyAfterTimeout`, `ServesWhileRunning` |
| `tcp_client` | window and buffers of 2, 3 bytes each way | `HandlersSound`: no ASSERT fails, nothing freed is used, `ERR_ABRT` exactly after `tcp_abort()`; `WindowAccounted`, `NoStall`: every buffered byte is accounted for and has an event to come; `UpstreamIntact`: order, and nothing lost when the application ends; `DownstreamIntact`: order, nothing lost of what was read when the SOCKS side ends, and nothing at all when the proxy closes: only an error loses what is unread; `PcbLetGo`; `ClientReleased` under fairness |
| `event_loop` | 2 evals, up to 3 bytes up and 2 down, 4 in all, send buffer of 1, 2 desync groups | `EventsSound`: `mod_iter` keeps events from recycled evals, no timer resets a live connection; `UpIntact`, `DownIntact`, `WakeupPending`: what holds before the shortcuts below; `TtlRestored` |
| `crash_log` | 2 threads, 2 starts, 3 lines and 1 crash or native checkpoint, or 1 line and 2 of them | `LogsKept`: what was written is shown, unless two checkpoints met; `CrashTold`: a reported crash is there after a restart, in order, but for the pieces that were refused; `TypeOK` holds the bound on the file's size until `delete()` refuses |
| `kotlin_path` | 2 packets of 9 kinds, 3 configurations, 2 providers, cache life of 1 tick | `SegmentsSound`; `NamesAnswered`: no recognised query leaves, and an address is at most as old as the cache's life and the lookup that found it |
| `protect_copies` | 1 request | violation of `CopiesClosed`: `handleClient()` does not close the copy the comment says it closes |

What the runs show of the code's own shortcuts, each excluded by name in a
property. In `desync()`: a part of which the kernel took less, a part that a
later chunk of the first round meets again, and a short `send()` of the rest are
all counted as sent (`UpIntact`). In `on_tunnel()`: when both directions hold
data, `mod_etype()` for one withdraws the `POLLOUT` of the other, and a chunk that
waited and is then refused gets no `POLLOUT` at all (`WakeupPending`). In lwIP's
`tcp_process()`: a FIN with the last segment of the handshake revives a pcb the
accept callback had closed (`PcbLetGo`). In `checkpoint()`: two threads at once
overwrite each other or delete a new file (`LogsKept`). The same holds of the races
of the service and the engine, which `races` and `overlap` record: a property that
excludes a race shows that nothing less breaks it, and promises nothing after it.
`protect()` in `extend.c` takes any byte for success, also the 0 of a refusal or of a
request without a descriptor, so `UsedAnswered` cannot say that a socket in use is
protected. In `resolve()` nothing is excluded, but the cache's life counts from the end of the
AAAA query, so that an A address is older by what that query took (`NamesAnswered`).

Bounds and why they suffice. Engine: two pthreads per library are the old and
the new one, which is all that a stale handle, flag or descriptor can confuse;
two callers are the stop thread and the VPN thread, or a monitor. The safety run
does not follow behaviours past `overlap = "mixed"`, where its properties
promise nothing. Service: two sessions are the old and the new one; two switches
let monitor and detector meet; two presets tell the old from the new one (with
ten, `NextPreset` only walks a longer cycle). `vpn_sessions` stops at a STOP
during a start, at a session that begins before the last has ended, and at a
second kind of race: from there its properties promise nothing, and the two
violation runs go there. Bridge: three requests and a pool of two let a
request find the pool full; two starts let an old accept thread meet a new
server. `TcpClient`: with 2 bytes of window and 3 to send, the buffer
fills, is partly drained and fills again, and a FIN meets a full window; a window
of 3 with 4 bytes each way was checked too, with the same result. `EventLoop`: two
evals are a pair, or two clients that compete for the last slot (`max_open` is 1); a
send buffer of one byte makes every send of more a short one, and three bytes are
cut into up to three pieces; of the five bytes both peers may send four are sent
on one connection (`MaxBytes`; all five were checked too, in 1.5 million states);
a connection is not followed further once it has lost bytes or stalled. `CrashLog`: two threads are what a race needs; a limit of one
byte makes every second line rotate; two starts are a crash and what is read after
it. Three lines are needed to rotate and to race, two entries to crash after a native
checkpoint or a second time; the run has one or the other (`Bounded`). `KotlinPath`: two packets let a task wait for the monitor and find the cache
filled; the packets are chosen for their sums (`MCKotlinPath`); one tick expires
an entry. Deadlock is checked for the engine. It is not for the others: with the
sessions, requests, bytes, starts or packets used up and everything stopped, there
is nothing left to do.

Fairness. `ProxyEngine`: each thread that can execute its next statement does;
errors and new calls need not happen. A pthread waiting for the port is allowed
to fail instead. `VpnService`: every Kotlin thread is scheduled and `t.join(3000)`
ends; the user need not do anything, an engine need neither fail nor react to a stop,
so a `pthread_join()` may wait for ever. Both are what a preemptive kernel gives; there are no spin loops and no locks that
would need more. `TcpClient`: the thread goes on with the segment it has; the proxy
answers the handshake and takes what is written to it; the application
acknowledges what it is sent. The last two are not the code's doing: tun2socks has
no timeout of its own, and without them a client may stay for ever, which is why
`ClientReleased` assumes them. The other three modules state no fairness and make
no promise of progress; for `EventLoop` there is a reason beyond its shortcuts:
`await_int` is 0, so that a chunk that waits for the kernel makes its timer due
at once, and due timers come before all other events.

## Proofs

Eight modules hold proofs; each extends the module it is about. They prove every
safety invariant of the passing runs, and the refinement. All theorems are
for every value of the constants, under the assumptions the modules name: the
bounds are natural numbers, the list of presets is not empty and begins with
"universal", the sets of threads are finite, there is a longest line, packets are
records of bytes and 16-bit numbers, a desync group has at most two parts and both
are at the same position. TLC checked each inductive invariant on the instances of
the runs before it was proved.

### ProxyEngineProofs

Proves, for every set of callers and every number of pthreads, the invariants of
`engine_safety`, that a stop names the loop that runs (`LoopReachable`, which carries
`StopReturns`) and, for behaviours whose calls do not meet, the refinement of
`EngineContract` (`Implements`). The only assumption is `MaxThreads \in Nat \ {0}`.

None of the invariants is inductive. `IInv` has four layers:

* `TypeOK`;
* `Handles`: pthreads are numbered as they are created, only created ones are
  joined or bridged;
* `Calm`, until a `start()` meets another call: a live pthread is the one created
  last, a `start()` past its test of `g_running` finds none alive, and a live
  pthread is flagged or awaited. For the last, a stop about to clear the flag
  must leave nothing that no other stop waits for (`ResetIsSafe`), and a handle
  that was joined while alive must have a waiter (`JoinedIsAwaited`): this is how
  two simultaneous stops, one of which gets an error from `pthread_join`, are
  harmless;
* `Alone`, until any two calls meet: a raised flag stands for a handle nobody
  has joined, or for a call in the middle of raising or clearing it; a stop
  that has reached ciadpi has no tun2socks left, one that has reached the
  protect server has no ciadpi left.

`NextIInv` follows the actions, with one lemma per kind of step (`CallerMove`,
`ThreadMove`, and the calls, creates and joins). The action properties `StopStops` and
`FailedStartUndone` and the refinement follow from `IInv` and the step taken.

### VpnServiceProofs

Proves the five safety invariants of `vpn_sessions` and `TypeOK` for any number
of sessions, of preset switches and of presets. The run stops at the second kind
of race (`Informative`), the theorems do not: `TunReferenced`, say, is proved
whatever else meets as long as no session is stopped while it starts or launched
before the last one ended.

`IInv` is layered by the races that have not happened: `Orderly` (one session,
the TUN and the switching threads are its own, a session that starts is alone),
`Clear` (besides, no stop meets a switch: `g_running` belongs to the session or
to a stop that will clear it) and `Calm` (nothing has met: one switch at a time,
between its `stop()` and `start()` the engine is off, a live pthread is flagged
or waited for, and it has the preset shown). There is one lemma per conjunct. Two
facts about `pthread_join` carry the argument for the engine: a switch that is
alone in it returns only when the pthread has ended (`SwitchJoins`), and a stop
thread returns earlier only when another one is in it (`StopJoins`).

### ProtectBridgeProofs

Proves the invariants of `protect_bridge` for any number of requests and starts
and any size of the pool. `IInv` says where each request is and what it has
(`OnePlace`, `Fields`), that ciadpi has at most one request under way and has
given up all earlier ones or taken their answer (`OneRequest`, `Progress`), and
which accept threads there are (`Threads`). `UsedAnswered` needs that an answer is
written only by a handler that has decided, with a copy or without (`Decided`).
`QueueOnlyAfterTimeout` counts: a
full pool is as many requests, all but one of them given up, and the one that
waits is the one under way (`FullPool`).

### TcpClientInvariant and TcpClientProofs

Prove the seven invariants of `tcp_client` for every size of window, send buffer
and receive buffer and any amount of data. `Inv` is `Good` of the current state,
and the handlers are operators on a state record, so a handler has a lemma that
says what it returns (`FreeClientIs`, `SendToSocksIs`, ...), one that `Good`, or
the part of it that holds in mid-handler, survives it (`SendOutKeeps`, ...), and the
lemma of an action puts them together.

* `HandlersSound` needs the flags of the client, the SOCKS connection, the pcb and
  lwIP's callbacks to agree (`Life`, `Callbacks`), and what each callback's frame
  has been told (`Frame`): `f = 1` exactly after an abort, `-1` exactly when the
  client was freed without one. `Flow` says which callback may run in which phase
  of `tcp_input()`; with the accept callback the window is still untouched.
* `WindowAccounted` and `NoStall` are conjuncts of `Queues`, `Sends` and `Receives`,
  for open clients also in mid-segment: until a confirmation reaches the sent
  callback its bytes are pending, but no longer in the send queue (`Ack`).
* The streams: bytes received, buffered and in the segment are consecutive
  (`Counts`) and add up to what was sent (`Up`, `Down`). An end without a cause on the
  other side keeps the sum, so `FinishKeeps` and `ClosingKeeps` are where
  completeness comes from. Downstream the sum stops at what was read; the queue in
  the kernel is empty when the end of file is read, which only `SocksRecvClosed`
  does. That a cause was noted is part of the invariant
  (`UpTold`, `DownTold`).
* `PcbLetGo`: `LetGo`. The exception is needed: the only step that takes a closed pcb
  back to CLOSE_WAIT is the return of the accept callback (`ReceiveKeeps`).

`TcpClientInvariant` has the invariant and the ways in which a connection ends,
`TcpClientProofs` the movement of data and the theorems.

### CrashLogProofs

Proves the three invariants of `crash_log` for any finite set of threads, any
limit and sizes of lines and any number of entries and starts.

* The bound in `TypeOK`: each thread that has found the file short enough may
  still add a line, so the file is within the limit plus a line for each thread
  that is *not* about to write (`Room`), until `delete()` refuses.
* `LogsKept`: no descriptor of the native log is ever an orphan (`Linked`), and
  until two checkpoints meet the only thread about to write is at the end of the
  file (`AtEnd`), where an overwrite is an append (`WrittenLemma`).
* `CrashTold`: entries are numbered, so a report is unlike anything in the file
  (`Dated`); from the signal to the end of the process what the handlers still
  have to write is the end of the report and the rest of it is in the file or was refused, once
  and in order (`NativeReport`, and `JavaReport` for the exception);
  `ReportedNext` and `ReportedOther` are the two ways in which the file grows.

### KotlinPathProofs

Proves both invariants of `kotlin_path` for any set of packets, hosts and
configurations, any number of providers, tasks and lookups, and any life of a
cache entry.

* Induction. The sums of `ChecksumUtils.kt` are recursive functions. That such a
  function is defined everywhere and obeys its equation (`Recursion`) is proved from
  the least element of a set of numbers (`LeastNat`, from
  `NatLessThanWellFounded` and `WFMin` of the library); `SetInduction` is then
  induction over a set instead of a predicate, which is a form the provers can
  instantiate.
* `ChecksumIs`: for every sequence of bytes, of even or odd length, what
  `internetChecksum()` returns is a 16-bit number that brings the sum of the words
  to a multiple of 65535. `FoldedIs` is its loop of carries, `TotalIs` the sum.
* `FragmentsSound`: a packet split anywhere inside its payload becomes two that
  are accepted (`TcpAccepted`, from `ChecksumIs` and the layout of the headers) and
  whose bytes are at the sequence numbers they had, also where these wrap
  (`AdvanceTwice`, `PlacedSplit`).
* `PathInv` says what the task that holds the monitor has written and has still to
  write is sound, and whole unless a write has failed (`Writing`); every address a
  lookup has found is younger than the cache's life and what its lookup took
  (`Recent`, `FoundRecent`); and no cache entry outlives the addresses in it by more
  than that (`Unexpired`).

### EventLoopProofs

Proves the six invariants of `event_loop` for every size of the kernel's and the
proxy's buffers, any amount of data, any request size and every set of desync
groups. The assumption on groups is what `init_params()` builds
(`ciadpi_jni.c:184`): one part, or a fake part before it with the same position
and flag. It is needed: for a group with parts at two positions, which only another
front end of ciadpi could build, TLC finds `UpIntact` and `TtlRestored` violated (a
resumed chunk can skip the part that would have called `restore_state()`).

`LoopInv` is `Good` of the current state record. The two slots are free or hold
clients that are not paired (`Loose`), hold a client and a remote that connects
(`Joining`), or are a tunnel (`Tunnel`).

* `EventsSound`: at most one event of a batch belongs to a slot, and an event of a
  deleted eval finds the stamp `mod_iter` left on it (`Events`). That a handler never
  lacks its pair follows from the phases, that no timer resets a live connection from
  `TimerHolds`: the timer of the remote is armed only while the client's chunk is
  held. A client that ends before the tunnel is up needs a conjunct of its own
  (`EarlyEnd`): nothing is read before the event that reports it.
* The streams: bytes received, queued in the kernel, held and unread are
  consecutive and add up to what was sent (`Flow`); `Final` is what is left of
  this when both evals are deleted. `Account` keeps `round_sent` within the bytes
  that were read.
* `desync()`: `Parts` and `PartDone` say how far a chunk of the first round can be
  when it is held: not past the position of the parts, unless there is none, and,
  until bytes are lost, past every part `part_sent` names. So a resumed chunk skips
  exactly what was sent (`PartsIdle`, `PartsLive`).
* `WakeupPending` is `Wakes`: a held chunk has the `POLLOUT` of its destination, or a
  timer if it has waited. `TtlRestored` is the second conjunct of `Parts`.

Sockets, parts and state records each have lemmas that say what an operation
returns (`AddIs`, `DelPair`, `FlushKeepsIs`, ...); a send is described once (`After`)
and used by the flush and the reading loop; each action has a lemma that it keeps
`LoopInv` (`SkipKeeps`, `AppSendsKeeps`, ...).

### Only model-checked

The liveness properties (`StopReturns`, `StopCompletes`, `ClientReleased`), which
need fairness and ENABLED. The four runs that end in a violation are
counterexamples and have nothing to prove.

## Not modelled

* tun2socks: UDP (`SocksUdpClient`, udpgw), the packet queues of the device, and
  the descriptor table in which `dup_fd` leaks. Refused data and retransmission
  inside lwIP: the segments of `TcpClient` are those lwIP accepts in order, and
  `WindowAccounted` shows that the client never refuses one.
* ciadpi: UDP ASSOCIATE with `desync_udp()`, `tamp()` (TLS record split, HTTP
  modification), the contents of fake packets and the out-of-band byte itself.
  `init_params()` builds a single desync group, so the reconnect with the next
  group, its triggers and the address cache of `mpool.c` never act. The pool is at
  its limit with one pair; failures of `epoll_ctl()` are left out, among them the
  one of `create_conn()` (`proxy.c:448`) that leaves a remote without its pair, and of
  the calls around a send: `setup_conn()` and `cancel_setup()` (`extend.c:538-541`,
  `580-586`) and `buff_pop()` (`proxy.c:656`). Every error of
  the remote ends the pair with a reset: those other than the four `handle_err()` names
  (`extend.c:520-528`), which close it without `SO_LINGER`, are taken for one of them.
  A position is an offset from the start, the host or the middle: `parse_pos_string()`
  (`ciadpi_jni.c:319-339`) can also give `OFFSET_RAND` and `OFFSET_END`
  (`desync.c:326-334`), for which none of the built-in presets asks.
* Kotlin path: host names that are IP addresses, DNS over TCP, IPv6 extension
  headers, packets shorter than their headers (forwarded as they are, so a datagram
  for port 53 with a cut UDP header leaves with interception on), TCP flags
  (both segments of a split get the original's).
* Crash log: a write that is cut short (it counts as refused), loss of unsynced data
  in a power failure, two Java crashes at once,
  and processes that Android starts without the activity, which install no
  handlers.
* The configuration strings passed to JNI, notifications, the memory watch, the
  list of applications, the screens of the activity, and all HTTP requests.
* Vendored code beyond what a client of it can observe: lwIP's IP, IPv6, memory
  and timer code, badvpn's reactor and flow interfaces, its other programs, and
  generated parsers. This is nearly all of the repository's 108,000 lines, most of
  it never compiled into the application; the modules cover the application's own
  code and the parts of badvpn, lwIP and byedpi it depends on, a few thousand
  lines.

## Plan

1. UDP through tun2socks and ciadpi.
2. Theorems: the weaker statements that hold after the races the properties exclude
   by name.
