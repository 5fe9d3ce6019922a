---------------------------- MODULE ProtectBridge ----------------------------
(***************************************************************************)
(* The bridge by which ciadpi, in C, has VpnService.protect() called for   *)
(* its outbound sockets: protect() in byedpi/extend.c is the client,       *)
(* ProtectSocketServer the server (an accept thread and a fixed pool).     *)
(*                                                                         *)
(* ciadpi is one event loop, so requests are made one after another.  By   *)
(* ProxyEngine (BridgeServed) they are made only while the server is up,   *)
(* and start() and stop() do not overlap.                                  *)
(***************************************************************************)
EXTENDS Naturals, Sequences, FiniteSets

CONSTANTS
    MaxRequests,   \* bound: calls of protect()
    MaxStarts,     \* bound: times the server is started
    PoolSize       \* threads of the pool, 32 in the code

ASSUME BoundsAssumption ==
    MaxRequests \in Nat /\ MaxStarts \in Nat /\ PoolSize \in Nat \ {0}

Request == 1..MaxRequests
Server  == 1..MaxStarts     \* a listener, its accept thread and its pool
None    == 0

VARIABLES
    running, executor,   \* fields of ProtectSocketServer; a pool or None
    ctl,                 \* where the thread in start() or stop() is
    started,             \* the server started last: its listener has the path
    open,                \* servers whose listening descriptor is open
    shut,                \* pools that were shut down
    backlog,             \* [Server -> connections not yet accepted]
    accept, client,      \* [Server -> where its thread is, what it accepted]
    handler,             \* [Request -> where handleClient() is]
    pool,                \* [Request -> the pool that runs it]
    verdict,             \* [Request -> what VpnService.protect() returned,
                         \*  "skip" when it was not called]
    copies,              \* received descriptors the process still holds
    cur, conn,           \* the request of the C side, and where protect() is
    sent, reply,         \* the byte with the descriptor; the answer byte
    result,              \* [Request -> what protect() returned]
    broken,              \* history: accept() failed on an open listener
    crashed              \* an uncaught exception has ended the process

serverVars == <<running, executor, ctl, started, open, shut>>
acceptVars == <<backlog, accept, client, broken, crashed>>
handleVars == <<handler, pool, verdict, copies>>
clientVars == <<cur, conn, sent, result>>
vars == <<serverVars, acceptVars, handleVars, clientVars, reply>>

Init ==
    /\ running = FALSE /\ executor = None /\ ctl = "idle"
    /\ started = 0 /\ open = {} /\ shut = {}
    /\ backlog = [g \in Server |-> <<>>]
    /\ accept = [g \in Server |-> "none"]
    /\ client = [g \in Server |-> None]
    /\ handler = [q \in Request |-> "none"]
    /\ pool = [q \in Request |-> None]
    /\ verdict = [q \in Request |-> "none"]
    /\ copies = {}
    /\ cur = 0 /\ conn = "idle" /\ sent = {}
    /\ reply = [q \in Request |-> "none"]
    /\ result = [q \in Request |-> "none"]
    /\ broken = FALSE /\ crashed = FALSE

-----------------------------------------------------------------------------
(* ProtectSocketServer.start() and stop().                                 *)

\* A dead process does nothing more.
Control(from, to) == ~crashed /\ ctl = from /\ ctl' = to

\* The path is deleted and bound again, the pool is made.  A start() of a
\* running server, or one that fails here and undoes itself, changes nothing.
StartBind ==
    /\ Control("idle", "run")
    /\ ~running /\ started < MaxStarts
    /\ started' = started + 1
    /\ open' = open \cup {started'}
    /\ executor' = started'
    /\ UNCHANGED <<running, shut, acceptVars, handleVars, clientVars, reply>>

\* running = true; acceptThread starts.
StartRun ==
    /\ Control("run", "idle")
    /\ running' = TRUE
    /\ accept' = [accept EXCEPT ![started] = "loop"]
    /\ UNCHANGED <<executor, started, open, shut, backlog, client, broken,
                   crashed, handleVars, clientVars, reply>>

\* (mutant) ProxyEngine.stop() takes the server down before ciadpi
StopFlagEarly ==
    /\ Control("idle", "close")
    /\ running
    /\ running' = FALSE
    /\ UNCHANGED <<executor, started, open, shut, acceptVars, handleVars,
                   clientVars, reply>>

\* (mutant) running is not reset
StopFlagKept ==
    /\ Control("idle", "close")
    /\ running /\ conn = "idle"
    /\ UNCHANGED <<running, executor, started, open, shut, acceptVars,
                   handleVars, clientVars, reply>>

\* stop(), by ProxyEngine.stop() when ciadpi has been joined.
StopFlag ==
    /\ Control("idle", "close")
    /\ running /\ conn = "idle"
    /\ running' = FALSE
    /\ UNCHANGED <<executor, started, open, shut, acceptVars, handleVars,
                   clientVars, reply>>

\* (mutant) the fields are cleared before the pool is shut down
StopCloseNulls ==
    /\ Control("close", "shutdown")
    /\ open' = open \ {started}
    /\ executor' = None
    /\ UNCHANGED <<running, started, shut, acceptVars, handleVars, clientVars,
                   reply>>

\* serverSocket and boundLocalSocket are closed.
StopClose ==
    /\ Control("close", "shutdown")
    /\ open' = open \ {started}
    /\ UNCHANGED <<running, executor, started, shut, acceptVars, handleVars,
                   clientVars, reply>>

\* executor?.shutdownNow() drops what is queued; a thread inside read() or a
\* Binder call does not notice the interrupt.
StopShutdown ==
    /\ Control("shutdown", "null")
    /\ shut' = shut \cup {executor}
    /\ handler' = [q \in Request |->
                     IF handler[q] = "queued" /\ pool[q] = executor
                       THEN "dropped" ELSE handler[q]]
    /\ UNCHANGED <<running, executor, started, open, acceptVars, pool, verdict,
                   copies, clientVars, reply>>

StopNull ==
    /\ Control("null", "idle")
    /\ executor' = None
    /\ UNCHANGED <<running, started, open, shut, acceptVars, handleVars,
                   clientVars, reply>>

-----------------------------------------------------------------------------
(* The accept thread of server g.                                          *)

Thread(g, from, to) ==
    ~crashed /\ accept[g] = from /\ accept' = [accept EXCEPT ![g] = to]

\* while (running) srv.accept(): a closed descriptor is an error, and ends it.
AcceptEnter(g) ==
    /\ Thread(g, "loop", IF running /\ g \in open THEN "accept" ELSE "dead")
    /\ UNCHANGED <<serverVars, backlog, client, broken, crashed, handleVars,
                   clientVars, reply>>

\* accept() returns a connection, even if the listener was closed meanwhile:
\* the call under way holds the socket (external).
AcceptTake(g) ==
    /\ backlog[g] # <<>>
    /\ Thread(g, "accept", "execute")
    /\ client' = [client EXCEPT ![g] = Head(backlog[g])]
    /\ backlog' = [backlog EXCEPT ![g] = Tail(@)]
    /\ UNCHANGED <<serverVars, broken, crashed, handleVars, clientVars, reply>>

\* accept() throws, because of the close or, while running, of an error such
\* as EMFILE: the loop ends either way, and running stays as it is.
AcceptThrows(g) ==
    /\ Thread(g, "accept", "dead")
    /\ broken' = (broken \/ g \in open)
    /\ UNCHANGED <<serverVars, backlog, client, crashed, handleVars, clientVars,
                   reply>>

\* executor?.execute { handleClient(client) }, with the field as it is now:
\* null skips the client, a pool that is shut down throws and nobody catches.
AcceptExecute(g) ==
    LET q == client[g] IN
    /\ Thread(g, "execute", IF executor \in shut THEN "dead" ELSE "loop")
    /\ client' = [client EXCEPT ![g] = None]
    /\ crashed' = (crashed \/ executor \in shut)
    /\ handler' = [handler EXCEPT ![q] =
                     IF executor \in shut \cup {None} THEN "dropped" ELSE "queued"]
    /\ pool' = [pool EXCEPT ![q] = executor]
    /\ UNCHANGED <<serverVars, backlog, broken, verdict, copies, clientVars,
                   reply>>

-----------------------------------------------------------------------------
(* handleClient() for request q, on a thread of the pool.                  *)

Busy(p) == {q \in Request : pool[q] = p
                            /\ handler[q] \in {"read", "protect", "answer", "close"}}

Handle(q, from, to) ==
    ~crashed /\ handler[q] = from /\ handler' = [handler EXCEPT ![q] = to]

Begin(q) ==
    /\ Handle(q, "queued", "read")
    /\ Cardinality(Busy(pool[q])) < PoolSize
    /\ UNCHANGED <<serverVars, acceptVars, pool, verdict, copies, clientVars,
                   reply>>

\* input.read() gets the byte and with it the descriptor.
Read(q) ==
    /\ q \in sent
    /\ Handle(q, "read", "protect")
    /\ copies' = copies \cup {q}
    /\ UNCHANGED <<serverVars, acceptVars, pool, verdict, clientVars, reply>>

\* The byte has come without a descriptor (no ancillary fd received, external:
\* the kernel drops it when the process has none to spare): write(0), return.
ReadNoFd(q) ==
    /\ q \in sent
    /\ Handle(q, "read", "answer")
    /\ verdict' = [verdict EXCEPT ![q] = "skip"]
    /\ UNCHANGED <<serverVars, acceptVars, pool, copies, clientVars, reply>>

\* input.read() finds the end of file: nothing is answered.
ReadEnd(q) ==
    /\ q \notin sent /\ result[q] # "none"
    /\ Handle(q, "read", "close")
    /\ UNCHANGED <<serverVars, acceptVars, pool, verdict, copies, clientVars,
                   reply>>

\* VpnService.protect() (external) returns, or throws, which counts as false;
\* it is not called when getInt$ is missing or fails (nativeFd = -1).
Protect(q) ==
    /\ Handle(q, "protect", "answer")
    /\ \E ok \in {"yes", "no", "skip"} : verdict' = [verdict EXCEPT ![q] = ok]
    /\ UNCHANGED <<serverVars, acceptVars, pool, copies, clientVars, reply>>

\* write(if (ok) 1 else 0), which throws when the C side has closed the
\* connection.
Answer(q) ==
    /\ Handle(q, "answer", "close")
    /\ reply' = [reply EXCEPT ![q] = IF result[q] # "none" THEN "none"
                                     ELSE IF verdict[q] = "yes" THEN "yes"
                                     ELSE "no"]
    /\ UNCHANGED <<serverVars, acceptVars, pool, verdict, copies, clientVars>>

\* socket.close().
Close(q) ==
    /\ Handle(q, "close", "done")
    /\ UNCHANGED <<serverVars, acceptVars, pool, verdict, copies, clientVars,
                   reply>>

-----------------------------------------------------------------------------
(* protect(conn_fd, path) in the event loop of ciadpi.                     *)

\* connect(): the path leads to the server started last.
Connect ==
    /\ ~crashed /\ conn = "idle" /\ ctl = "idle" /\ running /\ cur < MaxRequests
    /\ cur' = cur + 1
    /\ \/ /\ conn' = "send"
          /\ backlog' = [backlog EXCEPT ![started] = Append(@, cur')]
          /\ UNCHANGED result
       \/ /\ result' = [result EXCEPT ![cur'] = "failed"]
          /\ UNCHANGED <<conn, backlog>>
    /\ UNCHANGED <<serverVars, accept, client, broken, crashed, handleVars, sent,
                   reply>>

\* sendmsg() passes the descriptor, or fails and the connection is closed.
Send ==
    /\ ~crashed /\ conn = "send"
    /\ \/ /\ conn' = "recv"
          /\ sent' = sent \cup {cur}
          /\ UNCHANGED result
       \/ /\ conn' = "idle"
          /\ result' = [result EXCEPT ![cur] = "failed"]
          /\ UNCHANGED sent
    /\ UNCHANGED <<serverVars, acceptVars, handleVars, cur, reply>>

\* (mutant) the result of recv() is not looked at
RecvUnchecked ==
    /\ ~crashed /\ conn = "recv"
    /\ conn' = "idle"
    /\ result' = [result EXCEPT ![cur] = "used"]
    /\ UNCHANGED <<serverVars, acceptVars, handleVars, cur, sent, reply>>

\* recv() < 1 fails: the end of file or 150 ms without an answer.  Any byte
\* is taken for success, and socket_mod()'s caller goes on to connect().
Recv ==
    /\ ~crashed /\ conn = "recv"
    /\ conn' = "idle"
    /\ result' = [result EXCEPT ![cur] =
                    IF reply[cur] = "none" THEN "failed" ELSE "used"]
    /\ UNCHANGED <<serverVars, acceptVars, handleVars, cur, sent, reply>>

-----------------------------------------------------------------------------
ControlStep ==
    StartBind \/ StartRun \/ StopFlag \/ StopClose \/ StopShutdown \/ StopNull

AcceptStep(g) ==
    AcceptEnter(g) \/ AcceptTake(g) \/ AcceptThrows(g) \/ AcceptExecute(g)

HandlerStep(q) ==
    \/ Begin(q) \/ Read(q) \/ ReadNoFd(q) \/ ReadEnd(q)
    \/ Protect(q) \/ Answer(q) \/ Close(q)

Next ==
    \/ ControlStep
    \/ \E g \in Server : AcceptStep(g)
    \/ \E q \in Request : HandlerStep(q)
    \/ Connect \/ Send \/ Recv

Spec == Init /\ [][Next]_vars

-----------------------------------------------------------------------------
(* Properties.                                                             *)

\* The types of the fields of both sides.
TypeOK ==
    /\ running \in BOOLEAN /\ broken \in BOOLEAN /\ crashed \in BOOLEAN
    /\ executor \in Server \cup {None}
    /\ ctl \in {"idle", "run", "close", "shutdown", "null"}
    /\ started \in 0..MaxStarts
    /\ open \subseteq Server /\ shut \subseteq Server
    /\ backlog \in [Server -> Seq(Request)]
    /\ accept \in [Server -> {"none", "loop", "accept", "execute", "dead"}]
    /\ client \in [Server -> Request \cup {None}]
    /\ handler \in [Request -> {"none", "queued", "read", "protect", "answer",
                                "close", "done", "dropped"}]
    /\ pool \in [Request -> Server \cup {None}]
    /\ verdict \in [Request -> {"none", "yes", "no", "skip"}]
    /\ copies \subseteq Request /\ sent \subseteq Request
    /\ cur \in 0..MaxRequests
    /\ conn \in {"idle", "send", "recv"}
    /\ reply \in [Request -> {"none", "yes", "no"}]
    /\ result \in [Request -> {"none", "used", "failed"}]

\* ciadpi connects a socket only after the server has dealt with that very
\* socket: VpnService.protect() was called on its copy and has returned, or the
\* server had no descriptor to call it with.  Neither the answer to a request
\* that timed out nor the closing of a connection by stop() is taken for it.
UsedAnswered ==
    \A q \in Request :
        result[q] = "used" =>
            /\ q \in sent
            /\ \/ verdict[q] \in {"yes", "no"} /\ q \in copies
               \/ verdict[q] = "skip"

\* execute() on a pool that is shut down, which ends the process, needs a
\* request the C side had given up: stop() comes after ciadpi has ended, so
\* a connection can be left between accept() and execute() only by a timeout.
CrashOnlyAfterTimeout ==
    crashed => \E q \in Request : result[q] = "failed" /\ handler[q] = "dropped"

\* A request finds every thread of the pool inside VpnService.protect() only
\* if as many earlier requests have timed out: the single event loop of ciadpi
\* never has two requests under way, whatever the number of its connections.
Stuck(p) == {q \in Busy(p) : handler[q] \in {"read", "protect", "answer"}}

QueueOnlyAfterTimeout ==
    \A q \in Request :
        handler[q] = "queued" /\ Cardinality(Stuck(pool[q])) = PoolSize
          => Cardinality({u \in Request : result[u] = "failed"}) >= PoolSize

\* While the server is up and no accept() has failed on an open listener, the
\* accept thread of the listener the path names is alive, whatever is left of
\* earlier servers: "running" is then a true answer to the next start().
ServesWhileRunning ==
    running /\ ctl = "idle" /\ ~broken /\ ~crashed
      => started \in open /\ accept[started] \in {"loop", "accept", "execute"}

-----------------------------------------------------------------------------
(* What the comment of ProtectSocketServer says.                           *)

\* Step 3 of the protocol: after VpnService.protect(fd) our copy of the
\* descriptor is closed.
CopiesClosed == \A q \in Request : handler[q] = "done" => q \notin copies

=============================================================================
