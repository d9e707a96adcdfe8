----------------------------- MODULE Connection -----------------------------
(***************************************************************************)
(* The life of a Connection (connection.go): setupConnection with its      *)
(* handshake, the goroutines that forward errors of the muxer and of the   *)
(* mini-protocols, and the shutdown that Close or an error starts.         *)
(*                                                                         *)
(* The muxer is whether it has stopped and the error it reported; a        *)
(* mini-protocol instance is how far it has come and whether a peer that   *)
(* closes now leaves it unfinished.  Which protocols a mode and a version  *)
(* enable is the set Names; every one has a client and a server.  An       *)
(* application calls Close only once setup waits for the handshake.        *)
(***************************************************************************)
EXTENDS Integers, Sequences, FiniteSets

CONSTANTS
    Names,      \* the mini-protocols the connection runs
    Closers,    \* application goroutines that call Close
    Configs,    \* the options a connection may have been made with
    ErrorCap,   \* capacity of the consumer's error channel
    MaxErrors   \* bound: errors the mini-protocols report

ASSUME ConnectionAssumption ==
    /\ ErrorCap \in Nat \ {0}
    /\ MaxErrors \in Nat
    /\ IsFiniteSet(Names)
    /\ \A c \in Configs :
         {c.server, c.duplex, c.query, c.delayProtocols, c.delayMuxer, c.owns}
             \subseteq BOOLEAN

Handshake == <<"handshake", "own">>
Clients == Names \X {"client"}
Servers == Names \X {"server"}
Instances == {Handshake} \cup Clients \cup Servers

VARIABLES
    cfg,        \* the connection's options; duplex: both sides agreed on it
    setup,      \* where setupConnection is, and what it returned
    todo,       \* the instances its current loop has still to serve
    doneChan,   \* Connection.doneChan is closed
    closed,     \* connClosedChan is closed
    finished,   \* handshakeFinishedChan is closed
    proto,      \* how far each protocol instance has come
    busy,       \* instances neither in their initial nor in a terminal state
    ready,      \* protocolsReady
    locked,     \* setupConnection holds protocolMu
    muxer,      \* whether it stopped, was started, and its pending error
    protoErrors,\* errors in protoErrorChan
    reported,   \* history: errors the mini-protocols have reported
    muxForward, \* the goroutine that forwards muxer errors
    protoForward, \* the one that forwards mini-protocol errors
    errorChan,  \* the consumer's channel: errors in it, whether closed
    shutdown,   \* the shutdown goroutine, and the instances it will stop
    closer,     \* what each application goroutine is doing
    silent      \* history: an error was suppressed, all protocols being idle

setupVars == <<cfg, setup, todo, ready, locked>>
errorVars == <<protoErrors, reported, errorChan, silent>>
vars == <<setupVars, errorVars, doneChan, closed, finished, proto, busy, muxer,
          muxForward, protoForward, shutdown, closer>>

Init ==
    /\ cfg \in Configs
    /\ setup = "muxer"
    /\ todo = {}
    /\ doneChan = FALSE
    /\ closed = FALSE
    /\ finished = FALSE
    /\ proto = [x \in Instances |-> "none"]
    /\ busy = {}
    /\ ready = FALSE
    /\ locked = FALSE
    /\ muxer = [stopped |-> FALSE, started |-> FALSE, error |-> "none"]
    /\ protoErrors = 0
    /\ reported = 0
    /\ muxForward = "none"
    /\ protoForward = "none"
    /\ errorChan = [sent |-> 0, closed |-> FALSE]
    /\ shutdown = [pc |-> "wait", stop |-> {}]
    /\ closer = [c \in Closers |-> "idle"]
    /\ silent = FALSE

-----------------------------------------------------------------------------
(* setupConnection *)

\* The shutdown goroutine, the muxer, the goroutine for its errors and the
\* handshake, then StartOnce.
SetupMuxer ==
    /\ setup = "muxer"
    /\ muxForward' = "select"
    /\ proto' = [proto EXCEPT ![Handshake] = "started"]
    /\ busy' = {Handshake}
    /\ setup' = "handshake"
    /\ UNCHANGED <<cfg, todo, ready, locked, errorVars, doneChan, closed, finished,
                   muxer, protoForward, shutdown, closer>>

setupUnchanged ==
    UNCHANGED <<cfg, reported, errorChan, silent, closed, finished, busy, muxForward,
                shutdown, closer>>

\* The wait for the handshake, with doneChan closed.
HandshakeAborted ==
    /\ setup = "handshake"
    /\ doneChan
    /\ setup' = "failed"
    /\ UNCHANGED <<todo, ready, locked, protoErrors, doneChan, proto, muxer, protoForward>>
    /\ setupUnchanged

\* A protocol error, or the handshake timer: the connection is closed.
HandshakeFailed ==
    /\ setup = "handshake"
    /\ protoErrors > 0
    /\ protoErrors' = protoErrors - 1
    /\ doneChan' = TRUE
    /\ setup' = "closing"
    /\ UNCHANGED <<todo, ready, locked, proto, muxer, protoForward>>
    /\ setupUnchanged

\* Mutant: the timer waits for a shutdown it did not request.
BugTimeoutOnlyWaits ==
    /\ setup = "handshake"
    /\ setup' = "closing"
    /\ UNCHANGED <<todo, ready, locked, doneChan, protoErrors, proto, muxer, protoForward>>
    /\ setupUnchanged

HandshakeTimeout ==
    /\ setup = "handshake"
    /\ doneChan' = TRUE
    /\ setup' = "closing"
    /\ UNCHANGED <<todo, ready, locked, protoErrors, proto, muxer, protoForward>>
    /\ setupUnchanged

\* Close waits for connClosedChan before setupConnection returns.
SetupClosed ==
    /\ setup = "closing"
    /\ closed
    /\ setup' = "failed"
    /\ UNCHANGED <<todo, ready, locked, protoErrors, doneChan, proto, muxer, protoForward>>
    /\ setupUnchanged

HandshakeDone ==
    /\ setup = "handshake"
    /\ finished
    /\ setup' = IF cfg.query THEN "ok" ELSE "errors"
    /\ UNCHANGED <<todo, ready, locked, protoErrors, doneChan, proto, muxer, protoForward>>
    /\ setupUnchanged

SetupErrors ==
    /\ setup = "errors"
    /\ protoForward' = "select"
    /\ setup' = "lock"
    /\ UNCHANGED <<todo, ready, locked, protoErrors, doneChan, proto, muxer>>
    /\ setupUnchanged

\* Mutant: setup goes on whatever happened since the handshake.
BugSetupUnaware == FALSE

\* Under protocolMu, lockProtocolSetup finds the connection shutting down.
ShuttingDown == doneChan

SetupRefused ==
    /\ setup = "lock"
    /\ ShuttingDown
    /\ setup' = "failed"
    /\ UNCHANGED <<todo, ready, locked, protoErrors, doneChan, proto, muxer, protoForward>>
    /\ setupUnchanged

SetupLock ==
    /\ setup = "lock"
    /\ ~ShuttingDown
    /\ locked' = TRUE
    /\ setup' = "construct"
    /\ UNCHANGED <<todo, ready, protoErrors, doneChan, proto, muxer, protoForward>>
    /\ setupUnchanged

\* The servers and the clients this side runs.
RunsServers == cfg.duplex \/ cfg.server
RunsClients == cfg.duplex \/ ~cfg.server
Running ==
    (IF RunsClients THEN Clients ELSE {}) \cup (IF RunsServers THEN Servers ELSE {})

\* Mutant: servers whose start is delayed are registered when they start.
BugRegisterAtStart == IF RunsServers /\ ~cfg.delayProtocols THEN Servers ELSE {}

\* Servers are registered before the muxer may read on.
EarlyRegistrations == IF RunsServers THEN Servers ELSE {}

SetupConstruct ==
    /\ setup = "construct"
    /\ proto' = [x \in Instances |-> IF x = Handshake THEN proto[x] ELSE "made"]
    /\ ready' = TRUE
    /\ locked' = FALSE
    /\ todo' = EarlyRegistrations
    /\ setup' = "register"
    /\ UNCHANGED <<protoErrors, doneChan, muxer, protoForward>>
    /\ setupUnchanged

\* EnsureRegistered, unless the instance was stopped meanwhile.  A muxer
\* that is stopping registers nothing.
SetupRegister(x) ==
    /\ setup = "register"
    /\ x \in todo
    /\ todo' = todo \ {x}
    /\ proto' = IF proto[x] = "made" /\ ~muxer.stopped
                THEN [proto EXCEPT ![x] = "registered"] ELSE proto
    /\ UNCHANGED <<setup, ready, locked, protoErrors, doneChan, muxer, protoForward>>
    /\ setupUnchanged

SetupRegistered ==
    /\ setup = "register"
    /\ todo = {}
    /\ todo' = IF cfg.delayProtocols THEN {} ELSE Running
    /\ setup' = "start"
    /\ UNCHANGED <<ready, locked, protoErrors, doneChan, proto, muxer, protoForward>>
    /\ setupUnchanged

\* Protocol.Start, which registers an instance that is not registered yet.
\* One that cannot register with the muxer reports an error and stops.
StartInstance(x) ==
    \/ proto[x] \in {"started", "stopped"} /\ UNCHANGED <<proto, protoErrors>>
    \/ /\ proto[x] = "made" /\ muxer.stopped
       /\ proto' = [proto EXCEPT ![x] = "stopped"]
       /\ protoErrors' = protoErrors + 1
    \/ /\ proto[x] = "registered" \/ (proto[x] = "made" /\ ~muxer.stopped)
       /\ proto' = [proto EXCEPT ![x] = "started"]
       /\ UNCHANGED protoErrors

SetupStart(x) ==
    /\ setup = "start"
    /\ x \in todo
    /\ todo' = todo \ {x}
    /\ StartInstance(x)
    /\ UNCHANGED <<setup, ready, locked, doneChan, muxer, protoForward>>
    /\ setupUnchanged

\* SetDiffusionMode and, unless it is left to the application, Start.
SetupStarted ==
    /\ setup = "start"
    /\ todo = {}
    /\ muxer' = [muxer EXCEPT !.started = ~cfg.delayMuxer]
    /\ setup' = "ok"
    /\ UNCHANGED <<todo, ready, locked, protoErrors, doneChan, proto, protoForward>>
    /\ setupUnchanged

-----------------------------------------------------------------------------
(* The muxer and the mini-protocols, as the connection sees them *)

worldUnchanged ==
    UNCHANGED <<setupVars, errorChan, silent, doneChan, closed, muxForward,
                protoForward, shutdown, closer>>

\* FinishedFunc of the handshake, also of one that is being stopped.
HandshakeFinishes ==
    /\ Handshake \in busy
    /\ ~finished
    /\ finished' = TRUE
    /\ UNCHANGED <<protoErrors, reported, proto, busy, muxer>>
    /\ worldUnchanged

\* An instance leaves its initial state, or reaches it or a final one again.
ProtoWorks(x) ==
    /\ proto[x] = "started"
    /\ x # Handshake
    /\ busy' = busy \cup {x}
    /\ UNCHANGED <<protoErrors, reported, proto, finished, muxer>>
    /\ worldUnchanged

ProtoSettles(x) ==
    /\ x \in busy
    /\ x = Handshake => finished \/ proto[x] = "stopped"
    /\ busy' = busy \ {x}
    /\ UNCHANGED <<protoErrors, reported, proto, finished, muxer>>
    /\ worldUnchanged

\* SendError: the error is reported and the instance stopped.
ProtoFails(x) ==
    /\ proto[x] = "started"
    /\ reported < MaxErrors
    /\ reported' = reported + 1
    /\ protoErrors' = protoErrors + 1
    /\ proto' = [proto EXCEPT ![x] = "stopped"]
    /\ UNCHANGED <<busy, finished, muxer>>
    /\ worldUnchanged

\* The muxer stops with an error: the peer closed, or something else.
MuxerFails(kind) ==
    /\ setup # "muxer"
    /\ ~muxer.stopped
    /\ muxer' = [muxer EXCEPT !.stopped = TRUE, !.error = kind]
    /\ UNCHANGED <<protoErrors, reported, proto, busy, finished>>
    /\ worldUnchanged

\* WithDelayProtocolStart and WithDelayMuxerStart leave these to the
\* application.
AppStartsProtocol(x) ==
    /\ setup = "ok" /\ cfg.delayProtocols /\ ~cfg.query
    /\ x \in Running
    /\ StartInstance(x)
    /\ UNCHANGED <<reported, busy, finished, muxer>>
    /\ worldUnchanged

AppStartsMuxer ==
    /\ setup = "ok" /\ cfg.delayMuxer /\ ~cfg.query
    /\ muxer' = [muxer EXCEPT !.started = TRUE]
    /\ UNCHANGED <<protoErrors, reported, proto, busy, finished>>
    /\ worldUnchanged

-----------------------------------------------------------------------------
(* The goroutines that forward errors *)

forwardUnchanged ==
    UNCHANGED <<setupVars, reported, closed, finished, proto, busy, muxer, shutdown,
                closer>>

\* Mutant: an error is sent to a channel that has no room for it.
BugForwardUnbounded ==
    \/ /\ ~errorChan.closed
       /\ errorChan' = [errorChan EXCEPT !.sent = @ + 1]
    \/ doneChan /\ UNCHANGED errorChan

\* forwardError: a send that does not wait.
ForwardError ==
    \/ /\ errorChan.sent < ErrorCap /\ ~errorChan.closed
       /\ errorChan' = [errorChan EXCEPT !.sent = @ + 1]
    \/ /\ doneChan \/ errorChan.sent = ErrorCap
       /\ UNCHANGED errorChan

MuxForwardLeave ==
    /\ muxForward = "select"
    /\ doneChan \/ (muxer.stopped /\ muxer.error = "none")
    /\ muxForward' = "gone"
    /\ UNCHANGED <<protoErrors, errorChan, silent, doneChan, protoForward>>
    /\ forwardUnchanged

\* Mutant: the shutdown is requested before the error is forwarded.
BugCloseFirst ==
    /\ muxForward = "select"
    /\ muxer.error # "none"
    /\ muxForward' = "got"
    /\ doneChan' = TRUE
    /\ UNCHANGED <<protoErrors, errorChan, silent, protoForward>>
    /\ forwardUnchanged

MuxForwardGet ==
    /\ muxForward = "select"
    /\ muxer.error # "none"
    /\ muxForward' = "got"
    /\ UNCHANGED <<protoErrors, errorChan, silent, doneChan, protoForward>>
    /\ forwardUnchanged

\* allProtocolsIdle, which needs protocolMu.
AllProtocolsIdle == ready /\ busy = {}

\* Mutant: a suppressed error leaves the connection open.
BugSuppressAndStay ==
    /\ muxForward = "got"
    /\ ~locked
    /\ muxer.error = "closed" /\ AllProtocolsIdle
    /\ silent' = TRUE
    /\ muxForward' = "gone"
    /\ UNCHANGED <<protoErrors, errorChan, doneChan, protoForward>>
    /\ forwardUnchanged

\* The peer closed when every protocol had ended.
MuxForwardSuppress ==
    /\ muxForward = "got"
    /\ ~locked
    /\ muxer.error = "closed" /\ AllProtocolsIdle
    /\ silent' = TRUE
    /\ doneChan' = TRUE
    /\ muxForward' = "gone"
    /\ UNCHANGED <<protoErrors, errorChan, protoForward>>
    /\ forwardUnchanged

MuxForwardSend ==
    /\ muxForward = "got"
    /\ muxer.error = "closed" => ~locked /\ ~AllProtocolsIdle
    /\ ForwardError
    /\ muxForward' = "close"
    /\ UNCHANGED <<protoErrors, silent, doneChan, protoForward>>
    /\ forwardUnchanged

\* Mutant: the goroutine calls Close, and waits for its own end.
BugForwarderWaits ==
    /\ muxForward = "close"
    /\ doneChan' = TRUE
    /\ muxForward' = IF closed THEN "gone" ELSE "close"
    /\ UNCHANGED <<protoErrors, errorChan, silent, protoForward>>
    /\ forwardUnchanged

\* requestClose.
MuxForwardClose ==
    /\ muxForward = "close"
    /\ doneChan' = TRUE
    /\ muxForward' = "gone"
    /\ UNCHANGED <<protoErrors, errorChan, silent, protoForward>>
    /\ forwardUnchanged

ProtoForwardLeave ==
    /\ protoForward = "select"
    /\ doneChan
    /\ protoForward' = "gone"
    /\ UNCHANGED <<protoErrors, errorChan, silent, doneChan, muxForward>>
    /\ forwardUnchanged

ProtoForwardGet ==
    /\ protoForward = "select"
    /\ protoErrors > 0
    /\ protoErrors' = protoErrors - 1
    /\ protoForward' = "got"
    /\ UNCHANGED <<errorChan, silent, doneChan, muxForward>>
    /\ forwardUnchanged

ProtoForwardSend ==
    /\ protoForward = "got"
    /\ ForwardError
    /\ protoForward' = "close"
    /\ UNCHANGED <<protoErrors, silent, doneChan, muxForward>>
    /\ forwardUnchanged

\* Mutant: a mini-protocol error is only forwarded.
BugForwardOnly ==
    /\ protoForward = "close"
    /\ protoForward' = "gone"
    /\ UNCHANGED <<protoErrors, errorChan, silent, doneChan, muxForward>>
    /\ forwardUnchanged

ProtoForwardClose ==
    /\ protoForward = "close"
    /\ doneChan' = TRUE
    /\ protoForward' = "gone"
    /\ UNCHANGED <<protoErrors, errorChan, silent, muxForward>>
    /\ forwardUnchanged

-----------------------------------------------------------------------------
(* Shutdown *)

downUnchanged ==
    UNCHANGED <<setupVars, protoErrors, reported, silent, finished, busy, muxForward,
                protoForward>>

\* stopProtocols takes protocolMu to read which instances there are.
ShutdownBegin ==
    /\ shutdown.pc = "wait"
    /\ doneChan
    /\ ~locked
    /\ shutdown' = [pc |-> "stop", stop |-> {x \in Instances : proto[x] # "none"}]
    /\ UNCHANGED <<errorChan, doneChan, closed, proto, muxer, closer>>
    /\ downUnchanged

ShutdownStop(x) ==
    /\ shutdown.pc = "stop"
    /\ x \in shutdown.stop
    /\ proto' = [proto EXCEPT ![x] = "stopped"]
    /\ shutdown' = [shutdown EXCEPT !.stop = @ \ {x}]
    /\ UNCHANGED <<errorChan, doneChan, closed, muxer, closer>>
    /\ downUnchanged

ShutdownMuxer ==
    /\ shutdown.pc = "stop"
    /\ shutdown.stop = {}
    /\ muxer' = [muxer EXCEPT !.stopped = TRUE]
    /\ shutdown' = [shutdown EXCEPT !.pc = "waitGroup"]
    /\ UNCHANGED <<errorChan, doneChan, closed, proto, closer>>
    /\ downUnchanged

ShutdownWait ==
    /\ shutdown.pc = "waitGroup"
    /\ {muxForward, protoForward} \subseteq {"none", "gone"}
    /\ shutdown' = [shutdown EXCEPT !.pc = "close"]
    /\ UNCHANGED <<errorChan, doneChan, closed, proto, muxer, closer>>
    /\ downUnchanged

ShutdownClose ==
    /\ shutdown.pc = "close"
    /\ errorChan' = [errorChan EXCEPT !.closed = cfg.owns]
    /\ closed' = TRUE
    /\ shutdown' = [shutdown EXCEPT !.pc = "end"]
    /\ UNCHANGED <<doneChan, proto, muxer, closer>>
    /\ downUnchanged

\* Close: requestClose, then the wait for connClosedChan.
CloseCall(c) ==
    /\ closer[c] = "idle"
    /\ setup # "muxer"
    /\ doneChan' = TRUE
    /\ closer' = [closer EXCEPT ![c] = "waiting"]
    /\ UNCHANGED <<errorChan, closed, proto, muxer, shutdown>>
    /\ downUnchanged

CloseReturn(c) ==
    /\ closer[c] = "waiting"
    /\ closed
    /\ closer' = [closer EXCEPT ![c] = "returned"]
    /\ UNCHANGED <<errorChan, doneChan, closed, proto, muxer, shutdown>>
    /\ downUnchanged

-----------------------------------------------------------------------------
SetupNext ==
    \/ SetupMuxer \/ HandshakeAborted \/ HandshakeFailed \/ HandshakeTimeout
    \/ SetupClosed \/ HandshakeDone \/ SetupErrors \/ SetupRefused \/ SetupLock
    \/ SetupConstruct \/ SetupRegistered \/ SetupStarted
    \/ \E x \in Instances : SetupRegister(x) \/ SetupStart(x)

WorldNext ==
    \/ HandshakeFinishes
    \/ \E x \in Instances : ProtoWorks(x) \/ ProtoSettles(x) \/ ProtoFails(x)
                              \/ AppStartsProtocol(x)
    \/ AppStartsMuxer
    \/ \E kind \in {"closed", "other"} : MuxerFails(kind)
    \/ \E c \in Closers : CloseCall(c)

ForwardNext ==
    \/ MuxForwardLeave \/ MuxForwardGet \/ MuxForwardSuppress \/ MuxForwardSend
    \/ MuxForwardClose
    \/ ProtoForwardLeave \/ ProtoForwardGet \/ ProtoForwardSend \/ ProtoForwardClose

ShutdownNext ==
    \/ ShutdownBegin \/ ShutdownMuxer \/ ShutdownWait \/ ShutdownClose
    \/ \E x \in Instances : ShutdownStop(x)
    \/ \E c \in Closers : CloseReturn(c)

Program == SetupNext \/ ForwardNext \/ ShutdownNext

\* The connection has shut down and nobody waits for it.
Ended ==
    /\ closed
    /\ setup \in {"ok", "failed"}
    /\ UNCHANGED vars

Next == Program \/ WorldNext \/ Ended

Spec == Init /\ [][Next]_vars

\* Goroutines run and the handshake timer fires.  Nothing obliges the peer,
\* the muxer, the mini-protocols or the application to act.
FairSpec == Spec /\ WF_vars(Program)

-----------------------------------------------------------------------------
(* Properties *)

\* Type invariant; the errors sent fit the consumer's channel.
TypeOK ==
    /\ setup \in {"muxer", "handshake", "closing", "errors", "lock", "construct",
                  "register", "start", "ok", "failed"}
    /\ todo \subseteq Instances
    /\ {doneChan, closed, finished, ready, locked, silent} \subseteq BOOLEAN
    /\ proto \in [Instances -> {"none", "made", "registered", "started", "stopped"}]
    /\ busy \subseteq Instances
    /\ muxer \in [stopped : BOOLEAN, started : BOOLEAN, error : {"none", "closed", "other"}]
    /\ protoErrors \in 0..(MaxErrors + Cardinality(Instances))
    /\ {muxForward, protoForward} \subseteq {"none", "select", "got", "close", "gone"}
    /\ errorChan.sent \in 0..ErrorCap
    /\ shutdown.pc \in {"wait", "stop", "waitGroup", "close", "end"}
    /\ closer \in [Closers -> {"idle", "waiting", "returned"}]

\* Once the connection is closed no mini-protocol runs, whenever the
\* shutdown overtook setupConnection: the check under protocolMu.
ClosedMeansStopped ==
    closed => muxer.stopped /\ \A x \in Instances : proto[x] \in {"none", "stopped"}

\* The muxer reads on only when every server this side runs is registered,
\* so that a peer's first message finds its receiver, even when the
\* application starts the protocols later.
ServersRegisteredFirst ==
    (muxer.started /\ RunsServers /\ ~doneChan /\ ~muxer.stopped) =>
        \A x \in Servers : proto[x] \in {"registered", "started", "stopped"}

\* A connection that closes by itself tells its consumer why, unless the
\* peer closed it with every protocol idle, or setup returned the error.
NoSilentClose ==
    (closed /\ setup = "ok" /\ \A c \in Closers : closer[c] = "idle") =>
        errorChan.sent > 0 \/ silent

\* Once Close may return, no goroutine of the connection is about to send on
\* the error channel, which its owner may then close: "Wait until all
\* connection-owned goroutines have stopped. After this returns, a caller may
\* safely close a channel supplied with WithErrorChan."
NoSendAfterClose ==
    closed => "got" \notin {muxForward, protoForward}

\* A connection gets closed that has started to shut down, whose muxer failed,
\* or a mini-protocol of which failed after the setup, unless it was made for a
\* query: no error leaves it up, and no goroutine the shutdown waits for waits
\* for the shutdown.
Ending ==
    \/ doneChan
    \/ muxer.error # "none"
    \/ protoErrors > 0 /\ setup = "ok" /\ ~cfg.query

EndsClosed == Ending ~> closed

\* setupConnection returns, whatever the peer does.
SetupReturns == <>(setup \in {"ok", "failed"})

\* A setup puts things up in order: the types, and the servers before the
\* muxer reads on.
SetupInOrder == TypeOK /\ ServersRegisteredFirst

\* A connection that is closed has stopped everything and said why.
ClosedCleanly == ClosedMeansStopped /\ NoSilentClose

=============================================================================
