------------------------------ MODULE ChainSync ------------------------------
(***************************************************************************)
(* The chain-sync client (protocol/chainsync/client.go): its life cycle,   *)
(* its calls, the sync loop that keeps PipelineLimit requests in flight,   *)
(* and the message handler that the receive loop of the engine runs.       *)
(*                                                                         *)
(* busyMutex serialises whoever sends.  lifecycleMutex protects the fields *)
(* of the client and is held for one critical section at a time, so a      *)
(* section is one step here.  The one wait made inside a section is the    *)
(* handler's send on readyForNextBlockChan; SignalsFit shows it never      *)
(* waits.  An unlock and the section before it are one step.               *)
(*                                                                         *)
(* The server is the protocol's other side.  It answers requests in order; *)
(* the engine's queues and the wire are one queue in each direction.       *)
(***************************************************************************)
EXTENDS Integers, Sequences, FiniteSets, SequencesExt

CONSTANTS Users,     \* the goroutines that call the client
          Scenarios  \* name -> the configuration, what may go wrong, and the
                     \* names of the operations each user calls in turn

VARIABLES scenario,
          client,    \* the fields of Client
          proto,     \* its Protocol instance and the receive loop's handler
          loops,     \* every sync loop started, in order
          call,      \* where each user is in its current call
          server     \* the peer

vars == <<scenario, client, proto, loops, call, server>>

Here == Scenarios[scenario]

None == "none"

Client0 ==
    [life |-> "new", starter |-> None, fenced |-> FALSE, busy |-> None,
     ready |-> <<>>, readyOpen |-> TRUE, outstanding |-> 0, drainer |-> None,
     pipelined |-> 0, reserved |-> 0, stops |-> 0,
     wantFind |-> None, wantTip |-> None, wantFirst |-> None, listeners |-> {}]

\* initProtocol and the resets beside it in Start: a new instance and new channels
InitProtocol(c) ==
    [c EXCEPT !.fenced = FALSE, !.ready = <<>>, !.readyOpen = TRUE,
              !.wantFind = None, !.wantTip = None, !.wantFirst = None,
              !.listeners = {}, !.pipelined = 0, !.outstanding = 0, !.drainer = None]

Resting == [pc |-> "idle", msg |-> None, signal |-> TRUE]

Proto0 == [phase |-> "fresh", requests |-> <<>>, replies |-> <<>>, recv |-> Resting]

Call0(script) ==
    [todo |-> script, pc |-> "out", active |-> FALSE, loop |-> 0, before |-> 0,
     locked |-> FALSE, got |-> None, of |-> None, tip |-> FALSE, first |-> FALSE,
     worker |-> "off", hint |-> FALSE]

Init ==
    /\ scenario \in DOMAIN Scenarios
    /\ client = Client0
    /\ proto = Proto0
    /\ loops = <<>>
    /\ call = [u \in Users |-> Call0(Here.script[u])]
    /\ server = [awaiting |-> FALSE, ended |-> FALSE, blocks |-> Here.blocks]

-----------------------------------------------------------------------------
(* Helpers *)

Op(u) == IF call[u].todo = <<>> THEN None ELSE Head(call[u].todo)
At(u, op, pc) == Op(u) = op /\ call[u].pc = pc
Running == client.life = "running"
Usable == Running /\ client.readyOpen
Done == proto.phase = "done"
CanSend == proto.phase = "started"
Cancelled == Done \/ client.fenced
Alive(i) == loops[i].pc # "dead"
Stopping(i) == loops[i].stop

Send(kind, u) ==
    proto' = [proto EXCEPT !.requests = Append(@, [kind |-> kind, from |-> u])]

Goto(u, pc) == call' = [call EXCEPT ![u].pc = pc]

\* The call returns; endOperation if it had begun.
Return(u) == call' = [call EXCEPT ![u] = Call0(Tail(@.todo))]

\* The call returns and releases busyMutex.
Leave(u) == Return(u) /\ client' = [client EXCEPT !.busy = None]

\* requestNextAnswered: retire one request and wake a drain when none remain
RequestNextAnswered(c) ==
    LET n == IF c.outstanding > 0 THEN c.outstanding - 1 ELSE 0
    IN  [c EXCEPT !.outstanding = n, !.drainer = IF n = 0 THEN None ELSE @]

-----------------------------------------------------------------------------
(* Start *)

\* A user makes its next call.  A restart on the same connection is made only
\* after the server took MsgDone: that is what StopAfterDrain is for.
StartBegin(u) ==
    /\ At(u, "Start", "out")
    /\ \/ /\ Running
          /\ Return(u)
          /\ UNCHANGED client
       \/ /\ client.life \in {"new", "stopped"}
          /\ proto.phase = "done" => server.ended
          /\ Goto(u, IF client.life = "new" THEN "launch" ELSE "init")
          /\ client' = [client EXCEPT !.life = "starting", !.starter = u]
    /\ UNCHANGED <<scenario, proto, loops, server>>

\* The old instance is done by now unless it never ran; replace it.
StartInit(u) ==
    /\ At(u, "Start", "init")
    /\ proto.phase \in {"done", "fresh"}
    /\ IF client.life = "starting" /\ client.starter = u
       THEN /\ client' = InitProtocol(client)
            /\ proto' = Proto0
            /\ server' = [server EXCEPT !.awaiting = FALSE, !.ended = FALSE]
            /\ Goto(u, "launch")
       ELSE Return(u) /\ UNCHANGED <<client, proto, server>>
    /\ UNCHANGED <<scenario, loops>>

StartLaunch(u) ==
    /\ At(u, "Start", "launch")
    /\ IF client.life = "starting" /\ client.starter = u
       THEN /\ client' = [client EXCEPT !.life = "running", !.starter = None]
            /\ proto' = [proto EXCEPT !.phase = "started"]
       ELSE UNCHANGED <<client, proto>>
    /\ Return(u)
    /\ UNCHANGED <<scenario, loops, server>>

-----------------------------------------------------------------------------
(* Stop: stopRunning and finishStop, which StopAfterDrain shares *)

StopBegin(u) ==
    /\ At(u, "Stop", "out")
    /\ CASE client.life \in {"new", "stopped"} -> Return(u) /\ UNCHANGED client
         [] client.life = "starting" ->
              /\ client' = [client EXCEPT !.life = "stopped", !.fenced = TRUE,
                                          !.starter = None]
              /\ Return(u)
         [] client.life = "stopping" -> Goto(u, "stopWait") /\ UNCHANGED client
         [] client.life = "running" ->
              /\ client' = [client EXCEPT !.life = "stopping", !.fenced = TRUE]
              /\ Goto(u, "stopBusy")
    /\ UNCHANGED <<scenario, proto, loops, server>>

StopWait(u) ==
    /\ At(u, "Stop", "stopWait")
    /\ client.life # "stopping"
    /\ Return(u)
    /\ UNCHANGED <<scenario, client, proto, loops, server>>

\* TryLock until it succeeds or five seconds pass
StopBusy(u) ==
    /\ At(u, "Stop", "stopBusy")
    /\ IF client.busy = None
       THEN /\ client' = [client EXCEPT !.busy = u]
            /\ call' = [call EXCEPT ![u].pc = "sendDone", ![u].locked = TRUE]
       ELSE Goto(u, "sendDone") /\ UNCHANGED client
    /\ UNCHANGED <<scenario, proto, loops, server>>

SendDone(u) ==
    /\ call[u].pc = "sendDone"
    /\ IF CanSend THEN Send("Done", u) ELSE UNCHANGED proto
    /\ Goto(u, "doneWait")
    /\ UNCHANGED <<scenario, client, loops, server>>

\* MsgDone was written, or could not be, or its time is up.
\* busyMutex and StopAfterDrain's own operation are released.
DoneWaitOver(u) ==
    /\ call[u].pc = "doneWait"
    /\ client' = [client EXCEPT !.busy = IF call[u].locked THEN None ELSE @]
    /\ call' = [call EXCEPT ![u].pc = "closeReady", ![u].active = FALSE]
    /\ UNCHANGED <<scenario, proto, loops, server>>

\* Closing the channel tells the sync loop to exit; then Protocol.Stop.
CloseReady(u) ==
    /\ call[u].pc = "closeReady"
    /\ client' = [client EXCEPT !.readyOpen = FALSE]
    /\ Goto(u, "stopProto")
    /\ UNCHANGED <<scenario, proto, loops, server>>

StopProto(u) ==
    /\ call[u].pc = "stopProto"
    /\ proto' = [proto EXCEPT !.phase = IF Done THEN @ ELSE "stopped"]
    /\ Goto(u, "join")
    /\ UNCHANGED <<scenario, client, loops, server>>

LoopsJoined == client.reserved = 0 /\ \A i \in DOMAIN loops : ~Alive(i)
OperationsDrained == \A v \in Users : ~call[v].active

BugLoopNotJoined(u) ==
    /\ call[u].pc = "join"
    /\ Done
    /\ OperationsDrained
    /\ client' = [client EXCEPT !.life = "stopped"]
    /\ Return(u)
    /\ UNCHANGED <<scenario, proto, loops, server>>

FinishStop(u) ==
    /\ call[u].pc = "join"
    /\ Done
    /\ LoopsJoined
    /\ OperationsDrained
    /\ client' = [client EXCEPT !.life = "stopped"]
    /\ Return(u)
    /\ UNCHANGED <<scenario, proto, loops, server>>

-----------------------------------------------------------------------------
(* quiesceSync, for Reintersect and StopAfterDrain *)

QuiesceBegin(u) ==
    /\ Op(u) \in {"Reintersect", "StopAfterDrain"}
    /\ call[u].pc = "out"
    /\ IF Usable
       THEN call' = [call EXCEPT ![u].pc = "stopLoop", ![u].active = TRUE,
                                 ![u].before = client.stops]
       ELSE Return(u)
    /\ UNCHANGED <<scenario, client, proto, loops, server>>

StopLoop(u) ==
    /\ call[u].pc = "stopLoop"
    /\ loops' = [i \in DOMAIN loops |->
                    IF i = Len(loops) /\ Alive(i) THEN [loops[i] EXCEPT !.stop = TRUE]
                                                  ELSE loops[i]]
    /\ call' = [call EXCEPT ![u].pc = "loopGone", ![u].loop = Len(loops)]
    /\ UNCHANGED <<scenario, client, proto, server>>

LoopGone(u) ==
    /\ call[u].pc = "loopGone"
    /\ \/ /\ call[u].loop \in DOMAIN loops => ~Alive(call[u].loop)
          /\ Goto(u, "lockBusy")
       \/ Cancelled /\ Return(u)
    /\ UNCHANGED <<scenario, client, proto, loops, server>>

BugNoSecondLook(u) ==
    /\ call[u].pc = "lockBusy"
    /\ \/ client.busy = None /\ client' = [client EXCEPT !.busy = u] /\ Goto(u, "drain")
       \/ Cancelled /\ Return(u) /\ UNCHANGED client
    /\ UNCHANGED <<scenario, proto, loops, server>>

\* lockBusy, and the look at syncLoopStop that follows it
LockBusy(u) ==
    /\ call[u].pc = "lockBusy"
    /\ \/ /\ client.busy = None
          /\ IF call[u].loop = Len(loops)
             THEN /\ client' = [client EXCEPT !.busy = u]
                  /\ Goto(u, "drain")
             ELSE Goto(u, "stopLoop") /\ UNCHANGED client
       \/ Cancelled /\ Return(u) /\ UNCHANGED client
    /\ UNCHANGED <<scenario, proto, loops, server>>

DrainBegin(u) ==
    /\ call[u].pc = "drain"
    /\ IF client.outstanding > 0
       THEN /\ client' = [client EXCEPT !.drainer = u]
            /\ Goto(u, "drained")
       ELSE Goto(u, "quiet") /\ UNCHANGED client
    /\ UNCHANGED <<scenario, proto, loops, server>>

BugDrainForEver(u) ==
    /\ call[u].pc = "drained"
    /\ client.drainer # u
    /\ Goto(u, "quiet")
    /\ UNCHANGED <<scenario, client, proto, loops, server>>

Drained(u) ==
    /\ call[u].pc = "drained"
    /\ \/ client.drainer # u /\ Goto(u, "quiet") /\ UNCHANGED client
       \/ Cancelled /\ Leave(u)
    /\ UNCHANGED <<scenario, proto, loops, server>>

\* StopAfterDrain's context ends while it waits.
ContextEnds(u) ==
    /\ Here.gaveUp
    /\ Op(u) = "StopAfterDrain"
    /\ \/ call[u].pc \in {"loopGone", "lockBusy"} /\ Return(u) /\ UNCHANGED client
       \/ /\ call[u].pc = "drained"
          /\ Return(u)
          /\ client' = [client EXCEPT !.busy = None,
                                      !.drainer = IF @ = u THEN None ELSE @]
    /\ UNCHANGED <<scenario, proto, loops, server>>

BugStaleSignals(u) ==
    /\ At(u, "Reintersect", "quiet")
    /\ IF client.readyOpen /\ client.stops = call[u].before
       THEN Goto(u, "find") /\ UNCHANGED client
       ELSE Leave(u)
    /\ UNCHANGED <<scenario, proto, loops, server>>

\* Reintersect discards the stale signals and gives up if a callback stopped the sync.
ReintersectQuiet(u) ==
    /\ At(u, "Reintersect", "quiet")
    /\ IF client.readyOpen /\ client.stops = call[u].before
       THEN client' = [client EXCEPT !.ready = <<>>] /\ Goto(u, "find")
       ELSE /\ client' = [client EXCEPT !.ready = <<>>, !.busy = None]
            /\ Return(u)
    /\ UNCHANGED <<scenario, proto, loops, server>>

\* StopAfterDrain begins the stop with busyMutex and its operation still held.
StopAfterDrainQuiet(u) ==
    /\ At(u, "StopAfterDrain", "quiet")
    /\ IF Running
       THEN /\ client' = [client EXCEPT !.life = "stopping", !.fenced = TRUE]
            /\ call' = [call EXCEPT ![u].pc = "sendDone", ![u].locked = TRUE]
       ELSE Leave(u)
    /\ UNCHANGED <<scenario, proto, loops, server>>

-----------------------------------------------------------------------------
(* Sync, the rest of Reintersect, and GetAvailableBlockRange *)

\* busyMutex first, then beginOperation
BusyBegin(u) ==
    /\ Op(u) \in {"Sync", "GetAvailableBlockRange"}
    /\ call[u].pc = "out"
    /\ client.busy = None
    /\ IF Usable
       THEN /\ client' = [client EXCEPT !.busy = u]
            /\ call' = [call EXCEPT ![u].pc = "find", ![u].active = TRUE]
       ELSE Return(u) /\ UNCHANGED client
    /\ UNCHANGED <<scenario, proto, loops, server>>

\* findIntersect and requestFindIntersect
FindIntersect(u) ==
    /\ call[u].pc = "find"
    /\ IF CanSend
       THEN /\ client.wantFind = None
            /\ client' = [client EXCEPT !.wantFind = u]
            /\ Send("Find", u)
            /\ Goto(u, "answer")
       ELSE Leave(u) /\ UNCHANGED proto
    /\ UNCHANGED <<scenario, loops, server>>

IntersectAnswer(u) ==
    /\ call[u].pc = "answer"
    /\ \/ /\ call[u].got = "Found"
          /\ Goto(u, IF Op(u) = "GetAvailableBlockRange" THEN "range" ELSE "reserve")
          /\ UNCHANGED client
       \/ (call[u].got \in {"NotFound", "Error"} \/ Done) /\ Leave(u)
       \/ /\ call[u].got = "Found" /\ Op(u) = "GetAvailableBlockRange"  \* at the tip
          /\ Leave(u)
    /\ UNCHANGED <<scenario, proto, loops, server>>

\* sendInitialRequestAndStartSyncLoop, in its three sections
Reserve(u) ==
    /\ call[u].pc = "reserve"
    /\ IF Usable
       THEN client' = [client EXCEPT !.reserved = @ + 1] /\ Goto(u, "count")
       ELSE Leave(u)
    /\ UNCHANGED <<scenario, proto, loops, server>>

\* sendRequestNext counts the request before it sends it.
CountInitial(u) ==
    /\ call[u].pc = "count"
    /\ client' = [client EXCEPT !.outstanding = @ + 1]
    /\ Goto(u, "initial")
    /\ UNCHANGED <<scenario, proto, loops, server>>

SendInitial(u) ==
    /\ call[u].pc = "initial"
    /\ IF CanSend
       THEN Send("Next", u) /\ Goto(u, "launch") /\ UNCHANGED client
       ELSE /\ client' = [RequestNextAnswered(client) EXCEPT !.reserved = @ - 1,
                                                             !.busy = None]
            /\ Return(u)
            /\ UNCHANGED proto
    /\ UNCHANGED <<scenario, loops, server>>

NewLoop == [pc |-> "wait", stop |-> FALSE, left |-> 0]

LaunchLoop(u) ==
    /\ Op(u) \in {"Sync", "Reintersect"}
    /\ call[u].pc = "launch"
    /\ IF Usable
       THEN /\ loops' = Append(loops, NewLoop)
            /\ client' = [client EXCEPT !.pipelined = 0, !.reserved = @ - 1, !.busy = None]
       ELSE /\ client' = [client EXCEPT !.reserved = @ - 1, !.busy = None]
            /\ UNCHANGED loops
    /\ Return(u)
    /\ UNCHANGED <<scenario, proto, server>>

\* The first request of a range is sent without being counted.
RangeBegin(u) ==
    /\ call[u].pc = "range"
    /\ IF CanSend
       THEN /\ client.wantTip = None /\ client.wantFirst = None
            /\ client' = [client EXCEPT !.wantTip = u, !.wantFirst = u]
            /\ Send("Next", u)
            /\ Goto(u, "rangeWait")
       ELSE Leave(u) /\ UNCHANGED proto
    /\ UNCHANGED <<scenario, loops, server>>

\* The call is over when it has both the tip and the first block.
RangeWait(u) ==
    /\ call[u].pc = "rangeWait"
    /\ \/ /\ Done \/ ~client.readyOpen \/ (call[u].tip /\ call[u].first)
          /\ client' = [client EXCEPT !.wantTip = IF @ = u THEN None ELSE @,
                                      !.wantFirst = IF @ = u THEN None ELSE @,
                                      !.busy = None]
          /\ Return(u)
          /\ UNCHANGED proto
       \/ /\ client.ready # <<>>
          /\ ~(call[u].tip /\ call[u].first)
          /\ IF CanSend /\ Head(client.ready)
             THEN /\ client' = [client EXCEPT !.ready = Tail(@), !.outstanding = @ + 1]
                  /\ Send("Next", u)
                  /\ UNCHANGED call
             ELSE /\ client' = [client EXCEPT !.ready = Tail(@), !.busy = None,
                                              !.wantTip = None, !.wantFirst = None]
                  /\ Return(u)
                  /\ UNCHANGED proto
    /\ UNCHANGED <<scenario, loops, server>>

-----------------------------------------------------------------------------
(* GetCurrentTip: the caller listens while a worker asks *)

TipBegin(u) ==
    /\ At(u, "GetCurrentTip", "out")
    /\ IF Usable
       THEN call' = [call EXCEPT ![u].pc = "tip", ![u].active = TRUE, ![u].worker = "lock"]
       ELSE Return(u)
    /\ UNCHANGED <<scenario, client, proto, loops, server>>

\* The caller registers for whatever tip comes first, if the worker is not done.
TipListen(u) ==
    /\ At(u, "GetCurrentTip", "tip")
    /\ ~call[u].hint
    /\ client' = [client EXCEPT !.listeners = @ \cup {u}]
    /\ call' = [call EXCEPT ![u].hint = TRUE]
    /\ UNCHANGED <<scenario, proto, loops, server>>

\* The caller has an answer; done.Store(true), then it waits for its worker.
TipAnswered(u) ==
    /\ At(u, "GetCurrentTip", "tip")
    /\ Done \/ call[u].tip \/ call[u].worker = "off"
    /\ Goto(u, "tipJoin")
    /\ UNCHANGED <<scenario, client, proto, loops, server>>

TipJoined(u) ==
    /\ call[u].pc = "tipJoin"
    /\ call[u].worker = "off"
    /\ Return(u)
    /\ client' = [client EXCEPT !.listeners = @ \ {u}]
    /\ UNCHANGED <<scenario, proto, loops, server>>

TipAsk(u) ==
    /\ call[u].worker = "lock"
    /\ client.busy = None
    /\ IF Running /\ call[u].pc # "tipJoin" /\ CanSend
       THEN /\ client.wantTip = None
            /\ client' = [client EXCEPT !.busy = u, !.wantTip = u]
            /\ Send("Tip", u)
            /\ call' = [call EXCEPT ![u].worker = "asked"]
       ELSE call' = [call EXCEPT ![u].worker = "off"] /\ UNCHANGED <<client, proto>>
    /\ UNCHANGED <<scenario, loops, server>>

TipReceived(u) ==
    /\ call[u].worker = "asked"
    /\ client.wantTip # u \/ Done
    /\ client' = [client EXCEPT !.busy = None]
    /\ call' = [call EXCEPT ![u].worker = "off"]
    /\ UNCHANGED <<scenario, proto, loops, server>>

-----------------------------------------------------------------------------
(* syncLoop *)

Exit(i) == loops' = [loops EXCEPT ![i] = [NewLoop EXCEPT !.pc = "dead"]]
LoopGoto(i, pc) == loops' = [loops EXCEPT ![i].pc = pc]

\* One select over the stop channel, the ready signals and the protocol's end
LoopWait(i) ==
    /\ loops[i].pc = "wait"
    /\ \/ /\ client.ready # <<>>
          /\ client' = [client EXCEPT !.ready = Tail(@)]
          /\ IF Head(client.ready) THEN LoopGoto(i, "lock") ELSE Exit(i)
       \/ /\ Stopping(i) \/ Done \/ (client.ready = <<>> /\ ~client.readyOpen)
          /\ Exit(i)
          /\ UNCHANGED client
    /\ UNCHANGED <<scenario, proto, call, server>>

\* Under busyMutex and lifecycleMutex: leave, count a pipelined reply, or send more
LoopLock(i) ==
    /\ loops[i].pc = "lock"
    /\ client.busy = None
    /\ IF Stopping(i) \/ ~Running
       THEN Exit(i) /\ UNCHANGED client
       ELSE IF client.pipelined > 0
       THEN /\ client' = [client EXCEPT !.pipelined = @ - 1]
            /\ LoopGoto(i, "wait")
       ELSE /\ client' = [client EXCEPT !.busy = "loop"]
            /\ loops' = [loops EXCEPT ![i].pc = "count", ![i].left = Here.limit]
    /\ UNCHANGED <<scenario, proto, call, server>>

LoopCount(i) ==
    /\ loops[i].pc = "count"
    /\ client' = [client EXCEPT !.outstanding = @ + 1]
    /\ LoopGoto(i, "send")
    /\ UNCHANGED <<scenario, proto, call, server>>

LoopSend(i) ==
    /\ loops[i].pc = "send"
    /\ IF CanSend
       THEN /\ Send("Next", None)
            /\ loops' = [loops EXCEPT ![i].left = @ - 1,
                                      ![i].pc = IF loops[i].left = 1 THEN "sent" ELSE "count"]
            /\ UNCHANGED client
       ELSE /\ client' = [RequestNextAnswered(client) EXCEPT !.busy = None]
            /\ Exit(i)
            /\ UNCHANGED proto
    /\ UNCHANGED <<scenario, call, server>>

LoopSent(i) ==
    /\ loops[i].pc = "sent"
    /\ IF Running
       THEN /\ client' = [client EXCEPT !.pipelined = Here.limit - 1, !.busy = None]
            /\ LoopGoto(i, "wait")
       ELSE /\ client' = [client EXCEPT !.busy = None]
            /\ Exit(i)
    /\ UNCHANGED <<scenario, proto, call, server>>

-----------------------------------------------------------------------------
(* messageHandler, run by the engine's receive loop *)

\* sendCurrentTip: the requester and every listener get the tip.
TipTakers == {client.wantTip} \cup client.listeners
SendCurrentTip(c) == [c EXCEPT !.wantTip = None, !.listeners = {}]
WithTip(k) == [u \in Users |-> IF u \in TipTakers THEN [k[u] EXCEPT !.tip = TRUE] ELSE k[u]]

Handle(pc, m) ==
    proto' = [proto EXCEPT !.replies = Tail(@),
                           !.recv = [Resting EXCEPT !.pc = pc, !.msg = m.kind]]

\* The handler returned an error: SendError stops the instance.
HandlerFails(m) ==
    proto' = [proto EXCEPT !.replies = Tail(@), !.phase = "stopped"]

Receive(kind, m) ==
    /\ proto.phase = "started"
    /\ proto.recv.pc = "idle"
    /\ proto.replies # <<>>
    /\ m = Head(proto.replies)
    /\ m.kind = kind

HandleAwaitReply ==
    \E m \in ToSet(proto.replies) :
        /\ Receive("Await", m)
        /\ Handle(IF Here.pipeline = "none" THEN "idle" ELSE "fence", m)
        /\ UNCHANGED <<scenario, client, loops, call, server>>

\* A block somebody waits for as its first goes to them and signals nothing.
HandleRollForward ==
    \E m \in ToSet(proto.replies) :
        /\ Receive("Forward", m)
        /\ client' = [SendCurrentTip(client) EXCEPT !.wantFirst = None]
        /\ IF client.wantFirst # None
           THEN /\ Handle("answered", m)
                /\ call' = [WithTip(call) EXCEPT ![client.wantFirst].first = TRUE]
           ELSE /\ Handle(IF Here.pipeline = "none" THEN "callback" ELSE "fence", m)
                /\ call' = WithTip(call)
        /\ UNCHANGED <<scenario, loops, server>>

HandleRollBackward ==
    \E m \in ToSet(proto.replies) :
        /\ Receive("Backward", m)
        /\ client' = SendCurrentTip(client)
        /\ call' = WithTip(call)
        /\ Handle(IF Here.pipeline # "none" THEN "settle"
                  ELSE IF client.wantFirst = None THEN "callback" ELSE "signal", m)
        /\ UNCHANGED <<scenario, loops, server>>

\* The pending request gets an answer, meant for it or not.
Answered(k, what, m) ==
    [k EXCEPT ![client.wantFind].got = what, ![client.wantFind].of = m.to]

HandleIntersectFound ==
    \E m \in ToSet(proto.replies) :
        /\ Receive("Found", m)
        /\ IF client.wantFind = None \/ client.wantFind # m.to
           THEN \* nobody asked, or the point is not one of those asked for
                /\ HandlerFails(m)
                /\ client' = [client EXCEPT !.wantFind = None]
                /\ call' = IF client.wantFind = None THEN call
                           ELSE Answered(call, "Error", m)
           ELSE /\ Handle("idle", m)
                /\ client' = [SendCurrentTip(client) EXCEPT !.wantFind = None]
                /\ call' = Answered(WithTip(call), "Found", m)
        /\ UNCHANGED <<scenario, loops, server>>

HandleIntersectNotFound ==
    \E m \in ToSet(proto.replies) :
        /\ Receive("NotFound", m)
        /\ Handle("idle", m)
        /\ client' = [SendCurrentTip(client) EXCEPT !.wantFind = None]
        /\ call' = IF client.wantFind = None THEN WithTip(call)
                   ELSE Answered(WithTip(call), "NotFound", m)
        /\ UNCHANGED <<scenario, loops, server>>

RecvGoto(pc, signal) ==
    proto' = [proto EXCEPT !.recv.pc = pc, !.recv.signal = signal]

\* Pipeline.Submit and Fence: until the pipeline is through or the fence is cut
FenceOver ==
    /\ proto.recv.pc = "fence"
    /\ \/ /\ Here.pipeline = "drains"
          /\ RecvGoto(IF proto.recv.msg = "Await" THEN "idle" ELSE "signal", TRUE)
       \/ /\ client.fenced
          /\ RecvGoto(IF proto.recv.msg = "Await" THEN "idle" ELSE "signal", FALSE)
    /\ UNCHANGED <<scenario, client, loops, call, server>>

\* Pipeline.WaitForDrain before a rollback: done, timed out, or stopped
SettleOver ==
    /\ proto.recv.pc = "settle"
    /\ \/ /\ Here.pipeline = "drains"
          /\ RecvGoto(IF client.wantFirst = None THEN "callback" ELSE "signal", TRUE)
       \/ /\ proto.phase = "stopped"
          /\ RecvGoto("answered", TRUE)
       \/ Here.pipeline = "stuck" /\ RecvGoto("failed", TRUE)
    /\ UNCHANGED <<scenario, client, loops, call, server>>

\* The user's callback returns nil, ErrStopSyncProcess or another error.
CallbackReturns ==
    /\ proto.recv.pc = "callback"
    /\ \/ RecvGoto("signal", TRUE)
       \/ Here.stopsSync /\ RecvGoto("signal", FALSE)
       \/ Here.mayLose /\ RecvGoto("failed", TRUE)
    /\ UNCHANGED <<scenario, client, loops, call, server>>

\* The send on readyForNextBlockChan, under lifecycleMutex
Signal ==
    /\ proto.recv.pc = "signal"
    /\ IF client.readyOpen
       THEN /\ Len(client.ready) < Here.limit
            /\ client' = [client EXCEPT !.ready = Append(@, proto.recv.signal),
                                        !.stops = IF proto.recv.signal THEN @ ELSE @ + 1]
       ELSE UNCHANGED client
    /\ RecvGoto("answered", TRUE)
    /\ UNCHANGED <<scenario, loops, call, server>>

\* The handler retires the request, and returns its error if it has one.
Retire ==
    /\ proto.recv.pc \in {"answered", "failed"}
    /\ client' = RequestNextAnswered(client)
    /\ proto' = [proto EXCEPT !.recv = Resting,
                              !.phase = IF proto.recv.pc = "failed" THEN "stopped" ELSE @]
    /\ UNCHANGED <<scenario, loops, call, server>>

-----------------------------------------------------------------------------
(* The engine's end, the connection's, and the server *)

ConnectionLost ==
    /\ Here.mayLose
    /\ proto.phase = "started"
    /\ proto' = [proto EXCEPT !.phase = "lost"]
    /\ UNCHANGED <<scenario, client, loops, call, server>>

\* Both engine loops have returned: DoneChan closes.
ProtocolDone ==
    /\ proto.phase \in {"stopped", "lost"}
    /\ proto.recv.pc = "idle"
    /\ proto' = [Proto0 EXCEPT !.phase = "done"]
    /\ UNCHANGED <<scenario, client, loops, call, server>>

\* startPipelineStopWatcher cuts the fence when the instance is stopped.
WatcherCuts ==
    /\ Here.pipeline # "none"
    /\ proto.phase = "stopped"
    /\ ~client.fenced
    /\ client' = [client EXCEPT !.fenced = TRUE]
    /\ UNCHANGED <<scenario, proto, loops, call, server>>

Reply(kind, m) ==
    proto' = [proto EXCEPT !.requests = Tail(@),
                           !.replies = Append(@, [kind |-> kind, to |-> m.from])]

Asked(kinds, m) ==
    /\ proto.phase = "started"
    /\ proto.requests # <<>>
    /\ m = Head(proto.requests)
    /\ m.kind \in kinds

ServerNext ==
    \E m \in ToSet(proto.requests) :
        /\ Asked({"Next"}, m)
        /\ server.blocks > 0
        /\ \/ Reply("Forward", m)
           \/ Here.rollsBack /\ Reply("Backward", m)
        /\ server' = [server EXCEPT !.awaiting = FALSE, !.blocks = @ - 1]
        /\ UNCHANGED <<scenario, client, loops, call>>

\* At the tip the server says so once and answers when a block comes.
ServerAwait ==
    \E m \in ToSet(proto.requests) :
        /\ Asked({"Next"}, m)
        /\ Here.awaits
        /\ ~server.awaiting
        /\ proto' = [proto EXCEPT !.replies = Append(@, [kind |-> "Await", to |-> m.from])]
        /\ server' = [server EXCEPT !.awaiting = TRUE]
        /\ UNCHANGED <<scenario, client, loops, call>>

\* MsgFindIntersect without points, GetCurrentTip's, is never found.
ServerIntersect ==
    \E m \in ToSet(proto.requests) :
        /\ Asked({"Find", "Tip"}, m)
        /\ \/ m.kind = "Find" /\ Reply("Found", m)
           \/ Reply("NotFound", m)
        /\ UNCHANGED <<scenario, client, loops, call, server>>

\* MsgDone leaves only once the client has agency.
ServerDone ==
    \E m \in ToSet(proto.requests) :
        /\ Asked({"Done"}, m)
        /\ proto.replies = <<>>
        /\ proto' = [proto EXCEPT !.requests = Tail(@)]
        /\ server' = [server EXCEPT !.ended = TRUE]
        /\ UNCHANGED <<scenario, client, loops, call>>

-----------------------------------------------------------------------------
UserStep(u) ==
    \/ StartBegin(u) \/ StartInit(u) \/ StartLaunch(u)
    \/ StopBegin(u) \/ StopWait(u) \/ StopBusy(u)
    \/ SendDone(u) \/ DoneWaitOver(u) \/ CloseReady(u) \/ StopProto(u) \/ FinishStop(u)
    \/ QuiesceBegin(u) \/ StopLoop(u) \/ LoopGone(u) \/ LockBusy(u)
    \/ DrainBegin(u) \/ Drained(u) \/ ReintersectQuiet(u) \/ StopAfterDrainQuiet(u)
    \/ BusyBegin(u) \/ FindIntersect(u) \/ IntersectAnswer(u)
    \/ Reserve(u) \/ CountInitial(u) \/ SendInitial(u) \/ LaunchLoop(u)
    \/ RangeBegin(u) \/ RangeWait(u)
    \/ TipBegin(u) \/ TipListen(u) \/ TipAnswered(u) \/ TipJoined(u)

WorkerStep(u) == TipAsk(u) \/ TipReceived(u)

LoopStep(i) == LoopWait(i) \/ LoopLock(i) \/ LoopCount(i) \/ LoopSend(i) \/ LoopSent(i)

RecvStep ==
    \/ HandleAwaitReply \/ HandleRollForward \/ HandleRollBackward
    \/ HandleIntersectFound \/ HandleIntersectNotFound
    \/ FenceOver \/ SettleOver \/ CallbackReturns \/ Signal \/ Retire

ServerStep == ServerNext \/ ServerAwait \/ ServerIntersect \/ ServerDone

Next ==
    \/ \E u \in Users : UserStep(u) \/ WorkerStep(u) \/ ContextEnds(u)
    \/ \E i \in DOMAIN loops : LoopStep(i)
    \/ RecvStep \/ ServerStep
    \/ ProtocolDone \/ WatcherCuts \/ ConnectionLost

\* Goroutines run; a peer may be silent, so its steps carry no fairness.
Fairness ==
    /\ \A u \in Users : WF_vars(UserStep(u)) /\ WF_vars(WorkerStep(u))
    /\ WF_vars(\E i \in DOMAIN loops : LoopStep(i))
    /\ WF_vars(RecvStep)
    /\ WF_vars(ProtocolDone)
    /\ WF_vars(WatcherCuts)

Spec == Init /\ [][Next]_vars /\ Fairness

-----------------------------------------------------------------------------
(* Properties *)

Lives == {"new", "starting", "running", "stopping", "stopped"}

TypeOK ==
    /\ client.life \in Lives
    /\ client.outstanding \in Nat /\ client.pipelined \in Nat /\ client.reserved \in Nat
    /\ client.ready \in Seq(BOOLEAN)
    /\ proto.phase \in {"fresh", "started", "lost", "stopped", "done"}

NextOf(s) == {i \in DOMAIN s : s[i].kind = "Next"}
BlockReplies(s) == {i \in DOMAIN s : s[i].kind \in {"Forward", "Backward", "Await"}}

\* quiesceSync's promise: when it returns nil the caller holds busyMutex, no sync
\* loop is left that could send, and no MsgRequestNext is unanswered: none in the
\* send queue, none at the server, no reply in the receive queue or in a handler.
QuiescedIsIdle ==
    \A u \in Users :
        (call[u].pc = "quiet" /\ proto.phase = "started") =>
            /\ client.busy = u
            /\ \A i \in DOMAIN loops : ~Alive(i)
            /\ NextOf(proto.requests) = {}
            /\ BlockReplies(proto.replies) = {}
            /\ proto.recv.pc = "idle"

\* The handler signals while it holds lifecycleMutex, and the receive loop it
\* runs on is what DoneChan waits for: a full readyForNextBlockChan would stop
\* the client for good.  There is always room.
SignalsFit ==
    (proto.recv.pc = "signal" /\ client.readyOpen) => Len(client.ready) < Here.limit

\* One instance at a time: when the client is stopped, and so whenever Start may
\* replace the protocol and its channels, the instance is over (or never ran), no
\* sync loop or reserved slot is left, no call is in the middle of using it and
\* busyMutex is not held; and there is never more than one sync loop.
OneInstance ==
    /\ client.life \in {"stopped", "starting"} =>
          /\ proto.phase \in {"fresh", "done"}
          /\ LoopsJoined
          /\ OperationsDrained
          /\ client.busy \notin Users \cup {"loop"}
    /\ Cardinality({i \in DOMAIN loops : Alive(i)}) <= 1

\* Stop ends every wait: once a stop has begun every call on its way returns,
\* whatever the peer and the pipeline do, unless the client is started again.
Released == client.life = "running" \/ \A u \in Users : call[u].pc = "out"
=============================================================================
