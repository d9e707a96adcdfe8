------------------------------ MODULE BlockFetch ------------------------------
(***************************************************************************)
(* The block-fetch client (protocol/blockfetch/client.go): GetBlock and    *)
(* GetBlockRange, one at a time behind a busy token, RequestRange, many at *)
(* once within a byte budget, the message handler that gives each answer   *)
(* to the request at the head of a queue, the deadline watcher of each     *)
(* request, and Start and Stop, which replace the protocol instance.       *)
(*                                                                         *)
(* A step is one critical section of queueMutex, or one of lifecycleMutex  *)
(* where that is taken instead.  Stop holds lifecycleMutex while it waits  *)
(* for MsgClientDone to be written, so who holds it is part of the state.  *)
(* A range is abstracted to its number of blocks; a block is the next one  *)
(* of the range or a stray.                                                *)
(***************************************************************************)
EXTENDS Integers, Sequences, FiniteSets, SequencesExt, FiniteSetsExt

CONSTANTS Users,     \* the goroutines that call the client
          Scenarios  \* name -> the configuration, what may go wrong, and the
                     \* calls [op, len, size] each user makes: a fetch of len
                     \* blocks expected to take size bytes (0: no estimate)

VARIABLES scenario,
          client,    \* the fields of Client
          insts,     \* the protocol instances, in the order of their creation
          reqs,      \* every rangeRequest created, in the order of its id
          call       \* where each user is in its current call

vars == <<scenario, client, insts, reqs, call>>

Here == Scenarios[scenario]

None == "none"

Fetches == {"GetBlock", "GetBlockRange", "RequestRange"}

\* DefaultRequestExpectedBytes, in the scenarios' unit
DefaultBytes == 2

Waiting == -1  \* the server has not begun to answer its next request

Resting == [pc |-> "idle", msg |-> [kind |-> None, to |-> 0], req |-> 0]

\* allowance and backpressure are what the client last told the engine.
NewInst ==
    [phase |-> "fresh", requests |-> <<>>, sent |-> Waiting, replies |-> <<>>,
     recv |-> Resting, doom |-> <<>>, fails |-> <<>>, allowance |-> 0, backpressure |-> FALSE,
     fenced |-> FALSE, ended |-> FALSE, watched |-> FALSE]

Client0 ==
    [life |-> "new", mutex |-> None, queue |-> <<>>, bytes |-> 0,
     token |-> TRUE, busy |-> 0, tokens |-> 0]

Call0(script) ==
    [todo |-> script, pc |-> "out", inst |-> 0, own |-> 0, req |-> 0,
     busy |-> 0, fails |-> <<>>]

Init ==
    /\ scenario \in DOMAIN Scenarios
    /\ client = Client0
    /\ insts = <<NewInst>>
    /\ reqs = <<>>
    /\ call = [u \in Users |-> Call0(Here.script[u])]

-----------------------------------------------------------------------------
(* Helpers *)

Current == Len(insts)
Doing(u) == IF call[u].todo = <<>> THEN None ELSE Head(call[u].todo).op
Ask(u) == Head(call[u].todo)
Over(n) == insts[n].phase = "done"
CanSend(n) == insts[n].phase = "started"
MutexFree == client.mutex = None

Goto(u, pc) == call' = [call EXCEPT ![u].pc = pc]
Return(u) == call' = [call EXCEPT ![u] = Call0(Tail(@.todo))]

\* releaseBusy: only the holder of the current token releases it.
ReleaseBusy(c, token) == IF c.busy = token THEN [c EXCEPT !.busy = 0] ELSE c

Reserved(r) == r.size
Ingress(r) == IF r.estimated THEN r.size ELSE 0

SumOver(S, f(_)) == FoldSet(LAMBDA i, n : f(i) + n, 0, S)

\* updateIngressAllowanceLocked for instance n, given the requests and the queue
Allowed(I, R, q, n) ==
    LET mine == {i \in ToSet(q) : R[i].inst = n}
    IN  [I EXCEPT ![n].allowance = SumOver(mine, LAMBDA i : Ingress(R[i])),
                  ![n].backpressure = \E i \in mine : ~R[i].estimated]

\* removeLocked
Without(q, i) == SelectSeq(q, LAMBDA j : j # i)
Removed(c, i) ==
    IF i \in ToSet(c.queue)
    THEN [c EXCEPT !.queue = Without(@, i), !.bytes = @ - Min({@, Reserved(reqs[i])})]
    ELSE c

\* resolve: once, whoever comes first.  It reports to the consumer: RangeDoneFunc
\* for RequestRange, and BatchDoneFunc for a started GetBlockRange that failed
\* and was not reported yet.
Resolve(R, i, outcome) ==
    IF R[i].resolved # None THEN R
    ELSE [R EXCEPT ![i].resolved = outcome,
                   ![i].startRes = IF outcome # "ok" /\ @ = None THEN "error" ELSE @,
                   ![i].reports =
                       IF \/ R[i].op = "RequestRange"
                          \/ /\ R[i].op = "GetBlockRange"
                             /\ outcome # "ok" /\ R[i].started /\ ~R[i].reported
                       THEN @ + 1 ELSE @]

BusyAfterResolve(c, i) ==
    IF reqs[i].resolved = None /\ reqs[i].busy # 0 THEN ReleaseBusy(c, reqs[i].busy) ELSE c

-----------------------------------------------------------------------------
(* Start *)

\* A restart on the same connection is made only after MsgClientDone was sent.
StartBegin(u) ==
    /\ Doing(u) = "Start" /\ call[u].pc = "out"
    /\ MutexFree
    /\ \/ /\ client.life = "running"
          /\ Return(u)
          /\ UNCHANGED client
       \/ /\ client.life \in {"new", "stopped"}
          /\ Over(Current) => insts[Current].ended
          /\ client' = [client EXCEPT !.life = "starting"]
          /\ call' = [call EXCEPT ![u].pc = IF client.life = "new" THEN "launch" ELSE "renew",
                                  ![u].inst = Current]
    /\ UNCHANGED <<scenario, insts, reqs>>

\* The old instance, if it ever ran, is over; a new one takes its place.
StartLaunch(u) ==
    /\ Doing(u) = "Start" /\ call[u].pc \in {"launch", "renew"}
    /\ MutexFree
    /\ insts[call[u].inst].phase \in {"fresh", "done"}
    /\ IF client.life = "starting"
       THEN /\ client' = [client EXCEPT !.life = "running"]
            /\ insts' = IF call[u].pc = "renew"
                        THEN Append(insts, [NewInst EXCEPT !.phase = "started"])
                        ELSE [insts EXCEPT ![Current].phase = "started"]
       ELSE UNCHANGED <<client, insts>>
    /\ Return(u)
    /\ UNCHANGED <<scenario, reqs>>

-----------------------------------------------------------------------------
(* Stop *)

\* drainLocked: the queue is taken, its bytes are released.
Drained(c) == [c EXCEPT !.queue = <<>>, !.bytes = 0]
Allowances(q) ==
    FoldSet(LAMBDA n, I : Allowed(I, reqs, <<>>, n), insts, {reqs[i].inst : i \in ToSet(q)})

\* A client that is not running only fails what is queued.
StopBegin(u) ==
    /\ Doing(u) = "Stop" /\ call[u].pc = "out"
    /\ MutexFree
    /\ IF client.life = "running"
       THEN /\ client' = [client EXCEPT !.mutex = u]
            /\ insts' = [insts EXCEPT ![Current].fenced = TRUE]
            /\ call' = [call EXCEPT ![u].pc = "clientDone", ![u].inst = Current]
       ELSE /\ client' = [Drained(client) EXCEPT !.life = "stopped"]
            /\ insts' = [Allowances(client.queue) EXCEPT ![Current].fenced = TRUE]
            /\ call' = [call EXCEPT ![u].pc = "fail", ![u].fails = client.queue]
    /\ UNCHANGED <<scenario, reqs>>

Answered(n) ==
    insts[n].requests = <<>> /\ insts[n].replies = <<>> /\ insts[n].sent = Waiting

\* MsgClientDone is written if the client has agency within 250ms; then Protocol.Stop.
StopInstance(u) ==
    /\ call[u].pc = "clientDone"
    /\ \E sent \in {FALSE} \cup {CanSend(call[u].inst) /\ Answered(call[u].inst)} :
          insts' = [insts EXCEPT ![call[u].inst].phase = IF @ = "done" THEN @ ELSE "stopped",
                                 ![call[u].inst].ended = sent]
    /\ client' = [client EXCEPT !.mutex = None, !.life = "stopped"]
    /\ Goto(u, "waitDone")
    /\ UNCHANGED <<scenario, reqs>>

\* After DoneChan: failOutstanding takes the whole queue, whatever is in it by now.
StopDrain(u) ==
    /\ call[u].pc = "waitDone"
    /\ Over(call[u].inst)
    /\ client' = Drained(client)
    /\ insts' = Allowances(client.queue)
    /\ call' = [call EXCEPT ![u].pc = "fail", ![u].fails = client.queue]
    /\ UNCHANGED <<scenario, reqs>>

\* It resolves what it took, one by one, and then releases the busy token.
StopFail(u) ==
    /\ call[u].pc = "fail"
    /\ IF call[u].fails = <<>>
       THEN /\ client' = [client EXCEPT !.busy = 0]
            /\ Return(u)
            /\ UNCHANGED reqs
       ELSE LET i == Head(call[u].fails) IN
            /\ reqs' = Resolve(reqs, i, "shutdown")
            /\ client' = BusyAfterResolve(client, i)
            /\ call' = [call EXCEPT ![u].fails = Tail(@)]
    /\ UNCHANGED <<scenario, insts>>

-----------------------------------------------------------------------------
(* GetBlock, GetBlockRange and RequestRange *)

\* acquireBusy, for the two calls that are made one at a time
FetchBegin(u) ==
    /\ Doing(u) \in Fetches /\ call[u].pc = "out"
    /\ insts[Current].phase # "fresh"
    /\ IF Doing(u) = "RequestRange"
       THEN /\ call' = [call EXCEPT ![u].pc = "admit", ![u].inst = Current, ![u].own = Current]
            /\ UNCHANGED client
       ELSE /\ client.busy = 0
            /\ client' = [client EXCEPT !.busy = client.tokens + 1, !.tokens = @ + 1]
            /\ call' = [call EXCEPT ![u].pc = "instance", ![u].own = Current,
                                    ![u].busy = client.tokens + 1]
    /\ UNCHANGED <<scenario, insts, reqs>>

\* The instance is read again by sendRequestRange.
FetchInstance(u) ==
    /\ call[u].pc = "instance"
    /\ call' = [call EXCEPT ![u].pc = "token", ![u].inst = Current]
    /\ UNCHANGED <<scenario, client, insts, reqs>>

Bytes(k) ==
    IF k.op # "RequestRange" THEN 0 ELSE IF k.size = 0 THEN DefaultBytes ELSE k.size

\* hasInFlightCapacityLocked
HasCapacity(u) ==
    \/ client.queue = <<>>
    \/ client.bytes + Bytes(Ask(u)) <= Here.maxInFlight

FetchError(u) ==
    /\ Return(u)
    /\ client' = ReleaseBusy(client, call[u].busy)

\* waitForInFlightCapacity: capacity, the instance's end, or the context's
Admit(u) ==
    /\ call[u].pc = "admit"
    /\ \/ HasCapacity(u) /\ Goto(u, "token") /\ UNCHANGED client
       \/ Over(call[u].inst) /\ FetchError(u)
       \/ Here.gaveUp /\ ~HasCapacity(u) /\ FetchError(u)
    /\ UNCHANGED <<scenario, insts, reqs>>

NewRequest(u) ==
    [inst |-> call[u].inst, op |-> Doing(u), len |-> Ask(u).len, size |-> Bytes(Ask(u)),
     estimated |-> Ask(u).op = "RequestRange" /\ Ask(u).size # 0,
     busy |-> call[u].busy, started |-> FALSE, charged |-> 0, got |-> 0,
     expired |-> FALSE, startRes |-> None, resolved |-> None, reports |-> 0,
     reported |-> FALSE]

BugNoSendToken(u) ==
    LET i == Len(reqs) + 1
        q == Append(client.queue, i) IN
    /\ call[u].pc = "token"
    /\ HasCapacity(u)
    /\ reqs' = Append(reqs, NewRequest(u))
    /\ client' = [client EXCEPT !.queue = q, !.bytes = @ + Bytes(Ask(u))]
    /\ insts' = Allowed(insts, reqs', q, call[u].inst)
    /\ call' = [call EXCEPT ![u].pc = "send", ![u].req = i]
    /\ UNCHANGED scenario

\* With rangeSendToken held, capacity is checked again and the request is queued.
Enqueue(u) ==
    /\ call[u].pc = "token"
    /\ client.token
    /\ IF Doing(u) = "RequestRange" /\ ~HasCapacity(u)
       THEN Goto(u, "admit") /\ UNCHANGED <<client, insts, reqs>>
       ELSE LET i == Len(reqs) + 1
                q == Append(client.queue, i) IN
            /\ reqs' = Append(reqs, NewRequest(u))
            /\ client' = [client EXCEPT !.queue = q, !.token = FALSE,
                                        !.bytes = @ + Bytes(Ask(u))]
            /\ insts' = Allowed(insts, reqs', q, call[u].inst)
            /\ call' = [call EXCEPT ![u].pc = "send", ![u].req = i]
    /\ UNCHANGED scenario

BugTokenNotReturned(u) ==
    LET i == call[u].req
        n == call[u].inst
        c == Removed(client, i) IN
    /\ call[u].pc = "send"
    /\ \/ /\ CanSend(n)
          /\ insts' = [insts EXCEPT ![n].requests = Append(@, i)]
          /\ client' = [client EXCEPT !.token = TRUE]
          /\ IF Doing(u) = "RequestRange" THEN Return(u) ELSE Goto(u, "startWait")
       \/ /\ ~CanSend(n) \/ Here.gaveUp
          /\ insts' = Allowed(insts, reqs, c.queue, n)
          /\ client' = ReleaseBusy(c, call[u].busy)
          /\ Return(u)
    /\ UNCHANGED <<scenario, reqs>>

\* The message is handed to the engine, or the request leaves the queue again.
SendRange(u) ==
    LET i == call[u].req
        n == call[u].inst
        c == [Removed(client, i) EXCEPT !.token = TRUE] IN
    /\ call[u].pc = "send"
    /\ \/ /\ CanSend(n)
          /\ insts' = [insts EXCEPT ![n].requests = Append(@, i)]
          /\ client' = [client EXCEPT !.token = TRUE]
          /\ IF Doing(u) = "RequestRange" THEN Return(u) ELSE Goto(u, "startWait")
       \/ /\ ~CanSend(n) \/ Here.gaveUp
          /\ insts' = Allowed(insts, reqs, c.queue, n)
          /\ client' = ReleaseBusy(c, call[u].busy)
          /\ Return(u)
    /\ UNCHANGED <<scenario, reqs>>

\* waitForBatchStart.  GetBlockRange then returns and leaves a goroutine behind
\* that releases the busy token if the instance ends first.
StartWait(u) ==
    LET r == reqs[call[u].req] IN
    /\ call[u].pc = "startWait"
    /\ \/ /\ r.startRes = "ok"
          /\ IF Doing(u) = "GetBlockRange" THEN Return(u) ELSE Goto(u, "blockWait")
          /\ UNCHANGED client
       \/ /\ r.startRes = "error" \/ (Over(call[u].own) /\ r.startRes = None)
          /\ FetchError(u)
    /\ UNCHANGED <<scenario, insts, reqs>>

\* awaitBlock and waitForBatchDone
BlockWait(u) ==
    /\ call[u].pc = "blockWait"
    /\ reqs[call[u].req].resolved # None \/ Over(call[u].own)
    /\ FetchError(u)
    /\ UNCHANGED <<scenario, insts, reqs>>

ReleaseOnDone(i) ==
    /\ reqs[i].op = "GetBlockRange" /\ reqs[i].startRes = "ok"
    /\ Over(reqs[i].inst)
    /\ client.busy = reqs[i].busy
    /\ client' = [client EXCEPT !.busy = 0]
    /\ UNCHANGED <<scenario, insts, reqs, call>>

-----------------------------------------------------------------------------
(* The deadline of a request, and the end of an instance *)

Expire(i) ==
    /\ Here.expires
    /\ ~reqs[i].expired
    /\ i \in ToSet(client.queue)
    /\ reqs' = [reqs EXCEPT ![i].expired = TRUE]
    /\ UNCHANGED <<scenario, client, insts, call>>

ReservedBy(q) == SumOver(ToSet(q), LAMBDA i : Reserved(reqs[i]))
Sent(i) == ~\E u \in Users : call[u].pc = "send" /\ call[u].req = i
OfInst(q, n) == SelectSeq(q, LAMBDA i : reqs[i].inst = n)

\* SendError, of a handler or of a deadline, stops the instance.
SendError(n, I) == [I EXCEPT ![n].phase = IF @ \in {"started", "lost"} THEN "stopped" ELSE @]

\* watchRangeDeadline takes every request of the instance and ends the instance.
DeadlineFires(i) ==
    LET n == reqs[i].inst
        doom == OfInst(client.queue, n)
        rest == SelectSeq(client.queue, LAMBDA j : reqs[j].inst # n) IN
    /\ reqs[i].expired /\ Sent(i) /\ i \in ToSet(client.queue)
    /\ client' = [client EXCEPT !.queue = rest, !.bytes = @ - ReservedBy(doom)]
    /\ insts' = [SendError(n, Allowed(insts, reqs, rest, n)) EXCEPT ![n].doom = @ \o doom]
    /\ UNCHANGED <<scenario, reqs, call>>

BugNoDeliveryLock(n, i) == FALSE

\* Each is resolved once no handler is delivering a block of it (deliveryMu).
Delivering(n, i) == insts[n].recv.req = i /\ insts[n].recv.msg.kind \in {"Block", "Stray"}

ResolveDoomed(n) ==
    /\ insts[n].doom # <<>>
    /\ LET i == Head(insts[n].doom) IN
       /\ ~Delivering(n, i)
       /\ reqs' = Resolve(reqs, i, "expired")
       /\ client' = BusyAfterResolve(client, i)
    /\ insts' = [insts EXCEPT ![n].doom = Tail(@)]
    /\ UNCHANGED <<scenario, call>>

\* The connection goes away.
ConnectionLost(n) ==
    /\ Here.loses
    /\ insts[n].phase = "started"
    /\ insts' = [insts EXCEPT ![n].phase = "lost"]
    /\ UNCHANGED <<scenario, client, reqs, call>>

InstanceDone(n) ==
    /\ insts[n].phase \in {"stopped", "lost"}
    /\ insts[n].recv.pc = "idle"
    /\ insts' = [insts EXCEPT ![n].phase = "done", ![n].requests = <<>>,
                              ![n].replies = <<>>, ![n].sent = Waiting]
    /\ UNCHANGED <<scenario, client, reqs, call>>

BugBytesKept(n) ==
    LET rest == SelectSeq(client.queue, LAMBDA j : reqs[j].inst # n) IN
    /\ Over(n)
    /\ ~insts[n].watched
    /\ client' = [client EXCEPT !.queue = rest]
    /\ insts' = [Allowed(insts, reqs, rest, n) EXCEPT ![n].fails = OfInst(client.queue, n),
                                                      ![n].watched = TRUE]
    /\ UNCHANGED <<scenario, reqs, call>>

\* The shutdown watcher: failOutstandingForProtocol, the queue first
WatcherDrains(n) ==
    LET mine == OfInst(client.queue, n)
        rest == SelectSeq(client.queue, LAMBDA j : reqs[j].inst # n) IN
    /\ Over(n)
    /\ ~insts[n].watched
    /\ client' = [client EXCEPT !.queue = rest, !.bytes = @ - ReservedBy(mine)]
    /\ insts' = [Allowed(insts, reqs, rest, n) EXCEPT ![n].fails = mine, ![n].watched = TRUE]
    /\ UNCHANGED <<scenario, reqs, call>>

WatcherResolves(n) ==
    /\ insts[n].fails # <<>>
    /\ reqs' = Resolve(reqs, Head(insts[n].fails), "shutdown")
    /\ client' = BusyAfterResolve(client, Head(insts[n].fails))
    /\ insts' = [insts EXCEPT ![n].fails = Tail(@)]
    /\ UNCHANGED <<scenario, call>>

-----------------------------------------------------------------------------
(* messageHandler, run by the receive loop of instance n *)

Receive(n, kinds) ==
    /\ insts[n].phase = "started"
    /\ insts[n].recv.pc = "idle"
    /\ insts[n].replies # <<>>
    /\ Head(insts[n].replies).kind \in kinds

\* headForResponse: the head of the queue, in the state the answer implies
HeadFits(started) == client.queue # <<>> /\ reqs[Head(client.queue)].started = started

Take(n, pc) ==
    [insts EXCEPT ![n].replies = Tail(@),
                  ![n].recv = [pc |-> pc, msg |-> Head(insts[n].replies),
                               req |-> Head(client.queue)]]
RecvGoto(n, pc) == [insts EXCEPT ![n].recv.pc = pc]
Rest(n) == [insts EXCEPT ![n].recv = Resting]
Fails(n, I) == SendError(n, [I EXCEPT ![n].recv = Resting])
Drop(n) == SendError(n, [insts EXCEPT ![n].replies = Tail(@)])

HandleStartBatch(n) ==
    /\ Receive(n, {"StartBatch"})
    /\ IF HeadFits(FALSE)
       THEN /\ reqs' = [reqs EXCEPT ![Head(client.queue)].started = TRUE,
                                    ![Head(client.queue)].startRes = IF @ = None THEN "ok" ELSE @]
            /\ insts' = [Take(n, "idle") EXCEPT ![n].recv = Resting]
       ELSE insts' = Drop(n) /\ UNCHANGED reqs
    /\ UNCHANGED <<scenario, client, call>>

HandleNoBlocks(n) ==
    LET i == Head(client.queue) IN
    /\ Receive(n, {"NoBlocks"})
    /\ IF ~HeadFits(FALSE) THEN insts' = Drop(n) /\ UNCHANGED client
       ELSE IF reqs[i].expired THEN insts' = Take(n, "fail") /\ UNCHANGED client
       ELSE /\ client' = Removed(client, i)
            /\ insts' = Allowed(Take(n, "noBlocks"), reqs, Without(client.queue, i), n)
    /\ UNCHANGED <<scenario, reqs, call>>

\* handleBlock's first section: the head is charged for the block (chargeBlock)
\* and claimed (deliveryMu); GetBlock takes one block only.
HandleBlock(n) ==
    LET r == reqs[Head(client.queue)] IN
    /\ Receive(n, {"Block", "Stray"})
    /\ IF ~HeadFits(TRUE) THEN insts' = Drop(n) /\ UNCHANGED reqs
       ELSE IF r.expired \/ r.charged >= Here.maxBlocks
       THEN insts' = Take(n, "fail") /\ UNCHANGED reqs
       ELSE IF r.op = "GetBlock" /\ r.charged > 0
       THEN insts' = Drop(n) /\ UNCHANGED reqs
       ELSE /\ reqs' = [reqs EXCEPT ![Head(client.queue)].charged = @ + 1]
            /\ insts' = Take(n, "record")
    /\ UNCHANGED <<scenario, client, call>>

\* A block of GetBlock never goes through the pipeline.
Piped(i) == Here.pipeline # "none" /\ reqs[i].op # "GetBlock"

\* recordBlock: the block is the next one of the range, and the range goes on.
RecordBlock(n) ==
    LET i == insts[n].recv.req
        fits == insts[n].recv.msg.kind = "Block" /\ reqs[i].got < reqs[i].len IN
    /\ insts[n].recv.pc = "record"
    /\ insts' = RecvGoto(n, IF ~fits \/ (~Piped(i) /\ insts[n].phase = "stopped")
                            THEN "fail" ELSE "deliver")
    /\ reqs' = IF fits THEN [reqs EXCEPT ![i].got = @ + 1] ELSE reqs
    /\ UNCHANGED <<scenario, client, call>>

\* The callback, the request's channel, or Pipeline.Submit
DeliverBlock(n) ==
    /\ insts[n].recv.pc = "deliver"
    /\ Piped(insts[n].recv.req) => MutexFree
    /\ \/ /\ ~Piped(insts[n].recv.req) \/ Here.pipeline = "drains"
          /\ insts' = Rest(n)
       \/ Piped(insts[n].recv.req) /\ insts[n].fenced /\ insts' = RecvGoto(n, "fail")
       \/ Here.strays /\ insts' = RecvGoto(n, "fail")  \* the callback's error
    /\ UNCHANGED <<scenario, client, reqs, call>>

\* handleBatchDone checks that the range is complete ...
HandleBatchDone(n) ==
    LET r == reqs[Head(client.queue)] IN
    /\ Receive(n, {"BatchDone"})
    /\ insts' = IF ~HeadFits(TRUE) THEN Drop(n)
                ELSE Take(n, IF r.expired \/ r.got # r.len THEN "fail" ELSE "fence")
    /\ UNCHANGED <<scenario, client, reqs, call>>

\* ... waits for the pipeline to have taken its blocks ...
BatchFence(n) ==
    /\ insts[n].recv.pc = "fence"
    /\ Piped(insts[n].recv.req) => MutexFree
    /\ \/ /\ ~Piped(insts[n].recv.req) \/ Here.pipeline = "drains"
          /\ insts' = RecvGoto(n, "retire")
       \/ Piped(insts[n].recv.req) /\ insts[n].fenced /\ insts' = RecvGoto(n, "fail")
    /\ UNCHANGED <<scenario, client, reqs, call>>

\* ... retires the request ...
BatchRetire(n) ==
    LET i == insts[n].recv.req
        c == Removed(client, i) IN
    /\ insts[n].recv.pc = "retire"
    /\ client' = c
    /\ reqs' = [reqs EXCEPT ![i].reported = reqs[i].op = "GetBlockRange"]
    /\ insts' = IF c = client THEN RecvGoto(n, "batchDone")
                ELSE Allowed(RecvGoto(n, "batchDone"), reqs, c.queue, n)
    /\ UNCHANGED <<scenario, call>>

\* ... and reports it: BatchDoneFunc for GetBlockRange, then resolve.
BatchReport(n) ==
    LET i == insts[n].recv.req
        told == IF reqs[i].op = "GetBlockRange"
                THEN [reqs EXCEPT ![i].reports = @ + 1] ELSE reqs IN
    /\ insts[n].recv.pc = "batchDone"
    /\ reqs' = Resolve(told, i, "ok")
    /\ client' = BusyAfterResolve(client, i)
    /\ insts' = Rest(n)
    /\ UNCHANGED <<scenario, call>>

NoBlocksResolve(n) ==
    LET i == insts[n].recv.req IN
    /\ insts[n].recv.pc = "noBlocks"
    /\ reqs' = Resolve(reqs, i, "noBlocks")
    /\ client' = BusyAfterResolve(client, i)
    /\ insts' = Rest(n)
    /\ UNCHANGED <<scenario, call>>

\* failRequest: retire the request if it is still the head; the instance ends.
FailRequest(n) ==
    LET i == insts[n].recv.req IN
    /\ insts[n].recv.pc = "fail"
    /\ IF client.queue # <<>> /\ Head(client.queue) = i
       THEN /\ client' = Removed(client, i)
            /\ insts' = Allowed(RecvGoto(n, "failed"), reqs, Without(client.queue, i), n)
       ELSE insts' = Fails(n, insts) /\ UNCHANGED client
    /\ UNCHANGED <<scenario, reqs, call>>

FailResolve(n) ==
    LET i == insts[n].recv.req IN
    /\ insts[n].recv.pc = "failed"
    /\ reqs' = Resolve(reqs, i, "error")
    /\ client' = BusyAfterResolve(client, i)
    /\ insts' = Fails(n, insts)
    /\ UNCHANGED <<scenario, call>>

\* startPipelineStopWatcher
FenceCut(n) ==
    /\ Here.pipeline # "none"
    /\ insts[n].phase = "stopped" /\ ~insts[n].fenced
    /\ insts' = [insts EXCEPT ![n].fenced = TRUE]
    /\ UNCHANGED <<scenario, client, reqs, call>>

-----------------------------------------------------------------------------
(* The server answers the requests of an instance in order. *)

Reply(n, kind, i) == Append(insts[n].replies, [kind |-> kind, to |-> i])

Serving(n, i) ==
    /\ insts[n].phase = "started"
    /\ insts[n].requests # <<>>
    /\ i = Head(insts[n].requests)
    /\ UNCHANGED <<scenario, client, reqs, call>>

ServerStarts(n, i) ==
    /\ Serving(n, i)
    /\ insts[n].sent = Waiting
    /\ insts' = [insts EXCEPT ![n].replies = Reply(n, "StartBatch", i), ![n].sent = 0]

ServerRefuses(n, i) ==
    /\ Serving(n, i)
    /\ Here.refuses /\ insts[n].sent = Waiting
    /\ insts' = [insts EXCEPT ![n].replies = Reply(n, "NoBlocks", i), ![n].requests = Tail(@)]

ServerSends(n, i) ==
    /\ Serving(n, i)
    /\ insts[n].sent \in 0 .. reqs[i].len - 1
    /\ \E kind \in {"Block"} \cup (IF Here.strays THEN {"Stray"} ELSE {}) :
          insts' = [insts EXCEPT ![n].replies = Reply(n, kind, i), ![n].sent = @ + 1]

ServerEnds(n, i) ==
    /\ Serving(n, i)
    /\ insts[n].sent = reqs[i].len \/ (Here.strays /\ insts[n].sent >= 0)
    /\ insts' = [insts EXCEPT ![n].replies = Reply(n, "BatchDone", i), ![n].requests = Tail(@),
                              ![n].sent = Waiting]

-----------------------------------------------------------------------------
UserStep(u) ==
    \/ StartBegin(u) \/ StartLaunch(u)
    \/ StopBegin(u) \/ StopInstance(u) \/ StopDrain(u) \/ StopFail(u)
    \/ FetchBegin(u) \/ FetchInstance(u) \/ Admit(u) \/ Enqueue(u) \/ SendRange(u)
    \/ StartWait(u) \/ BlockWait(u)

RecvStep(n) ==
    \/ HandleStartBatch(n) \/ HandleNoBlocks(n) \/ HandleBlock(n) \/ HandleBatchDone(n)
    \/ RecordBlock(n) \/ DeliverBlock(n) \/ BatchFence(n) \/ BatchRetire(n) \/ BatchReport(n)
    \/ NoBlocksResolve(n) \/ FailRequest(n) \/ FailResolve(n)

WatchStep(n) ==
    ResolveDoomed(n) \/ InstanceDone(n) \/ WatcherDrains(n) \/ WatcherResolves(n) \/ FenceCut(n)

Server(n) ==
    \E i \in ToSet(insts[n].requests) :
        ServerStarts(n, i) \/ ServerRefuses(n, i) \/ ServerSends(n, i) \/ ServerEnds(n, i)

Next ==
    \/ \E u \in Users : UserStep(u)
    \/ \E n \in DOMAIN insts : RecvStep(n) \/ WatchStep(n) \/ Server(n) \/ ConnectionLost(n)
    \/ \E i \in DOMAIN reqs : ReleaseOnDone(i) \/ Expire(i) \/ DeadlineFires(i)

\* Goroutines run; the peer, the clock and the connection owe nothing.
Fairness ==
    /\ \A u \in Users : WF_vars(UserStep(u))
    /\ WF_vars(\E n \in DOMAIN insts : RecvStep(n))
    /\ WF_vars(\E n \in DOMAIN insts : WatchStep(n))
    /\ WF_vars(\E i \in DOMAIN reqs : ReleaseOnDone(i))

Spec == Init /\ [][Next]_vars /\ Fairness

-----------------------------------------------------------------------------
(* Properties *)

TypeOK ==
    /\ client.life \in {"new", "starting", "running", "stopped"}
    /\ client.bytes \in Nat /\ client.busy \in 0 .. client.tokens
    /\ client.queue \in Seq(DOMAIN reqs)
    /\ \A n \in DOMAIN insts :
          insts[n].phase \in {"fresh", "started", "lost", "stopped", "done"}

\* An answer is given to the request it answers: the queue the handler takes the
\* head of is in the order of the wire, whatever callers, failed sends, deadlines
\* and restarts did to it.
AnswersMatch ==
    \A n \in DOMAIN insts :
        insts[n].recv.req # 0 => insts[n].recv.req = insts[n].recv.msg.to

\* The byte budget and the ingress limits are those of the queue: inFlightBytes is
\* what the queued requests reserved and exceeds MaxInFlightBytes only for one
\* request alone; an instance's allowance covers its estimated requests, and it
\* holds the peer back while an unestimated one is out.
BytesAccounted ==
    /\ client.bytes = ReservedBy(client.queue)
    /\ \/ client.bytes <= Here.maxInFlight
       \/ Cardinality({i \in ToSet(client.queue) : Reserved(reqs[i]) > 0}) = 1
    /\ \A n \in DOMAIN insts : Allowed(insts, reqs, client.queue, n) = insts

\* The consumer of a range hears of its end once, and after its last block: no block
\* of a request is delivered once the request is resolved.  GetBlockRange with a
\* pipeline is left out: the deadline may be reported while handleBatchDone waits
\* for the pipeline, and handleBatchDone then reports again.
EndIsLast ==
    /\ \A i \in DOMAIN reqs :
          reqs[i].op = "RequestRange" \/ Here.pipeline = "none" => reqs[i].reports <= 1
    /\ \A n \in DOMAIN insts :
          insts[n].recv.pc = "deliver" => reqs[insts[n].recv.req].resolved = None

\* Nobody is left waiting for an instance that is over: its requests are resolved,
\* the calls that wait for them return and the busy token is free for the next.
Stranded ==
    \E u \in Users :
        /\ call[u].pc \in {"admit", "token", "send", "startWait", "blockWait"}
        /\ Over(call[u].inst)
==============================================================================
