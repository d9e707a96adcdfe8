------------------------------ MODULE Protocol ------------------------------
(***************************************************************************)
(* The engine every mini-protocol runs on (protocol/protocol.go): a client *)
(* and a server, each with its send, read, receive and state loop, joined  *)
(* by two first-in first-out streams (the muxer).                          *)
(*                                                                         *)
(* A message is its name, which stands for its type and for what a         *)
(* MatchFunc looks at.  A transition is one step, taken when the state     *)
(* loop serves the request; everything between two looks at shared state   *)
(* is one step of the loop that does it.  Message bytes, encoding and      *)
(* segment boundaries are abstracted: a message has size one, and a batch  *)
(* of messages may end wherever its bytes would fill a segment.            *)
(***************************************************************************)
EXTENDS Integers, Sequences, SequencesExt

CONSTANTS
    Scenarios,     \* name -> a conversation and what may happen to it
    MaxPerSegment, \* maxMessagesPerSegment
    SendQueueSize, \* capacity of sendQueueChan
    RecvQueueSize, \* capacity of recvQueueChan
    RecvBudget,    \* pendingReceiveBudget, in messages; 0 is unbounded
    MaxStrays      \* bound: number of messages sent out of turn

Roles == {"client", "server"}

\* The messages of a role: those it may send in a state where it has agency.
SpokenIn(map, p) ==
    UNION {DOMAIN map[s].next : s \in {t \in DOMAIN map : map[t].agency = p}}

Peer(p) == IF p = "client" THEN "server" ELSE "client"

(***************************************************************************)
(* A StateMap: a message belongs to one role, and only messages of the     *)
(* role without agency are pipelined (PipelinedMessageTypes).              *)
(***************************************************************************)
IsStateMap(map) ==
    /\ \A s \in DOMAIN map :
          /\ map[s].agency \in Roles \cup {"none"} /\ map[s].allow \in BOOLEAN
          /\ \A m \in DOMAIN map[s].next : map[s].next[m] \in DOMAIN map
          /\ map[s].agency = "none" => DOMAIN map[s].next = {} /\ map[s].types = {}
          /\ map[s].types \subseteq SpokenIn(map, Peer(map[s].agency))
    /\ SpokenIn(map, "client") \cap SpokenIn(map, "server") = {}

(***************************************************************************)
(* A scenario is a protocol (map, init), the messages the client's         *)
(* application sends (script), the answers of the server's application to  *)
(* a request (responses), PendingMessageByteLimit on sending in messages   *)
(* (sendLimit; 0 is none), the messages a peer of another implementation   *)
(* sends out of turn (strays), and the roles whose owner may call Stop,    *)
(* whose state timer may expire and whose muxer may end (ending).          *)
(***************************************************************************)
IsConversation(here) ==
    LET spoken == [p \in Roles |-> SpokenIn(here.map, p)]
    IN  /\ IsStateMap(here.map) /\ here.init \in DOMAIN here.map
        /\ here.script \in Seq(spoken["client"])
        /\ \A m \in spoken["client"] : \A r \in here.responses[m] : r \in Seq(spoken["server"])
        /\ here.strays \subseteq spoken["client"] \cup spoken["server"]
        /\ here.sendLimit \in Nat /\ here.ending \subseteq Roles

ASSUME ProtocolAssumption ==
    /\ \A c \in DOMAIN Scenarios : IsConversation(Scenarios[c])
    /\ {MaxPerSegment, SendQueueSize, RecvQueueSize} \subseteq Nat \ {0}
    /\ {RecvBudget, MaxStrays} \subseteq Nat

VARIABLES
    scenario,  \* the conversation that is held
    eng,       \* the state under currentStateMu and pendingBytesMu, per role
    snd,       \* sendLoop
    rd,        \* readLoop
    rcv,       \* recvLoop
    sendQueue, \* sendQueueChan
    recvQueue, \* recvQueueChan
    wire,      \* what the role has written and its peer has not consumed
    pending,   \* pendingSendBytes and pendingRecvBytes
    todo,      \* messages the application has yet to pass to SendMessage
    err,       \* the error the role reported with SendError
    stopped,   \* stopChan is closed
    lost,      \* muxerDoneChan is closed
    strays,    \* number of messages sent out of turn
    log,       \* history: the messages whose transitions the role applied
    handled,   \* history: the messages the role's handler was given
    sent       \* history: the messages the application sent

vars == <<scenario, eng, snd, rd, rcv, sendQueue, recvQueue, wire, pending, todo, err,
          stopped, lost, strays, log, handled, sent>>

Conversations == Scenarios
StateMap == Conversations[scenario].map
InitialState == Conversations[scenario].init
SendLimit == Conversations[scenario].sendLimit
StrayMsgs == Conversations[scenario].strays

\* Both peers keep to the protocol, and nobody ends it before its end.
Honest == StrayMsgs = {}
Undisturbed == Honest /\ Conversations[scenario].ending = {}

\* The message types of the protocol.
MsgsOf ==
    [c \in DOMAIN Scenarios |->
        LET map == Scenarios[c].map IN UNION {DOMAIN map[s].next : s \in DOMAIN map}]
Msgs == MsgsOf[scenario]

\* agencyHolderFor
Holder(p, s) ==
    CASE StateMap[s].agency = "none" -> "neither"
      [] StateMap[s].agency = p -> "local"
      [] OTHER -> "peer"

HasAgency(p) == Holder(p, eng[p].state) = "local"

PeerHasAgency(p) == Holder(p, eng[p].state) = "peer"

\* pipelinedSendAllowed
MayPipeline(p) == StateMap[eng[p].state].allow /\ PeerHasAgency(p)

\* pipelinedMessageFits
Fits(p, m) == m \in StateMap[eng[p].state].types

\* messageHasAgencyTransition
HasAgencyTransition(p, m) ==
    \E s \in DOMAIN StateMap :
        StateMap[s].agency = p /\ m \in DOMAIN StateMap[s].next

\* nextState succeeds
Legal(p, m) == m \in DOMAIN StateMap[eng[p].state].next

Terminal(s) == StateMap[s].agency = "none"

\* messageEndsProtocol
EndsProtocol(s, m) ==
    m \in DOMAIN StateMap[s].next /\ Terminal(StateMap[s].next[m])

Init ==
    /\ scenario \in DOMAIN Scenarios
    /\ eng = [p \in Roles |->
                 [state |-> InitialState, gen |-> 0,
                  token |-> Holder(p, InitialState) = "local",
                  changed |-> TRUE, reserved |-> FALSE,
                  requests |-> 0, replies |-> 0,
                  typeGen |-> [m \in Msgs |->
                      IF /\ Holder(p, InitialState) = "local"
                         /\ m \in StateMap[InitialState].types
                      THEN 0 ELSE -1]]]
    /\ snd = [p \in Roles |-> [pc |-> "top", queued |-> <<>>, held |-> <<>>,
                               defer |-> FALSE, progressed |-> FALSE, buf |-> <<>>]]
    /\ rd = [p \in Roles |-> [pc |-> "read", state |-> InitialState, gen |-> 0,
                              unreserved |-> FALSE, reply |-> FALSE]]
    /\ rcv = [p \in Roles |-> [pc |-> "idle", msg |-> <<>>, reply |-> FALSE]]
    /\ sendQueue = [p \in Roles |-> <<>>]
    /\ recvQueue = [p \in Roles |-> <<>>]
    /\ wire = [p \in Roles |-> <<>>]
    /\ pending = [p \in Roles |-> [send |-> 0, recv |-> 0]]
    /\ todo = [p \in Roles |-> IF p = "client" THEN Conversations[scenario].script ELSE <<>>]
    /\ err = [p \in Roles |-> ""]
    /\ stopped = [p \in Roles |-> FALSE]
    /\ lost = [p \in Roles |-> FALSE]
    /\ strays = 0
    /\ log = [p \in Roles |-> <<>>]
    /\ handled = [p \in Roles |-> <<>>]
    /\ sent = [p \in Roles |-> <<>>]

-----------------------------------------------------------------------------
(* The state loop *)

BugReplyKept(p, s, reply, request) ==
    [eng[p] EXCEPT
        !.state = s,
        !.gen = @ + 1,
        !.requests = IF request /\ @ > 0 THEN @ - 1 ELSE @,
        !.reserved = (request \/ Holder(p, s) = "peer") /\ eng[p].replies > 0,
        !.token = @ \/ Holder(p, s) = "local",
        !.changed = TRUE]

(***************************************************************************)
(* setState, after the initial state is set: the state, the token for the  *)
(* send loop and the reservations change in one critical section.          *)
(***************************************************************************)
SetState(p, s, reply, request) ==
    LET e == eng[p]
        replies == IF reply /\ e.replies > 0 THEN e.replies - 1 ELSE e.replies
        requests == IF request /\ e.requests > 0 THEN e.requests - 1 ELSE e.requests
        local == Holder(p, s) = "local"
    IN  [e EXCEPT
            !.state = s,
            !.gen = @ + 1,
            !.replies = replies,
            !.requests = requests,
            !.reserved = (request \/ Holder(p, s) = "peer") /\ replies > 0,
            !.token = @ \/ local,
            !.changed = TRUE,
            !.typeGen = [m \in Msgs |-> IF local /\ m \in StateMap[s].types
                                        THEN e.gen + 1 ELSE @[m]]]

Transition(p, m, reply, request) ==
    /\ Legal(p, m)
    /\ eng' = [eng EXCEPT ![p] =
                  SetState(p, StateMap[eng[p].state].next[m], reply, request)]
    /\ log' = [log EXCEPT ![p] = Append(@, m)]

\* SendError: the first error is reported, and stops the protocol.
SendError(p, why) ==
    /\ err' = [err EXCEPT ![p] = IF stopped[p] THEN @ ELSE why]
    /\ stopped' = [stopped EXCEPT ![p] = TRUE]

Timeout(p) ==
    /\ p \in Conversations[scenario].ending
    /\ ~stopped[p]
    /\ eng[p].gen > 0
    /\ ~Terminal(eng[p].state)
    /\ SendError(p, "timeout")
    /\ UNCHANGED <<scenario, eng, snd, rd, rcv, sendQueue, recvQueue, wire, pending, todo,
                   lost, strays, log, handled, sent>>

-----------------------------------------------------------------------------
(* The application: SendMessage *)

Running(p) == ~stopped[p] /\ ~lost[p] /\ snd[p].pc # "gone" /\ rcv[p].pc # "gone"

Enqueue(p) ==
    /\ todo[p] # <<>>
    /\ Running(p)
    /\ SendLimit = 0 \/ pending[p].send < SendLimit
    /\ Len(sendQueue[p]) < SendQueueSize
    /\ sendQueue' = [sendQueue EXCEPT ![p] = Append(@, Head(todo[p]))]
    /\ pending' = [pending EXCEPT ![p].send = @ + 1]
    /\ sent' = [sent EXCEPT ![p] = Append(@, Head(todo[p]))]
    /\ todo' = [todo EXCEPT ![p] = Tail(@)]
    /\ UNCHANGED <<scenario, eng, snd, rd, rcv, recvQueue, wire, err, stopped, lost, strays,
                   log, handled>>

EnqueueRefused(p) ==
    /\ todo[p] # <<>>
    /\ Running(p)
    /\ SendLimit > 0 /\ pending[p].send >= SendLimit
    /\ SendError(p, "overflow")
    /\ todo' = [todo EXCEPT ![p] = <<>>]
    /\ UNCHANGED <<scenario, eng, snd, rd, rcv, sendQueue, recvQueue, wire, pending, lost, strays,
                   log, handled, sent>>

-----------------------------------------------------------------------------
(* sendLoop *)

sendRest == <<scenario, rd, rcv, recvQueue, todo, lost, strays, handled, sent>>

\* Move the send loop, and nothing else.
SendGoto(p, new) ==
    /\ snd' = [snd EXCEPT ![p] = new]
    /\ UNCHANGED <<sendRest, sendQueue, wire, pending>>

NoError == UNCHANGED <<err, stopped>>

\* The loop reports an error and returns.
SendFail(p, why) ==
    /\ SendError(p, why)
    /\ snd' = [snd EXCEPT ![p].pc = "gone"]
    /\ UNCHANGED <<sendRest, sendQueue, wire, pending, eng, log>>

\* What to wait for is decided once, on the state as it is now.
SendTop(p) ==
    LET wait == CASE snd[p].held # <<>> -> "held"
                  [] MayPipeline(p) -> "pipelined"
                  [] OTHER -> "agency"
    IN  /\ snd[p].pc = "top"
        /\ SendGoto(p, [snd[p] EXCEPT !.pc = wait])
        /\ NoError /\ UNCHANGED <<eng, log>>

SendReady(p) ==
    /\ snd[p].pc \in {"held", "pipelined", "agency"}
    /\ eng[p].token
    /\ eng' = [eng EXCEPT ![p].token = FALSE]
    /\ SendGoto(p, [snd[p] EXCEPT !.pc = "ready"])
    /\ NoError /\ UNCHANGED log

SendDequeue(p) ==
    /\ snd[p].pc = "pipelined"
    /\ sendQueue[p] # <<>>
    /\ sendQueue' = [sendQueue EXCEPT ![p] = Tail(@)]
    /\ snd' = [snd EXCEPT ![p].pc = "resolve", ![p].held = <<Head(sendQueue[p])>>]
    /\ NoError /\ UNCHANGED <<sendRest, wire, pending, eng, log>>

\* A batch of messages begins; its first transition is applied at once only
\* if the loop was woken by agency.
Batch(p, haveAgency) == [snd[p] EXCEPT !.pc = "batch", !.defer = ~haveAgency]

(***************************************************************************)
(* resolvePipelinedDequeue: the state may have moved since SendTop.        *)
(***************************************************************************)
Resolve(p) ==
    LET m == Head(snd[p].held)
    IN  /\ snd[p].pc = "resolve"
        /\ CASE Fits(p, m) ->
                  SendGoto(p, Batch(p, FALSE)) /\ NoError /\ UNCHANGED <<eng, log>>
             [] ~Fits(p, m) /\ HasAgency(p) ->
                  /\ SendGoto(p, [snd[p] EXCEPT !.pc = "drain"])
                  /\ NoError /\ UNCHANGED <<eng, log>>
             [] ~Fits(p, m) /\ ~HasAgency(p) /\ HasAgencyTransition(p, m) ->
                  /\ SendGoto(p, [snd[p] EXCEPT !.pc = "top"])
                  /\ NoError /\ UNCHANGED <<eng, log>>
             [] OTHER -> SendFail(p, "disallowed")

Flushing(s) == [s EXCEPT !.pc = IF s.queued = <<>> THEN "observe" ELSE "flush"]

ResolveDrain(p) ==
    /\ snd[p].pc = "drain"
    /\ eng[p].token
    /\ eng' = [eng EXCEPT ![p].token = FALSE]
    /\ SendGoto(p, Flushing([snd[p] EXCEPT !.progressed = FALSE]))
    /\ NoError /\ UNCHANGED log

\* flushQueuedStateTransitions, one deferred transition at a time.
Flush(p) ==
    LET m == Head(snd[p].queued)
    IN  /\ snd[p].pc = "flush"
        /\ IF Legal(p, m)
           THEN /\ Transition(p, m, FALSE, TRUE)
                /\ SendGoto(p, Flushing([snd[p] EXCEPT !.queued = Tail(@),
                                                       !.progressed = TRUE]))
           ELSE /\ SendGoto(p, [snd[p] EXCEPT !.pc = "observe"])
                /\ UNCHANGED <<eng, log>>
        /\ NoError

BugTokenNotDrained(p) ==
    LET m == Head(snd[p].held)
        pc == CASE Fits(p, m) -> "batch"
                [] HasAgency(p) /\ snd[p].queued # <<>> -> "flush"
                [] HasAgency(p) /\ Legal(p, m) -> "batch"
                [] OTHER -> "top"
    IN  /\ snd[p].pc = "observe"
        /\ SendGoto(p, [snd[p] EXCEPT !.pc = pc, !.defer = ~HasAgency(p)])
        /\ NoError /\ UNCHANGED <<eng, log>>

\* observeStateAndDrainSendReady, and the decision taken on what it saw.
Observe(p) ==
    LET m == Head(snd[p].held)
        drained == eng' = [eng EXCEPT ![p].token = FALSE] /\ UNCHANGED log
        flushed == snd[p].queued = <<>>
    IN  /\ snd[p].pc = "observe"
        /\ CASE Fits(p, m) ->
                  SendGoto(p, Batch(p, FALSE)) /\ drained /\ NoError
             [] ~Fits(p, m) /\ ~HasAgency(p) /\ HasAgencyTransition(p, m) ->
                  SendGoto(p, [snd[p] EXCEPT !.pc = "top"]) /\ drained /\ NoError
             [] ~Fits(p, m) /\ HasAgency(p) /\ flushed /\ Legal(p, m) ->
                  SendGoto(p, Batch(p, TRUE)) /\ drained /\ NoError
             [] ~Fits(p, m) /\ HasAgency(p) /\ ~flushed /\ snd[p].progressed ->
                  /\ SendGoto(p, [snd[p] EXCEPT !.pc = "flush", !.progressed = FALSE])
                  /\ drained /\ NoError
             [] OTHER -> SendFail(p, "disallowed")

\* Woken by agency: a deferred transition goes first, alone.
SendCheck(p) ==
    LET q == snd[p].queued
    IN  /\ snd[p].pc = "ready"
        /\ CASE q = <<>> ->
                  SendGoto(p, Batch(p, TRUE)) /\ NoError /\ UNCHANGED <<eng, log>>
             [] q # <<>> /\ Legal(p, Head(q)) ->
                  /\ Transition(p, Head(q), FALSE, TRUE)
                  /\ SendGoto(p, [snd[p] EXCEPT !.pc = "top", !.queued = Tail(@)])
                  /\ NoError
             [] OTHER -> SendFail(p, "sending")

\* The next message of the batch: the held one, or one from the queue.
BatchHeld(p) ==
    /\ snd[p].pc = "batch"
    /\ snd[p].held # <<>>
    /\ SendGoto(p, [snd[p] EXCEPT !.pc = "place"])
    /\ NoError /\ UNCHANGED <<eng, log>>

BatchDequeue(p) ==
    /\ snd[p].pc = "batch"
    /\ snd[p].held = <<>>
    /\ sendQueue[p] # <<>>
    /\ sendQueue' = [sendQueue EXCEPT ![p] = Tail(@)]
    /\ snd' = [snd EXCEPT ![p].pc = IF snd[p].defer THEN "recheck" ELSE "place",
                          ![p].held = <<Head(sendQueue[p])>>]
    /\ NoError /\ UNCHANGED <<sendRest, wire, pending, eng, log>>

BugBypassBacklog(p) ==
    LET m == Head(snd[p].held)
        may == MayPipeline(p) /\ Fits(p, m)
    IN  /\ snd[p].pc = "recheck"
        /\ IF HasAgency(p)
           THEN /\ eng' = [eng EXCEPT ![p].token = FALSE]
                /\ SendGoto(p, [snd[p] EXCEPT !.pc = "place", !.defer = FALSE])
           ELSE /\ SendGoto(p, [snd[p] EXCEPT !.pc = IF may THEN "place" ELSE "write"])
                /\ UNCHANGED eng
        /\ NoError /\ UNCHANGED log

BugHoldForgotten(p) ==
    LET m == Head(snd[p].held)
        bypass == snd[p].queued = <<>> /\ HasAgency(p)
        may == MayPipeline(p) /\ Fits(p, m)
    IN  /\ snd[p].pc = "recheck"
        /\ IF bypass \/ may
           THEN SendGoto(p, [snd[p] EXCEPT !.pc = "place", !.defer = ~bypass])
           ELSE SendGoto(p, [snd[p] EXCEPT !.pc = "write", !.held = <<>>])
        /\ eng' = [eng EXCEPT ![p].token = @ /\ ~bypass]
        /\ NoError /\ UNCHANGED log

\* takeAgencyToken, and whether a message behind a pipelined one may go too.
Recheck(p) ==
    LET m == Head(snd[p].held)
        bypass == snd[p].queued = <<>> /\ HasAgency(p)
        may == MayPipeline(p) /\ Fits(p, m)
    IN  /\ snd[p].pc = "recheck"
        /\ CASE bypass ->
                  /\ eng' = [eng EXCEPT ![p].token = FALSE]
                  /\ SendGoto(p, [snd[p] EXCEPT !.pc = "place", !.defer = FALSE])
                  /\ NoError /\ UNCHANGED log
             [] ~bypass /\ may ->
                  /\ SendGoto(p, [snd[p] EXCEPT !.pc = "place"])
                  /\ NoError /\ UNCHANGED <<eng, log>>
             [] ~bypass /\ ~may /\ HasAgencyTransition(p, m) ->
                  /\ SendGoto(p, [snd[p] EXCEPT !.pc = "write"])
                  /\ NoError /\ UNCHANGED <<eng, log>>
             [] OTHER -> SendFail(p, "disallowed")

(***************************************************************************)
(* The message joins the batch, with its transition applied or deferred.   *)
(* The batch goes on only while the queue has more; it may end sooner,     *)
(* when its bytes spill into a second segment or its sender waits for the  *)
(* delivery.                                                               *)
(***************************************************************************)
Placed(p) ==
    LET m == Head(snd[p].held)
        next == [snd[p] EXCEPT !.held = <<>>, !.buf = Append(@, m), !.defer = TRUE,
                    !.queued = IF snd[p].defer THEN Append(@, m) ELSE @]
        more == sendQueue[p] # <<>> /\ Len(next.buf) < MaxPerSegment
    IN  /\ \E pc \in {"write"} \cup (IF more THEN {"batch"} ELSE {}) :
              snd' = [snd EXCEPT ![p] = [next EXCEPT !.pc = pc]]
        /\ pending' = [pending EXCEPT ![p].send = @ - 1]
        /\ NoError /\ UNCHANGED <<sendRest, sendQueue, wire>>

PlaceDeferred(p) ==
    /\ snd[p].pc = "place"
    /\ snd[p].defer
    /\ eng' = [eng EXCEPT ![p].requests = @ + 1]
    /\ Placed(p)
    /\ UNCHANGED log

PlaceNow(p) ==
    /\ snd[p].pc = "place"
    /\ ~snd[p].defer
    /\ IF Legal(p, Head(snd[p].held))
       THEN Transition(p, Head(snd[p].held), FALSE, FALSE) /\ Placed(p)
       ELSE SendFail(p, "sending")

Write(p) ==
    /\ snd[p].pc = "write"
    /\ ~lost[p]
    /\ wire' = [wire EXCEPT ![p] = @ \o snd[p].buf]
    /\ snd' = [snd EXCEPT ![p].pc = "top", ![p].buf = <<>>]
    /\ NoError /\ UNCHANGED <<sendRest, sendQueue, pending, eng, log>>

-----------------------------------------------------------------------------
(* A server of another implementation that answers out of turn. *)

Stray(m) ==
    /\ strays < MaxStrays
    /\ strays' = strays + 1
    /\ wire' = [wire EXCEPT !["server"] = Append(@, m)]
    /\ UNCHANGED <<scenario, eng, snd, rd, rcv, sendQueue, recvQueue, pending, todo, err,
                   stopped, lost, log, handled, sent>>

-----------------------------------------------------------------------------
(* readLoop: the message at the head of the peer's stream *)

Inbound(p) == Head(wire[Peer(p)])

readRest == <<scenario, snd, rcv, sendQueue, todo, lost, strays, log, handled, sent>>

ReadGoto(p, new) ==
    /\ rd' = [rd EXCEPT ![p] = new]
    /\ UNCHANGED <<readRest, recvQueue>>

Consumed(p) == wire' = [wire EXCEPT ![Peer(p)] = Tail(@)]

BugSnapshotTooEarly(p) ==
    LET e == eng[p]
    IN  /\ rd[p].pc = "read"
        /\ wire[Peer(p)] # <<>>
        /\ ReadGoto(p, [pc |-> "admit", state |-> e.state, gen |-> e.gen,
                        unreserved |-> e.replies < e.requests, reply |-> FALSE])
        /\ NoError /\ UNCHANGED <<eng, wire, pending>>

\* waitForInboundSnapshot: what the message will be admitted against.
Snapshot(p) ==
    LET e == eng[p]
        unreserved == e.replies < e.requests
    IN  /\ rd[p].pc = "read"
        /\ wire[Peer(p)] # <<>>
        /\ unreserved \/ e.replies = 0
        /\ ReadGoto(p, [pc |-> "admit", state |-> e.state, gen |-> e.gen,
                        unreserved |-> unreserved, reply |-> FALSE])
        /\ NoError /\ UNCHANGED <<eng, wire, pending>>

(***************************************************************************)
(* reserveInboundAdmission                                                 *)
(***************************************************************************)
\* The message may use the peer agency of the current state.
Continues(p) ==
    LET e == eng[p]
        r == rd[p]
    IN  \/ e.gen = r.gen
        \/ e.gen = r.gen + 1 /\ Holder(p, r.state) = "peer"
        \/ e.typeGen[Inbound(p)] >= r.gen
        \/ r.unreserved

Admitted(p, reply) ==
    [rd[p] EXCEPT !.pc = "admitted", !.state = eng[p].state, !.reply = reply]

BugTurnNotReserved(p) ==
    /\ rd[p].pc = "admit"
    /\ PeerHasAgency(p)
    /\ Continues(p)
    /\ ReadGoto(p, Admitted(p, FALSE))
    /\ NoError /\ UNCHANGED <<eng, wire, pending>>

AdmitPeer(p) ==
    /\ rd[p].pc = "admit"
    /\ PeerHasAgency(p)
    /\ Continues(p)
    /\ ~eng[p].reserved
    /\ eng' = [eng EXCEPT ![p].reserved = TRUE]
    /\ ReadGoto(p, Admitted(p, FALSE))
    /\ NoError /\ UNCHANGED <<wire, pending>>

AdmitPipelined(p) ==
    /\ rd[p].pc = "admit"
    /\ HasAgency(p)
    /\ Fits(p, Inbound(p))
    /\ ReadGoto(p, Admitted(p, FALSE))
    /\ NoError /\ UNCHANGED <<eng, wire, pending>>

MayReserveReply(p) == rd[p].unreserved /\ eng[p].replies < eng[p].requests

AdmitReply(p) ==
    /\ rd[p].pc = "admit"
    /\ HasAgency(p)
    /\ ~Fits(p, Inbound(p))
    /\ MayReserveReply(p)
    /\ eng' = [eng EXCEPT ![p].replies = @ + 1]
    /\ ReadGoto(p, Admitted(p, TRUE))
    /\ NoError /\ UNCHANGED <<wire, pending>>

\* After the protocol ended, a server leaves what follows to the instance
\* that replaces it, and a client drops it.
AdmitTerminal(p) ==
    /\ rd[p].pc = "admit"
    /\ Terminal(eng[p].state)
    /\ IF p = "server"
       THEN ReadGoto(p, [rd[p] EXCEPT !.pc = "gone"]) /\ UNCHANGED wire
       ELSE ReadGoto(p, [rd[p] EXCEPT !.pc = "read"]) /\ Consumed(p)
    /\ NoError /\ UNCHANGED <<eng, pending>>

AdmitDenied(p) ==
    /\ rd[p].pc = "admit"
    /\ \/ PeerHasAgency(p) /\ ~Continues(p)
       \/ HasAgency(p) /\ ~Fits(p, Inbound(p)) /\ ~MayReserveReply(p)
    /\ SendError(p, "unexpected")
    /\ ReadGoto(p, [rd[p] EXCEPT !.pc = "gone"])
    /\ UNCHANGED <<eng, wire, pending>>

BugUnaccounted(p) ==
    /\ rd[p].pc = "admitted"
    /\ ReadGoto(p, [rd[p] EXCEPT !.pc = "push"])
    /\ NoError /\ UNCHANGED <<eng, wire, pending>>

\* waitForPendingBudget
Account(p) ==
    /\ rd[p].pc = "admitted"
    /\ \/ RecvBudget = 0
       \/ pending[p].recv + 1 <= RecvBudget
       \/ pending[p].recv = 0
    /\ pending' = [pending EXCEPT ![p].recv = @ + 1]
    /\ ReadGoto(p, [rd[p] EXCEPT !.pc = "push"])
    /\ NoError /\ UNCHANGED <<eng, wire>>

\* A server stops reading behind the message that ends the protocol.
Push(p) ==
    /\ rd[p].pc = "push"
    /\ ~stopped[p]
    /\ Len(recvQueue[p]) < RecvQueueSize
    /\ recvQueue' = [recvQueue EXCEPT ![p] =
                        Append(@, [msg |-> Inbound(p), reply |-> rd[p].reply])]
    /\ rd' = [rd EXCEPT ![p].pc =
                 IF p = "server" /\ EndsProtocol(rd[p].state, Inbound(p))
                 THEN "gone" ELSE "read"]
    /\ Consumed(p)
    /\ NoError /\ UNCHANGED <<readRest, eng, pending>>

-----------------------------------------------------------------------------
(* recvLoop *)

recvRest == <<scenario, snd, rd, wire, sendQueue, lost, strays, sent>>

RecvTake(p) ==
    /\ rcv[p].pc = "idle"
    /\ recvQueue[p] # <<>>
    /\ rcv' = [rcv EXCEPT ![p] = [pc |-> "agency", msg |-> <<Head(recvQueue[p]).msg>>,
                                  reply |-> Head(recvQueue[p]).reply]]
    /\ recvQueue' = [recvQueue EXCEPT ![p] = Tail(@)]
    /\ NoError /\ UNCHANGED <<recvRest, eng, pending, todo, log, handled>>

BugHandledEarly(p) ==
    /\ rcv[p].pc = "agency"
    /\ rcv' = [rcv EXCEPT ![p].pc = IF PeerHasAgency(p) THEN "apply" ELSE "handle"]
    /\ NoError /\ UNCHANGED <<recvRest, eng, recvQueue, pending, todo, log, handled>>

RecvAgency(p) ==
    /\ rcv[p].pc = "agency"
    /\ rcv' = [rcv EXCEPT ![p].pc = IF PeerHasAgency(p) THEN "apply" ELSE "asleep"]
    /\ NoError /\ UNCHANGED <<recvRest, eng, recvQueue, pending, todo, log, handled>>

\* recvStateChangedChan
RecvWake(p) ==
    /\ rcv[p].pc = "asleep"
    /\ eng[p].changed
    /\ eng' = [eng EXCEPT ![p].changed = FALSE]
    /\ rcv' = [rcv EXCEPT ![p].pc = "agency"]
    /\ NoError /\ UNCHANGED <<recvRest, recvQueue, pending, todo, log, handled>>

RecvApply(p) ==
    /\ rcv[p].pc = "apply"
    /\ Transition(p, Head(rcv[p].msg), rcv[p].reply, FALSE)
    /\ rcv' = [rcv EXCEPT ![p].pc = "handle"]
    /\ NoError /\ UNCHANGED <<recvRest, recvQueue, pending, todo, handled>>

RecvRefused(p) ==
    /\ rcv[p].pc = "apply"
    /\ ~Legal(p, Head(rcv[p].msg))
    /\ eng' = [eng EXCEPT ![p].replies =
                  IF rcv[p].reply /\ @ > 0 THEN @ - 1 ELSE @]
    /\ rcv' = [rcv EXCEPT ![p].pc = "gone"]
    /\ SendError(p, "handling")
    /\ UNCHANGED <<recvRest, recvQueue, pending, todo, log, handled>>

\* MessageHandlerFunc: the server's application decides what it will answer.
Handle(p) ==
    LET m == Head(rcv[p].msg)
    IN  /\ rcv[p].pc = "handle"
        /\ \E r \in IF p = "server" THEN Conversations[scenario].responses[m] ELSE {<<>>} :
               todo' = [todo EXCEPT ![p] = @ \o r]
        /\ handled' = [handled EXCEPT ![p] = Append(@, m)]
        /\ pending' = [pending EXCEPT ![p].recv = @ - 1]
        /\ rcv' = [rcv EXCEPT ![p] = [pc |-> "idle", msg |-> <<>>, reply |-> FALSE]]
        /\ NoError /\ UNCHANGED <<recvRest, eng, recvQueue, log>>

-----------------------------------------------------------------------------
(* Stopping: every select of the loops watches stopChan, and the send and   *)
(* receive loops watch each other.                                          *)

loopsRest == <<scenario, eng, sendQueue, recvQueue, wire, pending, todo, err, stopped, lost,
               strays, log, handled, sent>>

Stop(p) ==
    /\ p \in Conversations[scenario].ending
    /\ ~stopped[p]
    /\ stopped' = [stopped EXCEPT ![p] = TRUE]
    /\ UNCHANGED <<scenario, eng, snd, rd, rcv, sendQueue, recvQueue, wire, pending, todo, err,
                   lost, strays, log, handled, sent>>

\* The connection ended: the muxer closes the channel it gave the protocol.
MuxerEnds(p) ==
    /\ p \in Conversations[scenario].ending
    /\ ~lost[p]
    /\ lost' = [lost EXCEPT ![p] = TRUE]
    /\ UNCHANGED <<scenario, eng, snd, rd, rcv, sendQueue, recvQueue, wire, pending, todo, err,
                   stopped, strays, log, handled, sent>>

BugReceiverUnwatched(p) ==
    /\ stopped[p]
    /\ snd[p].pc \in {"held", "pipelined", "agency", "drain", "flush", "ready",
                      "batch", "place", "write"}
    /\ snd' = [snd EXCEPT ![p].pc = "gone"]
    /\ UNCHANGED <<loopsRest, rd, rcv>>

\* A transition is given up only when the protocol stops; it may have been
\* applied by then.
SendExit(p) ==
    /\ \/ /\ stopped[p]
          /\ snd[p].pc \in {"held", "pipelined", "agency", "drain", "flush", "ready",
                            "batch", "place", "write"}
       \/ /\ rcv[p].pc = "gone"
          /\ snd[p].pc \in {"held", "pipelined", "agency", "drain", "batch", "write"}
    /\ snd' = [snd EXCEPT ![p].pc = "gone"]
    /\ UNCHANGED <<loopsRest, rd, rcv>>

ReadExit(p) ==
    /\ \/ stopped[p] \/ lost[p]
       \/ snd[p].pc = "gone" /\ rd[p].pc \in {"read", "admit"}
    /\ rd[p].pc \in {"read", "admit", "admitted", "push"}
    /\ rd' = [rd EXCEPT ![p].pc = "gone"]
    /\ UNCHANGED <<loopsRest, snd, rcv>>

RecvExit(p) ==
    /\ \/ stopped[p] /\ rcv[p].pc \in {"idle", "asleep", "apply", "handle"}
       \/ (lost[p] \/ snd[p].pc = "gone") /\ rcv[p].pc \in {"idle", "asleep"}
    /\ rcv' = [rcv EXCEPT ![p].pc = "gone"]
    /\ UNCHANGED <<loopsRest, snd, rd>>

\* doneChan is closed
Done(p) == snd[p].pc = "gone" /\ rcv[p].pc = "gone"

-----------------------------------------------------------------------------

SendLoop(p) ==
    \/ SendTop(p) \/ SendReady(p) \/ SendDequeue(p) \/ SendCheck(p)
    \/ Resolve(p) \/ ResolveDrain(p) \/ Flush(p) \/ Observe(p)
    \/ BatchHeld(p) \/ BatchDequeue(p) \/ Recheck(p)
    \/ PlaceDeferred(p) \/ PlaceNow(p) \/ Write(p) \/ SendExit(p)

ReadLoop(p) ==
    \/ Snapshot(p) \/ AdmitPeer(p) \/ AdmitPipelined(p) \/ AdmitReply(p)
    \/ AdmitTerminal(p) \/ AdmitDenied(p) \/ Account(p) \/ Push(p) \/ ReadExit(p)

RecvLoop(p) ==
    \/ RecvTake(p) \/ RecvAgency(p) \/ RecvWake(p) \/ RecvApply(p)
    \/ RecvRefused(p) \/ Handle(p) \/ RecvExit(p)

Next ==
    \/ \E p \in Roles :
          \/ SendLoop(p) \/ ReadLoop(p) \/ RecvLoop(p)
          \/ Enqueue(p) \/ EnqueueRefused(p)
          \/ Stop(p) \/ Timeout(p) \/ MuxerEnds(p)
    \/ \E m \in StrayMsgs : Stray(m)

Spec == Init /\ [][Next]_vars

\* Every loop is a goroutine: it runs when it can.
LoopSpec ==
    /\ Spec
    /\ \A p \in Roles : WF_vars(SendLoop(p)) /\ WF_vars(ReadLoop(p)) /\ WF_vars(RecvLoop(p))

\* And the application sends what it has to send, as long as nothing may end
\* the conversation.
FairSpec == LoopSpec /\ \A p \in Roles : WF_vars(Undisturbed /\ Enqueue(p))

-----------------------------------------------------------------------------
(* Properties *)

\* The type of every variable of the engine.
TypeOK ==
    \A p \in Roles :
        /\ eng[p].state \in DOMAIN StateMap
        /\ {eng[p].gen, eng[p].requests, eng[p].replies} \subseteq Nat
        /\ {eng[p].token, eng[p].changed, eng[p].reserved} \subseteq BOOLEAN
        /\ eng[p].typeGen \in [Msgs -> Int]
        /\ snd[p].pc \in {"top", "held", "pipelined", "agency", "ready", "resolve",
                          "drain", "flush", "observe", "batch", "recheck", "place",
                          "write", "gone"}
        /\ {snd[p].queued, snd[p].held, snd[p].buf} \subseteq Seq(Msgs)
        /\ rd[p].pc \in {"read", "admit", "admitted", "push", "gone"}
        /\ rcv[p].pc \in {"idle", "agency", "asleep", "apply", "handle", "gone"}
        /\ {sendQueue[p], wire[p], todo[p], log[p], handled[p], sent[p]} \subseteq Seq(Msgs)
        /\ pending[p].send \in Nat /\ pending[p].recv \in Nat
        /\ stopped[p] \in BOOLEAN

(***************************************************************************)
(* sendReadyChan and the state agree: a token is there only while the role *)
(* holds agency, but for one a flush of deferred transitions leaves behind *)
(* and the loop drains before it acts; and a role that holds agency has    *)
(* its token until the send loop has taken it to use it.  (The comments on *)
(* issue 2494: a token that outlives its state would be misread as a grant *)
(* for another one.)                                                       *)
(***************************************************************************)
TokenTracksAgency ==
    \A p \in Roles :
        /\ eng[p].token => HasAgency(p) \/ snd[p].pc \in {"flush", "observe", "gone"}
        /\ HasAgency(p) /\ ~eng[p].token =>
              snd[p].pc \in {"ready", "flush", "observe", "batch", "place", "gone"}

(***************************************************************************)
(* Client and server apply the same transitions in the same order: at any  *)
(* time one of them is only behind the other, also while transitions of    *)
(* pipelined requests are deferred.                                        *)
(***************************************************************************)
OneHistory == IsPrefix(log["client"], log["server"]) \/ IsPrefix(log["server"], log["client"])

(***************************************************************************)
(* Two well-behaved peers never accuse each other, or themselves, of a     *)
(* protocol violation, whatever the timing of replies, pipelined requests  *)
(* and deferred transitions.                                               *)
(***************************************************************************)
NoFalseViolation == Honest => \A p \in Roles : err[p] \in {"", "timeout", "overflow"}

(***************************************************************************)
(* A message is handled once, in the order it was sent: what the peer has  *)
(* handled, and every place a message can be in on the way to it, is what  *)
(* the application sent (no message is dropped while it is held, #2494).   *)
(***************************************************************************)
QueuedMsgs(p) == [i \in DOMAIN recvQueue[p] |-> recvQueue[p][i].msg]

InTransit(p) ==
    LET q == Peer(p)
    IN  handled[q] \o rcv[q].msg \o QueuedMsgs(q) \o wire[p] \o snd[p].buf
            \o snd[p].held \o sendQueue[p]

NothingLost ==
    \A p \in Roles : Honest /\ ~stopped[p] /\ ~stopped[Peer(p)] => InTransit(p) = sent[p]

(***************************************************************************)
(* The counters that admit replies to pipelined requests are the truth:    *)
(* one request per deferred transition, and one reply per admitted reply   *)
(* whose transition is still to come, until the loops begin to leave.      *)
(***************************************************************************)
ReplyCount(queue) == Cardinality({i \in DOMAIN queue : queue[i].reply})

ReservedReplies(p) ==
    ReplyCount(recvQueue[p])
    + (IF rcv[p].pc \in {"agency", "asleep", "apply"} /\ rcv[p].reply THEN 1 ELSE 0)
    + (IF rd[p].pc \in {"admitted", "push"} /\ rd[p].reply THEN 1 ELSE 0)

CountersMatch ==
    \A p \in Roles :
        /\ eng[p].requests = Len(snd[p].queued)
        /\ ~stopped[p] /\ ~lost[p] => eng[p].replies = ReservedReplies(p)
        /\ pending[p].send = Len(sendQueue[p]) + Len(snd[p].held)

(***************************************************************************)
(* The turn of the peer admits one message at a time: whatever a peer      *)
(* sends, at most one message is in the receive path that is neither a     *)
(* reply to a pipelined request nor of a type that may be pipelined.       *)
(***************************************************************************)
Unapplied(p) ==
    LET rest == recvQueue[p]
        msg == IF rcv[p].pc \in {"agency", "asleep", "apply"}
               THEN <<[msg |-> Head(rcv[p].msg), reply |-> rcv[p].reply]>> ELSE <<>>
        new == IF rd[p].pc \in {"admitted", "push"}
               THEN <<[msg |-> Inbound(p), reply |-> rd[p].reply]>> ELSE <<>>
    IN  SelectSeq(msg \o rest \o new, LAMBDA i : ~i.reply)

PipelinedIn ==
    [c \in DOMAIN Scenarios |->
        LET map == Scenarios[c].map IN UNION {map[s].types : s \in DOMAIN map}]
MayArriveEarly == PipelinedIn[scenario]

OneMessagePerTurn ==
    \A p \in Roles :
        Len(SelectSeq(Unapplied(p), LAMBDA i : i.msg \notin MayArriveEarly)) <= 1

(***************************************************************************)
(* "Handling a pipelined request early would run its callback while the    *)
(* previous request is still unanswered" (recvLoop): when the server's     *)
(* callback runs, everything it answered before has been sent.             *)
(***************************************************************************)
OneRequestAtATime ==
    rcv["server"].pc = "handle" =>
        todo["server"] \o sendQueue["server"] \o snd["server"].held = <<>>

(***************************************************************************)
(* The engine implements module Conversation.  A message is in the stream  *)
(* from the moment it joins a batch until the receive loop applies it.     *)
(***************************************************************************)
Stream(p) ==
    LET q == Peer(p)
        current == IF rcv[q].pc \in {"agency", "asleep", "apply"} THEN rcv[q].msg ELSE <<>>
    IN  current \o QueuedMsgs(q) \o wire[p] \o snd[p].buf

LeadsTo(p, m) ==
    LET s == CHOOSE s \in DOMAIN StateMap :
                StateMap[s].agency = p /\ m \in DOMAIN StateMap[s].next
    IN  StateMap[s].next[m]

LastPlaced(p) ==
    LET n == Len(sent[p]) - Len(sendQueue[p]) - Len(snd[p].held)
    IN  IF n = 0 THEN InitialState ELSE LeadsTo(p, sent[p][n])

Protocols ==
    [c \in DOMAIN Scenarios |-> [map |-> Scenarios[c].map, init |-> Scenarios[c].init]]

Abstract ==
    INSTANCE Conversation WITH
        Tables <- Protocols,
        MaxAhead <- SendQueueSize + MaxPerSegment + RecvQueueSize,
        MaxStream <- SendQueueSize + MaxPerSegment + RecvQueueSize + 2,
        spoken <- scenario,
        view <- [p \in Roles |-> eng[p].state],
        stream <- [p \in Roles |-> Stream(p)],
        deferred <- [p \in Roles |-> snd[p].queued],
        last <- [p \in Roles |-> LastPlaced(p)]

\* Between well-behaved peers that nothing ends early, every step of the loops
\* is a step of the conversation or none at all.
TakesTurns ==
    /\ Undisturbed => Abstract!Init
    /\ [][Undisturbed => Abstract!Next]_(Abstract!vars)

(***************************************************************************)
(* What the loops keep for each other stays true: the types, the token of  *)
(* the send loop and the counters of the admission of replies.             *)
(***************************************************************************)
EngineConsistent == TypeOK /\ TokenTracksAgency /\ CountersMatch

(***************************************************************************)
(* The two peers have one conversation: the same transitions in the same   *)
(* order, every message handled once and in the order it was sent, one     *)
(* message admitted per turn, and a request handled only when the answers  *)
(* to the earlier ones are out.                                            *)
(***************************************************************************)
OneConversation == OneHistory /\ NothingLost /\ OneMessagePerTurn /\ OneRequestAtATime

(***************************************************************************)
(* The loops make progress to the end.  A conversation that nothing        *)
(* disturbs never stalls: every message of both applications is sent and   *)
(* handled, in spite of full queues and a receive budget smaller than what *)
(* is in flight.  A role that is stopped, by its owner or by an error, or  *)
(* whose muxer ends, closes doneChan: no loop stays behind in its waits.   *)
(***************************************************************************)
Settled ==
    /\ Undisturbed => \A p \in Roles : todo[p] = <<>> /\ handled[Peer(p)] = sent[p]
    /\ \A p \in Roles : stopped[p] \/ lost[p] => Done(p)

LoopsProgress == <>[]Settled

=============================================================================
