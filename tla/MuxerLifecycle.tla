--------------------------- MODULE MuxerLifecycle ---------------------------
(***************************************************************************)
(* Registration, restart and shutdown of the muxer (muxer/muxer.go): the   *)
(* receivers, senders and tombstones of the protocol roles, the goroutines *)
(* that serve them, and the cleanup goroutine that closes ErrorChan once   *)
(* all of them have ended.                                                 *)
(*                                                                         *)
(* Queue limits, budgets and backpressure are the subject of Ingress and   *)
(* turn taking among writers that of Egress: here a full queue is fatal,   *)
(* a write succeeds or fails, and stop's two sections are one step.  The   *)
(* callers are goroutines of the application and the metrics callbacks,    *)
(* which may call back into the muxer from the goroutine that runs them.   *)
(* A role is registered by at most one protocol instance at a time.        *)
(***************************************************************************)
EXTENDS Integers, Sequences, SequencesExt, FiniteSets

CONSTANTS
    Scenarios,    \* the applications and peers of an instance, by name
    Reader,       \* the read loop, as a caller
    ProtocolUnknown, \* the id of the receiver for unknown protocols
    Initiator,    \* ProtocolRoleInitiator, addressed by responses
    ChCap         \* capacity of the channel a protocol receives from

(***************************************************************************)
(* A scenario gives the application goroutines that call the muxer, the    *)
(* protocol roles <<id, role>> they register and those the peer addresses, *)
(* the diffusion modes the handshake may settle on and the segments a      *)
(* receiver queues before it overflows.  The rest are bounds: calls of     *)
(* RegisterProtocol, calls of UnregisterProtocol and SuspendProtocol,      *)
(* segments from the peer, segments handed to senders, metrics callbacks.  *)
(***************************************************************************)
ASSUME LifecycleAssumption ==
    /\ ChCap \in Nat \ {0}
    /\ \A name \in DOMAIN Scenarios :
         LET z == Scenarios[name] IN
         /\ z.queueLimit \in Nat \ {0}
         /\ {z.registers, z.removals, z.segments, z.messages, z.callbacks} \subseteq Nat

VARIABLE scenario

Muxers == Scenarios
Here == Muxers[scenario]
Users == Here.users
Keys == Here.keys

NoReg == 0
Regs == 1..Here.registers
NoKey == <<>>

\* A caller is an application goroutine, the forwarder of a receiver or the
\* read loop; the last two call while they run a metrics callback.
Callers == Users \cup Regs \cup {Reader}

VARIABLES
    doneChan,     \* Muxer.doneChan is closed
    connOpen,     \* the connection is open on this side
    errorChan,    \* errors sent, and whether it has been closed
    startChan,    \* what startChan holds: a sequence of at most one Boolean
    mode,         \* Muxer.diffusionMode, "none" until it is set
    starter,      \* how far the connection has brought the muxer up
    reader,       \* readLoop: pc, the receiver, segment or role in its hands
    started,      \* readLoop's started
    cleanup,      \* the cleanup goroutine: "done", "fence", "wait", "closed"
    waitGroupMutex,    \* the caller inside RegisterProtocol
    protocolReceivers, \* role -> the registration that made its receiver
    protocolSenders,   \* role -> the registration that made its sender
    protocolTombstones,\* roles that were unregistered
    recv,         \* segmentChannel made by a registration
    sender,       \* segmentSender made by a registration, and its goroutine
    call,         \* what each caller is doing
    instance,     \* the protocol instance of a role: its receiver, what it
                  \* has read and not processed, whether it reads
    count,        \* calls, segments and callbacks made so far
    messages,     \* segments handed to senders: by which registration, the
                  \* receipt, whether its sender was running, if written
    arrived,      \* history: segments read for a role
    processed,    \* history: segments processed by a role's instances
    unregistered  \* history: roles that were ever unregistered

muxVars == <<doneChan, errorChan>>
loopVars == <<startChan, started>>
mapVars == <<protocolReceivers, protocolSenders, protocolTombstones>>
endVars == <<connOpen, cleanup>>
upVars == <<scenario, mode, starter>>
streamVars == <<arrived, processed, unregistered>>
vars == <<muxVars, loopVars, mapVars, endVars, upVars, streamVars, reader,
          waitGroupMutex, recv, sender, call, instance, count, messages>>

NoRecv ==
    [key |-> NoKey, fwd |-> "none", queue |-> <<>>, ch |-> <<>>, hand |-> <<>>,
     suspended |-> FALSE, carry |-> <<>>, stopping |-> FALSE]
NoSender == [pc |-> "none", done |-> FALSE, ch |-> <<>>, hand |-> 0]
Idle == [pc |-> "idle"]
NoInstance == [recv |-> NoReg, sender |-> NoReg, held |-> <<>>, reads |-> FALSE]

Init ==
    /\ scenario \in DOMAIN Scenarios
    /\ doneChan = FALSE
    /\ connOpen = TRUE
    /\ errorChan = [sent |-> 0, closed |-> FALSE]
    /\ startChan = <<>>
    /\ mode = "none"
    /\ starter = "new"
    /\ reader = [pc |-> "top"]
    /\ started = FALSE
    /\ cleanup = "done"
    /\ waitGroupMutex = {}
    /\ protocolReceivers = [k \in Keys |-> NoReg]
    /\ protocolSenders = [k \in Keys |-> NoReg]
    /\ protocolTombstones = {}
    /\ recv = [i \in Regs |-> NoRecv]
    /\ sender = [i \in Regs |-> NoSender]
    /\ call = [c \in Callers |-> Idle]
    /\ instance = [k \in Keys |-> NoInstance]
    /\ count = [registers |-> 0, removals |-> 0, segments |-> 0, callbacks |-> 0]
    /\ arrived = [k \in Keys |-> 0]
    /\ processed = [k \in Keys |-> <<>>]
    /\ unregistered = {}
    /\ messages = <<>>

-----------------------------------------------------------------------------
(* What the goroutines share *)

\* The goroutines waitGroup counts: the read loop until it enters its
\* deferred sweep, the forwarders and the senders.
ReaderCounted == reader.pc \notin {"sweep", "stopping", "gone"}
Forwarders == {i \in Regs : recv[i].fwd \notin {"none", "gone"}}
Senders == {i \in Regs : sender[i].pc \notin {"none", "gone"}}
WaitGroupZero == ~ReaderCounted /\ Forwarders = {} /\ Senders = {}

\* protocolReceiversMutex is held over several steps only by the sweep.
ReceiversUnlocked == reader.pc \notin {"sweep", "stopping"}

\* segmentChannel.callbacks > 0.
CallbackActive(i) ==
    \/ recv[i].fwd = "callback"
    \/ reader.pc = "callback" /\ reader.recv = i

\* segmentChannel.callMetrics: no callback begins once the receiver stops.
MayReport(i) == ~recv[i].stopping /\ count.callbacks < Here.callbacks

\* A caller is free to call: an application goroutine always, the others
\* inside their callback.
MayCall(c) ==
    /\ call[c] = Idle
    /\ \/ c \in Users
       \/ c \in Regs /\ recv[c].fwd = "callback"
       \/ c = Reader /\ reader.pc = "callback"

\* The application lets one goroutine at a time register or stop a role.
Busy(k) ==
    \E c \in Callers :
        /\ call[c].pc \in {"register", "checked", "spawn", "carry", "unregister", "suspend"}
        /\ call[c].key = k

-----------------------------------------------------------------------------
(* RegisterProtocol, called by a protocol's ensureRegistered *)

callUnchanged ==
    UNCHANGED <<muxVars, loopVars, endVars, upVars, reader, arrived, processed>>

CallRegister(c, k) ==
    /\ MayCall(c)
    /\ ~Busy(k)
    /\ protocolReceivers[k] # NoReg => recv[protocolReceivers[k]].suspended
    /\ count.registers < Here.registers
    /\ call' = [call EXCEPT ![c] = [pc |-> "register", key |-> k,
                                    reg |-> count.registers + 1]]
    /\ count' = [count EXCEPT !.registers = @ + 1]
    /\ UNCHANGED <<mapVars, unregistered, waitGroupMutex, recv, sender, instance,
                   messages>>
    /\ callUnchanged

\* Takes waitGroupMutex and checks for shutdown the first time.
RegisterLock(c) ==
    /\ call[c].pc = "register"
    /\ waitGroupMutex = {}
    /\ \/ doneChan /\ call' = [call EXCEPT ![c] = Idle] /\ UNCHANGED waitGroupMutex
       \/ /\ ~doneChan
          /\ call' = [call EXCEPT ![c].pc = "checked"]
          /\ waitGroupMutex' = {c}
    /\ UNCHANGED <<mapVars, unregistered, recv, sender, instance, count, messages>>
    /\ callUnchanged

\* Mutant: RegisterProtocol checks for shutdown only once.
BugFirstCheckOnly == FALSE

\* The second check refuses a receiver the sweep would miss.
SecondCheck == doneChan

RegisterRefused(c) ==
    /\ call[c].pc = "checked"
    /\ ReceiversUnlocked
    /\ SecondCheck
    /\ waitGroupMutex' = {}
    /\ call' = [call EXCEPT ![c] = Idle]
    /\ UNCHANGED <<mapVars, unregistered, recv, sender, instance, count, messages>>
    /\ callUnchanged

\* Mutant: a suspended role gets a new receiver.
BugNeverResumes(k) == FALSE

\* resume: a suspended role keeps its receiver.
Resumes(k) ==
    LET i == protocolReceivers[k]
    IN  i # NoReg /\ recv[i].suspended /\ ~recv[i].stopping

RegisterInsert(c) ==
    /\ call[c].pc = "checked"
    /\ ReceiversUnlocked
    /\ ~SecondCheck
    /\ LET k == call[c].key
           n == call[c].reg
           i == IF Resumes(k) THEN protocolReceivers[k] ELSE n
       IN  /\ recv' = [recv EXCEPT ![i] =
                         IF i = n THEN [NoRecv EXCEPT !.key = k, !.fwd = "wait"]
                                  ELSE [@ EXCEPT !.suspended = FALSE]]
           /\ protocolReceivers' = [protocolReceivers EXCEPT ![k] = i]
           /\ protocolSenders' = [protocolSenders EXCEPT ![k] = n]
           /\ protocolTombstones' = protocolTombstones \ {k}
           /\ call' = [call EXCEPT ![c] = [pc |-> "spawn", key |-> k, recv |-> i,
                                           sender |-> n]]
    /\ UNCHANGED <<unregistered, waitGroupMutex, sender, instance, count, messages>>
    /\ callUnchanged

\* Starts the sender goroutine and releases waitGroupMutex.
RegisterSpawn(c) ==
    /\ call[c].pc = "spawn"
    /\ sender' = [sender EXCEPT ![call[c].sender].pc = "select"]
    /\ waitGroupMutex' = {}
    /\ call' = [call EXCEPT ![c].pc = "carry"]
    /\ UNCHANGED <<mapVars, unregistered, recv, instance, count, messages>>
    /\ callUnchanged

\* TakeCarriedIngress; the new protocol instance then starts to read.
TakeCarriedIngress(c) ==
    /\ call[c].pc = "carry"
    /\ ReceiversUnlocked
    /\ LET k == call[c].key
           i == protocolReceivers[k]
       IN  /\ instance' = [instance EXCEPT ![k] =
                             [recv |-> call[c].recv, sender |-> call[c].sender, reads |-> TRUE,
                              held |-> IF i = NoReg THEN <<>> ELSE recv[i].carry]]
           /\ recv' = IF i = NoReg THEN recv ELSE [recv EXCEPT ![i].carry = <<>>]
    /\ call' = [call EXCEPT ![c] = Idle]
    /\ UNCHANGED <<mapVars, unregistered, waitGroupMutex, sender, count, messages>>
    /\ callUnchanged

-----------------------------------------------------------------------------
(* UnregisterProtocol and SuspendProtocol, called by a protocol's stop *)

\* The instance that stops stops reading first.
Quit(c, k) == IF c \in Users THEN [instance EXCEPT ![k].reads = FALSE] ELSE instance

CallStop(c, k) ==
    /\ MayCall(c)
    /\ c \in Users => ~Busy(k)
    /\ count.removals < Here.removals
    /\ \E op \in {"unregister", "suspend"} :
         /\ op = "suspend" => c \in Users /\ instance[k].reads
         /\ call' = [call EXCEPT ![c] = [pc |-> op, key |-> k]]
    /\ instance' = Quit(c, k)
    /\ count' = [count EXCEPT !.removals = @ + 1]
    /\ UNCHANGED <<mapVars, unregistered, waitGroupMutex, recv, sender, messages>>
    /\ callUnchanged

\* Removes both directions and leaves a tombstone, if there is one to remove.
UnregisterProtocol(c) ==
    /\ call[c].pc = "unregister"
    /\ ReceiversUnlocked
    /\ LET k == call[c].key
           removed == protocolReceivers[k] # NoReg \/ protocolSenders[k] # NoReg
       IN  /\ protocolReceivers' = [protocolReceivers EXCEPT ![k] = NoReg]
           /\ protocolSenders' = [protocolSenders EXCEPT ![k] = NoReg]
           /\ protocolTombstones' = protocolTombstones \cup {r \in {k} : removed}
           /\ unregistered' = unregistered \cup {r \in {k} : removed}
           /\ call' = [call EXCEPT ![c] = [pc |-> "sender", sender |-> protocolSenders[k],
                                           recv |-> protocolReceivers[k]]]
    /\ UNCHANGED <<waitGroupMutex, recv, sender, instance, count, messages>>
    /\ callUnchanged

\* Keeps the receiver and hands it what the instance had not processed; a
\* protocol whose role is gone unregisters instead.
SuspendProtocol(c) ==
    /\ call[c].pc = "suspend"
    /\ ReceiversUnlocked
    /\ LET k == call[c].key
           i == protocolReceivers[k]
       IN  \/ /\ i = NoReg
              /\ call' = [call EXCEPT ![c].pc = "unregister"]
              /\ UNCHANGED <<protocolSenders, recv, instance>>
           \/ /\ i # NoReg
              /\ recv' = [recv EXCEPT ![i].suspended = TRUE, ![i].carry = instance[k].held]
              /\ protocolSenders' = [protocolSenders EXCEPT ![k] = NoReg]
              /\ call' = [call EXCEPT ![c] = [pc |-> "sender", recv |-> NoReg,
                                              sender |-> protocolSenders[k]]]
              /\ instance' = [instance EXCEPT ![k].held = <<>>]
    /\ UNCHANGED <<protocolReceivers, protocolTombstones, unregistered, waitGroupMutex,
                   sender, count, messages>>
    /\ callUnchanged

\* The receipts of the messages ms, when r is reported for them.
Reported(ms, r) ==
    [m \in DOMAIN messages |->
        IF m \in ms THEN [messages[m] EXCEPT !.receipt = r] ELSE messages[m]]

\* Mutant: stopping a sender leaves its channel undrained.
BugStopKeepsQueue(c) ==
    /\ call[c].pc = "sender"
    /\ sender' = IF call[c].sender = NoReg THEN sender
                 ELSE [sender EXCEPT ![call[c].sender].done = TRUE]
    /\ call' = [call EXCEPT ![c] = IF call[c].recv = NoReg THEN Idle
                                   ELSE [pc |-> "recv", recv |-> call[c].recv]]
    /\ UNCHANGED <<mapVars, unregistered, waitGroupMutex, recv, instance, count, messages>>
    /\ callUnchanged

\* segmentSender.stop: done is closed and the channel drained.
SenderStop(c) ==
    /\ call[c].pc = "sender"
    /\ LET s == call[c].sender
       IN  /\ sender' = IF s = NoReg THEN sender
                        ELSE [sender EXCEPT ![s].done = TRUE, ![s].ch = <<>>]
           /\ messages' = IF s = NoReg THEN messages
                          ELSE Reported(ToSet(sender[s].ch), "unregistered")
    /\ call' = [call EXCEPT ![c] = IF call[c].recv = NoReg THEN Idle
                                   ELSE [pc |-> "recv", recv |-> call[c].recv]]
    /\ UNCHANGED <<mapVars, unregistered, waitGroupMutex, recv, instance, count>>
    /\ callUnchanged

\* Mutant: stop waits for the forwarder that runs the callback it is in.
BugStopAwaitsCallback(c) ==
    /\ call[c].pc = "recv"
    /\ recv' = [recv EXCEPT ![call[c].recv].stopping = TRUE]
    /\ call' = [call EXCEPT ![c] = [pc |-> "await", recv |-> call[c].recv]]
    /\ UNCHANGED <<mapVars, unregistered, waitGroupMutex, sender, instance, count, messages>>
    /\ callUnchanged

\* segmentChannel.stop: it waits for the forwarder unless one of the
\* receiver's callbacks is running, which may be the one that called it.
RecvStop(c) ==
    /\ call[c].pc = "recv"
    /\ recv' = [recv EXCEPT ![call[c].recv].stopping = TRUE]
    /\ call' = [call EXCEPT ![c] = IF CallbackActive(call[c].recv) THEN Idle
                                   ELSE [pc |-> "await", recv |-> call[c].recv]]
    /\ UNCHANGED <<mapVars, unregistered, waitGroupMutex, sender, instance, count,
                   messages>>
    /\ callUnchanged

RecvStopped(c) ==
    /\ call[c].pc = "await"
    /\ recv[call[c].recv].fwd = "gone"
    /\ call' = [call EXCEPT ![c] = Idle]
    /\ UNCHANGED <<mapVars, unregistered, waitGroupMutex, recv, sender, instance,
                   count, messages>>
    /\ callUnchanged

-----------------------------------------------------------------------------
(* segmentChannel.forward *)

forwardUnchanged ==
    UNCHANGED <<muxVars, loopVars, mapVars, endVars, upVars, streamVars,
                reader, waitGroupMutex, sender, call, instance, messages>>

ForwardDequeue(i) ==
    /\ recv[i].fwd = "wait"
    /\ recv[i].queue # <<>>
    /\ recv' = [recv EXCEPT ![i].fwd = "report", ![i].queue = Tail(@),
                            ![i].hand = <<Head(recv[i].queue)>>]
    /\ UNCHANGED count
    /\ forwardUnchanged

\* reportDepths: one callback of a receiver at a time, none once it stops.
ForwardReport(i) ==
    /\ recv[i].fwd = "report"
    /\ ~CallbackActive(i)
    /\ \E next \in {"deliver"} \cup (IF MayReport(i) THEN {"callback"} ELSE {}) :
         /\ recv' = [recv EXCEPT ![i].fwd = next]
         /\ count' = [count EXCEPT !.callbacks = IF next = "callback" THEN @ + 1 ELSE @]
    /\ forwardUnchanged

ForwardCallbackReturn(i) ==
    /\ recv[i].fwd = "callback"
    /\ call[i] = Idle
    /\ recv' = [recv EXCEPT ![i].fwd = IF recv[i].hand = <<>> THEN "wait" ELSE "deliver"]
    /\ UNCHANGED count
    /\ forwardUnchanged

\* Mutant: a delivery that does not wait for room.
BugDeliverPastCapacity(i) ==
    /\ recv[i].fwd = "deliver"
    /\ recv' = [recv EXCEPT ![i].fwd = "wait", ![i].ch = @ \o recv[i].hand,
                            ![i].hand = <<>>]
    /\ UNCHANGED count
    /\ forwardUnchanged

\* A delivery that had to wait is reported in a callback of its own.
ForwardDeliver(i) ==
    /\ recv[i].fwd = "deliver"
    /\ Len(recv[i].ch) < ChCap
    /\ \E next \in {"wait"} \cup (IF MayReport(i) THEN {"callback"} ELSE {}) :
         /\ recv' = [recv EXCEPT ![i].fwd = next, ![i].ch = @ \o recv[i].hand,
                                 ![i].hand = <<>>]
         /\ count' = [count EXCEPT !.callbacks = IF next = "callback" THEN @ + 1 ELSE @]
    /\ forwardUnchanged

\* Woken with nothing queued, or while it waits to deliver.
ForwardLeave(i) ==
    /\ recv[i].stopping
    /\ \/ recv[i].fwd = "wait" /\ recv[i].queue = <<>>
       \/ recv[i].fwd = "deliver"
    /\ recv' = [recv EXCEPT ![i].fwd = "exit"]
    /\ UNCHANGED count
    /\ forwardUnchanged

ForwardExit(i) ==
    /\ recv[i].fwd = "exit"
    /\ ~CallbackActive(i)
    /\ recv' = [recv EXCEPT ![i].fwd = "gone", ![i].queue = <<>>, ![i].hand = <<>>]
    /\ UNCHANGED count
    /\ forwardUnchanged

-----------------------------------------------------------------------------
(* The sender goroutine of a registration *)

senderUnchanged ==
    UNCHANGED <<loopVars, mapVars, endVars, upVars, streamVars, reader,
                waitGroupMutex, recv, call, instance, count>>

SenderTake(i) ==
    /\ sender[i].pc = "select"
    /\ sender[i].ch # <<>>
    /\ sender' = [sender EXCEPT ![i].pc = "took", ![i].hand = Head(sender[i].ch),
                                ![i].ch = Tail(@)]
    /\ UNCHANGED <<muxVars, messages>>
    /\ senderUnchanged

\* A message taken as its sender was stopped is reported, not sent.
SenderCheck(i) ==
    /\ sender[i].pc = "took"
    /\ \/ /\ sender[i].done
          /\ sender' = [sender EXCEPT ![i].pc = "select", ![i].hand = 0]
          /\ messages' = Reported({sender[i].hand}, "unregistered")
       \/ /\ ~sender[i].done
          /\ sender' = [sender EXCEPT ![i].pc = "send"]
          /\ UNCHANGED messages
    /\ UNCHANGED muxVars
    /\ senderUnchanged

\* Send writes the segment, if the connection still takes it.
SenderWrite(i) ==
    /\ sender[i].pc = "send"
    /\ connOpen
    /\ messages' = [Reported({sender[i].hand}, "ok") EXCEPT ![sender[i].hand].written = TRUE]
    /\ sender' = [sender EXCEPT ![i].pc = "select", ![i].hand = 0]
    /\ UNCHANGED muxVars
    /\ senderUnchanged

\* Send fails, as the muxer stops or the connection breaks.
SenderFail(i) ==
    /\ sender[i].pc = "send"
    /\ messages' = Reported({sender[i].hand}, "failed")
    /\ sender' = [sender EXCEPT ![i].pc = IF doneChan THEN "gone" ELSE "erring",
                                ![i].hand = 0]
    /\ UNCHANGED muxVars
    /\ senderUnchanged

\* sendError, past its check of doneChan.
SendError ==
    /\ doneChan' = TRUE
    /\ errorChan' = [errorChan EXCEPT !.sent = @ + 1]

SenderError(i) ==
    /\ sender[i].pc = "erring"
    /\ SendError
    /\ sender' = [sender EXCEPT ![i].pc = "gone"]
    /\ UNCHANGED messages
    /\ senderUnchanged

SenderLeave(i) ==
    /\ sender[i].pc = "select"
    /\ doneChan \/ sender[i].done
    /\ sender' = [sender EXCEPT ![i].pc = "gone"]
    /\ UNCHANGED <<muxVars, messages>>
    /\ senderUnchanged

-----------------------------------------------------------------------------
(* readLoop *)

readerUnchanged ==
    UNCHANGED <<mapVars, endVars, upVars, processed, unregistered,
                waitGroupMutex, sender, call, instance, messages>>

\* The top of the loop: shutdown is noticed, or the muxer must be started.
ReaderTop ==
    /\ reader.pc = "top"
    /\ reader' = [pc |-> IF doneChan THEN "sweep" ELSE IF started THEN "read" ELSE "start"]
    /\ UNCHANGED <<muxVars, loopVars, arrived, recv, count>>
    /\ readerUnchanged

ReaderStart ==
    /\ reader.pc = "start"
    /\ \/ /\ startChan # <<>>
          /\ started' = Head(startChan)
          /\ startChan' = <<>>
          /\ reader' = [pc |-> "read"]
       \/ /\ doneChan
          /\ reader' = [pc |-> "sweep"]
          /\ UNCHANGED loopVars
    /\ UNCHANGED <<muxVars, arrived, recv, count>>
    /\ readerUnchanged

\* sendError and return: its check of doneChan comes first.
Fatal == reader' = [pc |-> IF doneChan THEN "sweep" ELSE "erring"]

\* The read deadline, the header or the payload failed, or it is empty.
ReadFail ==
    /\ reader.pc = "read"
    /\ Fatal
    /\ UNCHANGED <<muxVars, loopVars, arrived, recv, count>>
    /\ readerUnchanged

\* A response is for the initiator's side of a protocol.
WrongDirection(k) ==
    \/ mode = "initiator" /\ k[2] # Initiator
    \/ mode = "responder" /\ k[2] = Initiator

\* An id has an entry in protocolReceivers.
IdKnown(id) == \E k \in Keys : k[1] = id /\ protocolReceivers[k] # NoReg

\* The role whose receiver takes a segment for k.
Target(k) == IF IdKnown(k[1]) THEN k ELSE <<ProtocolUnknown, k[2]>>

Lookup(k) == IF k \in Keys THEN protocolReceivers[k] ELSE NoReg

\* Mutant: the tombstone counts only when the id has no receiver at all.
BugTombstoneOfIdOnly(k) == k \in protocolTombstones /\ ~IdKnown(k[1])

\* A segment for a role that was unregistered is dropped.
Dropped(k) == k \in protocolTombstones /\ (~IdKnown(k[1]) \/ Lookup(k) = NoReg)

Counted(k) ==
    [r \in Keys |-> IF r = (IF Dropped(k) THEN k ELSE Target(k)) THEN arrived[r] + 1
                    ELSE arrived[r]]

\* Reads a segment for k and finds its receiver under
\* protocolReceiversMutex, which is free again when it is enqueued.
ReadSegment(k) ==
    /\ reader.pc = "read"
    /\ connOpen
    /\ count.segments < Here.segments
    /\ count' = [count EXCEPT !.segments = @ + 1]
    /\ \/ WrongDirection(k) /\ Fatal /\ UNCHANGED arrived
       \/ /\ ~WrongDirection(k)
          /\ arrived' = Counted(k)
          /\ \/ Dropped(k) /\ reader' = [pc |-> "top"]
             \/ /\ ~Dropped(k)
                /\ \/ Lookup(Target(k)) = NoReg /\ Fatal
                   \/ /\ Lookup(Target(k)) # NoReg
                      /\ reader' = [pc |-> "enqueue", recv |-> Lookup(Target(k))]
    /\ UNCHANGED <<muxVars, loopVars, recv>>
    /\ readerUnchanged

\* segmentChannel.enqueue.
Enqueue ==
    /\ reader.pc = "enqueue"
    /\ LET i == reader.recv
           full == Len(recv[i].queue) = Here.queueLimit
       IN  \/ /\ recv[i].stopping
              /\ reader' = [pc |-> "top"]
              /\ UNCHANGED recv
           \/ ~recv[i].stopping /\ full /\ Fatal /\ UNCHANGED recv
           \/ /\ ~recv[i].stopping /\ ~full
              /\ recv' = [recv EXCEPT ![i].queue = Append(@, arrived[recv[i].key])]
              /\ reader' = [pc |-> "report", recv |-> i]
    /\ UNCHANGED <<muxVars, loopVars, arrived, count>>
    /\ readerUnchanged

\* reportDepths on the read loop; reportMu keeps it from the forwarder's.
ReaderReport ==
    /\ reader.pc = "report"
    /\ ~(recv[reader.recv].fwd = "callback" /\ recv[reader.recv].hand # <<>>)
    /\ \/ reader' = [pc |-> "top"] /\ UNCHANGED count
       \/ /\ MayReport(reader.recv)
          /\ reader' = [reader EXCEPT !.pc = "callback"]
          /\ count' = [count EXCEPT !.callbacks = @ + 1]
    /\ UNCHANGED <<muxVars, loopVars, arrived, recv>>
    /\ readerUnchanged

ReaderCallbackReturn ==
    /\ reader.pc = "callback"
    /\ call[Reader] = Idle
    /\ reader' = [pc |-> "top"]
    /\ UNCHANGED <<muxVars, loopVars, arrived, recv, count>>
    /\ readerUnchanged

ReaderError ==
    /\ reader.pc = "erring"
    /\ SendError
    /\ reader' = [pc |-> "sweep"]
    /\ UNCHANGED <<loopVars, arrived, recv, count>>
    /\ readerUnchanged

\* Mutant: the sweep waits for a forwarder whose callback wants the mutex.
BugSweepAwaitsCallback(k) ==
    /\ reader.pc = "sweep"
    /\ protocolReceivers[k] # NoReg
    /\ recv' = [recv EXCEPT ![protocolReceivers[k]].stopping = TRUE]
    /\ reader' = [pc |-> "stopping", key |-> k, recv |-> protocolReceivers[k],
                  waits |-> TRUE]
    /\ UNCHANGED <<muxVars, loopVars, arrived, count>>
    /\ readerUnchanged

\* The deferred sweep stops every receiver, holding protocolReceiversMutex.
SweepStop(k) ==
    /\ reader.pc = "sweep"
    /\ protocolReceivers[k] # NoReg
    /\ recv' = [recv EXCEPT ![protocolReceivers[k]].stopping = TRUE]
    /\ reader' = [pc |-> "stopping", key |-> k, recv |-> protocolReceivers[k],
                  waits |-> ~CallbackActive(protocolReceivers[k])]
    /\ UNCHANGED <<muxVars, loopVars, arrived, count>>
    /\ readerUnchanged

SweepRemove ==
    /\ reader.pc = "stopping"
    /\ reader.waits => recv[reader.recv].fwd = "gone"
    /\ protocolReceivers' = [protocolReceivers EXCEPT ![reader.key] = NoReg]
    /\ reader' = [pc |-> "sweep"]
    /\ UNCHANGED <<muxVars, loopVars, protocolSenders, protocolTombstones,
                   endVars, upVars, streamVars, waitGroupMutex, recv, sender,
                   call, instance, count, messages>>

SweepEnd ==
    /\ reader.pc = "sweep"
    /\ \A k \in Keys : protocolReceivers[k] = NoReg
    /\ reader' = [pc |-> "gone"]
    /\ UNCHANGED <<muxVars, loopVars, arrived, recv, count>>
    /\ readerUnchanged

-----------------------------------------------------------------------------
(* Bringing the muxer up, and down *)

upUnchanged ==
    UNCHANGED <<scenario, muxVars, mapVars, endVars, streamVars, reader, started,
                waitGroupMutex, recv, sender, call, instance, count, messages>>

\* Mutant: startChan has no buffer.
BugUnbufferedStart(v) == startChan' = IF reader.pc = "start" THEN <<v>> ELSE startChan

\* Start and StartOnce: a send to a channel of capacity one that never waits.
Signal(v) == startChan' = IF startChan = <<>> THEN <<v>> ELSE startChan

\* The connection reads one segment, for the handshake.
StartOnce ==
    /\ starter = "new"
    /\ Signal(FALSE)
    /\ starter' = "handshake"
    /\ UNCHANGED mode
    /\ upUnchanged

\* The handshake has received its answer and settles the mode.
SetDiffusionMode(m) ==
    /\ starter = "handshake"
    /\ \E k \in Keys : processed[k] # <<>>
    /\ mode' = m
    /\ starter' = "settled"
    /\ UNCHANGED startChan
    /\ upUnchanged

Start ==
    /\ starter = "settled"
    /\ Signal(TRUE)
    /\ starter' = "started"
    /\ UNCHANGED mode
    /\ upUnchanged

Stop ==
    /\ ~doneChan
    /\ doneChan' = TRUE
    /\ UNCHANGED <<errorChan, loopVars, mapVars, endVars, upVars, streamVars,
                   reader, waitGroupMutex, recv, sender, call, instance, count,
                   messages>>

cleanupUnchanged ==
    UNCHANGED <<doneChan, loopVars, mapVars, upVars, streamVars, reader,
                waitGroupMutex, recv, sender, call, instance, count, messages>>

CleanupClose ==
    /\ cleanup = "done"
    /\ doneChan
    /\ connOpen' = FALSE
    /\ cleanup' = "fence"
    /\ UNCHANGED errorChan
    /\ cleanupUnchanged

\* Mutant: the cleanup goroutine does not wait for registrations.
BugNoFence ==
    /\ cleanup = "fence"
    /\ cleanup' = "wait"
    /\ UNCHANGED <<connOpen, errorChan>>
    /\ cleanupUnchanged

\* fenceRegistrations.
CleanupFence ==
    /\ cleanup = "fence"
    /\ waitGroupMutex = {}
    /\ cleanup' = "wait"
    /\ UNCHANGED <<connOpen, errorChan>>
    /\ cleanupUnchanged

CleanupWait ==
    /\ cleanup = "wait"
    /\ WaitGroupZero
    /\ errorChan' = [errorChan EXCEPT !.closed = TRUE]
    /\ cleanup' = "closed"
    /\ UNCHANGED connOpen
    /\ cleanupUnchanged

-----------------------------------------------------------------------------
(* Protocol instances *)

instanceUnchanged ==
    UNCHANGED <<muxVars, loopVars, mapVars, endVars, upVars, arrived,
                unregistered, reader, waitGroupMutex, call, count>>

TakeSegment(k) ==
    /\ instance[k].reads
    /\ recv[instance[k].recv].ch # <<>>
    /\ instance' = [instance EXCEPT ![k].held = Append(@, Head(recv[instance[k].recv].ch))]
    /\ recv' = [recv EXCEPT ![instance[k].recv].ch = Tail(@)]
    /\ UNCHANGED <<processed, sender, messages>>
    /\ instanceUnchanged

Process(k) ==
    /\ instance[k].reads
    /\ instance[k].held # <<>>
    /\ processed' = [processed EXCEPT ![k] = Append(@, Head(instance[k].held))]
    /\ instance' = [instance EXCEPT ![k].held = Tail(@)]
    /\ UNCHANGED <<recv, sender, messages>>
    /\ instanceUnchanged

\* A protocol's sendLoop hands over a segment, perhaps just after its
\* sender was stopped.
HandOver(k) ==
    /\ instance[k].sender # NoReg
    /\ Len(messages) < Here.messages
    /\ LET s == instance[k].sender
       IN  /\ messages' = Append(messages, [sender |-> s, receipt |-> "none",
                                            early |-> ~sender[s].done, written |-> FALSE])
           /\ sender' = [sender EXCEPT ![s].ch = Append(@, Len(messages) + 1)]
    /\ UNCHANGED <<processed, recv, instance>>
    /\ instanceUnchanged

-----------------------------------------------------------------------------
CallGoesOn(c) ==
    \/ RegisterLock(c) \/ RegisterRefused(c) \/ RegisterInsert(c)
    \/ RegisterSpawn(c) \/ TakeCarriedIngress(c)
    \/ UnregisterProtocol(c) \/ SuspendProtocol(c)
    \/ SenderStop(c) \/ RecvStop(c) \/ RecvStopped(c)

CallNext(c) ==
    \/ \E k \in Keys : CallRegister(c, k) \/ CallStop(c, k)
    \/ CallGoesOn(c)

ForwardNext(i) ==
    \/ ForwardDequeue(i) \/ ForwardReport(i) \/ ForwardCallbackReturn(i)
    \/ ForwardDeliver(i) \/ ForwardLeave(i) \/ ForwardExit(i)

SenderNext(i) ==
    \/ SenderTake(i) \/ SenderCheck(i) \/ SenderWrite(i) \/ SenderFail(i)
    \/ SenderError(i) \/ SenderLeave(i)

ReaderNext ==
    \/ ReaderTop \/ ReaderStart \/ ReadFail \/ Enqueue \/ ReaderReport
    \/ ReaderCallbackReturn \/ ReaderError \/ SweepRemove \/ SweepEnd
    \/ \E k \in Here.peerKeys : ReadSegment(k)
    \/ \E k \in Keys : SweepStop(k)

CleanupNext == CleanupClose \/ CleanupFence \/ CleanupWait

UpNext == StartOnce \/ Start \/ \E m \in Here.modes : SetDiffusionMode(m)

InstanceNext(k) == TakeSegment(k) \/ Process(k) \/ HandOver(k)

\* The muxer has shut down and no call is pending.
Ended ==
    /\ errorChan.closed
    /\ \A c \in Callers : call[c] = Idle
    /\ UNCHANGED vars

Next ==
    \/ \E c \in Callers : CallNext(c)
    \/ \E i \in Regs : ForwardNext(i) \/ SenderNext(i)
    \/ ReaderNext \/ CleanupNext \/ UpNext \/ Stop
    \/ \E k \in Keys : InstanceNext(k)
    \/ Ended

Spec == Init /\ [][Next]_vars

\* The goroutines run, a closed connection fails a pending read, and a
\* metrics callback returns, as its documentation demands.  Nothing obliges
\* the peer to send or the application to call.
Program ==
    \/ \E c \in Callers : CallGoesOn(c)
    \/ \E i \in Regs : ForwardNext(i) \/ SenderNext(i)
    \/ ReaderTop \/ ReaderStart \/ Enqueue \/ ReaderReport \/ ReaderCallbackReturn
    \/ ReaderError \/ SweepRemove \/ SweepEnd \/ (ReadFail /\ ~connOpen)
    \/ \E k \in Keys : SweepStop(k)
    \/ CleanupNext

FairSpec == Spec /\ WF_vars(Program)

-----------------------------------------------------------------------------
(* Properties *)

\* Type invariant; the channels keep to their capacities.
TypeOK ==
    /\ {doneChan, connOpen, started, errorChan.closed} \subseteq BOOLEAN
    /\ startChan \in {<<>>, <<TRUE>>, <<FALSE>>}
    /\ waitGroupMutex \subseteq Callers /\ Cardinality(waitGroupMutex) <= 1
    /\ protocolReceivers \in [Keys -> Regs \cup {NoReg}]
    /\ protocolSenders \in [Keys -> Regs \cup {NoReg}]
    /\ protocolTombstones \subseteq Keys
    /\ \A i \in Regs :
         /\ recv[i].key \in Keys \cup {NoKey}
         /\ recv[i].fwd \in {"none", "wait", "report", "callback", "deliver", "exit", "gone"}
         /\ Len(recv[i].queue) <= Here.queueLimit
         /\ Len(recv[i].ch) <= ChCap
         /\ Len(recv[i].hand) <= 1
         /\ sender[i].pc \in {"none", "select", "took", "send", "erring", "gone"}
    /\ reader.pc \in {"top", "start", "read", "enqueue", "report", "callback",
                      "erring", "sweep", "stopping", "gone"}
    /\ cleanup \in {"done", "fence", "wait", "closed"}

\* Every forwarder that nobody has stopped is reachable from
\* protocolReceivers, and none is left once the read loop's exit sweep is
\* over: RegisterProtocol's second check of doneChan.
NoOrphanForwarder ==
    \A i \in Forwarders :
        \/ recv[i].stopping
        \/ \E c \in Callers : call[c].pc \in {"sender", "recv"} /\ call[c].recv = i
        \/ protocolReceivers[recv[i].key] = i /\ reader.pc # "gone"

\* ErrorChan is closed after the last goroutine that could still send on it
\* or that waitGroup should have waited for: the fence of registrations.
ErrorChanClosesLast ==
    errorChan.closed => WaitGroupZero /\ \A c \in Callers : call[c].pc # "spawn"

\* What is on its way to the instances of role k, in order.
Pending(k) ==
    LET i == protocolReceivers[k]
        inReader == IF reader.pc = "enqueue" /\ reader.recv = i THEN <<arrived[k]>> ELSE <<>>
    IN  IF i = NoReg THEN <<>>
        ELSE recv[i].carry \o recv[i].ch \o recv[i].hand \o recv[i].queue \o inReader

\* The instances of a role process its segments in the order they arrived,
\* none twice, and while the role is only suspended and resumed none is
\* lost: the next instance first gets what the last one had read and not
\* processed, then what was queued meanwhile.
StreamInOrder ==
    (~doneChan /\ reader.pc # "erring") =>
        \A k \in Keys :
            /\ \A m, n \in DOMAIN processed[k] : m < n => processed[k][m] < processed[k][n]
            /\ k \notin unregistered =>
                 processed[k] \o instance[k].held \o Pending(k) = [n \in 1..arrived[k] |-> n]

\* A message's receipt tells whether it was written, and a message handed
\* over before its sender was stopped has a receipt once the sender's
\* goroutine is gone, unless the muxer stops.
ReceiptsSettle ==
    \A m \in DOMAIN messages :
        /\ messages[m].written <=> messages[m].receipt = "ok"
        /\ (messages[m].early /\ sender[messages[m].sender].pc = "gone" /\ ~doneChan) =>
              messages[m].receipt # "none"

\* A late segment for a role that was registered and is not any more, or
\* not yet again, never stops the muxer: the tombstones.
LateSegmentIsNotFatal ==
    [][\A k \in unregistered :
         (ReadSegment(k) /\ ~WrongDirection(k)) => reader'.pc # "erring"]_vars

\* The goroutines of the muxer are all accounted for: the types, every
\* forwarder reachable by the exit sweep, every sender waited for.
NoneUnaccounted == TypeOK /\ NoOrphanForwarder /\ ErrorChanClosesLast

\* What is read is handed on in order and what is handed over has its receipt,
\* whatever restarts there are.
NothingMisdelivered == StreamInOrder /\ ReceiptsSettle

\* The muxer comes to rest again and again, even while metrics callbacks
\* register and unregister roles: every call of RegisterProtocol,
\* UnregisterProtocol and SuspendProtocol has returned, those made from a
\* callback of the role included; no Start is lost, and the read loop, back
\* from the handshake's segment or not yet, reads on; and a muxer that was
\* stopped, by a call or by an error, has closed ErrorChan.
AtRest ==
    /\ \A c \in Callers : call[c] = Idle
    /\ starter = "started" => started \/ doneChan
    /\ doneChan => errorChan.closed

MuxerNeverStalls == []<>AtRest

=============================================================================
