------------------------------ MODULE Ingress -------------------------------
(***************************************************************************)
(* The inbound side of the muxer (muxer/muxer.go): the read loop shared by *)
(* every protocol role of a connection, one segmentChannel per role with   *)
(* its forward goroutine, and the ingressAccount they draw on together.    *)
(*                                                                         *)
(* A segment is a payload size with a number that says where it came in    *)
(* the role's stream.  Metrics, and what a protocol does with a segment,   *)
(* are left out; a role is registered once (registering it again is the    *)
(* subject of MuxerLifecycle).                                             *)
(***************************************************************************)
EXTENDS Integers, Sequences, FiniteSets, FiniteSetsExt

CONSTANTS
    Roles,        \* registered protocol roles
    LiveRoles,    \* the roles whose consumer keeps reading (fairness only)
    Sizes,        \* payload sizes of the segments a peer may send
    Overhead,     \* segmentRetainedOverhead
    Scenarios,    \* by name: the values SetIngressLimit, SetIngressBackpressure,
                  \* SetIngressBudgetExtension and SetIngressBudget are called
                  \* with, and bounds on these calls and on each role's segments
    DefaultLimit, \* DefaultIngressLimit
    DefaultBudget,\* DefaultIngressBudget
    MaxInt,       \* math.MaxInt
    MaxExtension, \* maxBudgetExtension
    ChCap         \* capacity of the channel a protocol receives from

ASSUME IngressAssumption ==
    /\ LiveRoles \subseteq Roles
    /\ IsFiniteSet(Roles)
    /\ Sizes \subseteq Nat \ {0}
    /\ {Overhead, DefaultLimit, DefaultBudget, MaxInt, MaxExtension} \subseteq Nat
    /\ \A name \in DOMAIN Scenarios :
         LET z == Scenarios[name] IN
         /\ z.limits \cup z.budgets \subseteq Nat \ {0}
         /\ z.extensions \subseteq Int
         /\ z.switches \subseteq BOOLEAN
         /\ z.segments \in [Roles -> Nat]
         /\ z.configures \in Nat
    /\ ChCap \in Nat \ {0}

VARIABLES
    scenario,
    queue,        \* segmentChannel.queue
    pendingBytes, \* segmentChannel.pendingBytes
    pendingCost,  \* segmentChannel.pendingCost
    limit,        \* segmentChannel.limit
    extension,    \* segmentChannel.extension
    backpressure, \* segmentChannel.backpressure
    room,         \* segmentChannel.room is not nil
    done,         \* segmentChannel.done is closed
    closed,       \* segmentChannel.closed
    hand,         \* the segment forward has dequeued and not yet delivered
    fwd,          \* where forward is: "wait", "deliver", "exit", "gone"
    ch,           \* the segments in segmentChannel.ch
    account,      \* ingressAccount: budget, extended, used, payload, room
    reader,       \* the read loop: pc, and the segment and role it enqueues
    registered,   \* the roles in Muxer.protocolReceivers
    sweeping,     \* the role the exit sweep of readLoop stopped last
    muxerDone,    \* Muxer.doneChan is closed
    configures,   \* number of configuration calls made
    received,     \* history: segments read from the connection, per role
    taken         \* history: number of the last segment the consumer took

queueVars == <<queue, pendingBytes, pendingCost>>
optionVars == <<limit, extension, backpressure>>
stopVars == <<done, closed, registered, sweeping>>
ingressVars == <<scenario, queueVars, optionVars, stopVars, room, hand, fwd, ch, account,
          reader, muxerDone, configures, received, taken>>

Traffic == Scenarios
Here == Traffic[scenario]

Idle == [pc |-> "read"]

IngressInit ==
    /\ scenario \in DOMAIN Scenarios
    /\ queue = [r \in Roles |-> <<>>]
    /\ pendingBytes = [r \in Roles |-> 0]
    /\ pendingCost = [r \in Roles |-> 0]
    /\ limit = [r \in Roles |-> DefaultLimit]
    /\ extension = [r \in Roles |-> 0]
    /\ backpressure = [r \in Roles |-> FALSE]
    /\ room = [r \in Roles |-> FALSE]
    /\ done = [r \in Roles |-> FALSE]
    /\ closed = [r \in Roles |-> FALSE]
    /\ hand = [r \in Roles |-> <<>>]
    /\ fwd = [r \in Roles |-> "wait"]
    /\ ch = [r \in Roles |-> <<>>]
    /\ account = [budget |-> DefaultBudget, extended |-> 0, used |-> 0,
                  payload |-> 0, room |-> FALSE]
    /\ reader = Idle
    /\ registered = Roles
    /\ sweeping = {}
    /\ muxerDone = FALSE
    /\ configures = 0
    /\ received = [r \in Roles |-> 0]
    /\ taken = [r \in Roles |-> 0]

-----------------------------------------------------------------------------
(* ingressAccount *)

\* updateLimitLocked: the budget and every extension, saturating.
accountLimit ==
    IF account.extended > MaxInt - account.budget
    THEN MaxInt
    ELSE account.budget + account.extended

segmentRetainedCost(seg) == seg.size + Overhead

\* reserve, when it refuses: the caller waits on the account's room.
Refuses(cost, force) == ~force /\ cost > accountLimit - account.used

Reserved(cost, bytes) ==
    [account EXCEPT !.used = @ + cost, !.payload = @ + bytes]

\* release, which wakes an enqueue waiting on the account.
Released(cost, bytes) ==
    [account EXCEPT !.used = Max({@ - cost, 0}),
                    !.payload = Max({@ - bytes, 0}),
                    !.room = FALSE]

\* extend, applied to an account value.
Extended(a, delta) ==
    [a EXCEPT !.extended = Max({@ + delta, 0}), !.room = FALSE]

SetIngressBudget(budget) ==
    /\ account' = [account EXCEPT !.budget = budget, !.room = FALSE]
    /\ UNCHANGED <<scenario, queueVars, optionVars, stopVars, room, hand, fwd, ch,
                   reader, muxerDone, received, taken>>

-----------------------------------------------------------------------------
(* Options of a registered role: each call wakes a waiting enqueue. *)

SetOption(r) ==
    /\ r \in registered
    /\ sweeping = {}
    /\ room' = [room EXCEPT ![r] = FALSE]
    /\ UNCHANGED <<scenario, queueVars, stopVars, hand, fwd, ch, reader, muxerDone,
                   received, taken>>

SetIngressLimit(r, l) ==
    /\ SetOption(r)
    /\ limit' = [limit EXCEPT ![r] = l]
    /\ UNCHANGED <<extension, backpressure, account>>

SetIngressBackpressure(r, b) ==
    /\ SetOption(r)
    /\ backpressure' = [backpressure EXCEPT ![r] = b]
    /\ UNCHANGED <<limit, extension, account>>

BugExtensionNotClamped(r, e) ==
    /\ e # extension[r]
    /\ SetOption(r)
    /\ account' = Extended(account, e - extension[r])
    /\ extension' = [extension EXCEPT ![r] = e]
    /\ UNCHANGED <<limit, backpressure>>

SetIngressBudgetExtension(r, e) ==
    LET extra == Min({Max({e, 0}), MaxExtension})
    IN  /\ extra # extension[r]
        /\ SetOption(r)
        /\ account' = Extended(account, extra - extension[r])
        /\ extension' = [extension EXCEPT ![r] = extra]
        /\ UNCHANGED <<limit, backpressure>>

-----------------------------------------------------------------------------
(* The read loop *)

readerOnly == <<scenario, optionVars, stopVars, hand, fwd, ch, configures, taken>>

ReadSegment(r, n) ==
    /\ reader.pc = "read"
    /\ ~muxerDone
    /\ r \in registered
    /\ received[r] < Here.segments[r]
    /\ received' = [received EXCEPT ![r] = @ + 1]
    /\ reader' = [pc |-> "enqueue", role |-> r,
                  seg |-> [id |-> received[r] + 1, size |-> n]]
    /\ UNCHANGED <<readerOnly, queueVars, room, account, muxerDone>>

BugNoForcedAdmission(r) == FALSE

(***************************************************************************)
(* One pass of the loop of enqueue, under the channel's lock: under        *)
(* backpressure an empty queue admits a segment whatever the limit and the *)
(* budget say.                                                             *)
(***************************************************************************)
MustAdmit(r) == backpressure[r] /\ queue[r] = <<>>

FitsQueue(r, seg) == pendingBytes[r] + seg.size <= limit[r] \/ MustAdmit(r)

Admits(r, seg) ==
    FitsQueue(r, seg) /\ ~Refuses(segmentRetainedCost(seg), MustAdmit(r))

EnqueueClosed ==
    /\ reader.pc = "enqueue"
    /\ closed[reader.role]
    /\ reader' = Idle
    /\ UNCHANGED <<readerOnly, queueVars, room, account, muxerDone, received>>

EnqueueAppend ==
    LET r == reader.role
        seg == reader.seg
        cost == segmentRetainedCost(seg)
    IN  /\ reader.pc = "enqueue"
        /\ ~closed[r]
        /\ Admits(r, seg)
        /\ account' = Reserved(cost, seg.size)
        /\ queue' = [queue EXCEPT ![r] = Append(@, seg)]
        /\ pendingBytes' = [pendingBytes EXCEPT ![r] = @ + seg.size]
        /\ pendingCost' = [pendingCost EXCEPT ![r] = @ + cost]
        /\ reader' = Idle
        /\ UNCHANGED <<readerOnly, room, muxerDone, received>>

\* ErrIngressOverflow: the read loop reports it, stops the muxer and exits.
EnqueueOverflow ==
    /\ reader.pc = "enqueue"
    /\ ~closed[reader.role]
    /\ ~Admits(reader.role, reader.seg)
    /\ ~backpressure[reader.role]
    /\ muxerDone' = TRUE
    /\ reader' = [pc |-> "exited"]
    /\ account' = [account EXCEPT !.room = @ \/ FitsQueue(reader.role, reader.seg)]
    /\ UNCHANGED <<readerOnly, queueVars, room, received>>

EnqueueWait ==
    LET asked == FitsQueue(reader.role, reader.seg)
    IN  /\ reader.pc = "enqueue"
        /\ ~closed[reader.role]
        /\ ~Admits(reader.role, reader.seg)
        /\ backpressure[reader.role]
        /\ room' = [room EXCEPT ![reader.role] = TRUE]
        /\ account' = [account EXCEPT !.room = @ \/ asked]
        /\ reader' = [pc |-> "wait", role |-> reader.role, seg |-> reader.seg,
                      onAccount |-> asked]
        /\ UNCHANGED <<readerOnly, queueVars, muxerDone, received>>

BugWokenDropsSegment ==
    /\ reader.pc = "wait"
    /\ ~room[reader.role] \/ (reader.onAccount /\ ~account.room)
    /\ reader' = Idle
    /\ UNCHANGED <<readerOnly, queueVars, room, account, muxerDone, received>>

(***************************************************************************)
(* The select of enqueue.  Only enqueue makes a room, so a room that is no *)
(* longer there has been closed since the wait began.                      *)
(***************************************************************************)
WaitRoom ==
    /\ reader.pc = "wait"
    /\ ~room[reader.role] \/ (reader.onAccount /\ ~account.room)
    /\ reader' = [pc |-> "enqueue", role |-> reader.role, seg |-> reader.seg]
    /\ UNCHANGED <<readerOnly, queueVars, room, account, muxerDone, received>>

WaitChannelStopped ==
    /\ reader.pc = "wait"
    /\ done[reader.role]
    /\ reader' = Idle
    /\ UNCHANGED <<readerOnly, queueVars, room, account, muxerDone, received>>

BugWaitIgnoresMuxerDone ==
    /\ reader.pc = "read"
    /\ muxerDone
    /\ reader' = [pc |-> "exited"]
    /\ UNCHANGED <<readerOnly, queueVars, room, account, muxerDone, received>>

ReaderExit ==
    /\ reader.pc \in {"read", "wait"}
    /\ muxerDone
    /\ reader' = [pc |-> "exited"]
    /\ UNCHANGED <<readerOnly, queueVars, room, account, muxerDone, received>>

-----------------------------------------------------------------------------
(* forward, one goroutine per role, and the protocol that receives from ch *)

ForwardDequeue(r) ==
    LET seg == Head(queue[r])
        cost == segmentRetainedCost(seg)
    IN  /\ fwd[r] = "wait"
        /\ queue[r] # <<>>
        /\ pendingBytes' = [pendingBytes EXCEPT ![r] = @ - seg.size]
        /\ pendingCost' = [pendingCost EXCEPT ![r] = @ - cost]
        /\ account' = Released(cost, seg.size)
        /\ queue' = [queue EXCEPT ![r] = Tail(@)]
        /\ room' = [room EXCEPT ![r] = FALSE]
        /\ hand' = [hand EXCEPT ![r] = <<seg>>]
        /\ fwd' = [fwd EXCEPT ![r] = "deliver"]
        /\ UNCHANGED <<scenario, optionVars, stopVars, ch, reader, muxerDone, configures,
                       received, taken>>

ForwardDeliver(r) ==
    /\ fwd[r] = "deliver"
    /\ Len(ch[r]) < ChCap
    /\ ch' = [ch EXCEPT ![r] = @ \o hand[r]]
    /\ hand' = [hand EXCEPT ![r] = <<>>]
    /\ fwd' = [fwd EXCEPT ![r] = "wait"]
    /\ UNCHANGED <<scenario, queueVars, optionVars, stopVars, room, account, reader,
                   muxerDone, configures, received, taken>>

BugLeaveContinues(r) ==
    /\ fwd[r] = "deliver" /\ done[r]
    /\ hand' = [hand EXCEPT ![r] = <<>>]
    /\ fwd' = [fwd EXCEPT ![r] = "wait"]
    /\ UNCHANGED <<scenario, queueVars, optionVars, stopVars, room, ch, account, reader,
                   muxerDone, configures, received, taken>>

BugDeliverIgnoresDone(r) ==
    /\ fwd[r] = "wait" /\ queue[r] = <<>> /\ closed[r]
    /\ fwd' = [fwd EXCEPT ![r] = "exit"]
    /\ UNCHANGED <<scenario, queueVars, optionVars, stopVars, room, hand, ch, account,
                   reader, muxerDone, configures, received, taken>>

ForwardLeave(r) ==
    /\ \/ fwd[r] = "deliver" /\ done[r]
       \/ fwd[r] = "wait" /\ queue[r] = <<>> /\ closed[r]
    /\ hand' = [hand EXCEPT ![r] = <<>>]
    /\ fwd' = [fwd EXCEPT ![r] = "exit"]
    /\ UNCHANGED <<scenario, queueVars, optionVars, stopVars, room, ch, account, reader,
                   muxerDone, configures, received, taken>>

BugExitKeepsReservation(r) ==
    /\ fwd[r] = "exit"
    /\ account' = Extended(account, -extension[r])
    /\ pendingBytes' = [pendingBytes EXCEPT ![r] = 0]
    /\ pendingCost' = [pendingCost EXCEPT ![r] = 0]
    /\ extension' = [extension EXCEPT ![r] = 0]
    /\ queue' = [queue EXCEPT ![r] = <<>>]
    /\ fwd' = [fwd EXCEPT ![r] = "gone"]
    /\ UNCHANGED <<scenario, limit, backpressure, stopVars, room, hand, ch, reader,
                   muxerDone, configures, received, taken>>

\* The deferred function of forward: what is still queued is given up.
ForwardExit(r) ==
    /\ fwd[r] = "exit"
    /\ account' = Extended(Released(pendingCost[r], pendingBytes[r]), -extension[r])
    /\ pendingBytes' = [pendingBytes EXCEPT ![r] = 0]
    /\ pendingCost' = [pendingCost EXCEPT ![r] = 0]
    /\ extension' = [extension EXCEPT ![r] = 0]
    /\ queue' = [queue EXCEPT ![r] = <<>>]
    /\ fwd' = [fwd EXCEPT ![r] = "gone"]
    /\ UNCHANGED <<scenario, limit, backpressure, stopVars, room, hand, ch, reader,
                   muxerDone, configures, received, taken>>

Consume(r) ==
    /\ ch[r] # <<>>
    /\ taken' = [taken EXCEPT ![r] = Head(ch[r]).id]
    /\ ch' = [ch EXCEPT ![r] = Tail(@)]
    /\ UNCHANGED <<scenario, queueVars, optionVars, stopVars, room, hand, fwd, account,
                   reader, muxerDone, configures, received>>

-----------------------------------------------------------------------------
(* Stopping: segmentChannel.stop closes done, then sets closed under mu, and *)
(* waits for forward.                                                        *)

notStop == <<scenario, queueVars, optionVars, room, hand, fwd, ch, account, reader,
             configures, received, taken>>

Unregister(r) ==
    /\ r \in registered
    /\ sweeping = {}
    /\ registered' = registered \ {r}
    /\ done' = [done EXCEPT ![r] = TRUE]
    /\ UNCHANGED <<closed, sweeping, notStop, muxerDone>>

StopClose(r) ==
    /\ done[r]
    /\ ~closed[r]
    /\ closed' = [closed EXCEPT ![r] = TRUE]
    /\ UNCHANGED <<done, registered, sweeping, notStop, muxerDone>>

\* The exit sweep of readLoop stops one receiver after the other, and holds
\* the lock of the receiver map from the first to the last.
SweepStop(r) ==
    /\ reader.pc = "exited"
    /\ \A q \in sweeping : closed[q] /\ fwd[q] = "gone"
    /\ r \in registered
    /\ registered' = registered \ {r}
    /\ done' = [done EXCEPT ![r] = TRUE]
    /\ sweeping' = {r}
    /\ UNCHANGED <<closed, notStop, muxerDone>>

MuxerStop ==
    /\ ~muxerDone
    /\ muxerDone' = TRUE
    /\ UNCHANGED <<stopVars, notStop>>

-----------------------------------------------------------------------------

Enqueue == EnqueueClosed \/ EnqueueAppend \/ EnqueueOverflow \/ EnqueueWait

\* What the read loop does by itself, once a segment is read or it must end.
ReadLoop ==
    \/ Enqueue
    \/ WaitRoom
    \/ WaitChannelStopped
    \/ ReaderExit
    \/ \E r \in Roles : SweepStop(r)

Forward(r) ==
    ForwardDequeue(r) \/ ForwardDeliver(r) \/ ForwardLeave(r) \/ ForwardExit(r)

Configure ==
    /\ configures < Here.configures
    /\ configures' = configures + 1
    /\ \/ \E r \in Roles, l \in Here.limits : SetIngressLimit(r, l)
       \/ \E r \in Roles, b \in Here.switches : SetIngressBackpressure(r, b)
       \/ \E r \in Roles, e \in Here.extensions : SetIngressBudgetExtension(r, e)
       \/ \E b \in Here.budgets : SetIngressBudget(b)

IngressNext ==
    \/ \E r \in Roles, n \in Sizes : ReadSegment(r, n)
    \/ ReadLoop
    \/ \E r \in Roles : Forward(r) \/ Consume(r)
    \/ \E r \in Roles : Unregister(r) \/ StopClose(r)
    \/ MuxerStop
    \/ Configure

IngressSpec == IngressInit /\ [][IngressNext]_ingressVars

(***************************************************************************)
(* The goroutines of the muxer run when they can.  Of the consumers only   *)
(* those of LiveRoles are obliged to read; the peer, the application and   *)
(* the configuration calls are obliged to nothing.                         *)
(***************************************************************************)
IngressFairness ==
    /\ WF_ingressVars(ReadLoop)
    /\ \A r \in Roles : WF_ingressVars(Forward(r)) /\ WF_ingressVars(StopClose(r))
    /\ \A r \in LiveRoles : WF_ingressVars(Consume(r))

IngressFairSpec == IngressSpec /\ IngressFairness

-----------------------------------------------------------------------------
(* Properties *)

Segments == [id : Nat, size : Sizes]

\* The type of every variable of the inbound side.
IngressTypeOK ==
    /\ queue \in [Roles -> Seq(Segments)]
    /\ pendingBytes \in [Roles -> Nat]
    /\ pendingCost \in [Roles -> Nat]
    /\ limit \in [Roles -> Nat]
    /\ extension \in [Roles -> 0..MaxExtension]
    /\ backpressure \in [Roles -> BOOLEAN]
    /\ room \in [Roles -> BOOLEAN]
    /\ done \in [Roles -> BOOLEAN]
    /\ closed \in [Roles -> BOOLEAN]
    /\ hand \in [Roles -> Seq(Segments)]
    /\ fwd \in [Roles -> {"wait", "deliver", "exit", "gone"}]
    /\ ch \in [Roles -> Seq(Segments)]
    /\ account \in [budget : Nat, extended : Nat, used : Nat, payload : Nat,
                    room : BOOLEAN]
    /\ reader.pc \in {"read", "enqueue", "wait", "exited"}
    /\ reader.pc \in {"enqueue", "wait"} => /\ reader.role \in Roles
                                            /\ reader.seg \in Segments
    /\ registered \subseteq Roles
    /\ sweeping \subseteq Roles
    /\ muxerDone \in BOOLEAN
    /\ scenario \in DOMAIN Scenarios
    /\ received \in [Roles -> Nat]
    /\ taken \in [Roles -> Nat]

(***************************************************************************)
(* The connection account is exactly what the queues hold: the retained    *)
(* cost and payload of every queued segment, and the sum of the roles'     *)
(* extensions.  So the clamps at zero in release and extend never act, and *)
(* IngressInUse reports the truth, across overflow, stops and the give-up  *)
(* of undelivered segments.                                                *)
(***************************************************************************)
SizesOf(q) == [i \in DOMAIN q |-> q[i].size]

QueuedBytes(r) == SumFunction(SizesOf(queue[r]))

AccountMatchesQueues ==
    /\ account.used = SumFunction(pendingCost)
    /\ account.payload = SumFunction(pendingBytes)
    /\ account.extended = SumFunction(extension)
    /\ \A r \in Roles :
          /\ pendingBytes[r] = QueuedBytes(r)
          /\ pendingCost[r] = QueuedBytes(r) + Overhead * Len(queue[r])

(***************************************************************************)
(* A role that is still running receives its stream whole and in order:    *)
(* what its consumer took, what is in ch, in forward's hand, in the queue  *)
(* and with the read loop are consecutive segments, up to the last one     *)
(* read from the connection.  One that was stopped still never sees a      *)
(* segment out of order or twice.                                          *)
(***************************************************************************)
Ids(s) == [i \in DOMAIN s |-> s[i].id]

AtReader(r) ==
    IF reader.pc \in {"enqueue", "wait"} /\ reader.role = r THEN <<reader.seg>> ELSE <<>>

StreamInOrder ==
    \A r \in Roles :
        /\ Ids(ch[r]) = [i \in DOMAIN ch[r] |-> taken[r] + i]
        /\ ~done[r] /\ ~muxerDone =>
              Ids(ch[r] \o hand[r] \o queue[r] \o AtReader(r))
                  = [i \in 1..(received[r] - taken[r]) |-> taken[r] + i]

(***************************************************************************)
(* Backpressure cannot wedge the connection: when the read loop waits for  *)
(* a role whose consumer keeps reading, it goes on, even if every other    *)
(* consumer has stopped reading and holds the whole budget, and even if    *)
(* the limit is smaller than one segment (the comment in enqueue).         *)
(***************************************************************************)
BackpressureEnds ==
    \A r \in LiveRoles :
        (reader.pc = "wait" /\ reader.role = r) ~> (reader.pc # "wait")

(***************************************************************************)
(* A stopped role's forward goroutine exits, whether or not its consumer   *)
(* still reads, so stop returns and the muxer's wait group can finish.     *)
(***************************************************************************)
StopEndsForward ==
    (\E r \in Roles : done[r]) ~> (\A r \in Roles : done[r] => fwd[r] = "gone")

\* When the muxer stops, every receiver of the connection is stopped.
MuxerStopEndsAll == muxerDone ~> (\A r \in Roles : fwd[r] = "gone")

(***************************************************************************)
(* The books are right: every variable is of its type and the account of   *)
(* the connection is what its queues hold.                                 *)
(***************************************************************************)
Accounting == IngressTypeOK /\ AccountMatchesQueues

(***************************************************************************)
(* Nothing of the receive side waits for ever: not the read loop under     *)
(* backpressure, nor a forwarder whose role or whose muxer was stopped.    *)
(***************************************************************************)
NothingWedged == BackpressureEnds /\ StopEndsForward /\ MuxerStopEndsAll

=============================================================================
