---------------------------- MODULE IngressProofs ----------------------------
(***************************************************************************)
(* Proofs about the inbound side of the muxer, for any finite set of       *)
(* roles, any segment sizes and any configuration calls: the account of    *)
(* the connection is what its queues hold, and every role receives its     *)
(* stream in order.                                                        *)
(***************************************************************************)
EXTENDS Ingress, SumLemmas

\* The provers get half a minute for a step, not five seconds.
USE SMTT(30), ZenonT(30)


-----------------------------------------------------------------------------
(* Types *)

StopTypes ==
    /\ done \in [Roles -> BOOLEAN]
    /\ closed \in [Roles -> BOOLEAN]
    /\ registered \subseteq Roles
    /\ sweeping \subseteq Roles
    /\ muxerDone \in BOOLEAN

StreamTypes ==
    /\ queue \in [Roles -> Seq(Segments)]
    /\ hand \in [Roles -> Seq(Segments)]
    /\ fwd \in [Roles -> {"wait", "deliver", "exit", "gone"}]
    /\ ch \in [Roles -> Seq(Segments)]
    /\ received \in [Roles -> Nat]
    /\ taken \in [Roles -> Nat]

ReaderTypes ==
    /\ reader.pc \in {"read", "enqueue", "wait", "exited"}
    /\ reader.pc \in {"enqueue", "wait"} => /\ reader.role \in Roles
                                            /\ reader.seg \in Segments

Typed == StopTypes /\ StreamTypes /\ ReaderTypes

\* The types hold when the muxer starts.
LEMMA InitTyped == IngressInit => Typed
<1> SUFFICES ASSUME IngressInit PROVE Typed
  BY Zenon
<1>1. StopTypes
  BY ZenonT(40) DEF IngressInit, StopTypes
<1>2. StreamTypes
  BY DEF IngressInit, StreamTypes
<1>3. ReaderTypes
  BY Zenon DEF IngressInit, ReaderTypes, Idle
<1>4. QED
  BY <1>1, <1>2, <1>3, Zenon DEF Typed

\* No step breaks the types of the variables that say what has stopped.
LEMMA StopTypesStep ==
    ASSUME Typed, [IngressNext]_ingressVars
    PROVE  StopTypes'
<1>0. StopTypes /\ ReaderTypes
  BY Zenon DEF Typed
<1>1. CASE UNCHANGED <<stopVars, muxerDone>>
  BY <1>0, <1>1, Zenon DEF StopTypes, stopVars
<1>2. ASSUME NEW r \in Roles,
             \/ Forward(r) \/ Consume(r)
             \/ \E n \in Sizes : ReadSegment(r, n)
             \/ \E l \in Here.limits : SetIngressLimit(r, l)
             \/ \E b \in Here.switches : SetIngressBackpressure(r, b)
             \/ \E e \in Here.extensions : SetIngressBudgetExtension(r, e)
      PROVE  UNCHANGED <<stopVars, muxerDone>>
  BY <1>2, ZenonT(40) DEF Forward, ForwardDequeue, ForwardDeliver, ForwardLeave, ForwardExit,
     Consume, ReadSegment, SetIngressLimit, SetIngressBackpressure,
     SetIngressBudgetExtension, SetOption, readerOnly
<1>3. ASSUME \/ EnqueueClosed \/ EnqueueAppend \/ EnqueueWait \/ WaitRoom
             \/ WaitChannelStopped \/ ReaderExit \/ UNCHANGED ingressVars
             \/ \E b \in Here.budgets : SetIngressBudget(b)
      PROVE  UNCHANGED <<stopVars, muxerDone>>
  BY <1>3, ZenonT(40) DEF EnqueueClosed, EnqueueAppend, EnqueueWait, WaitRoom,
     WaitChannelStopped, ReaderExit, SetIngressBudget, readerOnly, ingressVars
<1>4. CASE EnqueueOverflow \/ MuxerStop
  BY <1>0, <1>4, ZenonT(40) DEF EnqueueOverflow, MuxerStop, StopTypes, readerOnly, stopVars
<1>5. ASSUME NEW r \in Roles, Unregister(r) \/ StopClose(r) \/ SweepStop(r)
      PROVE  StopTypes'
  <2>1. done' \in [Roles -> BOOLEAN] /\ closed' \in [Roles -> BOOLEAN]
    BY <1>0, <1>5, ZenonT(40) DEF Unregister, StopClose, SweepStop, StopTypes
  <2>2. registered' \subseteq Roles /\ sweeping' \subseteq Roles /\ muxerDone' = muxerDone
    BY <1>0, <1>5, Zenon DEF Unregister, StopClose, SweepStop, StopTypes
  <2>3. QED
    BY <1>0, <2>1, <2>2, Zenon DEF StopTypes
<1>6. QED
  BY <1>1, <1>2, <1>3, <1>4, <1>5, Zenon DEF IngressNext, ReadLoop, Enqueue, Configure

\* No step breaks the types of the places a segment can be in.
LEMMA StreamTypesStep ==
    ASSUME Typed, [IngressNext]_ingressVars
    PROVE  StreamTypes'
<1>0. StreamTypes /\ ReaderTypes
  BY Zenon DEF Typed
<1>1. CASE UNCHANGED <<queue, hand, fwd, ch, received, taken>>
  BY <1>0, <1>1, ZenonT(40) DEF StreamTypes
<1>2. ASSUME NEW r \in Roles,
             \/ Unregister(r) \/ StopClose(r) \/ SweepStop(r)
             \/ \E l \in Here.limits : SetIngressLimit(r, l)
             \/ \E b \in Here.switches : SetIngressBackpressure(r, b)
             \/ \E e \in Here.extensions : SetIngressBudgetExtension(r, e)
      PROVE  UNCHANGED <<queue, hand, fwd, ch, received, taken>>
  BY <1>2, ZenonT(40) DEF Unregister, StopClose, SweepStop, SetIngressLimit,
     SetIngressBackpressure, SetIngressBudgetExtension, SetOption, notStop, queueVars
<1>3. ASSUME \/ EnqueueClosed \/ EnqueueOverflow \/ EnqueueWait
             \/ WaitRoom \/ WaitChannelStopped \/ ReaderExit \/ MuxerStop
             \/ UNCHANGED ingressVars \/ \E b \in Here.budgets : SetIngressBudget(b)
      PROVE  UNCHANGED <<queue, hand, fwd, ch, received, taken>>
  BY <1>3, ZenonT(40) DEF EnqueueClosed, EnqueueOverflow, EnqueueWait, WaitRoom,
     WaitChannelStopped, ReaderExit, MuxerStop, SetIngressBudget, readerOnly,
     notStop, ingressVars, queueVars
<1>4. ASSUME NEW r \in Roles, NEW n \in Sizes, ReadSegment(r, n)
      PROVE  StreamTypes'
  <2>1. received' \in [Roles -> Nat]
    BY <1>0, <1>4 DEF ReadSegment, StreamTypes
  <2>2. UNCHANGED <<queue, hand, fwd, ch, taken>>
    BY <1>4, ZenonT(40) DEF ReadSegment, readerOnly, queueVars
  <2>3. QED
    BY <1>0, <2>1, <2>2, ZenonT(40) DEF StreamTypes
<1>5. CASE EnqueueAppend
  <2>1. reader.role \in Roles /\ reader.seg \in Segments
    BY <1>0, <1>5, Zenon DEF EnqueueAppend, ReaderTypes
  <2>2. queue' = [queue EXCEPT ![reader.role] = Append(@, reader.seg)]
    BY <1>5, ZenonT(40) DEF EnqueueAppend
  <2>3. queue' \in [Roles -> Seq(Segments)]
    BY <1>0, <2>1, <2>2 DEF StreamTypes
  <2>4. UNCHANGED <<hand, fwd, ch, received, taken>>
    BY <1>5, ZenonT(40) DEF EnqueueAppend, readerOnly
  <2>5. QED
    BY <1>0, <2>3, <2>4, ZenonT(40) DEF StreamTypes
<1>6. ASSUME NEW r \in Roles, ForwardDequeue(r)
      PROVE  StreamTypes'
  <2>1. /\ queue[r] # <<>>
        /\ queue' = [queue EXCEPT ![r] = Tail(@)]
        /\ hand' = [hand EXCEPT ![r] = <<Head(queue[r])>>]
        /\ fwd' = [fwd EXCEPT ![r] = "deliver"]
        /\ UNCHANGED <<ch, received, taken>>
    BY <1>6, ZenonT(40) DEF ForwardDequeue
  <2>2. queue' \in [Roles -> Seq(Segments)] /\ <<Head(queue[r])>> \in Seq(Segments)
    BY <1>0, <2>1 DEF StreamTypes
  <2>3. QED
    BY <1>0, <2>1, <2>2, ZenonT(40) DEF StreamTypes
<1>7. ASSUME NEW r \in Roles, ForwardDeliver(r) \/ ForwardLeave(r) \/ ForwardExit(r)
      PROVE  StreamTypes'
  <2>1. /\ queue' = queue \/ queue' = [queue EXCEPT ![r] = <<>>]
        /\ hand' = hand \/ hand' = [hand EXCEPT ![r] = <<>>]
        /\ ch' = ch \/ ch' = [ch EXCEPT ![r] = @ \o hand[r]]
        /\ \E pc \in {"wait", "exit", "gone"} : fwd' = [fwd EXCEPT ![r] = pc]
        /\ UNCHANGED <<received, taken>>
    BY <1>7, ZenonT(40) DEF ForwardDeliver, ForwardLeave, ForwardExit, queueVars
  <2>2. <<>> \in Seq(Segments) /\ ch[r] \o hand[r] \in Seq(Segments)
    BY <1>0 DEF StreamTypes
  <2>3. /\ queue' \in [Roles -> Seq(Segments)]
        /\ hand' \in [Roles -> Seq(Segments)]
        /\ ch' \in [Roles -> Seq(Segments)]
    <3>1. queue' \in [Roles -> Seq(Segments)]
      BY <1>0, <2>1, <2>2, ZenonT(40) DEF StreamTypes
    <3>2. hand' \in [Roles -> Seq(Segments)]
      BY <1>0, <2>1, <2>2, ZenonT(40) DEF StreamTypes
    <3>3. ch' \in [Roles -> Seq(Segments)]
      BY <1>0, <2>1, <2>2, ZenonT(40) DEF StreamTypes
    <3>4. QED
      BY <3>1, <3>2, <3>3, Zenon
  <2>4. fwd' \in [Roles -> {"wait", "deliver", "exit", "gone"}]
    BY <1>0, <2>1, Zenon DEF StreamTypes
  <2>5. QED
    BY <1>0, <2>1, <2>3, <2>4, ZenonT(40) DEF StreamTypes
<1>8. ASSUME NEW r \in Roles, Consume(r)
      PROVE  StreamTypes'
  <2>1. ch[r] \in Seq(Segments) /\ ch[r] # <<>>
    BY <1>0, <1>8, Zenon DEF Consume, StreamTypes
  <2>2. Head(ch[r]).id \in Nat /\ Tail(ch[r]) \in Seq(Segments)
    <3>1. Head(ch[r]) \in Segments /\ Tail(ch[r]) \in Seq(Segments)
      BY <2>1
    <3>2. QED
      BY <3>1, Zenon DEF Segments
  <2>3. UNCHANGED <<queue, hand, fwd, received>>
    BY <1>8, ZenonT(40) DEF Consume, queueVars
  <2>4. QED
    BY <1>0, <1>8, <2>2, <2>3, ZenonT(40) DEF Consume, StreamTypes
<1>9. QED
  BY <1>1, <1>2, <1>3, <1>4, <1>5, <1>6, <1>7, <1>8, Zenon
     DEF IngressNext, ReadLoop, Enqueue, Forward, Configure

\* No step breaks the type of the state of the read loop.
LEMMA ReaderTypesStep ==
    ASSUME Typed, [IngressNext]_ingressVars
    PROVE  ReaderTypes'
<1>0. ReaderTypes /\ StreamTypes
  BY Zenon DEF Typed
<1>1. CASE UNCHANGED reader
  BY <1>0, <1>1, Zenon DEF ReaderTypes
<1>2. ASSUME NEW r \in Roles,
             \/ Forward(r) \/ Consume(r)
             \/ Unregister(r) \/ StopClose(r) \/ SweepStop(r)
             \/ \E l \in Here.limits : SetIngressLimit(r, l)
             \/ \E b \in Here.switches : SetIngressBackpressure(r, b)
             \/ \E e \in Here.extensions : SetIngressBudgetExtension(r, e)
      PROVE  UNCHANGED reader
  BY <1>2, ZenonT(40) DEF Forward, ForwardDequeue, ForwardDeliver, ForwardLeave, ForwardExit,
     Consume, Unregister, StopClose, SweepStop, SetIngressLimit,
     SetIngressBackpressure, SetIngressBudgetExtension, SetOption, notStop
<1>3. ASSUME \/ MuxerStop \/ UNCHANGED ingressVars
             \/ \E b \in Here.budgets : SetIngressBudget(b)
      PROVE  UNCHANGED reader
  BY <1>3, ZenonT(40) DEF MuxerStop, SetIngressBudget, notStop, ingressVars
<1>4. ASSUME NEW r \in Roles, NEW n \in Sizes, ReadSegment(r, n)
      PROVE  ReaderTypes'
  BY <1>0, <1>4 DEF ReadSegment, ReaderTypes, StreamTypes, Segments
<1>5. CASE Enqueue \/ WaitRoom \/ WaitChannelStopped \/ ReaderExit
  BY <1>0, <1>5 DEF Enqueue, EnqueueClosed, EnqueueAppend, EnqueueOverflow, EnqueueWait,
     WaitRoom, WaitChannelStopped, ReaderExit, ReaderTypes, Idle
<1>6. QED
  BY <1>1, <1>2, <1>3, <1>4, <1>5, Zenon DEF IngressNext, ReadLoop, Configure

\* No step breaks a type.
LEMMA TypedStep ==
    ASSUME Typed, [IngressNext]_ingressVars
    PROVE  Typed'
  BY StopTypesStep, StreamTypesStep, ReaderTypesStep, Zenon DEF Typed

-----------------------------------------------------------------------------
(* Streams: runs of segments with consecutive numbers *)

\* The segments of s are those after number n of their stream.
Numbered(s, n) == \A i \in 1..Len(s) : s[i].id = n + i

\* The rest of a run, after its first segment is taken.
LEMMA NumberedTail ==
    ASSUME NEW s \in Seq(Segments), s # <<>>, NEW n \in Nat, Numbered(s, n)
    PROVE  /\ Head(s) \in Segments /\ Head(s).id = n + 1
           /\ Tail(s) \in Seq(Segments) /\ Len(Tail(s)) = Len(s) - 1
           /\ Numbered(Tail(s), n + 1)
<1>1. /\ Len(s) \in Nat \ {0} /\ Head(s) = s[1] /\ s[1] \in Segments
      /\ Tail(s) \in Seq(Segments) /\ Len(Tail(s)) = Len(s) - 1
      /\ \A i \in 1..Len(Tail(s)) : Tail(s)[i] = s[i + 1]
  OBVIOUS
<1>2. QED
  BY <1>1 DEF Numbered

\* Two runs, the second of which begins where the first one ends.
LEMMA NumberedConcat ==
    ASSUME NEW s \in Seq(Segments), NEW t \in Seq(Segments), NEW n \in Nat,
           Numbered(s, n), Numbered(t, n + Len(s))
    PROVE  /\ s \o t \in Seq(Segments) /\ Len(s \o t) = Len(s) + Len(t)
           /\ Numbered(s \o t, n)
<1>1. /\ s \o t \in Seq(Segments) /\ Len(s \o t) = Len(s) + Len(t)
      /\ Len(s) \in Nat /\ Len(t) \in Nat
      /\ \A i \in 1..(Len(s) + Len(t)) :
           (s \o t)[i] = IF i <= Len(s) THEN s[i] ELSE t[i - Len(s)]
  OBVIOUS
<1>2. ASSUME NEW i \in 1..(Len(s) + Len(t))
      PROVE  (s \o t)[i].id = n + i
  <2>1. CASE i <= Len(s)
    BY <1>1, <2>1 DEF Numbered
  <2>2. CASE i > Len(s)
    <3>1. i - Len(s) \in 1..Len(t)
      BY <1>1, <2>2
    <3>2. t[i - Len(s)].id = n + Len(s) + (i - Len(s))
      BY <3>1, Zenon DEF Numbered
    <3>3. QED
      BY <1>1, <2>2, <3>2
  <2>3. QED
    BY <1>1, <2>1, <2>2
<1>3. QED
  BY <1>1, <1>2, Zenon DEF Numbered

\* No segment, and one segment, are runs.
LEMMA NumberedShort ==
    ASSUME NEW n \in Nat
    PROVE  /\ <<>> \in Seq(Segments) /\ Len(<<>>) = 0 /\ Numbered(<<>>, n)
           /\ \A seg \in Segments : /\ <<seg>> \in Seq(Segments) /\ Len(<<seg>>) = 1
                                    /\ seg.id = n + 1 => Numbered(<<seg>>, n)
  BY DEF Numbered

\* A run with the segment after its last one appended.
LEMMA NumberedAppend ==
    ASSUME NEW s \in Seq(Segments), NEW n \in Nat, Numbered(s, n),
           NEW seg \in Segments, seg.id = n + Len(s) + 1
    PROVE  /\ Append(s, seg) \in Seq(Segments) /\ Len(Append(s, seg)) = Len(s) + 1
           /\ Numbered(Append(s, seg), n)
<1>1. /\ Append(s, seg) \in Seq(Segments) /\ Len(Append(s, seg)) = Len(s) + 1
      /\ Len(s) \in Nat
      /\ \A i \in 1..Len(s) : Append(s, seg)[i] = s[i]
      /\ Append(s, seg)[Len(s) + 1] = seg
  OBVIOUS
<1>2. ASSUME NEW i \in 1..(Len(s) + 1)
      PROVE  Append(s, seg)[i].id = n + i
  <2>1. CASE i \in 1..Len(s)
    BY <1>1, <2>1, Zenon DEF Numbered
  <2>2. CASE i = Len(s) + 1
    BY <1>1, <2>2
  <2>3. QED
    BY <1>1, <2>1, <2>2
<1>3. QED
  BY <1>1, <1>2, Zenon DEF Numbered

\* What a run says of the numbers of its segments.
LEMMA NumberedIds ==
    ASSUME NEW s \in Seq(Segments), NEW n \in Nat, Numbered(s, n)
    PROVE  /\ Ids(s) = [i \in DOMAIN s |-> n + i]
           /\ Ids(s) = [i \in 1..Len(s) |-> n + i]
  BY DEF Numbered, Ids

\* Four runs, each of which begins where the one before it ends.
LEMMA NumberedFour ==
    ASSUME NEW c \in Seq(Segments), NEW h \in Seq(Segments), NEW q \in Seq(Segments),
           NEW a \in Seq(Segments), NEW n \in Nat,
           Numbered(c, n), Numbered(h, n + Len(c)),
           Numbered(q, n + Len(c) + Len(h)),
           Numbered(a, n + Len(c) + Len(h) + Len(q))
    PROVE  Ids(c \o h \o q \o a)
             = [i \in 1..(Len(c) + Len(h) + Len(q) + Len(a)) |-> n + i]
<1>0. Len(c) \in Nat /\ Len(h) \in Nat /\ Len(q) \in Nat /\ Len(a) \in Nat
  OBVIOUS
<1> DEFINE s == c \o h
           t == s \o q
           u == t \o a
<1>1. s \in Seq(Segments) /\ Numbered(s, n)
  BY NumberedConcat, Zenon
<1>2. Len(s) = Len(c) + Len(h)
  BY NumberedConcat, Zenon
<1> HIDE DEF s
<1>3. Numbered(q, n + Len(s))
  BY <1>0, <1>2
<1>4. t \in Seq(Segments) /\ Numbered(t, n)
  BY <1>1, <1>3, NumberedConcat, Zenon
<1>5. Len(t) = Len(c) + Len(h) + Len(q)
  <2>1. Len(t) = Len(s) + Len(q)
    BY <1>1
  <2>2. QED
    BY <2>1, <1>2, Zenon
<1> HIDE DEF t
<1>6. Numbered(a, n + Len(t))
  BY <1>0, <1>5
<1>7. u \in Seq(Segments) /\ Numbered(u, n)
  BY <1>4, <1>6, NumberedConcat, Zenon
<1>8. Len(u) = Len(c) + Len(h) + Len(q) + Len(a)
  <2>1. Len(u) = Len(t) + Len(a)
    BY <1>4
  <2>2. QED
    BY <2>1, <1>5, Zenon
<1> HIDE DEF u
<1>9. Ids(u) = [i \in 1..Len(u) |-> n + i]
  BY <1>7, NumberedIds, Zenon
<1>10. QED
  BY <1>8, <1>9, Zenon DEF s, t, u

\* The role still has a forward goroutine that takes from its queue.
Alive(r) == fwd[r] \in {"wait", "deliver"}

\* The read loop holds a segment of the role.
Held(r) == reader.pc \in {"enqueue", "wait"} /\ reader.role = r

HeldCount(r) == IF Held(r) THEN 1 ELSE 0

\* The number of the last segment that has left the queue, and of the last
\* one the muxer still has.
Dequeued(r) == taken[r] + Len(ch[r]) + Len(hand[r])

OnTheWay(r) == Dequeued(r) + Len(queue[r]) + HeldCount(r)

(***************************************************************************)
(* Who has stopped: a channel is done when its role is no longer           *)
(* registered, closed and left by its forwarder only after that; a read    *)
(* loop that exited does so with the muxer stopped.                        *)
(***************************************************************************)
Stops ==
    /\ \A r \in Roles : /\ done[r] <=> r \notin registered
                        /\ closed[r] => done[r]
                        /\ ~Alive(r) => done[r]
    /\ reader.pc = "exited" => muxerDone

(***************************************************************************)
(* Where the segments of a role are.  What the protocol can still receive  *)
(* is a run that starts after what it took.  While a forwarder takes from  *)
(* the queue, the queue and the read loop continue that run, and nothing   *)
(* is lost before the role or the read loop stops.                         *)
(***************************************************************************)
Places(r) ==
    /\ IF fwd[r] = "deliver" THEN Len(hand[r]) = 1 ELSE hand[r] = <<>>
    /\ Numbered(ch[r], taken[r])
    /\ Numbered(hand[r], taken[r] + Len(ch[r]))
    /\ Dequeued(r) <= received[r]
    /\ Alive(r) => /\ Numbered(queue[r], Dequeued(r))
                   /\ Held(r) => reader.seg.id = OnTheWay(r)
                   /\ OnTheWay(r) <= received[r]
    /\ ~done[r] /\ reader.pc # "exited" => received[r] = OnTheWay(r)

StreamInv == Typed /\ Stops /\ \A r \in Roles : Places(r)

\* Every invariant about the order of a stream follows from the places.
LEMMA StreamInvMeans == StreamInv => StreamInOrder
<1> SUFFICES ASSUME StreamInv, NEW r \in Roles
             PROVE  /\ Ids(ch[r]) = [i \in DOMAIN ch[r] |-> taken[r] + i]
                    /\ ~done[r] /\ ~muxerDone =>
                         Ids(ch[r] \o hand[r] \o queue[r] \o AtReader(r))
                           = [i \in 1..(received[r] - taken[r]) |-> taken[r] + i]
  BY Zenon DEF StreamInOrder
<1>1. /\ ch[r] \in Seq(Segments) /\ hand[r] \in Seq(Segments)
      /\ queue[r] \in Seq(Segments)
      /\ received[r] \in Nat /\ taken[r] \in Nat
      /\ Held(r) => reader.seg \in Segments
  BY Zenon DEF StreamInv, Typed, StreamTypes, ReaderTypes, Held
<1>2. Places(r) /\ Stops
  BY Zenon DEF StreamInv
<1>3. Ids(ch[r]) = [i \in DOMAIN ch[r] |-> taken[r] + i]
  BY <1>1, <1>2, NumberedIds, Zenon DEF Places
<1>4. ASSUME ~done[r], ~muxerDone
      PROVE  Ids(ch[r] \o hand[r] \o queue[r] \o AtReader(r))
               = [i \in 1..(received[r] - taken[r]) |-> taken[r] + i]
  <2>1. Alive(r) /\ received[r] = OnTheWay(r)
    BY <1>2, <1>4, Zenon DEF Stops, Places
  <2> DEFINE lc == Len(ch[r])
             lh == Len(hand[r])
             lq == Len(queue[r])
             m == taken[r] + lc + lh + lq
  <2>2. lc \in Nat /\ lh \in Nat /\ lq \in Nat /\ HeldCount(r) \in Nat
    BY <1>1 DEF HeldCount
  <2>3. m \in Nat /\ OnTheWay(r) = m + HeldCount(r)
    <3>1. OnTheWay(r) = m + HeldCount(r)
      BY Zenon DEF OnTheWay, Dequeued
    <3> HIDE DEF lc, lh, lq
    <3>2. QED
      BY <1>1, <2>2, <3>1
  <2>4. /\ AtReader(r) \in Seq(Segments)
        /\ Len(AtReader(r)) = HeldCount(r)
        /\ Numbered(AtReader(r), m)
    <3> HIDE DEF m
    <3>1. CASE Held(r)
      <4>1. AtReader(r) = <<reader.seg>> /\ HeldCount(r) = 1
        BY <3>1, Zenon DEF AtReader, Held, HeldCount
      <4>2. reader.seg.id = m + 1
        BY <1>2, <2>1, <2>3, <3>1, <4>1, Zenon DEF Places
      <4>3. QED
        BY <1>1, <2>3, <3>1, <4>1, <4>2, NumberedShort, ZenonT(40)
    <3>2. CASE ~Held(r)
      <4>1. AtReader(r) = <<>> /\ HeldCount(r) = 0
        BY <3>2, Zenon DEF AtReader, Held, HeldCount
      <4>2. QED
        BY <2>3, <4>1, NumberedShort, Zenon
    <3>3. QED
      BY <3>1, <3>2, Zenon
  <2>5. /\ Numbered(ch[r], taken[r]) /\ Numbered(hand[r], taken[r] + Len(ch[r]))
        /\ Numbered(queue[r], taken[r] + Len(ch[r]) + Len(hand[r]))
    BY <1>2, <2>1, Zenon DEF Places, Dequeued
  <2>6. lc + lh + lq + Len(AtReader(r)) = received[r] - taken[r]
    <3>1. taken[r] \in Nat /\ received[r] \in Nat
      BY <1>1, Zenon
    <3>2. received[r] = taken[r] + lc + lh + lq + HeldCount(r)
      BY <2>1, <2>3, Zenon
    <3>3. Len(AtReader(r)) = HeldCount(r)
      BY <2>4, Zenon
    <3> HIDE DEF lc, lh, lq
    <3>4. QED
      BY <2>2, <3>1, <3>2, <3>3
  <2>7. Ids(ch[r] \o hand[r] \o queue[r] \o AtReader(r))
          = [i \in 1..(Len(ch[r]) + Len(hand[r]) + Len(queue[r]) + Len(AtReader(r)))
               |-> taken[r] + i]
    <3>1. AtReader(r) \in Seq(Segments)
      BY <2>4, Zenon
    <3>2. Numbered(AtReader(r), taken[r] + Len(ch[r]) + Len(hand[r]) + Len(queue[r]))
      BY <2>4, Zenon
    <3> DEFINE c == ch[r]
               h == hand[r]
               q == queue[r]
               a == AtReader(r)
               n == taken[r]
    <3>3. /\ c \in Seq(Segments) /\ h \in Seq(Segments) /\ q \in Seq(Segments)
          /\ a \in Seq(Segments) /\ n \in Nat
          /\ Numbered(c, n) /\ Numbered(h, n + Len(c))
          /\ Numbered(q, n + Len(c) + Len(h))
          /\ Numbered(a, n + Len(c) + Len(h) + Len(q))
      BY <1>1, <2>5, <3>1, <3>2, Zenon
    <3> HIDE DEF c, h, q, a, n
    <3>4. Ids(c \o h \o q \o a) = [i \in 1..(Len(c) + Len(h) + Len(q) + Len(a)) |-> n + i]
      BY <3>3, NumberedFour
    <3>5. QED
      BY <3>4, Zenon DEF c, h, q, a, n
  <2>8. QED
    BY <2>6, <2>7, ZenonT(40)
<1>5. QED
  BY <1>3, <1>4, Zenon

\* No step breaks the order in which the parts of a channel stop.
LEMMA StopsStep ==
    ASSUME StreamInv, [IngressNext]_ingressVars
    PROVE  Stops'
<1>0. /\ done \in [Roles -> BOOLEAN] /\ closed \in [Roles -> BOOLEAN]
      /\ fwd \in [Roles -> {"wait", "deliver", "exit", "gone"}]
      /\ Stops
  BY Zenon DEF StreamInv, Typed, StopTypes, StreamTypes
<1>1. ASSUME UNCHANGED <<done, closed, registered, fwd>>,
             reader'.pc = "exited" => muxerDone'
      PROVE  Stops'
  BY <1>0, <1>1, ZenonT(40) DEF Stops, Alive
<1>2. ASSUME NEW r \in Roles,
             \/ Consume(r)
             \/ \E l \in Here.limits : SetIngressLimit(r, l)
             \/ \E b \in Here.switches : SetIngressBackpressure(r, b)
             \/ \E e \in Here.extensions : SetIngressBudgetExtension(r, e)
      PROVE  Stops'
  <2>1. UNCHANGED <<done, closed, registered, fwd, reader, muxerDone>>
    BY <1>2, ZenonT(40) DEF Consume, SetIngressLimit, SetIngressBackpressure,
       SetIngressBudgetExtension, SetOption, stopVars
  <2>2. QED
    BY <1>0, <1>1, <2>1, Zenon DEF Stops
<1>3. ASSUME \/ MuxerStop \/ UNCHANGED ingressVars
             \/ \E b \in Here.budgets : SetIngressBudget(b)
      PROVE  Stops'
  <2>1. UNCHANGED <<done, closed, registered, fwd, reader>>
    BY <1>3, ZenonT(40) DEF MuxerStop, SetIngressBudget, notStop, ingressVars, stopVars
  <2>2. muxerDone' \/ muxerDone' = muxerDone
    BY <1>3, ZenonT(40) DEF MuxerStop, SetIngressBudget, ingressVars
  <2>3. QED
    BY <1>0, <1>1, <2>1, <2>2, Zenon DEF Stops
<1>4. ASSUME \/ \E r \in Roles, n \in Sizes : ReadSegment(r, n)
             \/ Enqueue \/ WaitRoom \/ WaitChannelStopped \/ ReaderExit
      PROVE  Stops'
  <2>1. UNCHANGED <<done, closed, registered, fwd>>
    BY <1>4, ZenonT(40) DEF ReadSegment, Enqueue, EnqueueClosed, EnqueueAppend, EnqueueOverflow,
       EnqueueWait, WaitRoom, WaitChannelStopped, ReaderExit, readerOnly, stopVars
  <2>2. reader'.pc = "exited" => muxerDone'
    BY <1>4 DEF ReadSegment, Enqueue, EnqueueClosed, EnqueueAppend, EnqueueOverflow,
       EnqueueWait, WaitRoom, WaitChannelStopped, ReaderExit, Idle
  <2>3. QED
    BY <1>1, <2>1, <2>2, Zenon
<1>5. ASSUME NEW r \in Roles, Forward(r)
      PROVE  Stops'
  <2>1. /\ UNCHANGED <<done, closed, registered, reader, muxerDone>>
        /\ \E pc \in {"wait", "deliver", "exit", "gone"} : fwd' = [fwd EXCEPT ![r] = pc]
    BY <1>5, ZenonT(40) DEF Forward, ForwardDequeue, ForwardDeliver, ForwardLeave, ForwardExit,
       stopVars
  <2>2. Alive(r)' \/ done[r]
    <3>1. \/ \E pc \in {"wait", "deliver"} : fwd' = [fwd EXCEPT ![r] = pc]
          \/ done[r] \/ closed[r] \/ fwd[r] = "exit"
      BY <1>5, ZenonT(40) DEF Forward, ForwardDequeue, ForwardDeliver, ForwardLeave, ForwardExit
    <3>2. QED
      BY <1>0, <3>1, Zenon DEF Alive, Stops
  <2>3. \A q \in Roles \ {r} : Alive(q)' <=> Alive(q)
    BY <1>0, <2>1, Zenon DEF Alive
  <2>4. QED
    BY <1>0, <2>1, <2>2, <2>3, ZenonT(40) DEF Stops
<1>6. ASSUME NEW r \in Roles, Unregister(r) \/ SweepStop(r)
      PROVE  Stops'
  <2>1. /\ UNCHANGED <<closed, fwd, reader, muxerDone>>
        /\ registered' = registered \ {r} /\ done' = [done EXCEPT ![r] = TRUE]
    BY <1>6, ZenonT(40) DEF Unregister, SweepStop, notStop
  <2>2. done'[r] /\ \A q \in Roles \ {r} : done'[q] = done[q]
    BY <1>0, <2>1, Zenon
  <2>3. \A q \in Roles : Alive(q)' <=> Alive(q)
    BY <2>1, Zenon DEF Alive
  <2>4. QED
    BY <1>0, <2>1, <2>2, <2>3, Zenon DEF Stops
<1>7. ASSUME NEW r \in Roles, StopClose(r)
      PROVE  Stops'
  <2>1. /\ UNCHANGED <<done, registered, fwd, reader, muxerDone>>
        /\ closed' = [closed EXCEPT ![r] = TRUE] /\ done[r]
    BY <1>7, ZenonT(40) DEF StopClose, notStop
  <2>2. \A q \in Roles \ {r} : closed'[q] = closed[q]
    BY <1>0, <2>1, Zenon
  <2>3. \A q \in Roles : Alive(q)' <=> Alive(q)
    BY <2>1, Zenon DEF Alive
  <2>4. QED
    BY <1>0, <2>1, <2>2, <2>3, Zenon DEF Stops
<1>8. QED
  BY <1>2, <1>3, <1>4, <1>5, <1>6, <1>7, Zenon DEF IngressNext, ReadLoop, Configure

\* A step leaves everything of a role where it is.
Same(r) ==
    /\ taken'[r] = taken[r] /\ ch'[r] = ch[r] /\ hand'[r] = hand[r]
    /\ queue'[r] = queue[r] /\ fwd'[r] = fwd[r] /\ received'[r] = received[r]

\* The read loop holds the same segments, and has not come back to life.
ReaderSame(r) ==
    /\ Held(r)' <=> Held(r)
    /\ Held(r) => reader'.seg = reader.seg
    /\ reader.pc = "exited" => reader'.pc = "exited"

\* A step that moves nothing of a role and may only stop it keeps its places.
LEMMA PlacesFrame ==
    ASSUME NEW r \in Roles, Places(r), Same(r), ReaderSame(r), done[r] => done'[r]
    PROVE  Places(r)'
<1>1. /\ Dequeued(r)' = Dequeued(r) /\ (Alive(r)' <=> Alive(r))
      /\ HeldCount(r)' = HeldCount(r)
  BY Zenon DEF Same, ReaderSame, Dequeued, Alive, HeldCount
<1>2. OnTheWay(r)' = OnTheWay(r)
  BY <1>1, Zenon DEF Same, OnTheWay
<1>3. /\ Numbered(ch[r], taken[r])' <=> Numbered(ch[r], taken[r])
      /\ Numbered(hand[r], taken[r] + Len(ch[r]))' <=> Numbered(hand[r], taken[r] + Len(ch[r]))
      /\ Numbered(queue[r], Dequeued(r))' <=> Numbered(queue[r], Dequeued(r))
  BY <1>1, ZenonT(40) DEF Same, Numbered
<1>4. QED
  BY <1>1, <1>2, <1>3, ZenonT(40) DEF Places, Same, ReaderSame

\* The types of what the places of one role are counted with.
LEMMA PlaceTypes ==
    ASSUME Typed, NEW r \in Roles
    PROVE  /\ ch[r] \in Seq(Segments) /\ hand[r] \in Seq(Segments)
           /\ queue[r] \in Seq(Segments)
           /\ Len(ch[r]) \in Nat /\ Len(hand[r]) \in Nat /\ Len(queue[r]) \in Nat
           /\ taken[r] \in Nat /\ received[r] \in Nat
           /\ taken[r] + Len(ch[r]) \in Nat /\ Dequeued(r) \in Nat
           /\ HeldCount(r) \in Nat /\ OnTheWay(r) \in Nat
           /\ Held(r) => reader.seg \in Segments
<1>1. /\ ch[r] \in Seq(Segments) /\ hand[r] \in Seq(Segments)
      /\ queue[r] \in Seq(Segments)
      /\ taken[r] \in Nat /\ received[r] \in Nat
      /\ Held(r) => reader.seg \in Segments
  BY Zenon DEF Typed, StreamTypes, ReaderTypes, Held
<1> DEFINE lc == Len(ch[r])
           lh == Len(hand[r])
           lq == Len(queue[r])
<1>2. lc \in Nat /\ lh \in Nat /\ lq \in Nat /\ HeldCount(r) \in Nat
  BY <1>1 DEF HeldCount
<1>3. Dequeued(r) = taken[r] + lc + lh /\ OnTheWay(r) = Dequeued(r) + lq + HeldCount(r)
  BY Zenon DEF Dequeued, OnTheWay
<1> HIDE DEF lc, lh, lq
<1>4. taken[r] + lc \in Nat /\ Dequeued(r) \in Nat /\ OnTheWay(r) \in Nat
  <2>1. taken[r] \in Nat
    BY <1>1, Zenon
  <2>2. QED
    BY <1>2, <1>3, <2>1
<1>5. QED
  BY <1>1, <1>2, <1>4, Zenon DEF lc, lh, lq

\* The read loop reads the segment after the last one of its role.
LEMMA ReadSegmentPlaces ==
    ASSUME StreamInv, NEW r \in Roles, NEW n \in Sizes, ReadSegment(r, n), NEW q \in Roles
    PROVE  Places(q)'
<1>0. Typed /\ Places(q) /\ Stops
  BY Zenon DEF StreamInv
<1>1. /\ UNCHANGED <<taken, ch, hand, queue, fwd, done>>
      /\ reader.pc = "read" /\ r \in registered
      /\ received' = [received EXCEPT ![r] = @ + 1]
      /\ reader' = [pc |-> "enqueue", role |-> r,
                    seg |-> [id |-> received[r] + 1, size |-> n]]
  BY ZenonT(40) DEF ReadSegment, readerOnly, queueVars, stopVars
<1>2. received \in [Roles -> Nat]
  BY <1>0, Zenon DEF Typed, StreamTypes
<1>3. reader'.pc = "enqueue" /\ reader'.role = r /\ reader'.seg.id = received[r] + 1
  BY <1>1, Zenon
<1>4. ~Held(q) /\ (Held(q)' <=> q = r)
  BY <1>1, <1>3, Zenon DEF Held
<1>5. CASE q # r
  <2>1. Same(q) /\ ReaderSame(q)
    BY <1>1, <1>2, <1>4, <1>5, Zenon DEF Same, ReaderSame
  <2>2. QED
    BY <1>0, <1>1, <2>1, PlacesFrame, Zenon
<1>6. CASE q = r
  <2>1. received'[q] = received[q] + 1 /\ reader'.seg.id = received[q] + 1
    BY <1>1, <1>2, <1>3, <1>6, Zenon
  <2>2. ~done[q] /\ received[q] = OnTheWay(q)
    BY <1>0, <1>1, <1>6, Zenon DEF Stops, Places
  <2>3. /\ Dequeued(q)' = Dequeued(q) /\ (Alive(q)' <=> Alive(q))
        /\ HeldCount(q) = 0 /\ HeldCount(q)' = 1
    BY <1>1, <1>4, <1>6, Zenon DEF Dequeued, Alive, HeldCount
  <2>4. OnTheWay(q)' = received'[q]
    BY <1>0, <1>1, <2>1, <2>2, <2>3, PlaceTypes DEF OnTheWay
  <2>5. Dequeued(q) <= received'[q]
    BY <1>0, <2>1, PlaceTypes DEF Places
  <2>6. UNCHANGED <<ch[q], hand[q], taken[q], queue[q], fwd[q]>>
    BY <1>1, Zenon
  <2>7. received'[q] \in Nat
    BY <1>0, <2>1, PlaceTypes
  <2>8. reader'.seg.id = OnTheWay(q)'
    BY <2>1, <2>4, Zenon
  <2>9. /\ IF fwd[q] = "deliver" THEN Len(hand[q]) = 1 ELSE hand[q] = <<>>
        /\ Numbered(ch[q], taken[q]) /\ Numbered(hand[q], taken[q] + Len(ch[q]))
        /\ Alive(q) => Numbered(queue[q], Dequeued(q))
    BY <1>0, ZenonT(40) DEF Places
  <2>10. QED
    BY <2>3, <2>4, <2>5, <2>6, <2>7, <2>8, <2>9 DEF Places
<1>7. QED
  BY <1>5, <1>6, Zenon

\* What the read loop holds joins the end of the queue.
LEMMA EnqueueAppendPlaces ==
    ASSUME StreamInv, EnqueueAppend, NEW q \in Roles
    PROVE  Places(q)'
<1> DEFINE r == reader.role
<1>0. Typed /\ Places(q) /\ Stops
  BY Zenon DEF StreamInv
<1>1. /\ UNCHANGED <<taken, ch, hand, fwd, done, received>>
      /\ reader.pc = "enqueue" /\ reader' = Idle
      /\ queue' = [queue EXCEPT ![r] = Append(@, reader.seg)]
  BY ZenonT(40) DEF EnqueueAppend, readerOnly, stopVars
<1>2. /\ r \in Roles /\ reader.seg \in Segments
      /\ queue \in [Roles -> Seq(Segments)]
  BY <1>0, <1>1, Zenon DEF Typed, ReaderTypes, StreamTypes
<1>3. reader'.pc = "read"
  BY <1>1, Zenon DEF Idle
<1>4. ~Held(q)' /\ (Held(q) <=> q = r)
  BY <1>1, <1>3, Zenon DEF Held
<1>5. CASE q # r
  <2>1. queue'[q] = queue[q]
    BY <1>1, <1>2, <1>5, Zenon
  <2>2. Same(q) /\ ReaderSame(q)
    BY <1>1, <2>1, <1>4, <1>5, Zenon DEF Same, ReaderSame
  <2>3. QED
    BY <1>0, <1>1, <2>2, PlacesFrame, Zenon
<1>6. CASE q = r
  <2>1. queue'[q] = Append(queue[q], reader.seg)
    BY <1>1, <1>2, <1>6, Zenon
  <2>2. Len(queue'[q]) = Len(queue[q]) + 1
    BY <1>2, <2>1
  <2>3. /\ Dequeued(q)' = Dequeued(q) /\ (Alive(q)' <=> Alive(q))
        /\ HeldCount(q) = 1 /\ HeldCount(q)' = 0
    BY <1>1, <1>4, <1>6, Zenon DEF Dequeued, Alive, HeldCount
  <2>4. OnTheWay(q)' = OnTheWay(q)
    BY <1>0, <2>2, <2>3, PlaceTypes DEF OnTheWay
  <2>5. Alive(q) => Numbered(queue'[q], Dequeued(q))
    <3>1. SUFFICES ASSUME Alive(q) PROVE Numbered(Append(queue[q], reader.seg), Dequeued(q))
      BY <2>1, Zenon
    <3>2. reader.seg.id = Dequeued(q) + Len(queue[q]) + 1
      BY <1>0, <1>4, <1>6, <3>1, <2>3, Zenon DEF Places, OnTheWay
    <3>3. QED
      BY <1>0, <1>2, <3>1, <3>2, PlaceTypes, NumberedAppend, Zenon DEF Places
  <2>6. UNCHANGED <<ch[q], hand[q], taken[q], fwd[q], received[q], done[q]>>
    BY <1>1, Zenon
  <2>7. QED
    BY <1>0, <1>1, <1>4, <2>3, <2>4, <2>5, <2>6, Zenon DEF Places
<1>7. QED
  BY <1>5, <1>6, Zenon

\* The read loop drops a segment of a stopped role, exits, or only waits.
LEMMA ReaderPlaces ==
    ASSUME StreamInv, NEW q \in Roles,
           \/ EnqueueClosed \/ EnqueueOverflow \/ EnqueueWait
           \/ WaitRoom \/ WaitChannelStopped \/ ReaderExit
    PROVE  Places(q)'
<1>0. Typed /\ Places(q) /\ Stops
  BY Zenon DEF StreamInv
<1>1. UNCHANGED <<taken, ch, hand, queue, fwd, done, received>>
  BY ZenonT(40) DEF EnqueueClosed, EnqueueOverflow, EnqueueWait, WaitRoom, WaitChannelStopped,
     ReaderExit, readerOnly, queueVars, stopVars
<1>2. Same(q)
  BY <1>1, Zenon DEF Same
<1>3. CASE EnqueueWait \/ WaitRoom
  <2>1. ReaderSame(q)
    BY <1>3 DEF EnqueueWait, WaitRoom, ReaderSame, Held
  <2>2. QED
    BY <1>0, <1>1, <1>2, <2>1, PlacesFrame, Zenon
<1>4. CASE EnqueueClosed \/ EnqueueOverflow \/ WaitChannelStopped \/ ReaderExit
  <2>1. ~Held(q)' /\ (Held(q) /\ reader'.pc # "exited" => done[q])
    <3>1. /\ reader'.pc \in {"read", "exited"}
          /\ \/ reader'.pc = "exited" \/ closed[reader.role] \/ done[reader.role]
      BY <1>4 DEF EnqueueClosed, EnqueueOverflow, WaitChannelStopped, ReaderExit, Idle
    <3>2. QED
      BY <1>0, <3>1, Zenon DEF Held, Stops
  <2>2. CASE Held(q)
    <3>1. /\ Dequeued(q)' = Dequeued(q) /\ (Alive(q)' <=> Alive(q))
          /\ HeldCount(q) = 1 /\ HeldCount(q)' = 0
      BY <1>1, <2>1, <2>2, Zenon DEF Dequeued, Alive, HeldCount
    <3>2. OnTheWay(q)' <= OnTheWay(q)
      BY <1>0, <1>2, <3>1, PlaceTypes DEF OnTheWay, Same
    <3>3. OnTheWay(q)' \in Nat
      BY <1>0, <1>2, <3>1, PlaceTypes DEF OnTheWay, Same
    <3>4. UNCHANGED <<ch[q], hand[q], taken[q], queue[q], fwd[q], received[q], done[q]>>
      BY <1>1, Zenon
    <3>5. OnTheWay(q) \in Nat /\ received[q] \in Nat
      BY <1>0, PlaceTypes, ZenonT(40)
    <3>6. QED
      BY <1>0, <2>1, <2>2, <3>1, <3>2, <3>3, <3>4, <3>5 DEF Places
  <2>3. CASE ~Held(q)
    <3>1. ReaderSame(q)
      BY <1>4, <2>1, <2>3, Zenon DEF EnqueueClosed, EnqueueOverflow, WaitChannelStopped, ReaderExit,
         ReaderSame
    <3>2. QED
      BY <1>0, <1>1, <1>2, <3>1, PlacesFrame, Zenon
  <2>4. QED
    BY <2>2, <2>3, Zenon
<1>5. QED
  BY <1>3, <1>4, Zenon

\* forward moves the head of the queue to its hand.
LEMMA ForwardDequeuePlaces ==
    ASSUME StreamInv, NEW r \in Roles, ForwardDequeue(r), NEW q \in Roles
    PROVE  Places(q)'
<1>0. Typed /\ Places(q)
  BY Zenon DEF StreamInv
<1>1. /\ UNCHANGED <<taken, ch, reader, done, received>>
      /\ fwd[r] = "wait" /\ queue[r] # <<>>
      /\ queue' = [queue EXCEPT ![r] = Tail(@)]
      /\ hand' = [hand EXCEPT ![r] = <<Head(queue[r])>>]
      /\ fwd' = [fwd EXCEPT ![r] = "deliver"]
  BY ZenonT(40) DEF ForwardDequeue, stopVars
<1>2. /\ queue \in [Roles -> Seq(Segments)] /\ hand \in [Roles -> Seq(Segments)]
      /\ fwd \in [Roles -> {"wait", "deliver", "exit", "gone"}]
  BY <1>0, Zenon DEF Typed, StreamTypes
<1>3. ReaderSame(q)
  BY <1>1, ZenonT(40) DEF ReaderSame, Held
<1>4. CASE q # r
  <2>1. queue'[q] = queue[q] /\ hand'[q] = hand[q] /\ fwd'[q] = fwd[q]
    BY <1>1, <1>2, <1>4, Zenon
  <2>2. Same(q)
    BY <1>1, <2>1, Zenon DEF Same
  <2>3. QED
    BY <1>0, <1>1, <1>3, <2>2, PlacesFrame, Zenon
<1>5. CASE q = r
  <2>1. /\ queue'[q] = Tail(queue[q]) /\ hand'[q] = <<Head(queue[q])>>
        /\ fwd'[q] = "deliver" /\ fwd[q] = "wait"
    BY <1>1, <1>2, <1>5, Zenon
  <2>2. hand[q] = <<>> /\ Len(hand[q]) = 0 /\ Alive(q) /\ Alive(q)'
    BY <1>0, <2>1 DEF Places, Alive
  <2>3. /\ Head(queue[q]) \in Segments /\ Head(queue[q]).id = Dequeued(q) + 1
        /\ Len(queue'[q]) = Len(queue[q]) - 1
        /\ Numbered(queue'[q], Dequeued(q) + 1)
    <3>1. queue[q] # <<>> /\ Numbered(queue[q], Dequeued(q))
      BY <1>0, <1>1, <1>5, <2>2, Zenon DEF Places
    <3>2. QED
      BY <1>0, <2>1, <3>1, PlaceTypes, NumberedTail
  <2>4. Dequeued(q) = taken[q] + Len(ch[q])
    BY <1>0, <2>2, PlaceTypes DEF Dequeued
  <2>5. Len(hand'[q]) = 1 /\ Numbered(hand'[q], taken[q] + Len(ch[q]))
    BY <1>0, <2>1, <2>3, <2>4, PlaceTypes, NumberedShort, Zenon
  <2>6. Dequeued(q)' = Dequeued(q) + 1 /\ HeldCount(q)' = HeldCount(q)
    <3>0. taken'[q] = taken[q] /\ ch'[q] = ch[q] /\ Len(hand'[q]) = 1
      BY <1>1, <2>5, Zenon
    <3>1. Dequeued(q)' = taken[q] + Len(ch[q]) + 1
      BY <3>0, Zenon DEF Dequeued
    <3>2. HeldCount(q)' = HeldCount(q)
      BY <1>3, Zenon DEF HeldCount, ReaderSame
    <3>3. QED
      BY <2>4, <3>1, <3>2, Zenon
  <2>7. OnTheWay(q)' = OnTheWay(q)
    BY <1>0, <2>3, <2>6, PlaceTypes DEF OnTheWay
  <2>8. Dequeued(q) + 1 <= received[q]
    <3> DEFINE lq == Len(queue[q])
    <3>1. lq \in Nat \ {0}
      <4>1. queue[q] \in Seq(Segments) /\ queue[q] # <<>>
        BY <1>0, <1>1, <1>5, PlaceTypes, Zenon
      <4>2. QED
        BY <4>1
    <3>2. Dequeued(q) \in Nat /\ received[q] \in Nat /\ HeldCount(q) \in Nat
      BY <1>0, PlaceTypes, Zenon
    <3>3. Dequeued(q) + lq + HeldCount(q) <= received[q]
      BY <1>0, <2>2, Zenon DEF Places, OnTheWay
    <3> HIDE DEF lq
    <3>4. QED
      BY <3>1, <3>2, <3>3
  <2>9. UNCHANGED <<ch[q], taken[q], received[q], done[q], reader>>
    BY <1>1, Zenon
  <2>10. QED
    BY <1>0, <1>3, <2>1, <2>2, <2>3, <2>5, <2>6, <2>7, <2>8, <2>9, ZenonT(40) DEF Places, ReaderSame
<1>6. QED
  BY <1>4, <1>5, Zenon

\* forward delivers what it holds to the channel of the protocol.
LEMMA ForwardDeliverPlaces ==
    ASSUME StreamInv, NEW r \in Roles, ForwardDeliver(r), NEW q \in Roles
    PROVE  Places(q)'
<1>0. Typed /\ Places(q)
  BY Zenon DEF StreamInv
<1>1. /\ UNCHANGED <<taken, queue, reader, done, received>>
      /\ fwd[r] = "deliver"
      /\ ch' = [ch EXCEPT ![r] = @ \o hand[r]]
      /\ hand' = [hand EXCEPT ![r] = <<>>]
      /\ fwd' = [fwd EXCEPT ![r] = "wait"]
  BY ZenonT(40) DEF ForwardDeliver, stopVars, queueVars
<1>2. /\ ch \in [Roles -> Seq(Segments)] /\ hand \in [Roles -> Seq(Segments)]
      /\ fwd \in [Roles -> {"wait", "deliver", "exit", "gone"}]
  BY <1>0, Zenon DEF Typed, StreamTypes
<1>3. ReaderSame(q)
  BY <1>1, ZenonT(40) DEF ReaderSame, Held
<1>4. CASE q # r
  <2>1. ch'[q] = ch[q] /\ hand'[q] = hand[q] /\ fwd'[q] = fwd[q]
    BY <1>1, <1>2, <1>4, Zenon
  <2>2. Same(q)
    BY <1>1, <2>1, ZenonT(40) DEF Same
  <2>3. QED
    BY <1>0, <1>1, <1>3, <2>2, PlacesFrame, Zenon
<1>5. CASE q = r
  <2>1. /\ ch'[q] = ch[q] \o hand[q] /\ hand'[q] = <<>>
        /\ fwd'[q] = "wait" /\ fwd[q] = "deliver"
    BY <1>1, <1>2, <1>5, Zenon
  <2>2. Alive(q) /\ Alive(q)'
    BY <2>1, Zenon DEF Alive
  <2>3. Numbered(ch'[q], taken[q]) /\ Len(ch'[q]) = Len(ch[q]) + Len(hand[q])
    <3>1. /\ ch[q] \in Seq(Segments) /\ hand[q] \in Seq(Segments) /\ taken[q] \in Nat
          /\ Numbered(ch[q], taken[q]) /\ Numbered(hand[q], taken[q] + Len(ch[q]))
      BY <1>0, PlaceTypes, Zenon DEF Places
    <3>2. /\ Numbered(ch[q] \o hand[q], taken[q])
          /\ Len(ch[q] \o hand[q]) = Len(ch[q]) + Len(hand[q])
      <4> DEFINE c == ch[q]
                 h == hand[q]
                 n == taken[q]
      <4>1. /\ c \in Seq(Segments) /\ h \in Seq(Segments) /\ n \in Nat
            /\ Numbered(c, n) /\ Numbered(h, n + Len(c))
        BY <3>1, Zenon
      <4> HIDE DEF c, h, n
      <4>2. Numbered(c \o h, n) /\ Len(c \o h) = Len(c) + Len(h)
        BY <4>1, NumberedConcat, Zenon
      <4>3. QED
        BY <4>2, Zenon DEF c, h, n
    <3>3. QED
      BY <2>1, <3>2, ZenonT(40)
  <2>4. Len(hand'[q]) = 0 /\ Numbered(hand'[q], taken[q] + Len(ch'[q]))
    BY <2>1 DEF Numbered
  <2>5. Dequeued(q)' = Dequeued(q) /\ HeldCount(q)' = HeldCount(q)
    <3> DEFINE lc == Len(ch[q])
               lh == Len(hand[q])
    <3>0. taken[q] \in Nat /\ lc \in Nat /\ lh \in Nat
      BY <1>0, PlaceTypes, Zenon
    <3>1. Dequeued(q)' = taken[q] + (lc + lh) + 0
      <4>1. taken'[q] = taken[q]
        BY <1>1, Zenon
      <4>2. QED
        BY <2>3, <2>4, <4>1, ZenonT(40) DEF Dequeued
    <3>2. HeldCount(q)' = HeldCount(q)
      BY <1>3, Zenon DEF HeldCount, ReaderSame
    <3>3. Dequeued(q) = taken[q] + lc + lh
      BY Zenon DEF Dequeued
    <3> HIDE DEF lc, lh
    <3>4. QED
      BY <3>0, <3>1, <3>2, <3>3
  <2>6. OnTheWay(q)' = OnTheWay(q)
    BY <1>1, <2>5, Zenon DEF OnTheWay
  <2>7. UNCHANGED <<queue[q], taken[q], received[q], done[q], reader>>
    BY <1>1, Zenon
  <2>8. /\ Numbered(ch'[q], taken'[q])
        /\ Numbered(hand'[q], taken'[q] + Len(ch'[q]))
    <3>1. taken'[q] = taken[q]
      BY <1>1, Zenon
    <3>2. QED
      BY <2>3, <2>4, <3>1, ZenonT(40)
  <2>9. fwd'[q] = "wait" /\ hand'[q] = <<>>
    BY <2>1, Zenon
  <2>10. QED
    BY <1>0, <1>3, <2>2, <2>5, <2>6, <2>7, <2>8, <2>9, SMTT(30) DEF Places, ReaderSame
<1>6. QED
  BY <1>4, <1>5, Zenon

\* forward leaves, and later gives up what is still queued; its role is done.
LEMMA ForwardLeavePlaces ==
    ASSUME StreamInv, NEW r \in Roles, ForwardLeave(r) \/ ForwardExit(r), NEW q \in Roles
    PROVE  Places(q)'
<1>0. Typed /\ Places(q) /\ Stops
  BY Zenon DEF StreamInv
<1>1. /\ UNCHANGED <<taken, ch, reader, done, received>>
      /\ queue' = queue \/ queue' = [queue EXCEPT ![r] = <<>>]
      /\ (hand' = hand /\ fwd[r] = "exit") \/ hand' = [hand EXCEPT ![r] = <<>>]
      /\ \E pc \in {"exit", "gone"} : fwd' = [fwd EXCEPT ![r] = pc]
      /\ done[r] \/ closed[r] \/ fwd[r] = "exit"
  BY ZenonT(40) DEF ForwardLeave, ForwardExit, stopVars, queueVars
<1>2. /\ queue \in [Roles -> Seq(Segments)] /\ hand \in [Roles -> Seq(Segments)]
      /\ fwd \in [Roles -> {"wait", "deliver", "exit", "gone"}]
  BY <1>0, Zenon DEF Typed, StreamTypes
<1>3. ReaderSame(q)
  BY <1>1, ZenonT(40) DEF ReaderSame, Held
<1>4. CASE q # r
  <2>1. queue'[q] = queue[q] /\ hand'[q] = hand[q] /\ fwd'[q] = fwd[q]
    BY <1>1, <1>2, <1>4, Zenon
  <2>2. Same(q)
    BY <1>1, <2>1, Zenon DEF Same
  <2>3. QED
    BY <1>0, <1>1, <1>3, <2>2, PlacesFrame, Zenon
<1>5. CASE q = r
  <2>1. done[q] /\ done'[q]
    BY <1>0, <1>1, <1>5, Zenon DEF Stops, Alive
  <2>2. fwd'[q] \in {"exit", "gone"}
    BY <1>1, <1>2, <1>5, Zenon
  <2>3. hand'[q] = <<>>
    BY <1>0, <1>1, <1>2, <1>5, Zenon DEF Places
  <2>4. Len(hand'[q]) = 0 /\ Numbered(hand'[q], taken[q] + Len(ch[q]))
    BY <2>3 DEF Numbered
  <2>5. Dequeued(q)' <= received[q]
    <3>1. Dequeued(q)' = taken[q] + Len(ch[q]) + 0
      BY <1>1, <2>4, Zenon DEF Dequeued
    <3>2. Dequeued(q) = taken[q] + Len(ch[q]) + Len(hand[q]) /\ Dequeued(q) <= received[q]
      BY <1>0, Zenon DEF Places, Dequeued
    <3>3. QED
      BY <1>0, <3>1, <3>2, PlaceTypes
  <2>6. UNCHANGED <<ch[q], taken[q], received[q]>>
    BY <1>1, Zenon
  <2>7. QED
    BY <1>0, <2>1, <2>2, <2>3, <2>4, <2>5, <2>6, Zenon DEF Places, Alive
<1>6. QED
  BY <1>4, <1>5, Zenon

\* The protocol takes the segment after the last one it took.
LEMMA ConsumePlaces ==
    ASSUME StreamInv, NEW r \in Roles, Consume(r), NEW q \in Roles
    PROVE  Places(q)'
<1>0. Typed /\ Places(q)
  BY Zenon DEF StreamInv
<1>1. /\ UNCHANGED <<queue, hand, fwd, reader, done, received>>
      /\ ch[r] # <<>>
      /\ ch' = [ch EXCEPT ![r] = Tail(@)]
      /\ taken' = [taken EXCEPT ![r] = Head(ch[r]).id]
  BY ZenonT(40) DEF Consume, stopVars, queueVars
<1>2. ch \in [Roles -> Seq(Segments)] /\ taken \in [Roles -> Nat]
  BY <1>0, Zenon DEF Typed, StreamTypes
<1>3. ReaderSame(q)
  BY <1>1, ZenonT(40) DEF ReaderSame, Held
<1>4. CASE q # r
  <2>1. ch'[q] = ch[q] /\ taken'[q] = taken[q]
    BY <1>1, <1>2, <1>4, Zenon
  <2>2. Same(q)
    BY <1>1, <2>1, Zenon DEF Same
  <2>3. QED
    BY <1>0, <1>1, <1>3, <2>2, PlacesFrame, Zenon
<1>5. CASE q = r
  <2>1. ch'[q] = Tail(ch[q]) /\ taken'[q] = Head(ch[q]).id /\ ch[q] # <<>>
    BY <1>1, <1>2, <1>5, Zenon
  <2>2. /\ taken'[q] = taken[q] + 1 /\ Len(ch'[q]) = Len(ch[q]) - 1
        /\ Numbered(ch'[q], taken[q] + 1)
    <3>1. Numbered(ch[q], taken[q]) /\ ch[q] \in Seq(Segments) /\ taken[q] \in Nat
      BY <1>0, PlaceTypes, Zenon DEF Places
    <3>2. QED
      BY <2>1, <3>1, NumberedTail, Zenon
  <2>3. taken'[q] + Len(ch'[q]) = taken[q] + Len(ch[q])
    <3>1. taken[q] \in Nat /\ Len(ch[q]) \in Nat
      BY <1>0, PlaceTypes, Zenon
    <3>2. taken'[q] = taken[q] + 1 /\ Len(ch'[q]) = Len(ch[q]) - 1
      BY <2>2, Zenon
    <3>3. QED
      BY <3>1, <3>2
  <2>4. /\ Dequeued(q)' = Dequeued(q) /\ (Alive(q)' <=> Alive(q))
        /\ HeldCount(q)' = HeldCount(q)
    BY <1>1, <1>3, <2>3, Zenon DEF Dequeued, Alive, HeldCount, ReaderSame
  <2>5. OnTheWay(q)' = OnTheWay(q)
    BY <1>1, <2>4, Zenon DEF OnTheWay
  <2>6. Numbered(ch'[q], taken'[q]) /\ Numbered(hand[q], taken'[q] + Len(ch'[q]))
    BY <1>0, <2>2, <2>3, Zenon DEF Places
  <2>7. UNCHANGED <<queue[q], hand[q], fwd[q], received[q], done[q], reader>>
    BY <1>1, Zenon
  <2>8. QED
    BY <1>0, <1>3, <2>4, <2>5, <2>6, <2>7, Zenon DEF Places, ReaderSame
<1>6. QED
  BY <1>4, <1>5, Zenon

\* At the start nothing has been read and nothing is anywhere.
LEMMA PlacesInit == IngressInit => Stops /\ \A r \in Roles : Places(r)
<1> SUFFICES ASSUME IngressInit PROVE Stops /\ \A r \in Roles : Places(r)
  BY Zenon
<1>1. Stops
  BY Zenon DEF IngressInit, Stops, Alive, Idle
<1>2. ASSUME NEW r \in Roles PROVE Places(r)
  <2>1. /\ ch[r] = <<>> /\ hand[r] = <<>> /\ queue[r] = <<>> /\ fwd[r] = "wait"
        /\ taken[r] = 0 /\ received[r] = 0 /\ reader.pc = "read"
    BY Zenon DEF IngressInit, Idle
  <2>2. Len(ch[r]) = 0 /\ Len(hand[r]) = 0 /\ Len(queue[r]) = 0 /\ HeldCount(r) = 0
    BY <2>1, Zenon DEF HeldCount, Held
  <2>3. Dequeued(r) = 0 /\ OnTheWay(r) = 0 /\ ~Held(r)
    BY <2>1, <2>2 DEF Dequeued, OnTheWay, Held
  <2>4. \A n \in Nat : Numbered(<<>>, n)
    BY DEF Numbered
  <2>5. QED
    BY <2>1, <2>2, <2>3, <2>4 DEF Places
<1>3. QED
  BY <1>1, <1>2, Zenon

\* Every step of the inbound side keeps every segment in its place.
LEMMA StreamStep ==
    ASSUME StreamInv, [IngressNext]_ingressVars
    PROVE  StreamInv'
<1>0. Typed /\ Stops /\ \A r \in Roles : Places(r)
  BY Zenon DEF StreamInv
<1>1. Typed'
  BY <1>0, TypedStep, Zenon
<1>2. Stops'
  BY StopsStep, Zenon
<1>3. ASSUME NEW q \in Roles PROVE Places(q)'
  <2>1. CASE \/ \E r \in Roles, n \in Sizes : ReadSegment(r, n)
             \/ Enqueue \/ WaitRoom \/ WaitChannelStopped \/ ReaderExit
    BY <2>1, ReadSegmentPlaces, EnqueueAppendPlaces, ReaderPlaces, Zenon DEF Enqueue
  <2>2. CASE \E r \in Roles : Forward(r) \/ Consume(r)
    BY <2>2, ForwardDequeuePlaces, ForwardDeliverPlaces, ForwardLeavePlaces, ConsumePlaces, Zenon
       DEF Forward
  <2>3. CASE \/ \E r \in Roles : Unregister(r) \/ StopClose(r) \/ SweepStop(r)
             \/ MuxerStop \/ Configure \/ UNCHANGED ingressVars
    <3>1. UNCHANGED <<taken, ch, hand, queue, fwd, received, reader>>
      BY <2>3, ZenonT(40) DEF Unregister, StopClose, SweepStop, MuxerStop, Configure,
         SetIngressLimit, SetIngressBackpressure, SetIngressBudgetExtension, SetOption,
         SetIngressBudget, notStop, queueVars, ingressVars
    <3>2. Same(q) /\ ReaderSame(q)
      BY <3>1, ZenonT(40) DEF Same, ReaderSame, Held
    <3>3. done[q] => done'[q]
      <4>1. done' = done \/ \E r \in Roles : done' = [done EXCEPT ![r] = TRUE]
        BY <2>3, ZenonT(40) DEF Unregister, StopClose, SweepStop, MuxerStop, Configure,
           SetIngressLimit, SetIngressBackpressure, SetIngressBudgetExtension, SetOption,
           SetIngressBudget, stopVars, ingressVars
      <4>2. done \in [Roles -> BOOLEAN]
        BY <1>0, Zenon DEF Typed, StopTypes
      <4>3. QED
        BY <4>1, <4>2, Zenon
    <3>4. QED
      BY <1>0, <3>2, <3>3, PlacesFrame, Zenon
  <2>4. QED
    BY <2>1, <2>2, <2>3, Zenon DEF IngressNext, ReadLoop
<1>4. QED
  BY <1>1, <1>2, <1>3, Zenon DEF StreamInv

(***************************************************************************)
(* Each role receives its stream in order, without loss or duplication     *)
(* while it runs: for any number of roles, sizes and capacities, under     *)
(* every interleaving of the read loop, the forwarders, the protocols, the *)
(* configuration calls and the stops.                                      *)
(***************************************************************************)
THEOREM IngressStreamInOrder == IngressSpec => []StreamInOrder
<1>1. IngressInit => StreamInv
  BY InitTyped, PlacesInit, Zenon DEF StreamInv
<1>2. StreamInv /\ [IngressNext]_ingressVars => StreamInv'
  BY StreamStep, Zenon
<1>3. QED
  BY <1>1, <1>2, StreamInvMeans, PTL DEF IngressSpec


-----------------------------------------------------------------------------
(* Clamps and sums *)

\* The clamp at zero of release and extend.
LEMMA ClampFacts ==
    ASSUME NEW n \in Int
    PROVE  Max({n, 0}) = IF n >= 0 THEN n ELSE 0
<1>1. \E x \in {n, 0} : \A y \in {n, 0} : x >= y
  OBVIOUS
<1>2. /\ Max({n, 0}) \in {n, 0}
      /\ \A y \in {n, 0} : Max({n, 0}) >= y
  BY <1>1, Zenon DEF Max
<1>3. QED
  BY <1>2

\* SetIngressBudgetExtension clamps what it is given to 0..maxBudgetExtension.
LEMMA ExtensionClamped ==
    ASSUME NEW e \in Int
    PROVE  Min({Max({e, 0}), MaxExtension}) \in 0..MaxExtension
<1>1. Max({e, 0}) \in Nat /\ MaxExtension \in Nat
  BY ClampFacts, IngressAssumption
<1> DEFINE m == Max({e, 0})
<1> HIDE DEF m
<1>2. m \in Nat
  BY <1>1, Zenon DEF m
<1>3. \E x \in {m, MaxExtension} : \A y \in {m, MaxExtension} : x =< y
  BY <1>1, <1>2
<1>4. /\ Min({m, MaxExtension}) \in {m, MaxExtension}
      /\ \A y \in {m, MaxExtension} : Min({m, MaxExtension}) =< y
  BY <1>3, Zenon DEF Min
<1>5. Min({m, MaxExtension}) \in 0..MaxExtension
  BY <1>1, <1>2, <1>4
<1>6. QED
  BY <1>5, Zenon DEF m

\* The sizes of a queue's segments follow the queue.
LEMMA SizesFacts ==
    ASSUME NEW q \in Seq(Segments), NEW seg \in Segments
    PROVE  /\ SizesOf(q) \in Seq(Nat)
           /\ SizesOf(<<>>) = <<>>
           /\ SizesOf(Append(q, seg)) = Append(SizesOf(q), seg.size)
           /\ q # <<>> => /\ SizesOf(q) # <<>>
                          /\ SizesOf(Tail(q)) = Tail(SizesOf(q))
                          /\ Head(SizesOf(q)) = Head(q).size
<1>1. \A x \in Segments : x.size \in Nat
  BY IngressAssumption, ZenonT(40) DEF Segments
<1>2. SizesOf(q) \in Seq(Nat) /\ Len(SizesOf(q)) = Len(q)
  BY <1>1 DEF SizesOf
<1>3. SizesOf(<<>>) = <<>>
  BY DEF SizesOf
<1>4. SizesOf(Append(q, seg)) = Append(SizesOf(q), seg.size)
  BY DEF SizesOf
<1>5. ASSUME q # <<>>
      PROVE  /\ SizesOf(q) # <<>>
             /\ SizesOf(Tail(q)) = Tail(SizesOf(q))
             /\ Head(SizesOf(q)) = Head(q).size
  BY <1>5 DEF SizesOf
<1>6. QED
  BY <1>2, <1>3, <1>4, <1>5, Zenon

\* The bytes a queue holds.
BytesOf(q) == SumFunction(SizesOf(q))

\* The bytes of a queue after append(queue, seg) and after queue[1:].
LEMMA BytesFacts ==
    ASSUME NEW q \in Seq(Segments), NEW seg \in Segments
    PROVE  /\ BytesOf(q) \in Nat
           /\ BytesOf(<<>>) = 0
           /\ BytesOf(Append(q, seg)) = BytesOf(q) + seg.size
           /\ q # <<>> => /\ BytesOf(Tail(q)) = BytesOf(q) - Head(q).size
                          /\ Head(q).size <= BytesOf(q)
<1>1. seg.size \in Nat
  BY IngressAssumption, ZenonT(40) DEF Segments
<1>2. SizesOf(q) \in Seq(Nat) /\ <<>> \in Seq(Nat)
  BY SizesFacts
<1>3. BytesOf(q) \in Nat /\ BytesOf(<<>>) = 0
  BY <1>2, SizesFacts, SumOfQueue, ZenonT(40) DEF BytesOf
<1>4. BytesOf(Append(q, seg)) = BytesOf(q) + seg.size
  BY <1>1, <1>2, SizesFacts, SumAppend, ZenonT(40) DEF BytesOf
<1>5. ASSUME q # <<>>
      PROVE  /\ BytesOf(Tail(q)) = BytesOf(q) - Head(q).size
             /\ Head(q).size <= BytesOf(q)
  <2>1. /\ SizesOf(q) # <<>>
        /\ SizesOf(Tail(q)) = Tail(SizesOf(q))
        /\ Head(SizesOf(q)) = Head(q).size
    BY <1>5, SizesFacts, Zenon
  <2>2. QED
    BY <1>2, <2>1, SumTail, ZenonT(40) DEF BytesOf
<1>6. QED
  BY <1>3, <1>4, <1>5, Zenon

\* The empty queue holds no bytes.
LEMMA NothingQueued == BytesOf(<<>>) = 0
<1>1. SizesOf(<<>>) = <<>> /\ <<>> \in Seq(Nat)
  BY DEF SizesOf
<1>2. QED
  BY <1>1, SumOfQueue, ZenonT(40) DEF BytesOf

-----------------------------------------------------------------------------
(* The account *)

\* The retained cost of a segment.
LEMMA CostFacts ==
    ASSUME NEW seg \in Segments
    PROVE  /\ seg.size \in Nat /\ Overhead \in Nat
           /\ segmentRetainedCost(seg) \in Nat
           /\ segmentRetainedCost(seg) = seg.size + Overhead
<1>1. seg.size \in Nat
  BY IngressAssumption, ZenonT(40) DEF Segments
<1>2. Overhead \in Nat
  BY IngressAssumption, Zenon
<1>3. QED
  BY <1>1, <1>2 DEF segmentRetainedCost

\* The overhead of one segment more, and of one less.
LEMMA OverheadFacts ==
    ASSUME NEW n \in Nat, NEW m \in Nat
    PROVE  n * (m + 1) = n * m + n /\ n * m \in Nat /\ n * 0 = 0
  OBVIOUS

Accounts == [budget : Nat, extended : Nat, used : Nat, payload : Nat, room : BOOLEAN]

\* reserve adds to what is in use.
LEMMA ReservedFacts ==
    ASSUME account \in Accounts, NEW cost \in Nat, NEW bytes \in Nat
    PROVE  /\ Reserved(cost, bytes) \in Accounts
           /\ Reserved(cost, bytes).used = account.used + cost
           /\ Reserved(cost, bytes).payload = account.payload + bytes
           /\ Reserved(cost, bytes).extended = account.extended
<1> DEFINE u == account.used + cost
           p == account.payload + bytes
<1>1. u \in Nat /\ p \in Nat
  BY DEF Accounts
<1>2. Reserved(cost, bytes) = [account EXCEPT !.used = u, !.payload = p]
  BY Zenon DEF Reserved
<1> HIDE DEF u, p
<1>3. /\ Reserved(cost, bytes) \in Accounts
      /\ Reserved(cost, bytes).used = u
      /\ Reserved(cost, bytes).payload = p
      /\ Reserved(cost, bytes).extended = account.extended
  BY <1>1, <1>2, ZenonT(40) DEF Accounts
<1>4. QED
  BY <1>3, Zenon DEF u, p

\* release gives back what was reserved: its clamps do not act.
LEMMA ReleasedFacts ==
    ASSUME account \in Accounts, NEW cost \in Nat, NEW bytes \in Nat,
           cost <= account.used, bytes <= account.payload
    PROVE  /\ Released(cost, bytes) \in Accounts
           /\ Released(cost, bytes).used = account.used - cost
           /\ Released(cost, bytes).payload = account.payload - bytes
           /\ Released(cost, bytes).extended = account.extended
<1> DEFINE u == account.used - cost
           p == account.payload - bytes
<1>1. u \in Nat /\ p \in Nat
  BY DEF Accounts
<1>2. Max({u, 0}) = u /\ Max({p, 0}) = p
  BY <1>1, ClampFacts
<1>3. Released(cost, bytes) = [account EXCEPT !.used = u, !.payload = p, !.room = FALSE]
  BY <1>2, ZenonT(40) DEF Released
<1> HIDE DEF u, p
<1>4. /\ Released(cost, bytes) \in Accounts
      /\ Released(cost, bytes).used = u
      /\ Released(cost, bytes).payload = p
      /\ Released(cost, bytes).extended = account.extended
  BY <1>1, <1>3, ZenonT(40) DEF Accounts
<1>5. QED
  BY <1>4, Zenon DEF u, p

\* extend, when the extensions do not become negative.
LEMMA ExtendedFacts ==
    ASSUME NEW a \in Accounts, NEW delta \in Int, a.extended + delta \in Nat
    PROVE  /\ Extended(a, delta) \in Accounts
           /\ Extended(a, delta).used = a.used
           /\ Extended(a, delta).payload = a.payload
           /\ Extended(a, delta).extended = a.extended + delta
<1> DEFINE e == a.extended + delta
<1>1. e \in Nat /\ Max({e, 0}) = e
  BY ClampFacts
<1>2. Extended(a, delta) = [a EXCEPT !.extended = e, !.room = FALSE]
  BY <1>1, ZenonT(40) DEF Extended
<1> HIDE DEF e
<1>3. /\ Extended(a, delta) \in Accounts
      /\ Extended(a, delta).used = a.used
      /\ Extended(a, delta).payload = a.payload
      /\ Extended(a, delta).extended = e
  BY <1>1, <1>2, ZenonT(40) DEF Accounts
<1>4. QED
  BY <1>3, Zenon DEF e

\* A new budget leaves what is in use alone.
Budgeted(a, b) == [a EXCEPT !.budget = b, !.room = FALSE]

\* SetIngressBudget leaves what is used and extended alone.
LEMMA BudgetedFacts ==
    ASSUME NEW a \in Accounts, NEW b \in Nat
    PROVE  /\ Budgeted(a, b) \in Accounts
           /\ Budgeted(a, b).used = a.used
           /\ Budgeted(a, b).payload = a.payload
           /\ Budgeted(a, b).extended = a.extended
<1>1. Budgeted(a, b) \in Accounts
  BY ZenonT(40) DEF Budgeted, Accounts
<1>2. /\ Budgeted(a, b).used = a.used
      /\ Budgeted(a, b).payload = a.payload
      /\ Budgeted(a, b).extended = a.extended
  BY Zenon DEF Budgeted, Accounts
<1>3. QED
  BY <1>1, <1>2, Zenon

\* What the books, queues and account look like, and that they match.
BooksOK ==
    /\ queue \in [Roles -> Seq(Segments)]
    /\ pendingBytes \in [Roles -> Nat]
    /\ pendingCost \in [Roles -> Nat]
    /\ extension \in [Roles -> 0..MaxExtension]
    /\ account \in Accounts
    /\ AccountMatchesQueues

\* The account covers what any one role holds of it.
LEMMA AccountCovers ==
    ASSUME BooksOK, NEW r \in Roles
    PROVE  /\ pendingCost[r] \in Nat /\ pendingCost[r] <= account.used
           /\ pendingBytes[r] \in Nat /\ pendingBytes[r] <= account.payload
           /\ extension[r] \in Nat /\ extension[r] <= account.extended
           /\ pendingBytes[r] = BytesOf(queue[r])
           /\ pendingCost[r] = BytesOf(queue[r]) + Overhead * Len(queue[r])
<1>1. /\ pendingCost \in [Roles -> Nat] /\ pendingBytes \in [Roles -> Nat]
      /\ extension \in [Roles -> Nat] /\ IsFiniteSet(Roles)
  BY IngressAssumption DEF BooksOK
<1>2. /\ pendingCost[r] <= SumFunction(pendingCost)
      /\ pendingBytes[r] <= SumFunction(pendingBytes)
      /\ extension[r] <= SumFunction(extension)
  BY <1>1, SumChange, Zenon
<1>3. /\ account.used = SumFunction(pendingCost)
      /\ account.payload = SumFunction(pendingBytes)
      /\ account.extended = SumFunction(extension)
      /\ pendingBytes[r] = BytesOf(queue[r])
      /\ pendingCost[r] = BytesOf(queue[r]) + Overhead * Len(queue[r])
  BY Zenon DEF BooksOK, AccountMatchesQueues, QueuedBytes, BytesOf
<1>4. QED
  BY <1>1, <1>2, <1>3, Zenon

\* A step that changes the books of role r only, and the account by as much.
BooksMove(r) ==
    /\ queue' \in [Roles -> Seq(Segments)]
    /\ pendingBytes' \in [Roles -> Nat]
    /\ pendingCost' \in [Roles -> Nat]
    /\ extension' \in [Roles -> 0..MaxExtension]
    /\ account' \in Accounts
    /\ \A s \in Roles \ {r} :
          /\ queue'[s] = queue[s] /\ pendingBytes'[s] = pendingBytes[s]
          /\ pendingCost'[s] = pendingCost[s] /\ extension'[s] = extension[s]
    /\ pendingBytes'[r] = BytesOf(queue'[r])
    /\ pendingCost'[r] = BytesOf(queue'[r]) + Overhead * Len(queue'[r])
    /\ account'.used = account.used + (pendingCost'[r] - pendingCost[r])
    /\ account'.payload = account.payload + (pendingBytes'[r] - pendingBytes[r])
    /\ account'.extended = account.extended + (extension'[r] - extension[r])

\* A step that changes the books of one role, and the account by as much.
LEMMA BooksMoved ==
    ASSUME BooksOK, NEW r \in Roles, BooksMove(r)
    PROVE  BooksOK'
<1>1. /\ pendingCost \in [Roles -> Nat] /\ pendingBytes \in [Roles -> Nat]
      /\ extension \in [Roles -> Nat] /\ IsFiniteSet(Roles)
  BY IngressAssumption DEF BooksOK
<1>2. /\ account.used = SumFunction(pendingCost)
      /\ account.payload = SumFunction(pendingBytes)
      /\ account.extended = SumFunction(extension)
  BY ZenonT(40) DEF BooksOK, AccountMatchesQueues
<1>3. /\ pendingCost' \in [Roles -> Nat] /\ pendingBytes' \in [Roles -> Nat]
      /\ extension' \in [Roles -> Nat]
      /\ \A s \in Roles \ {r} : pendingBytes'[s] = pendingBytes[s]
      /\ \A s \in Roles \ {r} : pendingCost'[s] = pendingCost[s]
      /\ \A s \in Roles \ {r} : extension'[s] = extension[s]
  BY IngressAssumption DEF BooksMove
<1>4. SumFunction(pendingCost')
        = SumFunction(pendingCost) + (pendingCost'[r] - pendingCost[r])
  BY <1>1, <1>3, SumChange
<1>5. SumFunction(pendingBytes')
        = SumFunction(pendingBytes) + (pendingBytes'[r] - pendingBytes[r])
  BY <1>1, <1>3, SumChange
<1>6. SumFunction(extension')
        = SumFunction(extension) + (extension'[r] - extension[r])
  BY <1>1, <1>3, SumChange
<1>7. \A s \in Roles :
        /\ pendingBytes'[s] = BytesOf(queue'[s])
        /\ pendingCost'[s] = BytesOf(queue'[s]) + Overhead * Len(queue'[s])
  BY AccountCovers, ZenonT(40) DEF BooksMove
<1>8. AccountMatchesQueues'
  BY <1>2, <1>4, <1>5, <1>6, <1>7, ZenonT(40)
     DEF AccountMatchesQueues, QueuedBytes, BytesOf, BooksMove
<1>9. QED
  BY <1>8, ZenonT(40) DEF BooksOK, BooksMove

\* enqueue reserves for the segment it appends.
LEMMA EnqueueAppendBooks ==
    ASSUME BooksOK, EnqueueAppend, reader.role \in Roles, reader.seg \in Segments
    PROVE  BooksOK'
<1> DEFINE r == reader.role
           seg == reader.seg
           bytes == seg.size
           cost == segmentRetainedCost(seg)
<1>1. r \in Roles /\ seg \in Segments
  BY Zenon
<1>2. /\ account' = Reserved(cost, bytes)
      /\ queue' = [queue EXCEPT ![r] = Append(@, seg)]
      /\ pendingBytes' = [pendingBytes EXCEPT ![r] = @ + bytes]
      /\ pendingCost' = [pendingCost EXCEPT ![r] = @ + cost]
      /\ UNCHANGED extension
  BY ZenonT(40) DEF EnqueueAppend, readerOnly, optionVars
<1>3. bytes \in Nat /\ Overhead \in Nat /\ cost \in Nat /\ cost = bytes + Overhead
  BY <1>1, CostFacts, ZenonT(40)
<1>4. /\ BytesOf(queue[r]) \in Nat
      /\ BytesOf(Append(queue[r], seg)) = BytesOf(queue[r]) + bytes
  BY <1>1, BytesFacts, ZenonT(40) DEF BooksOK
<1> HIDE DEF r, seg, bytes, cost
<1>5. /\ queue \in [Roles -> Seq(Segments)]
      /\ pendingBytes \in [Roles -> Nat] /\ pendingCost \in [Roles -> Nat]
      /\ account \in Accounts
  BY Zenon DEF BooksOK
<1>6. /\ pendingBytes' \in [Roles -> Nat] /\ pendingCost' \in [Roles -> Nat]
      /\ pendingBytes'[r] = pendingBytes[r] + bytes
      /\ pendingCost'[r] = pendingCost[r] + cost
  BY <1>1, <1>2, <1>3, <1>5
<1>7. /\ queue' \in [Roles -> Seq(Segments)]
      /\ queue'[r] = Append(queue[r], seg)
      /\ Len(queue[r]) \in Nat
      /\ Len(queue'[r]) = Len(queue[r]) + 1
  BY <1>1, <1>2, <1>5
<1>8. /\ account' \in Accounts
      /\ account'.used = account.used + cost
      /\ account'.payload = account.payload + bytes
      /\ account'.extended = account.extended
  BY <1>2, <1>3, <1>5, ReservedFacts, ZenonT(40)
<1>9. \A s \in Roles \ {r} :
        /\ queue'[s] = queue[s] /\ pendingBytes'[s] = pendingBytes[s]
        /\ pendingCost'[s] = pendingCost[s] /\ extension'[s] = extension[s]
  BY <1>2, <1>5, ZenonT(40)
<1>10. /\ Overhead * Len(queue'[r]) = Overhead * Len(queue[r]) + Overhead
       /\ Overhead * Len(queue[r]) \in Nat
  BY <1>3, <1>7, OverheadFacts, ZenonT(40)
<1>11. /\ pendingCost[r] \in Nat /\ pendingBytes[r] \in Nat
       /\ pendingBytes[r] = BytesOf(queue[r])
       /\ pendingCost[r] = BytesOf(queue[r]) + Overhead * Len(queue[r])
       /\ extension[r] \in Nat
  BY <1>1, AccountCovers, ZenonT(40)
<1>12. /\ pendingBytes'[r] = BytesOf(queue'[r])
       /\ pendingCost'[r] = BytesOf(queue'[r]) + Overhead * Len(queue'[r])
  BY <1>3, <1>4, <1>6, <1>7, <1>10, <1>11
<1>13. /\ account'.used = account.used + (pendingCost'[r] - pendingCost[r])
       /\ account'.payload = account.payload + (pendingBytes'[r] - pendingBytes[r])
       /\ account'.extended = account.extended + (extension'[r] - extension[r])
  <2>1. account.used \in Nat /\ account.payload \in Nat /\ account.extended \in Nat
    BY <1>5, Zenon DEF Accounts
  <2>2. extension'[r] = extension[r]
    BY <1>2, Zenon
  <2>3. pendingCost[r] \in Nat /\ pendingBytes[r] \in Nat /\ extension[r] \in Nat
    BY <1>11, Zenon
  <2>4. /\ pendingCost'[r] - pendingCost[r] = cost
        /\ pendingBytes'[r] - pendingBytes[r] = bytes
        /\ extension'[r] - extension[r] = 0
    BY <1>3, <1>6, <2>2, <2>3
  <2>5. QED
    BY <1>8, <2>1, <2>4
<1>14. extension' \in [Roles -> 0..MaxExtension]
  BY <1>2, Zenon DEF BooksOK
<1>15. BooksMove(r)
  BY <1>6, <1>7, <1>8, <1>9, <1>12, <1>13, <1>14, ZenonT(40) DEF BooksMove
<1>16. QED
  BY <1>1, <1>15, BooksMoved, ZenonT(40)

\* forward releases what was reserved for the segment it takes.
LEMMA ForwardDequeueBooks ==
    ASSUME BooksOK, NEW r \in Roles, ForwardDequeue(r)
    PROVE  BooksOK'
<1> DEFINE seg == Head(queue[r])
           bytes == seg.size
           cost == segmentRetainedCost(seg)
<1>1. /\ queue \in [Roles -> Seq(Segments)]
      /\ pendingBytes \in [Roles -> Nat] /\ pendingCost \in [Roles -> Nat]
      /\ account \in Accounts
  BY Zenon DEF BooksOK
<1>2. /\ account' = Released(cost, bytes)
      /\ queue' = [queue EXCEPT ![r] = Tail(@)]
      /\ pendingBytes' = [pendingBytes EXCEPT ![r] = @ - bytes]
      /\ pendingCost' = [pendingCost EXCEPT ![r] = @ - cost]
      /\ UNCHANGED extension
  BY Zenon DEF ForwardDequeue, optionVars
<1>3. queue[r] \in Seq(Segments) /\ queue[r] # <<>> /\ seg \in Segments
  BY <1>1 DEF ForwardDequeue
<1>4. bytes \in Nat /\ Overhead \in Nat /\ cost \in Nat /\ cost = bytes + Overhead
  BY <1>3, CostFacts, Zenon
<1>5. /\ BytesOf(queue[r]) \in Nat
      /\ BytesOf(Tail(queue[r])) = BytesOf(queue[r]) - bytes
      /\ bytes <= BytesOf(queue[r])
  BY <1>3, BytesFacts, Zenon
<1> HIDE DEF seg, bytes, cost
<1>6. /\ queue' \in [Roles -> Seq(Segments)]
      /\ queue'[r] = Tail(queue[r])
      /\ Len(queue'[r]) \in Nat
      /\ Len(queue[r]) = Len(queue'[r]) + 1
  BY <1>1, <1>2, <1>3
<1>7. /\ Overhead * Len(queue[r]) = Overhead * Len(queue'[r]) + Overhead
      /\ Overhead * Len(queue'[r]) \in Nat
  BY <1>4, <1>6, OverheadFacts, Zenon
<1>8. /\ pendingCost[r] \in Nat /\ pendingCost[r] <= account.used
      /\ pendingBytes[r] \in Nat /\ pendingBytes[r] <= account.payload
      /\ extension[r] \in Nat
      /\ pendingBytes[r] = BytesOf(queue[r])
      /\ pendingCost[r] = BytesOf(queue[r]) + Overhead * Len(queue[r])
  BY AccountCovers, Zenon
<1>9. account.used \in Nat /\ account.payload \in Nat /\ account.extended \in Nat
  BY <1>1, Zenon DEF Accounts
<1>10. bytes <= pendingBytes[r] /\ cost <= pendingCost[r]
  <2> DEFINE o == Overhead * Len(queue'[r])
  <2>1. o \in Nat /\ pendingCost[r] = BytesOf(queue[r]) + (o + Overhead)
    BY <1>7, <1>8, Zenon
  <2>2. pendingBytes[r] = BytesOf(queue[r])
    BY <1>8, Zenon
  <2> HIDE DEF o
  <2>3. QED
    BY <1>4, <1>5, <2>1, <2>2
<1>11. cost <= account.used /\ bytes <= account.payload
  BY <1>4, <1>8, <1>9, <1>10
<1>12. /\ account' \in Accounts
       /\ account'.used = account.used - cost
       /\ account'.payload = account.payload - bytes
       /\ account'.extended = account.extended
  BY <1>1, <1>2, <1>4, <1>11, ReleasedFacts, Zenon
<1>13. /\ pendingBytes' \in [Roles -> Nat] /\ pendingCost' \in [Roles -> Nat]
       /\ pendingBytes'[r] = pendingBytes[r] - bytes
       /\ pendingCost'[r] = pendingCost[r] - cost
  <2>1. pendingBytes[r] - bytes \in Nat /\ pendingCost[r] - cost \in Nat
    BY <1>4, <1>8, <1>10
  <2>2. QED
    BY <1>1, <1>2, <2>1, Zenon
<1>14. \A s \in Roles \ {r} :
         /\ queue'[s] = queue[s] /\ pendingBytes'[s] = pendingBytes[s]
         /\ pendingCost'[s] = pendingCost[s] /\ extension'[s] = extension[s]
  BY <1>1, <1>2, Zenon
<1>15. /\ pendingBytes'[r] = BytesOf(queue'[r])
       /\ pendingCost'[r] = BytesOf(queue'[r]) + Overhead * Len(queue'[r])
  BY <1>4, <1>5, <1>6, <1>7, <1>8, <1>13
<1>16. /\ pendingCost'[r] - pendingCost[r] = -cost
       /\ pendingBytes'[r] - pendingBytes[r] = -bytes
       /\ extension'[r] - extension[r] = 0
  <2>1. pendingCost[r] \in Nat /\ pendingBytes[r] \in Nat /\ extension[r] \in Nat
    BY <1>8, Zenon
  <2>2. extension'[r] = extension[r]
    BY <1>2, Zenon
  <2>3. QED
    BY <1>4, <1>13, <2>1, <2>2
<1>17. /\ account'.used = account.used + (pendingCost'[r] - pendingCost[r])
       /\ account'.payload = account.payload + (pendingBytes'[r] - pendingBytes[r])
       /\ account'.extended = account.extended + (extension'[r] - extension[r])
  BY <1>4, <1>9, <1>12, <1>16
<1>18. extension' \in [Roles -> 0..MaxExtension]
  BY <1>2, Zenon DEF BooksOK
<1>19. BooksMove(r)
  BY <1>6, <1>12, <1>13, <1>14, <1>15, <1>17, <1>18, ZenonT(40) DEF BooksMove
<1>20. QED
  BY <1>19, BooksMoved, Zenon

\* What forward gives up when it exits is released, with its extension.
LEMMA ForwardExitBooks ==
    ASSUME BooksOK, NEW r \in Roles, ForwardExit(r)
    PROVE  BooksOK'
<1> DEFINE a == Released(pendingCost[r], pendingBytes[r])
<1>1. /\ queue \in [Roles -> Seq(Segments)]
      /\ pendingBytes \in [Roles -> Nat] /\ pendingCost \in [Roles -> Nat]
      /\ extension \in [Roles -> 0..MaxExtension]
      /\ account \in Accounts
  BY Zenon DEF BooksOK
<1>2. /\ account' = Extended(a, -extension[r])
      /\ pendingBytes' = [pendingBytes EXCEPT ![r] = 0]
      /\ pendingCost' = [pendingCost EXCEPT ![r] = 0]
      /\ extension' = [extension EXCEPT ![r] = 0]
      /\ queue' = [queue EXCEPT ![r] = <<>>]
  BY Zenon DEF ForwardExit
<1>3. /\ pendingCost[r] \in Nat /\ pendingCost[r] <= account.used
      /\ pendingBytes[r] \in Nat /\ pendingBytes[r] <= account.payload
      /\ extension[r] \in Nat /\ extension[r] <= account.extended
  BY AccountCovers, Zenon
<1>4. account.used \in Nat /\ account.payload \in Nat /\ account.extended \in Nat
  BY <1>1, Zenon DEF Accounts
<1>5. /\ a \in Accounts
      /\ a.used = account.used - pendingCost[r]
      /\ a.payload = account.payload - pendingBytes[r]
      /\ a.extended = account.extended
  BY <1>1, <1>3, ReleasedFacts, Zenon
<1> HIDE DEF a
<1>6. -extension[r] \in Int /\ a.extended + (-extension[r]) \in Nat
  BY <1>3, <1>4, <1>5
<1>7. /\ account' \in Accounts
      /\ account'.used = account.used - pendingCost[r]
      /\ account'.payload = account.payload - pendingBytes[r]
      /\ account'.extended = account.extended + (-extension[r])
  <2> DEFINE d == -extension[r]
  <2>1. d \in Int /\ a.extended + d \in Nat /\ account' = Extended(a, d)
    BY <1>2, <1>6, Zenon
  <2> HIDE DEF d
  <2>2. /\ account' \in Accounts
        /\ account'.used = a.used
        /\ account'.payload = a.payload
        /\ account'.extended = a.extended + d
    BY <1>5, <2>1, ExtendedFacts, Zenon
  <2>3. QED
    BY <1>5, <2>2, Zenon DEF d
<1>8. /\ queue' \in [Roles -> Seq(Segments)]
      /\ queue'[r] = <<>> /\ Len(queue'[r]) = 0
  BY <1>1, <1>2
<1>9. /\ pendingBytes' \in [Roles -> Nat] /\ pendingBytes'[r] = 0
      /\ pendingCost' \in [Roles -> Nat] /\ pendingCost'[r] = 0
      /\ extension' \in [Roles -> 0..MaxExtension] /\ extension'[r] = 0
  BY <1>1, <1>2, IngressAssumption
<1>10. \A s \in Roles \ {r} :
         /\ queue'[s] = queue[s] /\ pendingBytes'[s] = pendingBytes[s]
         /\ pendingCost'[s] = pendingCost[s] /\ extension'[s] = extension[s]
  BY <1>1, <1>2, Zenon
<1>11. BytesOf(queue'[r]) = 0
  BY <1>8, NothingQueued, Zenon
<1>12. Overhead * Len(queue'[r]) = 0
  BY <1>8, IngressAssumption
<1>13. /\ pendingBytes'[r] = BytesOf(queue'[r])
       /\ pendingCost'[r] = BytesOf(queue'[r]) + Overhead * Len(queue'[r])
  BY <1>9, <1>11, <1>12
<1>14. /\ account'.used = account.used + (pendingCost'[r] - pendingCost[r])
       /\ account'.payload = account.payload + (pendingBytes'[r] - pendingBytes[r])
       /\ account'.extended = account.extended + (extension'[r] - extension[r])
  BY <1>3, <1>4, <1>7, <1>9
<1>15. BooksMove(r)
  BY <1>7, <1>8, <1>9, <1>10, <1>13, <1>14, Zenon DEF BooksMove
<1>16. QED
  BY <1>15, BooksMoved, Zenon

\* SetIngressBudgetExtension moves the account by the change of the extension.
LEMMA SetExtensionBooks ==
    ASSUME BooksOK, NEW r \in Roles, NEW e \in Int, SetIngressBudgetExtension(r, e)
    PROVE  BooksOK'
<1> DEFINE extra == Min({Max({e, 0}), MaxExtension})
<1>1. /\ queue \in [Roles -> Seq(Segments)]
      /\ pendingBytes \in [Roles -> Nat] /\ pendingCost \in [Roles -> Nat]
      /\ extension \in [Roles -> 0..MaxExtension]
      /\ account \in Accounts
  BY Zenon DEF BooksOK
<1>2. /\ account' = Extended(account, extra - extension[r])
      /\ extension' = [extension EXCEPT ![r] = extra]
      /\ UNCHANGED <<queue, pendingBytes, pendingCost>>
  BY Zenon DEF SetIngressBudgetExtension, SetOption, queueVars
<1>3. extra \in 0..MaxExtension /\ MaxExtension \in Nat
  BY ExtensionClamped, IngressAssumption, Zenon
<1> HIDE DEF extra
<1>4. /\ pendingCost[r] \in Nat /\ pendingBytes[r] \in Nat
      /\ extension[r] \in Nat /\ extension[r] <= account.extended
      /\ pendingBytes[r] = BytesOf(queue[r])
      /\ pendingCost[r] = BytesOf(queue[r]) + Overhead * Len(queue[r])
  BY AccountCovers, Zenon
<1>5. account.used \in Nat /\ account.payload \in Nat /\ account.extended \in Nat
  BY <1>1, Zenon DEF Accounts
<1>6. /\ account' \in Accounts
      /\ account'.used = account.used
      /\ account'.payload = account.payload
      /\ account'.extended = account.extended + (extra - extension[r])
  <2> DEFINE d == extra - extension[r]
  <2>1. d \in Int /\ account.extended + d \in Nat /\ account' = Extended(account, d)
    BY <1>2, <1>3, <1>4, <1>5
  <2> HIDE DEF d
  <2>2. QED
    BY <1>1, <2>1, ExtendedFacts, Zenon DEF d
<1>7. /\ extension' \in [Roles -> 0..MaxExtension] /\ extension'[r] = extra
      /\ \A s \in Roles \ {r} : extension'[s] = extension[s]
  BY <1>1, <1>2, <1>3, Zenon
<1>8. /\ account'.used = account.used + (pendingCost'[r] - pendingCost[r])
      /\ account'.payload = account.payload + (pendingBytes'[r] - pendingBytes[r])
      /\ account'.extended = account.extended + (extension'[r] - extension[r])
  <2>1. pendingCost'[r] - pendingCost[r] = 0 /\ pendingBytes'[r] - pendingBytes[r] = 0
    BY <1>2, <1>4
  <2>2. QED
    BY <1>5, <1>6, <1>7, <2>1
<1>9. BooksMove(r)
  BY <1>1, <1>2, <1>4, <1>6, <1>7, <1>8, ZenonT(40) DEF BooksMove
<1>10. QED
  BY <1>9, BooksMoved, Zenon

\* Where the books and what is in use stand still, they match as before.
LEMMA BooksFrame ==
    ASSUME BooksOK, UNCHANGED <<queueVars, extension>>, account' \in Accounts,
           account'.used = account.used, account'.payload = account.payload,
           account'.extended = account.extended
    PROVE  BooksOK'
  BY Zenon DEF BooksOK, AccountMatchesQueues, QueuedBytes, queueVars

\* What a configuration call may be given.
LEMMA ConfigureTypes ==
    ASSUME IngressTypeOK
    PROVE  /\ Here.extensions \subseteq Int
           /\ Here.limits \subseteq Nat /\ Here.budgets \subseteq Nat
           /\ Here.switches \subseteq BOOLEAN
<1>1. scenario \in DOMAIN Scenarios
  BY Zenon DEF IngressTypeOK
<1>2. QED
  BY <1>1, IngressAssumption, Zenon DEF Here, Traffic

\* Every step of the inbound side keeps the books right.
LEMMA BooksStep ==
    ASSUME IngressTypeOK, BooksOK, [IngressNext]_ingressVars
    PROVE  BooksOK'
<1>1. CASE UNCHANGED <<queueVars, extension, account>>
  <2>1. account' \in Accounts
    BY <1>1, Zenon DEF BooksOK
  <2>2. QED
    BY <1>1, <2>1, BooksFrame, Zenon
<1>2. ASSUME NEW r \in Roles,
             \/ ForwardDeliver(r) \/ ForwardLeave(r) \/ Consume(r)
             \/ Unregister(r) \/ StopClose(r) \/ SweepStop(r)
             \/ \E n \in Sizes : ReadSegment(r, n)
             \/ \E l \in Here.limits : SetIngressLimit(r, l)
             \/ \E b \in Here.switches : SetIngressBackpressure(r, b)
      PROVE  UNCHANGED <<queueVars, extension, account>>
  <2>0. CASE ForwardDeliver(r)
    BY <2>0, ZenonT(40) DEF ForwardDeliver, optionVars
  <2>1. CASE ForwardLeave(r) \/ Consume(r)
    BY <2>1, ZenonT(40) DEF ForwardLeave, Consume, optionVars
  <2>2. CASE Unregister(r) \/ StopClose(r) \/ SweepStop(r)
    BY <2>2, Zenon DEF Unregister, StopClose, SweepStop, notStop, optionVars
  <2>3. CASE \E n \in Sizes : ReadSegment(r, n)
    BY <2>3, Zenon DEF ReadSegment, readerOnly, optionVars
  <2>4. CASE \E l \in Here.limits : SetIngressLimit(r, l)
    BY <2>4, Zenon DEF SetIngressLimit, SetOption
  <2>5. CASE \E b \in Here.switches : SetIngressBackpressure(r, b)
    BY <2>5, Zenon DEF SetIngressBackpressure, SetOption
  <2>6. QED
    BY <1>2, <2>0, <2>1, <2>2, <2>3, <2>4, <2>5, ZenonT(40)
<1>3. ASSUME \/ EnqueueClosed \/ WaitRoom \/ WaitChannelStopped \/ ReaderExit
             \/ MuxerStop \/ UNCHANGED ingressVars
      PROVE  UNCHANGED <<queueVars, extension, account>>
  BY <1>3, Zenon DEF EnqueueClosed, WaitRoom, WaitChannelStopped, ReaderExit, MuxerStop,
     notStop, readerOnly, queueVars, optionVars, ingressVars
<1>4. ASSUME \/ EnqueueOverflow \/ EnqueueWait
             \/ \E b \in Here.budgets : SetIngressBudget(b)
      PROVE  BooksOK'
  <2>1. account \in Accounts
    BY Zenon DEF BooksOK
  <2>2. /\ UNCHANGED <<queueVars, extension>>
        /\ account' \in Accounts
        /\ account'.used = account.used /\ account'.payload = account.payload
        /\ account'.extended = account.extended
    <3>1. CASE EnqueueOverflow \/ EnqueueWait
      <4> DEFINE asked == account.room \/ FitsQueue(reader.role, reader.seg)
      <4>1. asked \in BOOLEAN
        BY Zenon
      <4>0. account' = [account EXCEPT !.room = asked]
        BY <3>1, Zenon DEF EnqueueOverflow, EnqueueWait
      <4> HIDE DEF asked
      <4>2. UNCHANGED <<queueVars, extension>>
        BY <3>1, Zenon DEF EnqueueOverflow, EnqueueWait, readerOnly, queueVars, optionVars
      <4>3. QED
        BY <2>1, <4>0, <4>1, <4>2, Zenon DEF Accounts
    <3>2. CASE \E b \in Here.budgets : SetIngressBudget(b)
      <4>1. PICK b \in Nat : SetIngressBudget(b)
        BY <3>2, ConfigureTypes, Zenon
      <4>2. account' = Budgeted(account, b)
        BY <4>1, Zenon DEF SetIngressBudget, Budgeted
      <4>3. UNCHANGED <<queueVars, extension>>
        BY <4>1, Zenon DEF SetIngressBudget, optionVars
      <4>4. /\ account' \in Accounts
            /\ account'.used = account.used /\ account'.payload = account.payload
            /\ account'.extended = account.extended
        BY <2>1, <4>1, <4>2, BudgetedFacts, Zenon
      <4>5. QED
        BY <4>3, <4>4, Zenon
    <3>3. QED
      BY <1>4, <3>1, <3>2, Zenon
  <2>3. QED
    BY <2>2, BooksFrame, Zenon
<1>5. CASE EnqueueAppend
  <2>1. reader.role \in Roles /\ reader.seg \in Segments
    BY <1>5, Zenon DEF EnqueueAppend, IngressTypeOK
  <2>2. QED
    BY <1>5, <2>1, EnqueueAppendBooks, Zenon
<1>6. ASSUME NEW r \in Roles, ForwardDequeue(r)
      PROVE  BooksOK'
  BY <1>6, ForwardDequeueBooks, Zenon
<1>7. ASSUME NEW r \in Roles, ForwardExit(r)
      PROVE  BooksOK'
  BY <1>7, ForwardExitBooks, Zenon
<1>8. ASSUME NEW r \in Roles, NEW e \in Here.extensions, SetIngressBudgetExtension(r, e)
      PROVE  BooksOK'
  BY <1>8, ConfigureTypes, SetExtensionBooks, Zenon
<1>9. QED
  BY <1>1, <1>2, <1>3, <1>4, <1>5, <1>6, <1>7, <1>8, ZenonT(40)
     DEF IngressNext, ReadLoop, Enqueue, Forward, Configure

-----------------------------------------------------------------------------
(* Types *)

\* The variables no book is kept in.
OptionTypes ==
    /\ limit \in [Roles -> Nat]
    /\ backpressure \in [Roles -> BOOLEAN]
    /\ room \in [Roles -> BOOLEAN]
    /\ scenario \in DOMAIN Scenarios

TypedBooks == BooksOK /\ OptionTypes /\ StopTypes /\ StreamTypes /\ ReaderTypes

\* The invariant of the proof says what the checked one says.
LEMMA TypedBooksMeans == TypedBooks <=> IngressTypeOK /\ AccountMatchesQueues
  BY ZenonT(40) DEF TypedBooks, BooksOK, Accounts, OptionTypes, StopTypes, StreamTypes,
     ReaderTypes, IngressTypeOK

\* The invariant holds when the muxer starts.
LEMMA TypedInit == IngressInit => TypedBooks
<1> SUFFICES ASSUME IngressInit PROVE TypedBooks
  BY Zenon
<1>1. OptionTypes /\ StopTypes /\ StreamTypes /\ ReaderTypes
  <2>1. OptionTypes
    BY IngressAssumption, Zenon DEF IngressInit, OptionTypes
  <2>2. QED
    BY <2>1, InitTyped, Zenon DEF Typed
<1>2. /\ queue \in [Roles -> Seq(Segments)]
      /\ pendingBytes \in [Roles -> Nat]
      /\ pendingCost \in [Roles -> Nat]
      /\ extension \in [Roles -> 0..MaxExtension]
  BY IngressAssumption DEF IngressInit
<1>3. account \in Accounts
  BY IngressAssumption, Zenon DEF IngressInit, Accounts
<1>4. /\ SumFunction(pendingCost) = 0 /\ SumFunction(pendingBytes) = 0
      /\ SumFunction(extension) = 0
  <2> DEFINE zero == [r \in Roles |-> 0]
  <2>1. SumFunction(zero) = 0
    <3>1. IsFiniteSet(Roles) /\ DOMAIN zero = Roles /\ \A r \in Roles : zero[r] = 0
      BY IngressAssumption, Zenon
    <3> HIDE DEF zero
    <3>2. QED
      BY <3>1, SumZero, Zenon
  <2>2. QED
    BY <2>1, Zenon DEF IngressInit
<1>5. \A r \in Roles :
        /\ pendingBytes[r] = BytesOf(queue[r])
        /\ pendingCost[r] = BytesOf(queue[r]) + Overhead * Len(queue[r])
  <2> SUFFICES ASSUME NEW r \in Roles
               PROVE  /\ pendingBytes[r] = BytesOf(queue[r])
                      /\ pendingCost[r] = BytesOf(queue[r]) + Overhead * Len(queue[r])
    BY Zenon
  <2>1. queue[r] = <<>> /\ pendingBytes[r] = 0 /\ pendingCost[r] = 0
    BY Zenon DEF IngressInit
  <2>2. BytesOf(queue[r]) = 0 /\ Overhead * Len(queue[r]) = 0
    BY <2>1, NothingQueued, IngressAssumption
  <2>3. QED
    BY <2>1, <2>2
<1>6. AccountMatchesQueues
  BY <1>4, <1>5, Zenon DEF AccountMatchesQueues, QueuedBytes, BytesOf, IngressInit
<1>7. QED
  BY <1>1, <1>2, <1>3, <1>6, Zenon DEF TypedBooks, BooksOK

\* No step breaks the types of the options.
LEMMA OptionTypesStep ==
    ASSUME TypedBooks, [IngressNext]_ingressVars
    PROVE  OptionTypes'
<1>0. OptionTypes /\ IngressTypeOK
  BY TypedBooksMeans, Zenon DEF TypedBooks
<1>1. CASE UNCHANGED <<scenario, optionVars, room>>
  BY <1>0, <1>1, Zenon DEF OptionTypes, optionVars
<1>2. ASSUME NEW r \in Roles,
             \/ ForwardDeliver(r) \/ ForwardLeave(r) \/ Consume(r)
             \/ Unregister(r) \/ StopClose(r) \/ SweepStop(r)
             \/ \E n \in Sizes : ReadSegment(r, n)
      PROVE  UNCHANGED <<scenario, optionVars, room>>
  BY <1>2, ZenonT(40) DEF ForwardDeliver, ForwardLeave, Consume, Unregister, StopClose,
     SweepStop, ReadSegment, notStop, readerOnly
<1>3. ASSUME \/ EnqueueClosed \/ EnqueueAppend \/ EnqueueOverflow \/ WaitRoom
             \/ WaitChannelStopped \/ ReaderExit \/ MuxerStop \/ UNCHANGED ingressVars
             \/ \E b \in Here.budgets : SetIngressBudget(b)
      PROVE  UNCHANGED <<scenario, optionVars, room>>
  BY <1>3, ZenonT(40) DEF EnqueueClosed, EnqueueAppend, EnqueueOverflow, WaitRoom,
     WaitChannelStopped, ReaderExit, MuxerStop, SetIngressBudget, notStop, readerOnly,
     ingressVars
<1>4. CASE EnqueueWait
  <2>1. reader.role \in Roles
    BY <1>4, Zenon DEF EnqueueWait, TypedBooks, ReaderTypes
  <2>2. room' \in [Roles -> BOOLEAN]
    BY <1>0, <1>4, <2>1, ZenonT(40) DEF EnqueueWait, OptionTypes
  <2>3. UNCHANGED <<scenario, limit, backpressure>>
    BY <1>4, ZenonT(40) DEF EnqueueWait, readerOnly, optionVars
  <2>4. QED
    BY <1>0, <2>2, <2>3, Zenon DEF OptionTypes
<1>5. ASSUME NEW r \in Roles, ForwardDequeue(r) \/ ForwardExit(r)
      PROVE  OptionTypes'
  <2>1. room' \in [Roles -> BOOLEAN]
    BY <1>0, <1>5, ZenonT(40) DEF ForwardDequeue, ForwardExit, OptionTypes
  <2>2. UNCHANGED <<scenario, limit, backpressure>>
    BY <1>5, ZenonT(40) DEF ForwardDequeue, ForwardExit, optionVars
  <2>3. QED
    BY <1>0, <2>1, <2>2, Zenon DEF OptionTypes
<1>6. ASSUME NEW r \in Roles, NEW l \in Here.limits, SetIngressLimit(r, l)
      PROVE  OptionTypes'
  <2>1. l \in Nat
    BY <1>0, ConfigureTypes, Zenon
  <2>2. QED
    BY <1>0, <1>6, <2>1, Zenon DEF SetIngressLimit, SetOption, OptionTypes
<1>7. ASSUME NEW r \in Roles, NEW b \in Here.switches, SetIngressBackpressure(r, b)
      PROVE  OptionTypes'
  <2>1. b \in BOOLEAN
    BY <1>0, ConfigureTypes, Zenon
  <2>2. QED
    BY <1>0, <1>7, <2>1, Zenon DEF SetIngressBackpressure, SetOption, OptionTypes
<1>8. ASSUME NEW r \in Roles, NEW e \in Here.extensions, SetIngressBudgetExtension(r, e)
      PROVE  OptionTypes'
  BY <1>0, <1>8, Zenon DEF SetIngressBudgetExtension, SetOption, OptionTypes
<1>9. QED
  BY <1>1, <1>2, <1>3, <1>4, <1>5, <1>6, <1>7, <1>8, ZenonT(40)
     DEF IngressNext, ReadLoop, Enqueue, Forward, Configure

\* No step breaks the types or the books.
LEMMA TypedBooksStep ==
    ASSUME TypedBooks, [IngressNext]_ingressVars
    PROVE  TypedBooks'
<1>1. BooksOK'
  BY BooksStep, TypedBooksMeans, Zenon DEF TypedBooks
<1>2. QED
  BY <1>1, OptionTypesStep, TypedStep, Zenon DEF TypedBooks, Typed

(***************************************************************************)
(* The account of the connection is what its queues hold in every state,   *)
(* for any number of roles and any values of the limits, the budget and    *)
(* the extensions: no interleaving of enqueue, forward, the setters and    *)
(* stop leaks or double-counts a reservation.                              *)
(***************************************************************************)
THEOREM IngressAccounting == IngressSpec => []Accounting
<1>1. TypedBooks /\ [IngressNext]_ingressVars => TypedBooks'
  BY TypedBooksStep, Zenon
<1>2. TypedBooks => Accounting
  BY TypedBooksMeans, Zenon DEF Accounting
<1>3. QED
  BY <1>1, <1>2, TypedInit, PTL DEF IngressSpec
=============================================================================
