------------------------ MODULE PipelineOrderProofs -------------------------
(***************************************************************************)
(* The items on their way through the block pipeline: where they are, in   *)
(* which order they are processed, and how far the callers and the runner  *)
(* are ahead of the completion boundary.                                   *)
(***************************************************************************)
EXTENDS PipelineProofs

\* The provers get half a minute for a step, not five seconds.
USE SMTT(30), ZenonT(30)

\* The numbers given out, and the next one while its call is in progress, are
\* those the scenario allows for.
InRange ==
    /\ Seqs \subseteq Nat /\ IsFiniteSet(Seqs)
    /\ sequenceCounter \in Seqs
    /\ \A n \in 0..sequenceCounter : n \in Seqs
    /\ \A s \in Submitters : pc[s] # "idle" => sequenceCounter + 1 \in Seqs

\* A number whose item has been sent: its caller may be about to commit it.
Accepted(n) ==
    /\ n <= sequenceCounter
    /\ n = sequenceCounter => \E s \in Submitters : pc[s] = "count"
Fresh(n) == nextSequence <= n /\ Accepted(n)
Forwarding(w) == worker[w] = "forward"

\* The items in the channels, with a worker and in the apply buffer have been
\* accepted, and the runner has not come to them.
InFlight ==
    /\ \A c \in Chans : \A i \in DOMAIN chan[c] : Fresh(chan[c][i])
    /\ \A w \in Workers : Forwarding(w) => Fresh(item[w])
    /\ \A n \in pending : Fresh(n)
    /\ nextSequence > 0 => Accepted(nextSequence - 1)

\* No item is in two places.
Apart ==
    /\ \A c, d \in Chans : \A i \in DOMAIN chan[c], j \in DOMAIN chan[d] :
        chan[c][i] = chan[d][j] => c = d /\ i = j
    /\ \A v, w \in Workers :
        Forwarding(v) /\ Forwarding(w) /\ item[v] = item[w] => v = w
    /\ \A w \in Workers : \A c \in Chans : \A i \in DOMAIN chan[c] :
        Forwarding(w) => item[w] # chan[c][i]
    /\ \A c \in Chans : \A i \in DOMAIN chan[c] : chan[c][i] \notin pending
    /\ \A w \in Workers : Forwarding(w) => item[w] \notin pending

\* Without a cancellation every item past the decode stage is resolved.
Resolved ==
    /\ ~ctxDone =>
        /\ \A c \in {DecodedChan, ValidatedChan} : \A i \in DOMAIN chan[c] :
            verdict[chan[c][i]] # "raw"
        /\ \A w \in Workers : Forwarding(w) => verdict[item[w]] # "raw"
        /\ \A n \in pending : verdict[n] # "raw"
    /\ ~config.validating => \A n \in Seqs : verdict[n] \notin {"valid", "validationError"}

\* What is processed: handed over, in hand, queued, or in the current batch.
Handed == Len(delivered) + IF forwarder = "hand" THEN 1 ELSE 0
Sent == Handed + Len(resultsQueue)
Processed == Sent + Len(batch)
Numbered(q, from) == \A i \in DOMAIN q : q[i] = from + i - 1

\* The call of the runner has not been cut short.
Whole ==
    \/ runner \in {"check", "apply", "pending"}
    \/ runner = "receive" /\ ~ctxDone
    \/ runner \in {"store", "wake", "fail", "cancel", "send", "blocked"} /\ outcome = "ok"

\* The processed items are numbered through from the first one.
InLine ==
    /\ Numbered(delivered, 0)
    /\ forwarder = "hand" => handing = Len(delivered)
    /\ Numbered(resultsQueue, Handed)
    /\ Numbered(batch, Sent)

\* The runner has processed all it took, unless it was cut short.
KeepsUp ==
    /\ Processed <= nextSequence
    /\ runner \in {"check", "apply"} => cur = nextSequence - 1 /\ Processed = cur
    /\ Whole /\ runner \notin {"check", "apply"} => Processed = nextSequence
    /\ runner = "receive" => batch = <<>>
    /\ runner \in {"store", "wake", "fail", "cancel", "send", "blocked"}
        => (outcome = "ctx" => ctxDone)

\* So are the applied ones.
AppliedSoFar ==
    /\ Numbered(applied, 0)
    /\ Len(applied) <= nextSequence
    /\ runner \in {"check", "apply"} => Len(applied) < nextSequence
    /\ Applies => Processed <= Len(applied) /\ (Whole => Processed = Len(applied))
    /\ completedSequence <= nextSequence
    /\ Applies => completedSequence <= Len(applied)

\* The stages' findings on what was processed and applied stand.
Fit(n) == verdict[n] \in (IF config.trusted THEN {"decoded", "decodeError"} ELSE {"valid"})
Vetted ==
    /\ \A n \in 0..(Processed - 1) : Fit(n)
    /\ \A n \in 0..(Len(applied) - 1) : verdict[n] = "valid"
    /\ runner \in {"check", "apply"} => verdict[cur] # "raw"
    /\ runner = "apply" => Applies /\ verdict[cur] = "valid"

\* A drain waits for a boundary past what had been accepted at its call.
DrainCovers ==
    \A d \in Drainers :
        /\ since[d] <= sequenceCounter
        /\ drain[d] \in {"check", "wait"} => since[d] <= target[d]
        /\ drain[d] = "idle" => fence[d] # "ok" /\ answer[d] # "ok"
        /\ (fence[d] = "ok" \/ answer[d] = "ok") /\ config.applyFunc
            => Len(applied) >= since[d]

-----------------------------------------------------------------------------
(***************************************************************************)
(* How items move between the channels, the workers and the runner.        *)
(***************************************************************************)
PushedOn(old, new, c, n) ==
    \A d \in Chans : \A i \in DOMAIN new[d] :
        \/ i \in DOMAIN old[d] /\ new[d][i] = old[d][i]
        \/ d = c /\ i = Len(old[c]) + 1 /\ new[d][i] = n

PoppedFrom(old, new, c) ==
    /\ 1 \in DOMAIN old[c]
    /\ \A d \in Chans : \A i \in DOMAIN new[d] :
        IF d = c THEN i \in Nat \ {0} /\ i + 1 \in DOMAIN old[d] /\ new[d][i] = old[d][i + 1]
                 ELSE i \in DOMAIN old[d] /\ new[d][i] = old[d][i]

\* A worker takes the first item of its channel, and puts one on the next.
Takes(w) ==
    /\ Input(w) \in Chans /\ PoppedFrom(chan, chan', Input(w))
    /\ worker[w] = "idle" /\ worker'[w] = "forward" /\ item'[w] = chan[Input(w)][1]
    /\ \A v \in Workers \ {w} : worker'[v] = worker[v] /\ item'[v] = item[v]

Gives(w) ==
    /\ Input(w) + 1 \in {DecodedChan, ValidatedChan}
    /\ PushedOn(chan, chan', Input(w) + 1, item[w])
    /\ worker[w] = "forward" /\ worker'[w] = "idle"
    /\ \A v \in Workers \ {w} : worker'[v] = worker[v] /\ item'[v] = item[v]

\* A send adds one item at the end of one channel.
LEMMA Pushed ==
    ASSUME NEW old \in [Chans -> Seq(Nat)], NEW c \in Chans, NEW n \in Nat,
           NEW new, new = [old EXCEPT ![c] = Append(old[c], n)]
    PROVE  PushedOn(old, new, c, n)
  BY DEF PushedOn

\* A receive takes the first item of one channel.
LEMMA Popped ==
    ASSUME NEW old \in [Chans -> Seq(Nat)], NEW c \in Chans, old[c] # <<>>,
           NEW new, new = [old EXCEPT ![c] = Tail(old[c])]
    PROVE  /\ PoppedFrom(old, new, c)
           /\ Head(old[c]) = old[c][1] /\ Head(old[c]) \in Nat
  BY DEF PoppedFrom

\* What Work does to the channels.
LEMMA WorkTakes ==
    ASSUME Types, NEW w \in Workers, Work(w)
    PROVE  Takes(w)
  <1>1. /\ worker[w] = "idle" /\ chan[Input(w)] # <<>>
        /\ item' = [item EXCEPT ![w] = Head(chan[Input(w)])]
        /\ chan' = [chan EXCEPT ![Input(w)] = Tail(chan[Input(w)])]
        /\ worker' = [worker EXCEPT ![w] = "forward"]
    BY Zenon DEF Work
  <1>2. Input(w) \in Chans
    <2>1. Input(w) \in {1, 2}
      BY HereFacts, ZenonT(40) DEF SubmitChan, DecodedChan
    <2> QED  BY <2>1 DEF Chans, SubmitChan, ValidatedChan
  <1>3. chan \in [Chans -> Seq(Nat)] /\ worker \in [Workers -> {"idle", "forward", "done"}]
        /\ item \in [Workers -> Int]
    BY Zenon DEF Types, PoolTypes
  <1>4. PoppedFrom(chan, chan', Input(w)) /\ Head(chan[Input(w)]) = chan[Input(w)][1]
    BY <1>1, <1>2, <1>3, Popped, ZenonT(40)
  <1> QED  BY <1>1, <1>2, <1>3, <1>4, Zenon DEF Takes

\* What Forward does to the channels.
LEMMA ForwardGives ==
    ASSUME Types, NEW w \in Workers, Forward(w)
    PROVE  Gives(w)
  <1>1. /\ worker[w] = "forward"
        /\ item' = [item EXCEPT ![w] = None]
        /\ chan' = [chan EXCEPT ![Input(w) + 1] = Append(chan[Input(w) + 1], item[w])]
        /\ worker' = [worker EXCEPT ![w] = "idle"]
    BY Zenon DEF Forward
  <1>2. Input(w) \in {1, 2}
    BY HereFacts, ZenonT(40) DEF SubmitChan, DecodedChan
  <1>3. Input(w) + 1 \in {DecodedChan, ValidatedChan} /\ Input(w) + 1 \in Chans
    BY <1>2 DEF Chans, SubmitChan, DecodedChan, ValidatedChan
  <1>4. chan \in [Chans -> Seq(Nat)] /\ worker \in [Workers -> {"idle", "forward", "done"}]
        /\ item \in [Workers -> Int] /\ item[w] \in Nat
    BY <1>1, Zenon DEF Types, PoolTypes
  <1>5. PushedOn(chan, chan', Input(w) + 1, item[w])
    BY <1>1, <1>3, <1>4, Pushed, ZenonT(40)
  <1> QED  BY <1>1, <1>3, <1>4, <1>5, Zenon DEF Gives

\* What Receive does to the channels.
LEMMA ReceiveTakes ==
    ASSUME Types, Receive
    PROVE  /\ ApplyInput \in {DecodedChan, ValidatedChan} /\ ApplyInput \in Chans
           /\ PoppedFrom(chan, chan', ApplyInput)
           /\ Head(chan[ApplyInput]) = chan[ApplyInput][1]
           /\ Head(chan[ApplyInput]) \in Nat
  <1>1. /\ chan[ApplyInput] # <<>>
        /\ chan' = [chan EXCEPT ![ApplyInput] = Tail(chan[ApplyInput])]
    BY Zenon DEF Receive
  <1>2. ApplyInput \in {DecodedChan, ValidatedChan} /\ ApplyInput \in Chans
    BY DEF ApplyInput, Chans, SubmitChan, DecodedChan, ValidatedChan
  <1>3. chan \in [Chans -> Seq(Nat)]
    BY Zenon DEF Types, PoolTypes
  <1>4. PoppedFrom(chan, chan', ApplyInput) /\ Head(chan[ApplyInput]) = chan[ApplyInput][1]
        /\ Head(chan[ApplyInput]) \in Nat
    BY <1>1, <1>2, <1>3, Popped, ZenonT(40)
  <1> QED  BY <1>2, <1>4, Zenon

\* What Enqueue does to the channels, with the gate held.
LEMMA EnqueueGives ==
    ASSUME Types, GateHeld, NEW s \in Submitters, Enqueue(s)
    PROVE  /\ SubmitChan \in Chans /\ PushedOn(chan, chan', SubmitChan, sequenceCounter)
           /\ pc[s] = "enqueue" /\ sequenceCounter' = sequenceCounter
           /\ \A t \in Submitters : pc[t] # "count"
  <1>1. /\ chan' = [chan EXCEPT ![SubmitChan] = Append(chan[SubmitChan], sequenceCounter)]
        /\ pc[s] = "enqueue" /\ sequenceCounter' = sequenceCounter
    BY Zenon DEF Enqueue, At
  <1>2. SubmitChan \in Chans
    BY DEF Chans, SubmitChan, ValidatedChan
  <1>3. chan \in [Chans -> Seq(Nat)] /\ sequenceCounter \in Nat
    BY Zenon DEF Types, PoolTypes, SubmitTypes
  <1>4. PushedOn(chan, chan', SubmitChan, sequenceCounter)
    BY <1>1, <1>2, <1>3, Pushed, ZenonT(40)
  <1>5. \A t \in Submitters : pc[t] # "count"
    BY <1>1, Zenon DEF GateHeld, Holding
  <1> QED  BY <1>1, <1>2, <1>4, <1>5, Zenon

\* Enqueue is the only step of Submit that sends.
LEMMA SubmitSends ==
    ASSUME NEW s, Submit(s) PROVE Enqueue(s) \/ chan' = chan
  BY ZenonT(40) DEF Submit, SubmitCall, reserveRawCborBytes, AwaitBudget, BudgetFreed,
     BudgetAbandoned, lockSubmit, SubmitAbandoned, waitForPendingCapacity,
     CapacityFreed, SubmitRefused, trackItem, CommitSequence, EnqueueAbandoned

\* The runner takes items in two places only.
LEMMA RunnerTakes ==
    ASSUME Runner
    PROVE  Receive \/ applyPending \/ UNCHANGED <<chan, pending, nextSequence>>
  BY ZenonT(40) DEF Runner, maybeApply, applyItem, StoreCompleted, WakeWaiters, setFatalError,
     CancelAfterFailure, SendResult, ResultsFull, SendDone, RunnerExit

\* What was accepted stays accepted.
LEMMA AcceptedStays ==
    ASSUME SubmitTypes, [Next]_vars, NEW n \in Int, Accepted(n)
    PROVE  Accepted(n)'
  <1> USE DEF SubmitTypes, Accepted
  <1>1. CASE Start
    BY <1>1, StartFrame, Zenon
  <1>2. ASSUME NEW x \in Submitters \cup Drainers, CancelCaller(x) PROVE Accepted(n)'
    BY <1>2, CancelCallerFrame, Zenon
  <1>3. ASSUME NEW s \in Submitters, SubmitCall(s) PROVE Accepted(n)'
    BY <1>3, Zenon DEF SubmitCall, NotSubmitting, lifeVars, budgetVars, poolVars,
                applyVars, resultVars, drainVars
  <1>4. ASSUME NEW s \in Submitters, reserveRawCborBytes(s) PROVE Accepted(n)'
    BY <1>4, Zenon DEF reserveRawCborBytes, At, NotSubmitting, lifeVars, budgetVars,
                poolVars, applyVars, resultVars, drainVars
  <1>5. ASSUME NEW s \in Submitters, AwaitBudget(s) PROVE Accepted(n)'
    BY <1>5, Zenon DEF AwaitBudget, At, NotSubmitting, lifeVars, budgetVars,
                poolVars, applyVars, resultVars, drainVars
  <1>6. ASSUME NEW s \in Submitters, BudgetFreed(s) PROVE Accepted(n)'
    BY <1>6, Zenon DEF BudgetFreed, At, NotSubmitting, lifeVars, budgetVars,
                poolVars, applyVars, resultVars, drainVars
  <1>7. ASSUME NEW s \in Submitters, BudgetAbandoned(s) PROVE Accepted(n)'
    BY <1>7, Zenon DEF BudgetAbandoned, Return, NotSubmitting, lifeVars, budgetVars,
                poolVars, applyVars, resultVars, drainVars
  <1>8. ASSUME NEW s \in Submitters, lockSubmit(s) PROVE Accepted(n)'
    BY <1>8, Zenon DEF lockSubmit, At, NotSubmitting, lifeVars, budgetVars, poolVars,
                applyVars, resultVars, drainVars
  <1>9. ASSUME NEW s \in Submitters, SubmitAbandoned(s) PROVE Accepted(n)'
    BY <1>9, Zenon DEF SubmitAbandoned, Aborted, Return, NotSubmitting, lifeVars,
                budgetVars, poolVars, applyVars, resultVars, drainVars
  <1>10. ASSUME NEW s \in Submitters, waitForPendingCapacity(s) PROVE Accepted(n)'
    BY <1>10, Zenon DEF waitForPendingCapacity, At, NotSubmitting, lifeVars,
                 budgetVars, poolVars, applyVars, resultVars, drainVars
  <1>11. ASSUME NEW s \in Submitters, CapacityFreed(s) PROVE Accepted(n)'
    BY <1>11, Zenon DEF CapacityFreed, At, NotSubmitting, lifeVars, budgetVars,
                 poolVars, applyVars, resultVars, drainVars
  <1>12. ASSUME NEW s \in Submitters, SubmitRefused(s) PROVE Accepted(n)'
    BY <1>12, Zenon DEF SubmitRefused, Aborted, Return, NotSubmitting, lifeVars,
                 budgetVars, poolVars, applyVars, resultVars, drainVars
  <1>13. ASSUME NEW s \in Submitters, trackItem(s) PROVE Accepted(n)'
    BY <1>13, Zenon DEF trackItem, At, NotSubmitting, lifeVars, budgetVars, poolVars,
                 applyVars, resultVars, drainVars
  <1>14. ASSUME NEW s \in Submitters, Enqueue(s) PROVE Accepted(n)'
    BY <1>14, Zenon DEF Enqueue, At, NotSubmitting, lifeVars, budgetVars, poolVars,
                 applyVars, resultVars, drainVars
  <1>15. ASSUME NEW s \in Submitters, CommitSequence(s) PROVE Accepted(n)'
    BY <1>15 DEF CommitSequence, Return, NotSubmitting, lifeVars, budgetVars,
                 poolVars, applyVars, resultVars, drainVars
  <1>16. ASSUME NEW s \in Submitters, EnqueueAbandoned(s) PROVE Accepted(n)'
    BY <1>16, Zenon DEF EnqueueAbandoned, Aborted, Return, ReleaseItems,
                 NotSubmitting, lifeVars, budgetVars, poolVars, applyVars,
                 resultVars, drainVars
  <1>17. ASSUME NEW w \in Workers, Pool(w) PROVE Accepted(n)'
    BY <1>17, PoolFrame, Zenon
  <1>18. CASE Runner
    BY <1>18, RunnerFrame, Zenon
  <1>19. CASE Results
    BY <1>19, ResultsFrame, Zenon
  <1>20. ASSUME NEW d \in Drainers, Drain(d) PROVE Accepted(n)'
    BY <1>20, DrainFrame, Zenon
  <1>21. CASE StopNext
    BY <1>21, StopNextFrame, Zenon
  <1>22. CASE UNCHANGED vars
    BY <1>22, StutterFrame, Zenon
  <1> QED
    BY <1>1, <1>2, <1>3, <1>4, <1>5, <1>6, <1>7, <1>8, <1>9, <1>10, <1>11,
       <1>12, <1>13, <1>14, <1>15, <1>16, <1>17, <1>18, <1>19, <1>20, <1>21,
       <1>22, ZenonT(40)
       DEF Next, Submit, StopNext, Ended

\* What is in flight has been accepted, and the runner takes each number once.
LEMMA InFlightStep ==
    Types /\ GateHeld /\ Apart /\ InFlight /\ [Next]_vars => InFlight'
  <1> SUFFICES ASSUME Types, GateHeld, Apart, InFlight, [Next]_vars PROVE InFlight'
    BY Zenon
  <1> Workers' = Workers
    BY Fixed, Zenon
  <1>1. CASE Start
    <2>1. UNCHANGED <<chan, worker, item, pending, nextSequence, sequenceCounter, pc>>
      BY <1>1, StartFrame, Zenon
    <2> QED  BY <2>1, Zenon DEF InFlight, Fresh, Accepted, Forwarding
  <1>2. ASSUME NEW x \in Submitters \cup Drainers, CancelCaller(x) PROVE InFlight'
    <2>1. UNCHANGED <<chan, worker, item, pending, nextSequence, sequenceCounter, pc>>
      BY <1>2, CancelCallerFrame, Zenon
    <2> QED  BY <2>1, Zenon DEF InFlight, Fresh, Accepted, Forwarding
  <1>3. ASSUME NEW s \in Submitters, Submit(s) PROVE InFlight'
    <2>1. \A n \in Int : Fresh(n) => Fresh(n)'
      BY <1>3, SubmitFrame, AcceptedStays, Zenon DEF Fresh, Types
    <2>2. UNCHANGED <<worker, item, pending, nextSequence>>
      BY <1>3, SubmitFrame, Zenon
    <2>3. nextSequence \in Nat /\ pending \subseteq Nat /\ sequenceCounter \in Nat
          /\ \A w \in Workers : Forwarding(w) => item[w] \in Nat
      BY Zenon DEF Types, RunnerTypes, PoolTypes, SubmitTypes, Forwarding
    <2>4. \A c \in Chans : \A i \in DOMAIN chan[c] : chan[c][i] \in Nat
      BY DEF Types, PoolTypes
    <2>5. /\ \A w \in Workers : Forwarding(w)' => Fresh(item[w])'
          /\ \A n \in pending' : Fresh(n)'
      <3>1. ASSUME NEW w \in Workers, Forwarding(w)' PROVE Fresh(item[w])'
        <4>1. Forwarding(w) /\ item'[w] = item[w]
          BY <2>2, <3>1, Zenon DEF Forwarding
        <4>2. item[w] \in Int /\ Fresh(item[w])
          BY <2>3, <4>1 DEF InFlight
        <4> QED  BY <2>1, <4>1, <4>2, Zenon
      <3>2. ASSUME NEW n \in pending' PROVE Fresh(n)'
        BY <2>1, <2>2, <2>3, <3>2 DEF InFlight
      <3> QED  BY <3>1, <3>2, Zenon
    <2>6. nextSequence' > 0 => Accepted(nextSequence - 1)'
      BY <2>2, <2>3, AcceptedStays DEF InFlight, Types
    <2>7. CASE chan' = chan
      BY <2>1, <2>2, <2>4, <2>5, <2>6, <2>7 DEF InFlight
    <2>8. CASE Enqueue(s)
      <3>1. /\ PushedOn(chan, chan', SubmitChan, sequenceCounter)
            /\ \A t \in Submitters : pc[t] # "count"
            /\ sequenceCounter' = sequenceCounter
        BY <2>8, EnqueueGives, Zenon
      <3>2. pc'[s] = "count"
        BY <2>8, Zenon DEF Enqueue, At, Types, SubmitTypes
      <3>3. nextSequence <= sequenceCounter
        BY <2>3, <3>1 DEF InFlight, Accepted
      <3>4. Fresh(sequenceCounter)'
        BY <2>2, <2>3, <3>1, <3>2, <3>3 DEF Fresh, Accepted
      <3>5. \A c \in Chans : \A i \in DOMAIN chan'[c] : Fresh(chan[c][i])'
        BY <2>1, <2>4, <3>1, <3>4 DEF PushedOn, InFlight
      <3> QED  BY <2>2, <2>5, <2>6, <3>5, Zenon DEF InFlight
    <2> QED  BY <1>3, <2>7, <2>8, SubmitSends, Zenon
  <1>4. ASSUME NEW w \in Workers, Pool(w) PROVE InFlight'
    <2>1. /\ UNCHANGED <<pending, nextSequence>>
          /\ \A n : (Fresh(n)' <=> Fresh(n)) /\ (Accepted(n)' <=> Accepted(n))
      BY <1>4, PoolFrame, Zenon DEF Fresh, Accepted
    <2>2. CASE Work(w)
      <3>1. Takes(w)
        BY <2>2, WorkTakes, Zenon
      <3>2. \A c \in Chans : \A i \in DOMAIN chan'[c] : Fresh(chan'[c][i])
        BY <3>1 DEF Takes, PoppedFrom, InFlight
      <3>3. \A v \in Workers : worker'[v] = "forward" => Fresh(item'[v])
        BY <3>1, ZenonT(40) DEF Takes, PoppedFrom, InFlight, Forwarding
      <3> QED  BY <2>1, <3>2, <3>3, Zenon DEF InFlight, Forwarding
    <2>3. CASE Forward(w)
      <3>1. Gives(w)
        BY <2>3, ForwardGives, Zenon
      <3>2. \A c \in Chans : \A i \in DOMAIN chan'[c] : Fresh(chan'[c][i])
        BY <3>1, Zenon DEF Gives, PushedOn, InFlight, Forwarding
      <3>3. \A v \in Workers : worker'[v] = "forward" => Fresh(item'[v])
        BY <3>1, Zenon DEF Gives, InFlight, Forwarding
      <3> QED  BY <2>1, <3>2, <3>3, Zenon DEF InFlight, Forwarding
    <2>4. CASE WorkerExit(w)
      <3>1. chan' = chan /\ \A v \in Workers : worker'[v] = "forward" => Fresh(item'[v])
        BY <2>4, Zenon DEF WorkerExit, InFlight, Forwarding, Types, PoolTypes
      <3> QED  BY <2>1, <3>1, Zenon DEF InFlight, Forwarding
    <2> QED  BY <1>4, <2>2, <2>3, <2>4, Zenon DEF Pool
  <1>5. CASE Runner
    <2>1. /\ UNCHANGED <<worker, item, pc, sequenceCounter>>
          /\ \A n : Accepted(n)' <=> Accepted(n)
      BY <1>5, RunnerFrame, Zenon DEF Accepted
    <2>2. /\ nextSequence \in Nat /\ pending \subseteq Nat
          /\ \A w \in Workers : Forwarding(w) => item[w] \in Nat
          /\ \A c \in Chans : \A i \in DOMAIN chan[c] : chan[c][i] \in Nat
      BY DEF Types, RunnerTypes, PoolTypes, Forwarding
    <2>3. CASE UNCHANGED <<chan, pending, nextSequence>>
      BY <2>1, <2>3, Zenon DEF InFlight, Forwarding, Fresh
    <2>4. CASE Receive
      <3> DEFINE c == ApplyInput
                 n == Head(chan[ApplyInput])
      <3>1. c \in Chans /\ PoppedFrom(chan, chan', c) /\ n = chan[c][1]
        BY <2>4, ReceiveTakes, Zenon
      <3>2. \/ UNCHANGED <<pending, nextSequence>>
            \/ pending' = pending /\ n = nextSequence /\ nextSequence' = nextSequence + 1
            \/ pending' = pending \cup {n} /\ nextSequence' = nextSequence
        BY <2>4, Zenon DEF Receive
      <3> HIDE DEF c, n
      <3>3. Fresh(n) /\ n \notin pending /\ n \in Nat
            /\ \A w \in Workers : Forwarding(w) => item[w] # n
        <4>1. 1 \in DOMAIN chan[c]
          BY <3>1, Zenon DEF PoppedFrom
        <4>2. Fresh(chan[c][1]) /\ chan[c][1] \notin pending /\ chan[c][1] \in Nat
              /\ \A w \in Workers : Forwarding(w) => item[w] # chan[c][1]
          <5>1. c \in Chans
            BY <3>1, Zenon
          <5> QED  BY <2>2, <4>1, <5>1 DEF InFlight, Apart
        <4> QED  BY <3>1, <4>2, Zenon
      <3>4. \A d \in Chans : \A i \in DOMAIN chan'[d] :
              chan'[d][i] \in Nat /\ Fresh(chan'[d][i]) /\ chan'[d][i] # n
        <4> SUFFICES ASSUME NEW d \in Chans, NEW i \in DOMAIN chan'[d]
                     PROVE chan'[d][i] \in Nat /\ Fresh(chan'[d][i]) /\ chan'[d][i] # n
          BY Zenon
        <4>1. PICK j \in DOMAIN chan[d] : chan'[d][i] = chan[d][j] /\ (d = c => j # 1)
          BY <3>1 DEF PoppedFrom
        <4>2. chan[d][j] # chan[c][1]
          BY <3>1, <4>1 DEF PoppedFrom, Apart
        <4>3. Fresh(chan[d][j]) /\ chan[d][j] \in Nat
          BY <2>2, Zenon DEF InFlight
        <4> QED  BY <3>1, <4>1, <4>2, <4>3, Zenon
      <3>5. CASE UNCHANGED <<pending, nextSequence>>
        BY <2>1, <3>4, <3>5, Zenon DEF InFlight, Forwarding, Fresh
      <3>6. CASE pending' = pending /\ n = nextSequence /\ nextSequence' = nextSequence + 1
        <4>1. \A m \in Nat : Fresh(m) /\ m # n => Fresh(m)'
          BY <2>1, <2>2, <3>6 DEF Fresh
        <4>2. Accepted(nextSequence - 1)'
          BY <2>1, <2>2, <3>3, <3>6 DEF Fresh
        <4> QED  BY <2>1, <2>2, <3>3, <3>4, <3>6, <4>1, <4>2, ZenonT(40) DEF InFlight, Forwarding
      <3>7. CASE pending' = pending \cup {n} /\ nextSequence' = nextSequence
        BY <2>1, <3>3, <3>4, <3>7, Zenon DEF InFlight, Forwarding, Fresh
      <3> QED  BY <3>2, <3>5, <3>6, <3>7, Zenon
    <2>5. CASE applyPending
      <3>1. \/ UNCHANGED <<pending, nextSequence>>
            \/ /\ pending' = pending \ {nextSequence} /\ nextSequence \in pending
               /\ nextSequence' = nextSequence + 1
        BY <2>5, Zenon DEF applyPending
      <3>2. chan' = chan
        BY <2>5, Zenon DEF applyPending
      <3>3. CASE UNCHANGED <<pending, nextSequence>>
        BY <2>1, <3>2, <3>3, Zenon DEF InFlight, Forwarding, Fresh
      <3>4. CASE /\ pending' = pending \ {nextSequence} /\ nextSequence \in pending
                 /\ nextSequence' = nextSequence + 1
        <4>1. \A m \in Nat : Fresh(m) /\ m # nextSequence => Fresh(m)'
          BY <2>1, <2>2, <3>4 DEF Fresh
        <4>2. Accepted(nextSequence - 1)'
          BY <2>1, <2>2, <3>4 DEF Fresh, InFlight
        <4>3. /\ \A c \in Chans : \A i \in DOMAIN chan[c] : chan[c][i] # nextSequence
              /\ \A w \in Workers : Forwarding(w) => item[w] # nextSequence
          BY <3>4 DEF Apart
        <4>4. \A c \in Chans : \A i \in DOMAIN chan'[c] : Fresh(chan[c][i])'
          <5>1. \A c \in Chans : \A i \in DOMAIN chan[c] :
                  chan[c][i] \in Nat /\ chan[c][i] # nextSequence /\ Fresh(chan[c][i])
            BY <2>2, <4>3, Zenon DEF InFlight
          <5>2. \A c \in Chans : \A i \in DOMAIN chan'[c] :
                  chan'[c][i] \in Nat /\ chan'[c][i] # nextSequence /\ Fresh(chan'[c][i])
            BY <3>2, <5>1, Zenon
          <5> QED  BY <4>1, <5>2, Zenon
        <4>5. \A w \in Workers : Forwarding(w)' => Fresh(item[w])'
          BY <2>1, <2>2, <4>1, <4>3, Zenon DEF InFlight, Forwarding
        <4>6. \A n \in pending' : Fresh(n)'
          <5>1. \A n \in pending' : n \in Nat /\ n # nextSequence /\ Fresh(n)
            <6>1. \A n \in pending : n \in Nat /\ Fresh(n)
              BY <2>2, ZenonT(40) DEF InFlight
            <6>2. \A n \in pending' : n \in pending /\ n # nextSequence
              BY <3>4, Zenon
            <6> QED  BY <6>1, <6>2, Zenon
          <5> QED  BY <4>1, <5>1, Zenon
        <4> QED  BY <4>2, <4>4, <4>5, <4>6, Zenon DEF InFlight
      <3> QED  BY <3>1, <3>3, <3>4, Zenon
    <2> QED  BY <1>5, <2>3, <2>4, <2>5, RunnerTakes, Zenon
  <1>6. CASE Results
    <2>1. UNCHANGED <<chan, worker, item, pending, nextSequence, sequenceCounter, pc>>
      BY <1>6, ResultsFrame, Zenon
    <2> QED  BY <2>1, Zenon DEF InFlight, Fresh, Accepted, Forwarding
  <1>7. ASSUME NEW d \in Drainers, Drain(d) PROVE InFlight'
    <2>1. UNCHANGED <<chan, worker, item, pending, nextSequence, sequenceCounter, pc>>
      BY <1>7, DrainFrame, Zenon
    <2> QED  BY <2>1, Zenon DEF InFlight, Fresh, Accepted, Forwarding
  <1>8. CASE StopNext
    <2>1. UNCHANGED <<chan, worker, item, pending, nextSequence, sequenceCounter, pc>>
      BY <1>8, StopNextFrame, Zenon
    <2> QED  BY <2>1, Zenon DEF InFlight, Fresh, Accepted, Forwarding
  <1>9. CASE UNCHANGED vars
    <2>1. UNCHANGED <<chan, worker, item, pending, nextSequence, sequenceCounter, pc>>
      BY <1>9, StutterFrame, Zenon
    <2> QED  BY <2>1, Zenon DEF InFlight, Fresh, Accepted, Forwarding
  <1> QED
    BY <1>1, <1>2, <1>3, <1>4, <1>5, <1>6, <1>7, <1>8, <1>9, ZenonT(40)
       DEF Next, StopNext, Ended

\* An item moves from one place to the next one.
LEMMA ApartStep ==
    Types /\ GateHeld /\ InFlight /\ Apart /\ [Next]_vars => Apart'
  <1> SUFFICES ASSUME Types, GateHeld, InFlight, Apart, [Next]_vars PROVE Apart'
    BY Zenon
  <1> Workers' = Workers
    BY Fixed, Zenon
  <1>1. CASE Start
    <2>1. UNCHANGED <<chan, worker, item, pending>>
      BY <1>1, StartFrame, Zenon
    <2> QED  BY <2>1 DEF Apart, Forwarding
  <1>2. ASSUME NEW x \in Submitters \cup Drainers, CancelCaller(x) PROVE Apart'
    <2>1. UNCHANGED <<chan, worker, item, pending>>
      BY <1>2, CancelCallerFrame, Zenon
    <2> QED  BY <2>1 DEF Apart, Forwarding
  <1>3. ASSUME NEW s \in Submitters, Submit(s) PROVE Apart'
    <2>1. UNCHANGED <<worker, item, pending>>
      BY <1>3, SubmitFrame, Zenon
    <2>2. CASE chan' = chan
      BY <2>1, <2>2 DEF Apart, Forwarding
    <2>3. CASE Enqueue(s)
      <3> DEFINE n == sequenceCounter
      <3>1. /\ PushedOn(chan, chan', SubmitChan, n)
            /\ \A t \in Submitters : pc[t] # "count"
        BY <2>3, EnqueueGives, Zenon
      <3>2. /\ \A c \in Chans : \A i \in DOMAIN chan[c] : chan[c][i] # n
            /\ \A w \in Workers : Forwarding(w) => item[w] # n
            /\ n \notin pending
        BY <3>1, Zenon DEF InFlight, Fresh, Accepted
      <3> HIDE DEF n
      <3> QED  BY <2>1, <3>1, <3>2 DEF PushedOn, Apart, Forwarding
    <2> QED  BY <1>3, <2>2, <2>3, SubmitSends, Zenon
  <1>4. ASSUME NEW w \in Workers, Pool(w) PROVE Apart'
    <2>1. pending' = pending
      BY <1>4, PoolFrame, Zenon
    <2>2. CASE Work(w)
      <3> DEFINE c == Input(w)
                 n == item'[w]
      <3>1. Takes(w)
        BY <2>2, WorkTakes, Zenon
      <3>2. \A d \in Chans : \A i \in DOMAIN chan'[d] :
              \E j \in DOMAIN chan[d] :
                 chan'[d][i] = chan[d][j] /\ j = (IF d = c THEN i + 1 ELSE i)
        BY <3>1, ZenonT(40) DEF Takes, PoppedFrom
      <3>3. c \in Chans /\ 1 \in DOMAIN chan[c] /\ n = chan[c][1]
            /\ \A i \in DOMAIN chan'[c] : i \in Nat \ {0}
        BY <3>1, Zenon DEF Takes, PoppedFrom
      <3>4. \A v \in Workers : worker'[v] = "forward" =>
              v = w \/ (Forwarding(v) /\ item'[v] = item[v])
        BY <3>1, Zenon DEF Takes, Forwarding
      <3>5. ~Forwarding(w)
        BY <3>1, Zenon DEF Takes, Forwarding
      <3> HIDE DEF c, n
      <3>6. \A d, e \in Chans : \A i \in DOMAIN chan'[d], j \in DOMAIN chan'[e] :
              chan'[d][i] = chan'[e][j] => d = e /\ i = j
        BY <3>2, <3>3 DEF Apart
      <3>7. \A d \in Chans : \A i \in DOMAIN chan'[d] :
              chan'[d][i] # n /\ chan'[d][i] \notin pending
              /\ \A v \in Workers : Forwarding(v) => item[v] # chan'[d][i]
        BY <3>2, <3>3 DEF Apart
      <3>8. n \notin pending /\ \A v \in Workers : Forwarding(v) => item[v] # n
        BY <3>3 DEF Apart
      <3>9. \A v \in Workers : item'[v] = IF v = w THEN n ELSE item[v]
        BY <3>1, Zenon DEF Takes, n
      <3>10. \A u, v \in Workers :
               worker'[u] = "forward" /\ worker'[v] = "forward" /\ item'[u] = item'[v] => u = v
        BY <3>4, <3>8, <3>9, ZenonT(40) DEF Apart
      <3>11. \A v \in Workers : \A d \in Chans : \A i \in DOMAIN chan'[d] :
               worker'[v] = "forward" => item'[v] # chan'[d][i]
        BY <3>4, <3>7, <3>9
      <3>12. \A v \in Workers : worker'[v] = "forward" => item'[v] \notin pending
        BY <3>4, <3>8, <3>9, Zenon DEF Apart
      <3> QED  BY <2>1, <3>6, <3>7, <3>10, <3>11, <3>12, ZenonT(40) DEF Apart, Forwarding
    <2>3. CASE Forward(w)
      <3>1. Gives(w)
        BY <2>3, ForwardGives, Zenon
      <3>2. \A v \in Workers : worker'[v] = "forward" =>
              v # w /\ Forwarding(v) /\ item'[v] = item[v]
        BY <3>1, Zenon DEF Gives, Forwarding
      <3>3. /\ \A d \in Chans : \A i \in DOMAIN chan[d] : chan[d][i] # item[w]
            /\ item[w] \notin pending
            /\ \A v \in Workers \ {w} : Forwarding(v) => item[v] # item[w]
        BY <3>1 DEF Gives, Forwarding, Apart
      <3>4. PushedOn(chan, chan', Input(w) + 1, item[w])
        BY <3>1, Zenon DEF Gives
      <3> QED  BY <2>1, <3>2, <3>3, <3>4 DEF PushedOn, Apart, Forwarding
    <2>4. CASE WorkerExit(w)
      <3>1. chan' = chan /\ \A v \in Workers :
              worker'[v] = "forward" => Forwarding(v) /\ item'[v] = item[v]
        BY <2>4, Zenon DEF WorkerExit, Forwarding, Types, PoolTypes
      <3> QED  BY <2>1, <3>1 DEF Apart, Forwarding
    <2> QED  BY <1>4, <2>2, <2>3, <2>4, Zenon DEF Pool
  <1>5. CASE Runner
    <2>1. UNCHANGED <<worker, item>>
      BY <1>5, RunnerFrame, ZenonT(40)
    <2>2. CASE UNCHANGED <<chan, pending, nextSequence>>
      BY <2>1, <2>2 DEF Apart, Forwarding
    <2>3. CASE Receive
      <3> DEFINE c == ApplyInput
                 n == Head(chan[ApplyInput])
      <3>1. c \in Chans /\ PoppedFrom(chan, chan', c) /\ n = chan[c][1]
        BY <2>3, ReceiveTakes, ZenonT(40)
      <3>2. pending' \subseteq pending \cup {n}
        BY <2>3, ZenonT(40) DEF Receive
      <3> HIDE DEF c, n
      <3>3. \A d \in Chans : \A i \in DOMAIN chan'[d] :
              \E j \in DOMAIN chan[d] :
                 chan'[d][i] = chan[d][j] /\ j = (IF d = c THEN i + 1 ELSE i)
        BY <3>1, ZenonT(40) DEF PoppedFrom
      <3>4. 1 \in DOMAIN chan[c] /\ \A i \in DOMAIN chan'[c] : i \in Nat \ {0}
        BY <3>1, Zenon DEF PoppedFrom
      <3>5. \A d, e \in Chans : \A i \in DOMAIN chan'[d], j \in DOMAIN chan'[e] :
              chan'[d][i] = chan'[e][j] => d = e /\ i = j
        BY <3>3, <3>4, <3>1 DEF Apart
      <3>6. \A d \in Chans : \A i \in DOMAIN chan'[d] :
              chan'[d][i] # n /\ chan'[d][i] \notin pending
              /\ \A v \in Workers : Forwarding(v) => item[v] # chan'[d][i]
        BY <3>3, <3>4, <3>1 DEF Apart
      <3>7. \A v \in Workers : Forwarding(v) => item[v] # n
        BY <3>1, <3>4 DEF Apart
      <3> QED  BY <2>1, <3>2, <3>5, <3>6, <3>7 DEF Apart, Forwarding
    <2>4. CASE applyPending
      <3>1. chan' = chan /\ pending' \subseteq pending
        BY <2>4, ZenonT(40) DEF applyPending
      <3> QED  BY <2>1, <3>1 DEF Apart, Forwarding
    <2> QED  BY <1>5, <2>2, <2>3, <2>4, RunnerTakes, ZenonT(40)
  <1>6. CASE Results
    <2>1. UNCHANGED <<chan, worker, item, pending>>
      BY <1>6, ResultsFrame, ZenonT(40)
    <2> QED  BY <2>1 DEF Apart, Forwarding
  <1>7. ASSUME NEW d \in Drainers, Drain(d) PROVE Apart'
    <2>1. UNCHANGED <<chan, worker, item, pending>>
      BY <1>7, DrainFrame, Zenon
    <2> QED  BY <2>1 DEF Apart, Forwarding
  <1>8. CASE StopNext
    <2>1. UNCHANGED <<chan, worker, item, pending>>
      BY <1>8, StopNextFrame, ZenonT(40)
    <2> QED  BY <2>1 DEF Apart, Forwarding
  <1>9. CASE UNCHANGED vars
    <2>1. UNCHANGED <<chan, worker, item, pending>>
      BY <1>9, StutterFrame, ZenonT(40)
    <2> QED  BY <2>1 DEF Apart, Forwarding
  <1> QED
    BY <1>1, <1>2, <1>3, <1>4, <1>5, <1>6, <1>7, <1>8, <1>9, ZenonT(40)
       DEF Next, StopNext, Ended

-----------------------------------------------------------------------------
(***************************************************************************)
(* What the stages find, and the order in which the runner goes on.        *)
(***************************************************************************)
\* A cancelled pipeline stays cancelled.
LEMMA CtxStays ==
    ASSUME LifeTypes, [Next]_vars, ctxDone PROVE ctxDone'
  <1>1. CASE Runner
    BY <1>1, ZenonT(40) DEF Runner, Receive, maybeApply, applyItem, applyPending, StoreCompleted,
       WakeWaiters, setFatalError, CancelAfterFailure, SendResult, ResultsFull, SendDone,
       RunnerExit, Idles
  <1>2. CASE StopNext
    BY <1>2, ZenonT(40) DEF StopNext, ParentCancelled, StopBegins, StopOn, StopCancels, StopCloses,
       StopPool, StopApplied, StopReturns
  <1>3. CASE UNCHANGED vars
    BY <1>3, StutterFrame, ZenonT(40)
  <1> QED
    BY <1>1, <1>2, <1>3, StartFrame, CancelCallerFrame, SubmitFrame, PoolFrame,
       ResultsFrame, DrainFrame, ZenonT(40) DEF Next, StopNext, Ended

\* Every number in flight has a verdict.
LEMMA AcceptedInRange ==
    ASSUME Types, InRange, NEW n \in Nat, Accepted(n) PROVE n \in Seqs
  <1>1. n \in 0..sequenceCounter
    BY DEF Accepted, Types, SubmitTypes
  <1> QED  BY <1>1, ZenonT(40) DEF InRange

\* So have all that are in flight, and those the runner has taken.
LEMMA FlightInRange ==
    ASSUME Types, InRange, InFlight
    PROVE  /\ \A c \in Chans : \A i \in DOMAIN chan[c] :
                chan[c][i] \in Seqs /\ nextSequence <= chan[c][i]
           /\ \A w \in Workers : Forwarding(w) => item[w] \in Seqs
           /\ pending \subseteq Seqs
           /\ \A n \in 0..(nextSequence - 1) : n \in Seqs
  <1>1. \A c \in Chans : \A i \in DOMAIN chan[c] : chan[c][i] \in Nat
    BY DEF Types, PoolTypes
  <1>2. \A w \in Workers : Forwarding(w) => item[w] \in Nat
    BY Zenon DEF Types, PoolTypes, Forwarding
  <1>3. pending \subseteq Nat /\ nextSequence \in Nat /\ sequenceCounter \in Nat
    BY Zenon DEF Types, RunnerTypes, SubmitTypes
  <1>4. \A c \in Chans : \A i \in DOMAIN chan[c] :
          Accepted(chan[c][i]) /\ nextSequence <= chan[c][i]
    BY Zenon DEF InFlight, Fresh
  <1>5. \A w \in Workers : Forwarding(w) => Accepted(item[w])
    BY Zenon DEF InFlight, Fresh
  <1>6. \A n \in pending : Accepted(n)
    BY Zenon DEF InFlight, Fresh
  <1>7. \A n \in 0..(nextSequence - 1) : n \in Seqs
    <2>1. nextSequence > 0 => nextSequence - 1 <= sequenceCounter
      BY <1>3, ZenonT(40) DEF InFlight, Accepted
    <2>2. \A n \in 0..sequenceCounter : n \in Seqs
      BY Zenon DEF InRange
    <2> QED  BY <1>3, <2>1, <2>2
  <1> QED  BY <1>1, <1>2, <1>3, <1>4, <1>5, <1>6, <1>7, AcceptedInRange, Zenon

\* Blocks are accepted by a pipeline whose configuration Start has checked.
LEMMA ConfigChecked ==
    ASSUME Types, GateHeld, NEW n \in Nat, Accepted(n)
    PROVE  /\ config.trusted => ~config.validating
           /\ ~config.trusted => config.validating
           /\ config.applyFunc => Applies
  <1>1. started
    BY DEF GateHeld, Accepted, Types, SubmitTypes
  <1>2. ~Refused(config)
    BY <1>1, Zenon DEF GateHeld
  <1> QED  BY <1>2, ZenonT(40) DEF Refused, Applies

\* Work changes the verdict of the item it takes, and no other one.
LEMMA WorkFinds ==
    ASSUME Types, InRange, InFlight, NEW w \in Workers, w \in Running, Work(w)
    PROVE  \E n \in Seqs :
             /\ n = chan[Input(w)][1] /\ nextSequence <= n
             /\ \A m \in Seqs \ {n} : verdict'[m] = verdict[m]
             /\ ctxDone => verdict'[n] = verdict[n]
             /\ ~ctxDone /\ Input(w) = SubmitChan => verdict'[n] # "raw"
             /\ ~ctxDone /\ verdict[n] # "raw" => verdict'[n] # "raw"
             /\ ~config.validating /\ verdict[n] \notin {"valid", "validationError"}
                  => verdict'[n] \notin {"valid", "validationError"}
  <1> DEFINE n == Head(chan[Input(w)])
  <1>1. Takes(w)
    BY WorkTakes, ZenonT(40)
  <1>2. n = chan[Input(w)][1] /\ Input(w) \in Chans /\ 1 \in DOMAIN chan[Input(w)]
    BY <1>1 DEF Takes, PoppedFrom
  <1>3. n \in Seqs /\ nextSequence <= n
    BY <1>2, FlightInRange, Zenon
  <1>4. PICK found \in Process(w, verdict[n]) : verdict' = [verdict EXCEPT ![n] = found]
    BY ZenonT(40) DEF Work
  <1> HIDE DEF n
  <1>5. verdict \in [Seqs -> Verdicts]
    BY ZenonT(40) DEF Types, PoolTypes
  <1>6. verdict'[n] = found /\ \A m \in Seqs \ {n} : verdict'[m] = verdict[m]
    BY <1>3, <1>4, <1>5, ZenonT(40)
  <1>7. ctxDone => found = verdict[n]
    BY <1>4, ZenonT(40) DEF Process
  <1>8. ~ctxDone /\ Input(w) = SubmitChan => found # "raw"
    BY <1>4 DEF Process, Decoding, Finds, Input, SubmitChan, DecodedChan
  <1>9. ~ctxDone /\ verdict[n] # "raw" => found # "raw"
    BY <1>4, ZenonT(40) DEF Process, Decoding, Validating, Finds
  <1>10. ~config.validating /\ verdict[n] \notin {"valid", "validationError"}
           => found \notin {"valid", "validationError"}
    BY <1>4, ZenonT(40) DEF Process, Decoding, Finds, Running
  <1> QED  BY <1>2, <1>3, <1>6, <1>7, <1>8, <1>9, <1>10, Zenon

\* Every worker resolves its item before it forwards it.
LEMMA ResolvedStep ==
    Types /\ InRange /\ InFlight /\ Apart /\ Resolved /\ [Next]_vars => Resolved'
  <1> SUFFICES ASSUME Types, InRange, InFlight, Apart, Resolved, [Next]_vars PROVE Resolved'
    BY Zenon
  <1> Workers' = Workers /\ Seqs' = Seqs /\ config' = config
    BY Fixed, ZenonT(40)
  <1>1. CASE Start
    <2>1. UNCHANGED <<chan, worker, item, verdict, pending, ctxDone>>
      BY <1>1, StartFrame, ZenonT(40)
    <2> QED  BY <2>1, Zenon DEF Resolved, Forwarding
  <1>2. ASSUME NEW x \in Submitters \cup Drainers, CancelCaller(x) PROVE Resolved'
    <2>1. UNCHANGED <<chan, worker, item, verdict, pending, ctxDone>>
      BY <1>2, CancelCallerFrame, ZenonT(40)
    <2> QED  BY <2>1, ZenonT(40) DEF Resolved, Forwarding
  <1>3. ASSUME NEW s \in Submitters, Submit(s) PROVE Resolved'
    <2>1. UNCHANGED <<worker, item, pending, verdict, ctxDone>>
      BY <1>3, SubmitFrame, ZenonT(40)
    <2>2. \A c \in {DecodedChan, ValidatedChan} : chan'[c] = chan[c]
      <3>1. CASE chan' = chan
        BY <3>1, Zenon
      <3>2. CASE Enqueue(s)
        BY <3>2 DEF Enqueue, Types, PoolTypes, Chans, SubmitChan, DecodedChan, ValidatedChan
      <3> QED  BY <1>3, <3>1, <3>2, SubmitSends, ZenonT(40)
    <2> QED  BY <2>1, <2>2, ZenonT(40) DEF Resolved, Forwarding
  <1>4. ASSUME NEW w \in Workers, Pool(w) PROVE Resolved'
    <2>1. UNCHANGED <<pending, ctxDone>> /\ w \in Running
      BY <1>4, PoolFrame, Zenon DEF Pool
    <2>2. CASE Work(w)
      <3>1. Takes(w)
        BY <2>2, WorkTakes, ZenonT(40)
      <3>2. PICK n \in Seqs :
             /\ n = chan[Input(w)][1]
             /\ \A m \in Seqs \ {n} : verdict'[m] = verdict[m]
             /\ ~ctxDone /\ Input(w) = SubmitChan => verdict'[n] # "raw"
             /\ ~ctxDone /\ verdict[n] # "raw" => verdict'[n] # "raw"
             /\ ~config.validating /\ verdict[n] \notin {"valid", "validationError"}
                  => verdict'[n] \notin {"valid", "validationError"}
        BY <2>1, <2>2, WorkFinds, ZenonT(40)
      <3>3. ~config.validating => \A m \in Seqs : verdict'[m] \notin {"valid", "validationError"}
        BY <3>2, ZenonT(40) DEF Resolved
      <3>4. ASSUME ~ctxDone
            PROVE  /\ \A c \in {DecodedChan, ValidatedChan} : \A i \in DOMAIN chan'[c] :
                        verdict'[chan'[c][i]] # "raw"
                   /\ \A v \in Workers : worker'[v] = "forward" => verdict'[item'[v]] # "raw"
                   /\ \A m \in pending : verdict'[m] # "raw"
        <4>1. \A m \in Seqs : verdict[m] # "raw" => verdict'[m] # "raw"
          BY <3>2, <3>4, Zenon
        <4>2. Input(w) \in Chans /\ 1 \in DOMAIN chan[Input(w)] /\ Input(w) \in {SubmitChan, DecodedChan}
          BY <3>1, HereFacts, ZenonT(40) DEF Takes, PoppedFrom
        <4>3. Input(w) = DecodedChan => verdict[chan[Input(w)][1]] # "raw"
          BY <3>4, <4>2, ZenonT(40) DEF Resolved
        <4>4. verdict'[n] # "raw"
          BY <3>2, <3>4, <4>2, <4>3, ZenonT(40)
        <4>5. \A c \in {DecodedChan, ValidatedChan} : \A i \in DOMAIN chan[c] :
                chan[c][i] \in Seqs /\ verdict[chan[c][i]] # "raw"
          BY <3>4, FlightInRange DEF Resolved, Chans, SubmitChan, DecodedChan, ValidatedChan
        <4>6. \A c \in {DecodedChan, ValidatedChan} : \A i \in DOMAIN chan[c] :
                verdict'[chan[c][i]] # "raw"
          BY <4>1, <4>5, Zenon
        <4>7. \A c \in {DecodedChan, ValidatedChan} : \A i \in DOMAIN chan'[c] :
                \E j \in DOMAIN chan[c] : chan'[c][i] = chan[c][j]
          BY <3>1 DEF Takes, PoppedFrom, Chans, SubmitChan, DecodedChan, ValidatedChan
        <4>8. \A v \in Workers : Forwarding(v) => verdict'[item[v]] # "raw"
          BY <3>4, <4>1, FlightInRange, Zenon DEF Resolved
        <4>9. \A v \in Workers : worker'[v] = "forward" => verdict'[item'[v]] # "raw"
          BY <3>1, <3>2, <4>4, <4>8, ZenonT(40) DEF Takes, Forwarding
        <4>10. \A m \in pending : verdict'[m] # "raw"
          BY <3>4, <4>1, FlightInRange, Zenon DEF Resolved
        <4> QED  BY <4>6, <4>7, <4>9, <4>10
      <3> QED  BY <2>1, <3>3, <3>4, ZenonT(40) DEF Resolved, Forwarding
    <2>3. CASE Forward(w)
      <3>1. Gives(w)
        BY <2>3, ForwardGives, Zenon
      <3>3. verdict' = verdict
        BY <2>3, Zenon DEF Forward
      <3>2. \A c \in {DecodedChan, ValidatedChan} : c \in Chans
        BY DEF Chans, SubmitChan, DecodedChan, ValidatedChan
      <3> QED  BY <2>1, <3>1, <3>2, <3>3 DEF Resolved, Forwarding, Gives, PushedOn
    <2>4. CASE WorkerExit(w)
      <3>1. UNCHANGED <<chan, verdict>> /\ \A v \in Workers :
              worker'[v] = "forward" => Forwarding(v) /\ item'[v] = item[v]
        BY <2>4, Zenon DEF WorkerExit, Forwarding, Types, PoolTypes
      <3> QED  BY <2>1, <3>1 DEF Resolved, Forwarding
    <2> QED  BY <1>4, <2>2, <2>3, <2>4, Zenon DEF Pool
  <1>5. CASE Runner
    <2>1. UNCHANGED <<worker, item, verdict>>
      BY <1>5, RunnerFrame, ZenonT(40)
    <2>2. ctxDone => ctxDone'
      BY CtxStays, ZenonT(40) DEF Types
    <2>3. CASE UNCHANGED <<chan, pending, nextSequence>>
      BY <2>1, <2>2, <2>3, ZenonT(40) DEF Resolved, Forwarding
    <2>4. CASE Receive
      <3>1. /\ ApplyInput \in {DecodedChan, ValidatedChan}
            /\ PoppedFrom(chan, chan', ApplyInput)
            /\ Head(chan[ApplyInput]) = chan[ApplyInput][1]
        BY <2>4, ReceiveTakes, Zenon
      <3>2. pending' \subseteq pending \cup {Head(chan[ApplyInput])}
        BY <2>4, ZenonT(40) DEF Receive
      <3>3. \A c \in {DecodedChan, ValidatedChan} : c \in Chans
        BY DEF Chans, SubmitChan, DecodedChan, ValidatedChan
      <3>4. \A c \in {DecodedChan, ValidatedChan} : \A i \in DOMAIN chan'[c] :
                \E j \in DOMAIN chan[c] : chan'[c][i] = chan[c][j]
        BY <3>1, <3>3 DEF PoppedFrom
      <3>5. ~ctxDone => verdict[Head(chan[ApplyInput])] # "raw"
        BY <3>1 DEF Resolved, PoppedFrom
      <3> QED  BY <2>1, <2>2, <3>2, <3>4, <3>5 DEF Resolved, Forwarding
    <2>5. CASE applyPending
      <3>1. chan' = chan /\ pending' \subseteq pending
        BY <2>5, ZenonT(40) DEF applyPending
      <3> QED  BY <2>1, <2>2, <3>1, ZenonT(40) DEF Resolved, Forwarding
    <2> QED  BY <1>5, <2>3, <2>4, <2>5, RunnerTakes, ZenonT(40)
  <1>6. CASE Results
    <2>1. UNCHANGED <<chan, worker, item, verdict, pending, ctxDone>>
      BY <1>6, ResultsFrame, ZenonT(40)
    <2> QED  BY <2>1, Zenon DEF Resolved, Forwarding
  <1>7. ASSUME NEW d \in Drainers, Drain(d) PROVE Resolved'
    <2>1. UNCHANGED <<chan, worker, item, verdict, pending, ctxDone>>
      BY <1>7, DrainFrame, ZenonT(40)
    <2> QED  BY <2>1, ZenonT(40) DEF Resolved, Forwarding
  <1>8. CASE StopNext
    <2>1. UNCHANGED <<chan, worker, item, verdict, pending>>
      BY <1>8, StopNextFrame, ZenonT(40)
    <2>2. ctxDone => ctxDone'
      BY CtxStays, Zenon DEF Types
    <2> QED  BY <2>1, <2>2, ZenonT(40) DEF Resolved, Forwarding
  <1>9. CASE UNCHANGED vars
    <2>1. UNCHANGED <<chan, worker, item, verdict, pending, ctxDone>>
      BY <1>9, StutterFrame, ZenonT(40)
    <2> QED  BY <2>1, Zenon DEF Resolved, Forwarding
  <1> QED
    BY <1>1, <1>2, <1>3, <1>4, <1>5, <1>6, <1>7, <1>8, <1>9, ZenonT(40)
       DEF Next, StopNext, Ended

\* Numbered sequences grow and shrink like queues.
LEMMA NumberedQueue ==
    ASSUME NEW q \in Seq(Nat), NEW from \in Nat, Numbered(q, from)
    PROVE  /\ Numbered(Append(q, from + Len(q)), from)
           /\ q # <<>> => /\ Head(q) = from /\ Numbered(Tail(q), from + 1)
                          /\ q[Len(q)] = from + Len(q) - 1
  <1>1. Numbered(Append(q, from + Len(q)), from)
    BY DEF Numbered
  <1>2. q # <<>> => Numbered(Tail(q), from + 1)
    BY DEF Numbered
  <1>3. q # <<>> => Head(q) = from /\ q[Len(q)] = from + Len(q) - 1
    BY DEF Numbered
  <1> QED  BY <1>1, <1>2, <1>3, ZenonT(40)

\* They can be joined.
LEMMA NumberedJoin ==
    ASSUME NEW p \in Seq(Nat), NEW q \in Seq(Nat), NEW from \in Nat,
           Numbered(p, from), Numbered(q, from + Len(p))
    PROVE  Numbered(p \o q, from)
  BY DEF Numbered

\* The empty one is numbered from anywhere.
LEMMA NumberedEmpty == ASSUME NEW from PROVE Numbered(<<>>, from)
  BY DEF Numbered

\* The lengths of the queues.
LEMMA Lengths ==
    ASSUME Types
    PROVE  /\ Len(delivered) \in Nat /\ Len(resultsQueue) \in Nat /\ Len(batch) \in Nat
           /\ Len(applied) \in Nat
           /\ Handed \in Nat /\ Sent \in Nat /\ Processed \in Nat
           /\ Sent = Handed + Len(resultsQueue) /\ Processed = Sent + Len(batch)
           /\ Handed = IF forwarder = "hand" THEN Len(delivered) + 1 ELSE Len(delivered)
           /\ nextSequence \in Nat /\ completedSequence \in Nat /\ cur \in Int
  BY DEF Types, RunnerTypes, ResultTypes, Handed, Sent, Processed

\* Batches, the queue and the consumer hand the numbers on in one line.
LEMMA InLineStep ==
    Types /\ KeepsUp /\ InLine /\ [Next]_vars => InLine'
  <1> SUFFICES ASSUME Types, KeepsUp, InLine, [Next]_vars PROVE InLine'
    BY Zenon
  <1>1. CASE Start
    <2>1. UNCHANGED <<delivered, forwarder, handing, resultsQueue, batch>>
      BY <1>1, StartFrame, ZenonT(40)
    <2> QED  BY <2>1, Zenon DEF InLine, Handed, Sent
  <1>2. ASSUME NEW x \in Submitters \cup Drainers, CancelCaller(x) PROVE InLine'
    <2>1. UNCHANGED <<delivered, forwarder, handing, resultsQueue, batch>>
      BY <1>2, CancelCallerFrame, ZenonT(40)
    <2> QED  BY <2>1, Zenon DEF InLine, Handed, Sent
  <1>3. ASSUME NEW s \in Submitters, Submit(s) PROVE InLine'
    <2>1. UNCHANGED <<delivered, forwarder, handing, resultsQueue, batch>>
      BY <1>3, SubmitFrame, ZenonT(40)
    <2> QED  BY <2>1, ZenonT(40) DEF InLine, Handed, Sent
  <1>4. ASSUME NEW w \in Workers, Pool(w) PROVE InLine'
    <2>1. UNCHANGED <<delivered, forwarder, handing, resultsQueue, batch>>
      BY <1>4, PoolFrame, ZenonT(40)
    <2> QED  BY <2>1, ZenonT(40) DEF InLine, Handed, Sent
  <1>5. CASE Receive
    <2>0. /\ delivered \in Seq(Nat) /\ resultsQueue \in Seq(Nat) /\ batch \in Seq(Nat)
          /\ Handed \in Nat /\ Sent \in Nat
      BY Lengths, ZenonT(40) DEF Types, RunnerTypes, ResultTypes
    <2>1. UNCHANGED <<delivered, forwarder, handing, resultsQueue>>
      BY <1>5, RunnerFrame, ZenonT(40) DEF Runner, Receive
    <2>2. batch' = batch \/ batch' = <<>>
      BY <1>5, ZenonT(40) DEF Receive, Ends
    <2>3. Handed' = Handed /\ Sent' = Sent
      BY <2>1, ZenonT(40) DEF Handed, Sent
    <2>4. Numbered(batch, Sent)
      BY DEF InLine
    <2>5. runner \in {"check", "apply"} => cur = Sent + Len(batch)
      BY Lengths, ZenonT(40) DEF KeepsUp
    <2>6. Numbered(batch', Sent')
      BY <2>2, <2>3, <2>4, NumberedEmpty, ZenonT(40)
    <2> QED  BY <2>1, <2>3, <2>6, ZenonT(40) DEF InLine
  <1>6. CASE maybeApply
    <2>0. /\ delivered \in Seq(Nat) /\ resultsQueue \in Seq(Nat) /\ batch \in Seq(Nat)
          /\ Handed \in Nat /\ Sent \in Nat
      BY Lengths, Zenon DEF Types, RunnerTypes, ResultTypes
    <2>1. UNCHANGED <<delivered, forwarder, handing, resultsQueue>>
      BY <1>6, RunnerFrame, ZenonT(40) DEF Runner, maybeApply
    <2>2. batch' = batch \/ batch' = Append(batch, cur)
      BY <1>6, ZenonT(40) DEF maybeApply, Ends
    <2>3. Handed' = Handed /\ Sent' = Sent
      BY <2>1, Zenon DEF Handed, Sent
    <2>4. Numbered(batch, Sent)
      BY ZenonT(40) DEF InLine
    <2>5. runner \in {"check", "apply"} => cur = Sent + Len(batch)
      BY Lengths, Zenon DEF KeepsUp
    <2>6. Numbered(batch', Sent')
      <3>1. runner \in {"check", "apply"}
        BY <1>6, ZenonT(40) DEF maybeApply
      <3>2. Numbered(Append(batch, cur), Sent)
        BY <2>0, <2>4, <2>5, <3>1, NumberedQueue, ZenonT(40)
      <3>3. CASE batch' = batch
        BY <2>3, <2>4, <3>3, ZenonT(40)
      <3>4. CASE batch' = Append(batch, cur)
        BY <2>3, <3>2, <3>4, ZenonT(40)
      <3> QED  BY <2>2, <3>3, <3>4, ZenonT(40)
    <2> QED  BY <2>1, <2>3, <2>6, Zenon DEF InLine
  <1>7. CASE applyItem
    <2>0. /\ delivered \in Seq(Nat) /\ resultsQueue \in Seq(Nat) /\ batch \in Seq(Nat)
          /\ Handed \in Nat /\ Sent \in Nat
      BY Lengths, Zenon DEF Types, RunnerTypes, ResultTypes
    <2>1. UNCHANGED <<delivered, forwarder, handing, resultsQueue>>
      BY <1>7, RunnerFrame, ZenonT(40) DEF Runner, applyItem
    <2>2. batch' = batch \/ batch' = Append(batch, cur)
      BY <1>7, ZenonT(40) DEF applyItem, Ends
    <2>3. Handed' = Handed /\ Sent' = Sent
      BY <2>1, Zenon DEF Handed, Sent
    <2>4. Numbered(batch, Sent)
      BY Zenon DEF InLine
    <2>5. runner \in {"check", "apply"} => cur = Sent + Len(batch)
      BY Lengths, Zenon DEF KeepsUp
    <2>6. Numbered(batch', Sent')
      <3>1. runner \in {"check", "apply"}
        BY <1>7, ZenonT(40) DEF applyItem
      <3>2. Numbered(Append(batch, cur), Sent)
        BY <2>0, <2>4, <2>5, <3>1, NumberedQueue, Zenon
      <3>3. CASE batch' = batch
        BY <2>3, <2>4, <3>3, Zenon
      <3>4. CASE batch' = Append(batch, cur)
        BY <2>3, <3>2, <3>4, Zenon
      <3> QED  BY <2>2, <3>3, <3>4, Zenon
    <2> QED  BY <2>1, <2>3, <2>6, Zenon DEF InLine
  <1>8. CASE applyPending
    <2>0. /\ delivered \in Seq(Nat) /\ resultsQueue \in Seq(Nat) /\ batch \in Seq(Nat)
          /\ Handed \in Nat /\ Sent \in Nat
      BY Lengths, Zenon DEF Types, RunnerTypes, ResultTypes
    <2>1. UNCHANGED <<delivered, forwarder, handing, resultsQueue>>
      BY <1>8, RunnerFrame, ZenonT(40) DEF Runner, applyPending
    <2>2. batch' = batch
      BY <1>8, ZenonT(40) DEF applyPending, Ends
    <2>3. Handed' = Handed /\ Sent' = Sent
      BY <2>1, Zenon DEF Handed, Sent
    <2>4. Numbered(batch, Sent)
      BY Zenon DEF InLine
    <2>5. runner \in {"check", "apply"} => cur = Sent + Len(batch)
      BY Lengths, Zenon DEF KeepsUp
    <2>6. Numbered(batch', Sent')
      BY <2>2, <2>3, <2>4, NumberedEmpty, ZenonT(40)
    <2> QED  BY <2>1, <2>3, <2>6, Zenon DEF InLine
  <1>9. CASE StoreCompleted
    <2>1. UNCHANGED <<delivered, forwarder, handing, resultsQueue, batch>>
      BY <1>9, RunnerFrame, ZenonT(40) DEF Runner, StoreCompleted
    <2> QED  BY <2>1, Zenon DEF InLine, Handed, Sent
  <1>10. CASE WakeWaiters
    <2>1. UNCHANGED <<delivered, forwarder, handing, resultsQueue, batch>>
      BY <1>10, RunnerFrame, ZenonT(40) DEF Runner, WakeWaiters
    <2> QED  BY <2>1, Zenon DEF InLine, Handed, Sent
  <1>11. CASE setFatalError
    <2>1. UNCHANGED <<delivered, forwarder, handing, resultsQueue, batch>>
      BY <1>11, RunnerFrame, ZenonT(40) DEF Runner, setFatalError
    <2> QED  BY <2>1, Zenon DEF InLine, Handed, Sent
  <1>12. CASE CancelAfterFailure
    <2>1. UNCHANGED <<delivered, forwarder, handing, resultsQueue, batch>>
      BY <1>12, RunnerFrame, ZenonT(40) DEF Runner, CancelAfterFailure
    <2> QED  BY <2>1, Zenon DEF InLine, Handed, Sent
  <1>13. CASE SendResult
    <2>0. /\ delivered \in Seq(Nat) /\ resultsQueue \in Seq(Nat) /\ batch \in Seq(Nat)
          /\ Handed \in Nat /\ Sent \in Nat
      BY Lengths, Zenon DEF Types, RunnerTypes, ResultTypes
    <2>1. /\ UNCHANGED <<delivered, forwarder, handing>> /\ batch # <<>>
          /\ resultsQueue' = Append(resultsQueue, Head(batch)) /\ batch' = Tail(batch)
      BY <1>13, RunnerFrame, ZenonT(40) DEF Runner, SendResult
    <2>2. Handed' = Handed
      BY <2>1, ZenonT(40) DEF Handed
    <2>3. Numbered(batch, Sent) /\ Numbered(resultsQueue, Handed)
      BY Zenon DEF InLine
    <2>4. Head(batch) = Sent /\ Numbered(Tail(batch), Sent + 1)
      BY <2>0, <2>1, <2>3, NumberedQueue, ZenonT(40)
    <2>5. Sent = Handed + Len(resultsQueue)
      BY Lengths, Zenon
    <2>6. Sent' = Sent + 1
      BY <2>0, <2>1, <2>2, <2>4 DEF Sent
    <2>7. Numbered(resultsQueue', Handed)
      <3>1. Numbered(Append(resultsQueue, Handed + Len(resultsQueue)), Handed)
        BY <2>0, <2>3, NumberedQueue, ZenonT(40)
      <3> QED  BY <2>1, <2>4, <2>5, <3>1, ZenonT(40)
    <2>8. Numbered(batch', Sent')
      BY <2>1, <2>4, <2>6, ZenonT(40)
    <2> QED  BY <2>1, <2>2, <2>7, <2>8, ZenonT(40) DEF InLine
  <1>14. CASE ResultsFull
    <2>1. UNCHANGED <<delivered, forwarder, handing, resultsQueue, batch>>
      BY <1>14, RunnerFrame, ZenonT(40) DEF Runner, ResultsFull
    <2> QED  BY <2>1, Zenon DEF InLine, Handed, Sent
  <1>15. CASE SendDone
    <2>0. /\ delivered \in Seq(Nat) /\ resultsQueue \in Seq(Nat) /\ batch \in Seq(Nat)
          /\ Handed \in Nat /\ Sent \in Nat
      BY Lengths, Zenon DEF Types, RunnerTypes, ResultTypes
    <2>1. UNCHANGED <<delivered, forwarder, handing, resultsQueue>>
      BY <1>15, RunnerFrame, ZenonT(40) DEF Runner, SendDone
    <2>2. batch' = <<>>
      BY <1>15, ZenonT(40) DEF SendDone, Ends
    <2>3. Handed' = Handed /\ Sent' = Sent
      BY <2>1, Zenon DEF Handed, Sent
    <2>4. Numbered(batch, Sent)
      BY Zenon DEF InLine
    <2>5. runner \in {"check", "apply"} => cur = Sent + Len(batch)
      BY Lengths, Zenon DEF KeepsUp
    <2>6. Numbered(batch', Sent')
      BY <2>2, <2>3, <2>4, NumberedEmpty, ZenonT(40)
    <2> QED  BY <2>1, <2>3, <2>6, Zenon DEF InLine
  <1>16. CASE RunnerExit
    <2>1. UNCHANGED <<delivered, forwarder, handing, resultsQueue, batch>>
      BY <1>16, RunnerFrame, ZenonT(40) DEF Runner, RunnerExit
    <2> QED  BY <2>1, Zenon DEF InLine, Handed, Sent
  <1>17. CASE TakeResult
    <2>0. /\ delivered \in Seq(Nat) /\ resultsQueue \in Seq(Nat) /\ batch \in Seq(Nat)
          /\ Handed \in Nat /\ Sent \in Nat
      BY Lengths, Zenon DEF Types, RunnerTypes, ResultTypes
    <2>1. /\ forwarder = "receive" /\ resultsQueue # <<>> /\ forwarder' = "hand"
          /\ handing' = Head(resultsQueue) /\ resultsQueue' = Tail(resultsQueue)
          /\ delivered' = delivered
      BY <1>17, ResultsFrame, ZenonT(40) DEF Results, TakeResult
    <2>2. batch' = batch
      BY <1>17, ResultsFrame, Zenon DEF Results
    <2>3. /\ Numbered(delivered, 0) /\ (forwarder = "hand" => handing = Len(delivered))
          /\ Numbered(resultsQueue, Handed) /\ Numbered(batch, Sent)
      BY Zenon DEF InLine
    <2>4. Head(resultsQueue) = Handed /\ Numbered(Tail(resultsQueue), Handed + 1)
      BY <2>0, <2>1, <2>3, NumberedQueue, ZenonT(40)
    <2>5. Handed = Len(delivered) /\ Handed' = Handed + 1 /\ Len(resultsQueue') = Len(resultsQueue) - 1
      BY <2>0, <2>1 DEF Handed
    <2>6. Sent' = Sent
      BY <2>0, <2>5 DEF Sent
    <2> QED  BY <2>1, <2>2, <2>3, <2>4, <2>5, <2>6, ZenonT(40) DEF InLine
  <1>18. CASE HandOver
    <2>0. /\ delivered \in Seq(Nat) /\ resultsQueue \in Seq(Nat) /\ batch \in Seq(Nat)
          /\ Handed \in Nat /\ Sent \in Nat
      BY Lengths, Zenon DEF Types, RunnerTypes, ResultTypes
    <2>1. /\ forwarder = "hand" /\ forwarder' = "mark" /\ resultsQueue' = resultsQueue
          /\ delivered' = Append(delivered, handing)
      BY <1>18, ResultsFrame, Zenon DEF Results, HandOver
    <2>2. batch' = batch
      BY <1>18, ResultsFrame, ZenonT(40) DEF Results
    <2>3. /\ Numbered(delivered, 0) /\ (forwarder = "hand" => handing = Len(delivered))
          /\ Numbered(resultsQueue, Handed) /\ Numbered(batch, Sent)
      BY Zenon DEF InLine
    <2>4. Numbered(Append(delivered, 0 + Len(delivered)), 0)
      BY <2>0, <2>3, NumberedQueue, ZenonT(40)
    <2>5. Numbered(delivered', 0)
      BY <2>0, <2>1, <2>3, <2>4
    <2>6. Handed' = Handed
      BY <2>0, <2>1 DEF Handed
    <2>7. Sent' = Sent
      BY <2>1, <2>6, Zenon DEF Sent
    <2> QED  BY <2>1, <2>2, <2>3, <2>5, <2>6, <2>7, ZenonT(40) DEF InLine
  <1>19. CASE ConsumerRelease
    <2>1. UNCHANGED <<delivered, handing, resultsQueue, batch, forwarder>>
      BY <1>19, ResultsFrame, Zenon DEF Results, ConsumerRelease
    <2> QED  BY <2>1, Zenon DEF InLine, Handed, Sent
  <1>20. CASE markItemDelivered
    <2>1. UNCHANGED <<delivered, resultsQueue, batch>>
          /\ forwarder # "hand" /\ forwarder' # "hand"
      BY <1>20, ResultsFrame, Zenon DEF Results, markItemDelivered
    <2>2. Handed' = Handed /\ Sent' = Sent
      BY <2>1, Zenon DEF Handed, Sent
    <2> QED  BY <2>1, <2>2, Zenon DEF InLine
  <1>21. CASE DrainResults
    <2>0. /\ delivered \in Seq(Nat) /\ resultsQueue \in Seq(Nat) /\ batch \in Seq(Nat)
          /\ Handed \in Nat /\ Sent \in Nat
      BY Lengths, Zenon DEF Types, RunnerTypes, ResultTypes
    <2> DEFINE drained == IF forwarder = "hand" THEN <<handing>> \o resultsQueue
                                                ELSE resultsQueue
    <2>1. /\ delivered' = delivered \o drained /\ resultsQueue' = <<>> /\ forwarder' = "receive"
          /\ batch' = batch
      BY <1>21, ResultsFrame, ZenonT(40) DEF Results, DrainResults
    <2>2. /\ Numbered(delivered, 0) /\ (forwarder = "hand" => handing = Len(delivered))
          /\ Numbered(resultsQueue, Handed) /\ Numbered(batch, Sent)
      BY Zenon DEF InLine
    <2>3. drained \in Seq(Nat) /\ Numbered(drained, 0 + Len(delivered))
          /\ Len(delivered) + Len(drained) = Sent
      <3>1. CASE forwarder = "hand"
        <4>1. handing = Len(delivered) /\ Handed = Len(delivered) + 1
          BY <2>2, <3>1, Zenon DEF Handed
        <4>2. <<handing>> \in Seq(Nat) /\ Len(<<handing>>) = 1 /\ Numbered(<<handing>>, Len(delivered))
          BY <2>0, <4>1 DEF Numbered
        <4>3. drained = <<handing>> \o resultsQueue
          BY <3>1, Zenon
        <4>4. Numbered(drained, Len(delivered)) /\ drained \in Seq(Nat)
          <5> DEFINE p == <<handing>>
          <5>1. /\ p \in Seq(Nat) /\ Numbered(p, Len(delivered)) /\ drained = p \o resultsQueue
                /\ Numbered(resultsQueue, Len(delivered) + Len(p)) /\ Len(delivered) \in Nat
            BY <2>0, <2>2, <4>1, <4>2, <4>3
          <5> HIDE DEF p, drained
          <5>2. Numbered(p \o resultsQueue, Len(delivered))
            BY <2>0, <5>1, NumberedJoin, Zenon
          <5> QED  BY <2>0, <5>1, <5>2
        <4>5. Len(drained) = 1 + Len(resultsQueue)
          BY <2>0, <4>2, <4>3
        <4> QED  BY <2>0, <4>1, <4>4, <4>5 DEF Sent
      <3>2. CASE forwarder # "hand"
        <4>1. drained = resultsQueue /\ Handed = Len(delivered)
          BY <2>0, <3>2 DEF Handed
        <4> QED  BY <2>0, <2>2, <4>1 DEF Sent
      <3> QED  BY <3>1, <3>2, Zenon
    <2> HIDE DEF drained
    <2>4. Numbered(delivered', 0)
      BY <2>0, <2>1, <2>2, <2>3, NumberedJoin, ZenonT(40)
    <2>5. Handed' = Sent /\ Sent' = Sent
      BY <2>0, <2>1, <2>3 DEF Handed, Sent
    <2> QED  BY <2>1, <2>2, <2>4, <2>5, NumberedEmpty, ZenonT(40) DEF InLine
  <1>22. CASE ResultsEnd
    <2>1. UNCHANGED <<delivered, handing, resultsQueue, batch>>
          /\ forwarder # "hand" /\ forwarder' # "hand"
      BY <1>22, ResultsFrame, Zenon DEF Results, ResultsEnd
    <2>2. Handed' = Handed /\ Sent' = Sent
      BY <2>1, Zenon DEF Handed, Sent
    <2> QED  BY <2>1, <2>2, Zenon DEF InLine
  <1>23. ASSUME NEW d \in Drainers, Drain(d) PROVE InLine'
    <2>1. UNCHANGED <<delivered, forwarder, handing, resultsQueue, batch>>
      BY <1>23, DrainFrame, ZenonT(40)
    <2> QED  BY <2>1, Zenon DEF InLine, Handed, Sent
  <1>24. CASE StopNext
    <2>1. UNCHANGED <<delivered, forwarder, handing, resultsQueue, batch>>
      BY <1>24, StopNextFrame, ZenonT(40)
    <2> QED  BY <2>1, Zenon DEF InLine, Handed, Sent
  <1>25. CASE UNCHANGED vars
    <2>1. UNCHANGED <<delivered, forwarder, handing, resultsQueue, batch>>
      BY <1>25, StutterFrame, ZenonT(40)
    <2> QED  BY <2>1, Zenon DEF InLine, Handed, Sent
  <1> QED
    BY <1>1, <1>2, <1>3, <1>4, <1>5, <1>6, <1>7, <1>8, <1>9, <1>10, <1>11,
       <1>12, <1>13, <1>14, <1>15, <1>16, <1>17, <1>18, <1>19, <1>20, <1>21,
       <1>22, <1>23, <1>24, <1>25, ZenonT(40)
       DEF Next, Runner, Results, StopNext, Ended

\* Handing over changes nothing in what has been processed.
LEMMA ResultsKeep ==
    ASSUME Types, Results
    PROVE  Processed' = Processed
  <1>0. /\ delivered \in Seq(Nat) /\ resultsQueue \in Seq(Nat) /\ batch' = batch
        /\ (forwarder = "hand" => handing \in Nat)
    BY ResultsFrame, Zenon DEF Types, RunnerTypes, ResultTypes
  <1>1. ASSUME TakeResult PROVE Sent' = Sent
    BY <1>0, <1>1 DEF TakeResult, Sent, Handed
  <1>2. ASSUME HandOver PROVE Sent' = Sent
    BY <1>0, <1>2 DEF HandOver, Sent, Handed
  <1>3. ASSUME ConsumerRelease PROVE Sent' = Sent
    BY <1>0, <1>3, Zenon DEF ConsumerRelease, Sent, Handed
  <1>4. ASSUME markItemDelivered PROVE Sent' = Sent
    BY <1>0, <1>4, Zenon DEF markItemDelivered, Sent, Handed
  <1>5. ASSUME DrainResults PROVE Sent' = Sent
    BY <1>0, <1>5 DEF DrainResults, Sent, Handed
  <1>6. ASSUME ResultsEnd PROVE Sent' = Sent
    BY <1>0, <1>6, Zenon DEF ResultsEnd, Sent, Handed
  <1>7. Sent' = Sent
    BY <1>1, <1>2, <1>3, <1>4, <1>5, <1>6, ZenonT(40) DEF Results
  <1> QED  BY <1>0, <1>7, Zenon DEF Processed

\* The runner's steps change it by what they add to the batch or drop from it.
LEMMA RunnerProcesses ==
    ASSUME Types, Runner
    PROVE  /\ SendResult => Processed' = Processed
           /\ ~SendResult => Processed' = Sent + Len(batch')
  <1>0. /\ delivered \in Seq(Nat) /\ resultsQueue \in Seq(Nat) /\ batch \in Seq(Nat)
        /\ UNCHANGED <<forwarder, delivered>>
    BY RunnerFrame, Zenon DEF Types, RunnerTypes, ResultTypes
  <1>1. ASSUME SendResult PROVE Processed' = Processed
    <2>1. Handed' = Handed /\ Handed \in Nat
      BY <1>0, Lengths, ZenonT(40) DEF Handed
    <2>2. Len(resultsQueue') = Len(resultsQueue) + 1 /\ Len(batch') = Len(batch) - 1
      BY <1>0, <1>1 DEF SendResult
    <2>3. Len(resultsQueue) \in Nat /\ Len(batch) \in Nat
      BY <1>0
    <2> QED  BY <2>1, <2>2, <2>3 DEF Processed, Sent
  <1>2. ASSUME ~SendResult PROVE resultsQueue' = resultsQueue
    BY <1>2, ZenonT(40) DEF Runner, Receive, maybeApply, applyItem, applyPending, StoreCompleted,
       WakeWaiters, setFatalError, CancelAfterFailure, ResultsFull, SendDone, RunnerExit
  <1>3. ~SendResult => Processed' = Sent + Len(batch')
    BY <1>0, <1>2, Zenon DEF Processed, Sent, Handed
  <1> QED  BY <1>1, <1>3, Zenon

\* Only a cancellation and a rejection leave a block unprocessed.
LEMMA KeepsUpStep ==
    Types /\ KeepsUp /\ [Next]_vars => KeepsUp'
  <1> SUFFICES ASSUME Types, KeepsUp, [Next]_vars PROVE KeepsUp'
    BY Zenon
  <1>1. CASE Start
    <2>1. UNCHANGED <<delivered, forwarder, resultsQueue, batch, nextSequence, runner, cur, outcome, ctxDone>>
      BY <1>1, StartFrame, Zenon
    <2> QED  BY <2>1, Zenon DEF KeepsUp, Whole, Processed, Sent, Handed
  <1>2. ASSUME NEW x \in Submitters \cup Drainers, CancelCaller(x) PROVE KeepsUp'
    <2>1. UNCHANGED <<delivered, forwarder, resultsQueue, batch, nextSequence, runner, cur, outcome, ctxDone>>
      BY <1>2, CancelCallerFrame, Zenon
    <2> QED  BY <2>1, Zenon DEF KeepsUp, Whole, Processed, Sent, Handed
  <1>3. ASSUME NEW s \in Submitters, Submit(s) PROVE KeepsUp'
    <2>1. UNCHANGED <<delivered, forwarder, resultsQueue, batch, nextSequence, runner, cur, outcome, ctxDone>>
      BY <1>3, SubmitFrame, Zenon
    <2> QED  BY <2>1, Zenon DEF KeepsUp, Whole, Processed, Sent, Handed
  <1>4. ASSUME NEW w \in Workers, Pool(w) PROVE KeepsUp'
    <2>1. UNCHANGED <<delivered, forwarder, resultsQueue, batch, nextSequence, runner, cur, outcome, ctxDone>>
      BY <1>4, PoolFrame
    <2> QED  BY <2>1, ZenonT(40) DEF KeepsUp, Whole, Processed, Sent, Handed
  <1>5. CASE Receive
    <2>1. ~SendResult => Processed' = Sent + Len(batch')
      BY <1>5, RunnerProcesses, Zenon DEF Runner
    <2>2. Processed = Sent + Len(batch) /\ Sent \in Nat /\ Len(batch) \in Nat /\ nextSequence \in Nat
          /\ batch \in Seq(Nat)
      BY Lengths, Zenon DEF Types, RunnerTypes
    <2>3. ~SendResult
      BY <1>5, Zenon DEF SendResult, Receive
    <2> QED  BY <1>5, <2>1, <2>2, <2>3 DEF KeepsUp, Whole, Receive, Ends, Idles
  <1>6. CASE maybeApply
    <2>1. ~SendResult => Processed' = Sent + Len(batch')
      BY <1>6, RunnerProcesses, ZenonT(40) DEF Runner
    <2>2. Processed = Sent + Len(batch) /\ Sent \in Nat /\ Len(batch) \in Nat /\ nextSequence \in Nat
          /\ batch \in Seq(Nat)
      BY Lengths, Zenon DEF Types, RunnerTypes
    <2>3. ~SendResult
      BY <1>6, Zenon DEF SendResult, maybeApply
    <2> QED  BY <1>6, <2>1, <2>2, <2>3 DEF KeepsUp, Whole, maybeApply, Ends, Idles
  <1>7. CASE applyItem
    <2>1. ~SendResult => Processed' = Sent + Len(batch')
      BY <1>7, RunnerProcesses, ZenonT(40) DEF Runner
    <2>2. Processed = Sent + Len(batch) /\ Sent \in Nat /\ Len(batch) \in Nat /\ nextSequence \in Nat
          /\ batch \in Seq(Nat)
      BY Lengths, Zenon DEF Types, RunnerTypes
    <2>3. ~SendResult
      BY <1>7, Zenon DEF SendResult, applyItem
    <2>4. runner = "apply" /\ UNCHANGED <<cur, nextSequence, ctxDone>>
      BY <1>7, Zenon DEF applyItem, Idles
    <2>5. CASE outcome' = "fatal" /\ batch' = batch /\ runner' \in {"fail", "send", "store"}
      BY <2>1, <2>2, <2>3, <2>4, <2>5, ZenonT(40) DEF KeepsUp, Whole
    <2>6. CASE batch' = Append(batch, cur) /\ runner' = "pending"
      <3>1. Len(batch') = Len(batch) + 1
        BY <2>2, <2>6
      <3> QED  BY <2>1, <2>2, <2>3, <2>4, <2>6, <3>1 DEF KeepsUp, Whole
    <2> QED  BY <1>7, <2>5, <2>6, Zenon DEF applyItem, Ends
  <1>8. CASE applyPending
    <2>1. ~SendResult => Processed' = Sent + Len(batch')
      BY <1>8, RunnerProcesses, Zenon DEF Runner
    <2>2. Processed = Sent + Len(batch) /\ Sent \in Nat /\ Len(batch) \in Nat /\ nextSequence \in Nat
          /\ batch \in Seq(Nat)
      BY Lengths, Zenon DEF Types, RunnerTypes
    <2>3. ~SendResult
      BY <1>8, Zenon DEF SendResult, applyPending
    <2> QED  BY <1>8, <2>1, <2>2, <2>3 DEF KeepsUp, Whole, applyPending, Ends, Idles
  <1>9. CASE StoreCompleted
    <2>1. ~SendResult => Processed' = Sent + Len(batch')
      BY <1>9, RunnerProcesses, ZenonT(40) DEF Runner
    <2>2. Processed = Sent + Len(batch) /\ Sent \in Nat /\ Len(batch) \in Nat /\ nextSequence \in Nat
          /\ batch \in Seq(Nat)
      BY Lengths, Zenon DEF Types, RunnerTypes
    <2>3. ~SendResult
      BY <1>9, Zenon DEF SendResult, StoreCompleted
    <2> QED  BY <1>9, <2>1, <2>2, <2>3, Zenon DEF KeepsUp, Whole, StoreCompleted
  <1>10. CASE WakeWaiters
    <2>1. ~SendResult => Processed' = Sent + Len(batch')
      BY <1>10, RunnerProcesses, ZenonT(40) DEF Runner
    <2>2. Processed = Sent + Len(batch) /\ Sent \in Nat /\ Len(batch) \in Nat /\ nextSequence \in Nat
          /\ batch \in Seq(Nat)
      BY Lengths, Zenon DEF Types, RunnerTypes
    <2>3. ~SendResult
      BY <1>10, Zenon DEF SendResult, WakeWaiters
    <2> QED  BY <1>10, <2>1, <2>2, <2>3, Zenon DEF KeepsUp, Whole, WakeWaiters
  <1>11. CASE setFatalError
    <2>1. ~SendResult => Processed' = Sent + Len(batch')
      BY <1>11, RunnerProcesses, Zenon DEF Runner
    <2>2. Processed = Sent + Len(batch) /\ Sent \in Nat /\ Len(batch) \in Nat /\ nextSequence \in Nat
          /\ batch \in Seq(Nat)
      BY Lengths, Zenon DEF Types, RunnerTypes
    <2>3. ~SendResult
      BY <1>11, Zenon DEF SendResult, setFatalError
    <2> QED  BY <1>11, <2>1, <2>2, <2>3, ZenonT(40) DEF KeepsUp, Whole, setFatalError
  <1>12. CASE CancelAfterFailure
    <2>1. ~SendResult => Processed' = Sent + Len(batch')
      BY <1>12, RunnerProcesses, ZenonT(40) DEF Runner
    <2>2. Processed = Sent + Len(batch) /\ Sent \in Nat /\ Len(batch) \in Nat /\ nextSequence \in Nat
          /\ batch \in Seq(Nat)
      BY Lengths, Zenon DEF Types, RunnerTypes
    <2>3. ~SendResult
      BY <1>12, Zenon DEF SendResult, CancelAfterFailure
    <2> QED  BY <1>12, <2>1, <2>2, <2>3, ZenonT(40) DEF KeepsUp, Whole, CancelAfterFailure
  <1>13. CASE SendResult
    <2>1. Processed' = Processed
      BY <1>13, RunnerProcesses, Zenon DEF Runner
    <2> QED  BY <1>13, <2>1, Zenon DEF KeepsUp, Whole, SendResult, Idles
  <1>14. CASE ResultsFull
    <2>1. ~SendResult => Processed' = Sent + Len(batch')
      BY <1>14, RunnerProcesses, Zenon DEF Runner
    <2>2. Processed = Sent + Len(batch) /\ Sent \in Nat /\ Len(batch) \in Nat /\ nextSequence \in Nat
          /\ batch \in Seq(Nat)
      BY Lengths, Zenon DEF Types, RunnerTypes
    <2>3. ~SendResult
      BY <1>14, Zenon DEF SendResult, ResultsFull
    <2> QED  BY <1>14, <2>1, <2>2, <2>3, Zenon DEF KeepsUp, Whole, ResultsFull, Idles
  <1>15. CASE SendDone
    <2>1. ~SendResult => Processed' = Sent + Len(batch')
      BY <1>15, RunnerProcesses, Zenon DEF Runner
    <2>2. Processed = Sent + Len(batch) /\ Sent \in Nat /\ Len(batch) \in Nat /\ nextSequence \in Nat
          /\ batch \in Seq(Nat)
      BY Lengths, Zenon DEF Types, RunnerTypes
    <2>3. ~SendResult
      BY <1>15, Zenon DEF SendResult, SendDone
    <2>4. /\ UNCHANGED <<nextSequence, ctxDone>> /\ batch' = <<>> /\ runner' \in {"receive", "done"}
          /\ runner \in {"send", "blocked"}
      BY <1>15, Zenon DEF SendDone, Idles
    <2>5. Len(batch') = 0 /\ Processed' = Sent
      BY <2>1, <2>2, <2>3, <2>4
    <2>6. runner' = "receive" /\ ~ctxDone => batch = <<>> /\ outcome = "ok"
      BY <1>15, Zenon DEF SendDone, KeepsUp, RunnerTypes, Types
    <2>7. batch = <<>> => Sent = Processed
      BY <2>2
    <2>8. Whole' => Processed' = nextSequence'
      BY <2>2, <2>4, <2>5, <2>6, <2>7, Zenon DEF KeepsUp, Whole
    <2> QED  BY <2>2, <2>4, <2>5, <2>8 DEF KeepsUp
  <1>16. CASE RunnerExit
    <2>1. ~SendResult => Processed' = Sent + Len(batch')
      BY <1>16, RunnerProcesses, Zenon DEF Runner
    <2>2. Processed = Sent + Len(batch) /\ Sent \in Nat /\ Len(batch) \in Nat /\ nextSequence \in Nat
          /\ batch \in Seq(Nat)
      BY Lengths, Zenon DEF Types, RunnerTypes
    <2>3. ~SendResult
      BY <1>16, Zenon DEF SendResult, RunnerExit
    <2> QED  BY <1>16, <2>1, <2>2, <2>3, Zenon DEF KeepsUp, Whole, RunnerExit, Idles
  <1>17. CASE Results
    <2>1. UNCHANGED <<batch, nextSequence, runner, cur, outcome, ctxDone>>
      BY <1>17, ResultsFrame, Zenon
    <2>2. Processed' = Processed
      BY <1>17, ResultsKeep, Zenon
    <2> QED  BY <2>1, <2>2, Zenon DEF KeepsUp, Whole
  <1>18. ASSUME NEW d \in Drainers, Drain(d) PROVE KeepsUp'
    <2>1. UNCHANGED <<delivered, forwarder, resultsQueue, batch, nextSequence, runner, cur, outcome, ctxDone>>
      BY <1>18, DrainFrame, Zenon
    <2> QED  BY <2>1, Zenon DEF KeepsUp, Whole, Processed, Sent, Handed
  <1>19. CASE StopNext
    <2>1. UNCHANGED <<delivered, forwarder, resultsQueue, batch, nextSequence, runner, cur, outcome>>
      BY <1>19, StopNextFrame, Zenon
    <2>2. ctxDone => ctxDone'
      BY CtxStays, Zenon DEF Types
    <2>3. Processed' = Processed
      BY <2>1, Zenon DEF Processed, Sent, Handed
    <2> QED  BY <2>1, <2>2, <2>3, Zenon DEF KeepsUp, Whole
  <1>20. CASE UNCHANGED vars
    <2>1. UNCHANGED <<delivered, forwarder, resultsQueue, batch, nextSequence, runner, cur, outcome, ctxDone>>
      BY <1>20, StutterFrame, Zenon
    <2> QED  BY <2>1, Zenon DEF KeepsUp, Whole, Processed, Sent, Handed
  <1> QED
    BY <1>1, <1>2, <1>3, <1>4, <1>5, <1>6, <1>7, <1>8, <1>9, <1>10, <1>11,
       <1>12, <1>13, <1>14, <1>15, <1>16, <1>17, <1>18, <1>19, <1>20, ZenonT(40)
       DEF Next, Runner, StopNext, Ended

\* The blocks are applied one after the other, each before it is processed.
LEMMA AppliedSoFarStep ==
    Types /\ InLine /\ KeepsUp /\ Vetted /\ AppliedSoFar /\ [Next]_vars => AppliedSoFar'
  <1> SUFFICES ASSUME Types, InLine, KeepsUp, Vetted, AppliedSoFar, [Next]_vars PROVE AppliedSoFar'
    BY Zenon
  <1>1. CASE Start
    <2>1. UNCHANGED <<delivered, forwarder, resultsQueue, batch, nextSequence, runner, cur, outcome, applied, completedSequence, config, ctxDone>>
      BY <1>1, StartFrame, Zenon
    <2> QED  BY <2>1, Zenon DEF AppliedSoFar, Applies, Whole, Processed, Sent, Handed
  <1>2. ASSUME NEW x \in Submitters \cup Drainers, CancelCaller(x) PROVE AppliedSoFar'
    <2>1. UNCHANGED <<delivered, forwarder, resultsQueue, batch, nextSequence, runner, cur, outcome, applied, completedSequence, config, ctxDone>>
      BY <1>2, CancelCallerFrame, Zenon
    <2> QED  BY <2>1, Zenon DEF AppliedSoFar, Applies, Whole, Processed, Sent, Handed
  <1>3. ASSUME NEW s \in Submitters, Submit(s) PROVE AppliedSoFar'
    <2>1. UNCHANGED <<delivered, forwarder, resultsQueue, batch, nextSequence, runner, cur, outcome, applied, completedSequence, config, ctxDone>>
      BY <1>3, SubmitFrame, Zenon
    <2> QED  BY <2>1, Zenon DEF AppliedSoFar, Applies, Whole, Processed, Sent, Handed
  <1>4. ASSUME NEW w \in Workers, Pool(w) PROVE AppliedSoFar'
    <2>1. UNCHANGED <<delivered, forwarder, resultsQueue, batch, nextSequence, runner, cur, outcome, applied, completedSequence, config, ctxDone>>
      BY <1>4, PoolFrame, Zenon
    <2> QED  BY <2>1, Zenon DEF AppliedSoFar, Applies, Whole, Processed, Sent, Handed
  <1>5. CASE Receive
    <2>1. ~SendResult => Processed' = Sent + Len(batch')
      BY <1>5, RunnerProcesses, Zenon DEF Runner
    <2>2. /\ Processed = Sent + Len(batch) /\ Sent \in Nat /\ Len(batch) \in Nat
          /\ nextSequence \in Nat /\ batch \in Seq(Nat) /\ Len(applied) \in Nat
          /\ completedSequence \in Nat
      BY Lengths, Zenon DEF Types, RunnerTypes
    <2>3. ~SendResult
      BY <1>5, Zenon DEF SendResult, Receive
    <2>4. config' = config
      BY <1>5, RunnerFrame, Zenon DEF Runner
    <2> QED  BY <1>5, <2>1, <2>2, <2>3, <2>4 DEF AppliedSoFar, Applies, KeepsUp, Whole, Receive, Ends, Idles
  <1>6. CASE maybeApply
    <2>1. ~SendResult => Processed' = Sent + Len(batch')
      BY <1>6, RunnerProcesses, Zenon DEF Runner
    <2>2. /\ Processed = Sent + Len(batch) /\ Sent \in Nat /\ Len(batch) \in Nat
          /\ nextSequence \in Nat /\ batch \in Seq(Nat) /\ Len(applied) \in Nat
          /\ completedSequence \in Nat
      BY Lengths, Zenon DEF Types, RunnerTypes
    <2>3. ~SendResult
      BY <1>6, Zenon DEF SendResult, maybeApply
    <2>4. config' = config
      BY <1>6, RunnerFrame, Zenon DEF Runner
    <2> QED  BY <1>6, <2>1, <2>2, <2>3, <2>4, ZenonT(40) DEF AppliedSoFar, Applies, KeepsUp, Whole, maybeApply, Ends, Idles
  <1>7. CASE applyItem
    <2>1. ~SendResult => Processed' = Sent + Len(batch')
      BY <1>7, RunnerProcesses, Zenon DEF Runner
    <2>2. /\ Processed = Sent + Len(batch) /\ Sent \in Nat /\ Len(batch) \in Nat
          /\ nextSequence \in Nat /\ batch \in Seq(Nat) /\ Len(applied) \in Nat
          /\ completedSequence \in Nat
      BY Lengths, Zenon DEF Types, RunnerTypes
    <2>3. ~SendResult
      BY <1>7, Zenon DEF SendResult, applyItem
    <2>4. config' = config
      BY <1>7, RunnerFrame, Zenon DEF Runner
    <2>5. runner = "apply" /\ UNCHANGED <<cur, nextSequence, ctxDone, completedSequence>>
      BY <1>7, Zenon DEF applyItem, Idles
    <2>6. CASE applied' = applied /\ batch' = batch /\ runner' \in {"fail", "send", "store"}
               /\ outcome' = "fatal"
      BY <2>1, <2>2, <2>3, <2>4, <2>5, <2>6, Zenon DEF AppliedSoFar, Applies, Whole
    <2>7. CASE applied' = Append(applied, cur) /\ batch' = Append(batch, cur) /\ runner' = "pending"
      <3>1. applied \in Seq(Nat) /\ Applies
        BY <2>5, Zenon DEF Types, RunnerTypes, Vetted
      <3>2. Len(batch') = Len(batch) + 1 /\ Len(applied') = Len(applied) + 1
        BY <2>2, <2>7, <3>1
      <3>3. Processed = Len(applied) /\ cur = Len(applied) /\ nextSequence = cur + 1
        BY <2>2, <2>5, <3>1 DEF AppliedSoFar, KeepsUp, Whole
      <3>4. Numbered(Append(applied, 0 + Len(applied)), 0)
        BY <3>1, NumberedQueue, Zenon DEF AppliedSoFar
      <3>5. Numbered(applied', 0)
        BY <2>2, <2>7, <3>3, <3>4
      <3>6. Processed' = Len(applied')
        BY <2>1, <2>2, <2>3, <3>2, <3>3
      <3> QED  BY <2>2, <2>4, <2>5, <2>7, <3>1, <3>2, <3>3, <3>5, <3>6 DEF AppliedSoFar, Applies
    <2> QED  BY <1>7, <2>6, <2>7, Zenon DEF applyItem, Ends
  <1>8. CASE applyPending
    <2>1. ~SendResult => Processed' = Sent + Len(batch')
      BY <1>8, RunnerProcesses, Zenon DEF Runner
    <2>2. /\ Processed = Sent + Len(batch) /\ Sent \in Nat /\ Len(batch) \in Nat
          /\ nextSequence \in Nat /\ batch \in Seq(Nat) /\ Len(applied) \in Nat
          /\ completedSequence \in Nat
      BY Lengths, Zenon DEF Types, RunnerTypes
    <2>3. ~SendResult
      BY <1>8, Zenon DEF SendResult, applyPending
    <2>4. config' = config
      BY <1>8, RunnerFrame, Zenon DEF Runner
    <2> QED  BY <1>8, <2>1, <2>2, <2>3, <2>4 DEF AppliedSoFar, Applies, KeepsUp, Whole, applyPending, Ends, Idles
  <1>9. CASE StoreCompleted
    <2>1. ~SendResult => Processed' = Sent + Len(batch')
      BY <1>9, RunnerProcesses, Zenon DEF Runner
    <2>2. /\ Processed = Sent + Len(batch) /\ Sent \in Nat /\ Len(batch) \in Nat
          /\ nextSequence \in Nat /\ batch \in Seq(Nat) /\ Len(applied) \in Nat
          /\ completedSequence \in Nat
      BY Lengths, Zenon DEF Types, RunnerTypes
    <2>3. ~SendResult
      BY <1>9, Zenon DEF SendResult, StoreCompleted
    <2>4. config' = config
      BY <1>9, RunnerFrame, Zenon DEF Runner
    <2>5. /\ UNCHANGED <<cur, nextSequence, ctxDone, applied, batch, outcome>>
          /\ runner = "store" /\ runner' = "wake"
          /\ completedSequence' = batch[Len(batch)] + 1
      BY <1>9, Zenon DEF StoreCompleted
    <2>6. batch # <<>> /\ Len(batch) \in DOMAIN batch
      BY <2>2, <2>5 DEF Types, RunnerTypes
    <2>7. completedSequence' = Processed
      BY <2>2, <2>5, <2>6 DEF InLine, Numbered
    <2> QED  BY <2>1, <2>2, <2>3, <2>4, <2>5, <2>7, Zenon DEF AppliedSoFar, Applies, KeepsUp, Whole
  <1>10. CASE WakeWaiters
    <2>1. ~SendResult => Processed' = Sent + Len(batch')
      BY <1>10, RunnerProcesses, Zenon DEF Runner
    <2>2. /\ Processed = Sent + Len(batch) /\ Sent \in Nat /\ Len(batch) \in Nat
          /\ nextSequence \in Nat /\ batch \in Seq(Nat) /\ Len(applied) \in Nat
          /\ completedSequence \in Nat
      BY Lengths, Zenon DEF Types, RunnerTypes
    <2>3. ~SendResult
      BY <1>10, Zenon DEF SendResult, WakeWaiters
    <2>4. config' = config
      BY <1>10, RunnerFrame, Zenon DEF Runner
    <2> QED  BY <1>10, <2>1, <2>2, <2>3, <2>4, Zenon DEF AppliedSoFar, Applies, KeepsUp, Whole, WakeWaiters
  <1>11. CASE setFatalError
    <2>1. ~SendResult => Processed' = Sent + Len(batch')
      BY <1>11, RunnerProcesses, Zenon DEF Runner
    <2>2. /\ Processed = Sent + Len(batch) /\ Sent \in Nat /\ Len(batch) \in Nat
          /\ nextSequence \in Nat /\ batch \in Seq(Nat) /\ Len(applied) \in Nat
          /\ completedSequence \in Nat
      BY Lengths, Zenon DEF Types, RunnerTypes
    <2>3. ~SendResult
      BY <1>11, Zenon DEF SendResult, setFatalError
    <2>4. config' = config
      BY <1>11, RunnerFrame, Zenon DEF Runner
    <2> QED  BY <1>11, <2>1, <2>2, <2>3, <2>4, Zenon DEF AppliedSoFar, Applies, KeepsUp, Whole, setFatalError
  <1>12. CASE CancelAfterFailure
    <2>1. ~SendResult => Processed' = Sent + Len(batch')
      BY <1>12, RunnerProcesses, Zenon DEF Runner
    <2>2. /\ Processed = Sent + Len(batch) /\ Sent \in Nat /\ Len(batch) \in Nat
          /\ nextSequence \in Nat /\ batch \in Seq(Nat) /\ Len(applied) \in Nat
          /\ completedSequence \in Nat
      BY Lengths, Zenon DEF Types, RunnerTypes
    <2>3. ~SendResult
      BY <1>12, Zenon DEF SendResult, CancelAfterFailure
    <2>4. config' = config
      BY <1>12, RunnerFrame, Zenon DEF Runner
    <2> QED  BY <1>12, <2>1, <2>2, <2>3, <2>4, Zenon DEF AppliedSoFar, Applies, KeepsUp, Whole, CancelAfterFailure
  <1>13. CASE SendResult
    <2>1. Processed' = Processed
      BY <1>13, RunnerProcesses, Zenon DEF Runner
    <2>2. config' = config
      BY <1>13, RunnerFrame, Zenon DEF Runner
    <2> QED  BY <1>13, <2>1, <2>2, Zenon DEF AppliedSoFar, Applies, Whole, SendResult, Idles
  <1>14. CASE ResultsFull
    <2>1. ~SendResult => Processed' = Sent + Len(batch')
      BY <1>14, RunnerProcesses, Zenon DEF Runner
    <2>2. /\ Processed = Sent + Len(batch) /\ Sent \in Nat /\ Len(batch) \in Nat
          /\ nextSequence \in Nat /\ batch \in Seq(Nat) /\ Len(applied) \in Nat
          /\ completedSequence \in Nat
      BY Lengths, Zenon DEF Types, RunnerTypes
    <2>3. ~SendResult
      BY <1>14, Zenon DEF SendResult, ResultsFull
    <2>4. config' = config
      BY <1>14, RunnerFrame, Zenon DEF Runner
    <2> QED  BY <1>14, <2>1, <2>2, <2>3, <2>4, Zenon DEF AppliedSoFar, Applies, KeepsUp, Whole, ResultsFull, Idles
  <1>15. CASE SendDone
    <2>1. ~SendResult => Processed' = Sent + Len(batch')
      BY <1>15, RunnerProcesses, Zenon DEF Runner
    <2>2. /\ Processed = Sent + Len(batch) /\ Sent \in Nat /\ Len(batch) \in Nat
          /\ nextSequence \in Nat /\ batch \in Seq(Nat) /\ Len(applied) \in Nat
          /\ completedSequence \in Nat
      BY Lengths, Zenon DEF Types, RunnerTypes
    <2>3. ~SendResult
      BY <1>15, Zenon DEF SendResult, SendDone
    <2>4. config' = config
      BY <1>15, RunnerFrame, Zenon DEF Runner
    <2>5. /\ UNCHANGED <<nextSequence, ctxDone, applied, completedSequence>>
          /\ batch' = <<>> /\ runner' \in {"receive", "done"} /\ runner \in {"send", "blocked"}
      BY <1>15, Zenon DEF SendDone, Idles
    <2>6. Len(batch') = 0 /\ Processed' = Sent /\ Sent <= Processed
      BY <2>1, <2>2, <2>3, <2>5
    <2>7. Whole' => batch = <<>> /\ Whole
      BY <1>15, <2>5, Zenon DEF SendDone, KeepsUp, RunnerTypes, Types, Whole
    <2>8. batch = <<>> => Sent = Processed
      BY <2>2
    <2> QED  BY <2>2, <2>4, <2>5, <2>6, <2>7, <2>8 DEF AppliedSoFar, Applies
  <1>16. CASE RunnerExit
    <2>1. ~SendResult => Processed' = Sent + Len(batch')
      BY <1>16, RunnerProcesses, ZenonT(40) DEF Runner
    <2>2. /\ Processed = Sent + Len(batch) /\ Sent \in Nat /\ Len(batch) \in Nat
          /\ nextSequence \in Nat /\ batch \in Seq(Nat) /\ Len(applied) \in Nat
          /\ completedSequence \in Nat
      BY Lengths, Zenon DEF Types, RunnerTypes
    <2>3. ~SendResult
      BY <1>16, Zenon DEF SendResult, RunnerExit
    <2>4. config' = config
      BY <1>16, RunnerFrame, Zenon DEF Runner
    <2> QED  BY <1>16, <2>1, <2>2, <2>3, <2>4, ZenonT(40) DEF AppliedSoFar, Applies, KeepsUp, Whole, RunnerExit, Idles
  <1>17. CASE Results
    <2>1. UNCHANGED <<batch, nextSequence, runner, outcome, ctxDone, applied, completedSequence, config>>
      BY <1>17, ResultsFrame, Zenon
    <2>2. Processed' = Processed
      BY <1>17, ResultsKeep, Zenon
    <2> QED  BY <2>1, <2>2, Zenon DEF AppliedSoFar, Applies, Whole
  <1>18. ASSUME NEW d \in Drainers, Drain(d) PROVE AppliedSoFar'
    <2>1. UNCHANGED <<delivered, forwarder, resultsQueue, batch, nextSequence, runner, cur, outcome, applied, completedSequence, config, ctxDone>>
      BY <1>18, DrainFrame, Zenon
    <2> QED  BY <2>1, Zenon DEF AppliedSoFar, Applies, Whole, Processed, Sent, Handed
  <1>19. CASE StopNext
    <2>1. UNCHANGED <<delivered, forwarder, resultsQueue, batch, nextSequence, runner, cur, outcome, applied, completedSequence, config>>
      BY <1>19, StopNextFrame, Zenon
    <2>2. ctxDone => ctxDone'
      BY CtxStays, Zenon DEF Types
    <2>3. Processed' = Processed
      BY <2>1, Zenon DEF Processed, Sent, Handed
    <2> QED  BY <2>1, <2>2, <2>3, Zenon DEF AppliedSoFar, Applies, Whole
  <1>20. CASE UNCHANGED vars
    <2>1. UNCHANGED <<delivered, forwarder, resultsQueue, batch, nextSequence, runner, cur, outcome, applied, completedSequence, config, ctxDone>>
      BY <1>20, StutterFrame, Zenon
    <2> QED  BY <2>1, Zenon DEF AppliedSoFar, Applies, Whole, Processed, Sent, Handed
  <1> QED
    BY <1>1, <1>2, <1>3, <1>4, <1>5, <1>6, <1>7, <1>8, <1>9, <1>10, <1>11,
       <1>12, <1>13, <1>14, <1>15, <1>16, <1>17, <1>18, <1>19, <1>20, ZenonT(40)
       DEF Next, Runner, StopNext, Ended

\* While nothing is added the findings stand.
LEMMA FitBelow ==
    ASSUME Types, Vetted, NEW p \in Nat, p <= Processed, UNCHANGED <<verdict, config>>
    PROVE  \A n \in 0..(p - 1) : Fit(n)'
  <1>1. Processed \in Nat
    BY Lengths, Zenon
  <1>2. \A n \in 0..(p - 1) : Fit(n)
    BY <1>1 DEF Vetted
  <1> QED  BY <1>2, Zenon DEF Fit

\* So they do when the runner is not about to apply.
LEMMA VettedStays ==
    ASSUME Types, Vetted, NEW p \in Nat, p = Processed', p <= Processed,
           UNCHANGED <<verdict, config, applied>>, runner' # "apply",
           runner' = "check" => verdict[cur'] # "raw"
    PROVE  Vetted'
  <1>1. \A n \in 0..(p - 1) : Fit(n)'
    BY FitBelow, ZenonT(40)
  <1>2. /\ \A n \in 0..(Len(applied') - 1) : verdict'[n] = "valid"
        /\ runner' \in {"check", "apply"} => verdict'[cur'] # "raw"
    BY Zenon DEF Vetted
  <1>3. runner' = "apply" => Applies' /\ verdict'[cur'] = "valid"
    BY Zenon
  <1> QED  BY <1>1, <1>2, <1>3, ZenonT(40) DEF Vetted

\* What was processed or applied keeps its verdict; what is next has been looked at.
LEMMA VettedStep ==
    Types /\ InRange /\ GateHeld /\ InFlight /\ Resolved /\ KeepsUp /\ AppliedSoFar /\ Vetted /\ [Next]_vars => Vetted'
  <1> SUFFICES ASSUME Types, InRange, GateHeld, InFlight, Resolved, KeepsUp, AppliedSoFar, Vetted, [Next]_vars PROVE Vetted'
    BY Zenon
  <1>1. CASE Start
    <2>1. UNCHANGED <<delivered, forwarder, resultsQueue, batch, runner, cur, applied, config, verdict>>
      BY <1>1, StartFrame, Zenon
    <2> QED  BY <2>1, Zenon DEF Vetted, Fit, Applies, Processed, Sent, Handed
  <1>2. ASSUME NEW x \in Submitters \cup Drainers, CancelCaller(x) PROVE Vetted'
    <2>1. UNCHANGED <<delivered, forwarder, resultsQueue, batch, runner, cur, applied, config, verdict>>
      BY <1>2, CancelCallerFrame, Zenon
    <2> QED  BY <2>1, Zenon DEF Vetted, Fit, Applies, Processed, Sent, Handed
  <1>3. ASSUME NEW s \in Submitters, Submit(s) PROVE Vetted'
    <2>1. UNCHANGED <<delivered, forwarder, resultsQueue, batch, runner, cur, applied, config, verdict>>
      BY <1>3, SubmitFrame, Zenon
    <2> QED  BY <2>1, Zenon DEF Vetted, Fit, Applies, Processed, Sent, Handed
  <1>4. ASSUME NEW w \in Workers, Pool(w) PROVE Vetted'
    <2>1. UNCHANGED <<delivered, forwarder, resultsQueue, batch, runner, cur, applied, config>> /\ w \in Running
      BY <1>4, PoolFrame, Zenon DEF Pool
    <2>2. Processed' = Processed
      BY <2>1, Zenon DEF Processed, Sent, Handed
    <2>3. \A n \in 0..(nextSequence - 1) : verdict'[n] = verdict[n]
      <3>1. CASE Work(w)
        <4>1. PICK n \in Seqs : nextSequence <= n /\ \A m \in Seqs \ {n} : verdict'[m] = verdict[m]
          BY <2>1, <3>1, WorkFinds, Zenon
        <4>2. n \in Nat /\ nextSequence \in Nat
          BY HereFacts, Lengths DEF Seqs
        <4> QED  BY <4>1, <4>2, FlightInRange
      <3>2. CASE ~Work(w)
        BY <1>4, <3>2, ZenonT(40) DEF Pool, Forward, WorkerExit
      <3> QED  BY <3>1, <3>2, Zenon
    <2>4. /\ Processed \in Nat /\ Processed <= nextSequence /\ nextSequence \in Nat
          /\ Len(applied) \in Nat /\ Len(applied) <= nextSequence
          /\ runner \in {"check", "apply"} => cur = nextSequence - 1 /\ cur \in Nat
      BY Lengths, Zenon DEF KeepsUp, AppliedSoFar, Types, RunnerTypes
    <2> QED  BY <2>1, <2>2, <2>3, <2>4 DEF Vetted, Fit, Applies
  <1>5. CASE Receive
    <2>1. UNCHANGED <<verdict, config>>
      BY <1>5, RunnerFrame, Zenon DEF Runner
    <2>2. /\ Processed = Sent + Len(batch) /\ Sent \in Nat /\ Len(batch) \in Nat
          /\ nextSequence \in Nat /\ batch \in Seq(Nat) /\ applied \in Seq(Nat)
      BY Lengths, Zenon DEF Types, RunnerTypes
    <2>3. applied' = applied
      BY <1>5, Zenon DEF Receive
    <2>4. Processed' <= Processed /\ Processed' \in Nat
      <3>1. ~SendResult
        BY <1>5, Zenon DEF SendResult, Receive
      <3>2. Len(batch') \in Nat /\ Len(batch') <= Len(batch)
        BY <1>5, <2>2 DEF Receive, Ends
      <3> QED  BY <1>5, <2>2, <3>1, <3>2, RunnerProcesses DEF Runner
    <2>5. runner' # "apply" /\ (runner' = "check" => verdict[cur'] # "raw")
      <3>1. runner' = "check" => /\ ~ctxDone /\ chan[ApplyInput] # <<>>
                                 /\ cur' = Head(chan[ApplyInput])
        BY <1>5, Zenon DEF Receive, Ends
      <3>2. ApplyInput \in {DecodedChan, ValidatedChan} /\ chan[ApplyInput] \in Seq(Nat)
        BY DEF ApplyInput, DecodedChan, ValidatedChan, SubmitChan, Types, PoolTypes, Chans
      <3>3. chan[ApplyInput] # <<>> => /\ Head(chan[ApplyInput]) = chan[ApplyInput][1]
                                       /\ 1 \in DOMAIN chan[ApplyInput]
        BY <3>2
      <3>4. runner' # "apply"
        BY <1>5, Zenon DEF Receive, Ends
      <3> QED  BY <3>1, <3>2, <3>3, <3>4, ZenonT(40) DEF Resolved
    <2> QED  BY <2>1, <2>3, <2>4, <2>5, VettedStays, Zenon
  <1>6. CASE maybeApply
    <2>1. UNCHANGED <<verdict, config>>
      BY <1>6, RunnerFrame, Zenon DEF Runner
    <2>2. /\ Processed = Sent + Len(batch) /\ Sent \in Nat /\ Len(batch) \in Nat
          /\ nextSequence \in Nat /\ batch \in Seq(Nat) /\ applied \in Seq(Nat)
      BY Lengths, Zenon DEF Types, RunnerTypes
    <2>3. /\ runner = "check" /\ UNCHANGED <<applied, cur>> /\ Processed = cur
          /\ cur = nextSequence - 1 /\ cur \in Nat /\ verdict[cur] # "raw"
      BY <1>6, Zenon DEF maybeApply, KeepsUp, Vetted, Types, RunnerTypes
    <2>4. Accepted(cur)
      BY <2>2, <2>3 DEF InFlight
    <2>5. cur \in Seqs /\ verdict[cur] \in Verdicts
      BY <2>3, <2>4, AcceptedInRange, Zenon DEF Types, PoolTypes
    <2>6. /\ config.trusted => ~config.validating
          /\ ~config.trusted => config.validating
      BY <2>3, <2>4, ConfigChecked, Zenon
    <2>7. ~Unfit(cur) => Fit(cur) /\ (~config.trusted => verdict[cur] = "valid")
      BY <2>3, <2>5, <2>6, Zenon DEF Unfit, Fit, Verdicts, Resolved
    <2>8. /\ runner' = "apply" => ~Unfit(cur) /\ Applies
          /\ runner' # "check"
          /\ batch' = batch \/ (batch' = Append(batch, cur) /\ ~Unfit(cur))
      BY <1>6, Zenon DEF maybeApply, Ends
    <2>9. ~SendResult
      BY <2>3, Zenon DEF SendResult
    <2>10. Processed' = Sent + Len(batch')
      BY <1>6, <2>9, RunnerProcesses, Zenon DEF Runner
    <2>11. \A n \in 0..(Processed' - 1) : Fit(n)
      <3>1. CASE batch' = batch
        BY <2>2, <2>10, <3>1, Zenon DEF Vetted
      <3>2. CASE batch' = Append(batch, cur) /\ ~Unfit(cur)
        <4>1. Processed' = cur + 1
          BY <2>2, <2>3, <2>10, <3>2
        <4> QED  BY <2>3, <2>7, <3>2, <4>1 DEF Vetted
      <3> QED  BY <2>8, <3>1, <3>2, Zenon
    <2> QED  BY <2>1, <2>3, <2>7, <2>8, <2>11, Zenon DEF Vetted, Fit, Applies
  <1>7. CASE applyItem
    <2>1. UNCHANGED <<verdict, config>>
      BY <1>7, RunnerFrame, ZenonT(40) DEF Runner
    <2>2. /\ Processed = Sent + Len(batch) /\ Sent \in Nat /\ Len(batch) \in Nat
          /\ nextSequence \in Nat /\ batch \in Seq(Nat) /\ applied \in Seq(Nat)
      BY Lengths, Zenon DEF Types, RunnerTypes
    <2>3. /\ runner = "apply" /\ UNCHANGED cur /\ Processed = cur
          /\ cur = nextSequence - 1 /\ cur \in Nat /\ Applies /\ verdict[cur] = "valid"
      BY <1>7, Zenon DEF applyItem, KeepsUp, Vetted, Types, RunnerTypes
    <2>4. Len(applied) = cur /\ Fit(cur)
      BY <2>2, <2>3, Zenon DEF AppliedSoFar, Whole, Fit, Applies
    <2>5. ~SendResult
      BY <2>3, Zenon DEF SendResult
    <2>6. Processed' = Sent + Len(batch')
      BY <1>7, <2>5, RunnerProcesses, Zenon DEF Runner
    <2>7. runner' \notin {"check", "apply"}
      BY <1>7, Zenon DEF applyItem, Ends
    <2>8. CASE batch' = batch /\ applied' = applied
      BY <2>1, <2>2, <2>6, <2>7, <2>8, ZenonT(40) DEF Vetted, Fit
    <2>9. CASE batch' = Append(batch, cur) /\ applied' = Append(applied, cur)
      <3>1. Processed' = cur + 1 /\ Len(applied') = cur + 1
        BY <2>2, <2>3, <2>4, <2>6, <2>9
      <3>2. \A n \in 0..cur : Fit(n) /\ verdict[n] = "valid"
        BY <2>2, <2>3, <2>4 DEF Vetted
      <3> QED  BY <2>1, <2>3, <2>7, <3>1, <3>2 DEF Vetted, Fit
    <2> QED  BY <1>7, <2>8, <2>9, Zenon DEF applyItem, Ends
  <1>8. CASE applyPending
    <2>1. UNCHANGED <<verdict, config>>
      BY <1>8, RunnerFrame, ZenonT(40) DEF Runner
    <2>2. /\ Processed = Sent + Len(batch) /\ Sent \in Nat /\ Len(batch) \in Nat
          /\ nextSequence \in Nat /\ batch \in Seq(Nat) /\ applied \in Seq(Nat)
      BY Lengths, Zenon DEF Types, RunnerTypes
    <2>3. applied' = applied
      BY <1>8, Zenon DEF applyPending
    <2>4. Processed' <= Processed /\ Processed' \in Nat
      <3>1. ~SendResult
        BY <1>8, Zenon DEF SendResult, applyPending
      <3>2. Len(batch') \in Nat /\ Len(batch') <= Len(batch)
        BY <1>8, <2>2 DEF applyPending, Ends
      <3> QED  BY <1>8, <2>2, <3>1, <3>2, RunnerProcesses DEF Runner
    <2>5. runner' # "apply" /\ (runner' = "check" => verdict[cur'] # "raw")
      BY <1>8, Zenon DEF applyPending, Ends, Resolved
    <2> QED  BY <2>1, <2>3, <2>4, <2>5, VettedStays, Zenon
  <1>9. CASE StoreCompleted
    <2>1. UNCHANGED <<verdict, config>>
      BY <1>9, RunnerFrame, ZenonT(40) DEF Runner
    <2>2. /\ Processed = Sent + Len(batch) /\ Sent \in Nat /\ Len(batch) \in Nat
          /\ nextSequence \in Nat /\ batch \in Seq(Nat) /\ applied \in Seq(Nat)
      BY Lengths, Zenon DEF Types, RunnerTypes
    <2>3. Processed' <= Processed /\ Processed' \in Nat
      <3>1. ~SendResult
        BY <1>9, Zenon DEF SendResult, StoreCompleted
      <3>2. Len(batch') \in Nat /\ Len(batch') <= Len(batch)
        BY <1>9, <2>2 DEF StoreCompleted, Ends
      <3> QED  BY <1>9, <2>2, <3>1, <3>2, RunnerProcesses DEF Runner
    <2>4. applied' = applied /\ runner' \notin {"check", "apply"}
      BY <1>9, ZenonT(40) DEF StoreCompleted, Ends
    <2> QED  BY <2>1, <2>3, <2>4, VettedStays, ZenonT(40)
  <1>10. CASE WakeWaiters
    <2>1. UNCHANGED <<verdict, config>>
      BY <1>10, RunnerFrame, ZenonT(40) DEF Runner
    <2>2. /\ Processed = Sent + Len(batch) /\ Sent \in Nat /\ Len(batch) \in Nat
          /\ nextSequence \in Nat /\ batch \in Seq(Nat) /\ applied \in Seq(Nat)
      BY Lengths, Zenon DEF Types, RunnerTypes
    <2>3. Processed' <= Processed /\ Processed' \in Nat
      <3>1. ~SendResult
        BY <1>10, Zenon DEF SendResult, WakeWaiters
      <3>2. Len(batch') \in Nat /\ Len(batch') <= Len(batch)
        BY <1>10, <2>2 DEF WakeWaiters, Ends
      <3> QED  BY <1>10, <2>2, <3>1, <3>2, RunnerProcesses DEF Runner
    <2>4. applied' = applied /\ runner' \notin {"check", "apply"}
      BY <1>10, ZenonT(40) DEF WakeWaiters, Ends
    <2> QED  BY <2>1, <2>3, <2>4, VettedStays, Zenon
  <1>11. CASE setFatalError
    <2>1. UNCHANGED <<verdict, config>>
      BY <1>11, RunnerFrame, ZenonT(40) DEF Runner
    <2>2. /\ Processed = Sent + Len(batch) /\ Sent \in Nat /\ Len(batch) \in Nat
          /\ nextSequence \in Nat /\ batch \in Seq(Nat) /\ applied \in Seq(Nat)
      BY Lengths, Zenon DEF Types, RunnerTypes
    <2>3. Processed' <= Processed /\ Processed' \in Nat
      <3>1. ~SendResult
        BY <1>11, Zenon DEF SendResult, setFatalError
      <3>2. Len(batch') \in Nat /\ Len(batch') <= Len(batch)
        BY <1>11, <2>2 DEF setFatalError, Ends
      <3> QED  BY <1>11, <2>2, <3>1, <3>2, RunnerProcesses DEF Runner
    <2>4. applied' = applied /\ runner' \notin {"check", "apply"}
      BY <1>11, ZenonT(40) DEF setFatalError, Ends
    <2> QED  BY <2>1, <2>3, <2>4, VettedStays, Zenon
  <1>12. CASE CancelAfterFailure
    <2>1. UNCHANGED <<verdict, config>>
      BY <1>12, RunnerFrame, ZenonT(40) DEF Runner
    <2>2. /\ Processed = Sent + Len(batch) /\ Sent \in Nat /\ Len(batch) \in Nat
          /\ nextSequence \in Nat /\ batch \in Seq(Nat) /\ applied \in Seq(Nat)
      BY Lengths, Zenon DEF Types, RunnerTypes
    <2>3. Processed' <= Processed /\ Processed' \in Nat
      <3>1. ~SendResult
        BY <1>12, Zenon DEF SendResult, CancelAfterFailure
      <3>2. Len(batch') \in Nat /\ Len(batch') <= Len(batch)
        BY <1>12, <2>2 DEF CancelAfterFailure, Ends
      <3> QED  BY <1>12, <2>2, <3>1, <3>2, RunnerProcesses DEF Runner
    <2>4. applied' = applied /\ runner' \notin {"check", "apply"}
      BY <1>12, Zenon DEF CancelAfterFailure, Ends
    <2> QED  BY <2>1, <2>3, <2>4, VettedStays, Zenon
  <1>13. CASE SendResult
    <2>1. UNCHANGED <<verdict, config>>
      BY <1>13, RunnerFrame, ZenonT(40) DEF Runner
    <2>2. /\ Processed = Sent + Len(batch) /\ Sent \in Nat /\ Len(batch) \in Nat
          /\ nextSequence \in Nat /\ batch \in Seq(Nat) /\ applied \in Seq(Nat)
      BY Lengths, Zenon DEF Types, RunnerTypes
    <2>3. Processed' <= Processed /\ Processed' \in Nat
      BY <1>13, RunnerProcesses, Lengths DEF Runner
    <2>4. applied' = applied /\ runner' = "send"
      BY <1>13, ZenonT(40) DEF SendResult
    <2> QED  BY <2>1, <2>3, <2>4, VettedStays, ZenonT(40)
  <1>14. CASE ResultsFull
    <2>1. UNCHANGED <<verdict, config>>
      BY <1>14, RunnerFrame, ZenonT(40) DEF Runner
    <2>2. /\ Processed = Sent + Len(batch) /\ Sent \in Nat /\ Len(batch) \in Nat
          /\ nextSequence \in Nat /\ batch \in Seq(Nat) /\ applied \in Seq(Nat)
      BY Lengths, Zenon DEF Types, RunnerTypes
    <2>3. Processed' <= Processed /\ Processed' \in Nat
      <3>1. ~SendResult
        BY <1>14, Zenon DEF SendResult, ResultsFull
      <3>2. Len(batch') \in Nat /\ Len(batch') <= Len(batch)
        BY <1>14, <2>2 DEF ResultsFull, Ends
      <3> QED  BY <1>14, <2>2, <3>1, <3>2, RunnerProcesses DEF Runner
    <2>4. applied' = applied /\ runner' \notin {"check", "apply"}
      BY <1>14, ZenonT(40) DEF ResultsFull, Ends
    <2> QED  BY <2>1, <2>3, <2>4, VettedStays, Zenon
  <1>15. CASE SendDone
    <2>1. UNCHANGED <<verdict, config>>
      BY <1>15, RunnerFrame, ZenonT(40) DEF Runner
    <2>2. /\ Processed = Sent + Len(batch) /\ Sent \in Nat /\ Len(batch) \in Nat
          /\ nextSequence \in Nat /\ batch \in Seq(Nat) /\ applied \in Seq(Nat)
      BY Lengths, Zenon DEF Types, RunnerTypes
    <2>3. Processed' <= Processed /\ Processed' \in Nat
      <3>1. ~SendResult
        BY <1>15, Zenon DEF SendResult, SendDone
      <3>2. Len(batch') \in Nat /\ Len(batch') <= Len(batch)
        BY <1>15, <2>2 DEF SendDone, Ends
      <3> QED  BY <1>15, <2>2, <3>1, <3>2, RunnerProcesses DEF Runner
    <2>4. applied' = applied /\ runner' \notin {"check", "apply"}
      BY <1>15, ZenonT(40) DEF SendDone, Ends
    <2> QED  BY <2>1, <2>3, <2>4, VettedStays, Zenon
  <1>16. CASE RunnerExit
    <2>1. UNCHANGED <<verdict, config>>
      BY <1>16, RunnerFrame, ZenonT(40) DEF Runner
    <2>2. /\ Processed = Sent + Len(batch) /\ Sent \in Nat /\ Len(batch) \in Nat
          /\ nextSequence \in Nat /\ batch \in Seq(Nat) /\ applied \in Seq(Nat)
      BY Lengths, Zenon DEF Types, RunnerTypes
    <2>3. Processed' <= Processed /\ Processed' \in Nat
      <3>1. ~SendResult
        BY <1>16, Zenon DEF SendResult, RunnerExit
      <3>2. Len(batch') \in Nat /\ Len(batch') <= Len(batch)
        BY <1>16, <2>2 DEF RunnerExit, Ends
      <3> QED  BY <1>16, <2>2, <3>1, <3>2, RunnerProcesses DEF Runner
    <2>4. applied' = applied /\ runner' \notin {"check", "apply"}
      BY <1>16, Zenon DEF RunnerExit, Ends
    <2> QED  BY <2>1, <2>3, <2>4, VettedStays, Zenon
  <1>17. CASE Results
    <2>1. UNCHANGED <<runner, cur, applied, config, verdict>>
      BY <1>17, ResultsFrame, Zenon
    <2>2. Processed' = Processed
      BY <1>17, ResultsKeep, ZenonT(40)
    <2> QED  BY <2>1, <2>2, Zenon DEF Vetted, Fit, Applies
  <1>18. ASSUME NEW d \in Drainers, Drain(d) PROVE Vetted'
    <2>1. UNCHANGED <<delivered, forwarder, resultsQueue, batch, runner, cur, applied, config, verdict>>
      BY <1>18, DrainFrame, ZenonT(40)
    <2> QED  BY <2>1, Zenon DEF Vetted, Fit, Applies, Processed, Sent, Handed
  <1>19. CASE StopNext
    <2>1. UNCHANGED <<delivered, forwarder, resultsQueue, batch, runner, cur, applied, config, verdict>>
      BY <1>19, StopNextFrame, ZenonT(40)
    <2> QED  BY <2>1, Zenon DEF Vetted, Fit, Applies, Processed, Sent, Handed
  <1>20. CASE UNCHANGED vars
    <2>1. UNCHANGED <<delivered, forwarder, resultsQueue, batch, runner, cur, applied, config, verdict>>
      BY <1>20, StutterFrame, Zenon
    <2> QED  BY <2>1, Zenon DEF Vetted, Fit, Applies, Processed, Sent, Handed
  <1> QED
    BY <1>1, <1>2, <1>3, <1>4, <1>5, <1>6, <1>7, <1>8, <1>9, <1>10, <1>11,
       <1>12, <1>13, <1>14, <1>15, <1>16, <1>17, <1>18, <1>19, <1>20, ZenonT(40)
       DEF Next, Runner, StopNext, Ended

-----------------------------------------------------------------------------
(***************************************************************************)
(* The completion boundary and the drains.                                 *)
(***************************************************************************)
\* The boundary is behind what was applied and what was committed.
LEMMA CompletedIsApplied ==
    ASSUME Types, GateHeld, InFlight, AppliedSoFar PROVE CompletedMeansApplied
  <1>1. /\ nextSequence \in Nat /\ completedSequence \in Nat /\ sequenceCounter \in Nat
        /\ Len(applied) \in Nat /\ completedSequence <= nextSequence
    BY Lengths, Zenon DEF AppliedSoFar, Types, SubmitTypes
  <1>2. config.applyFunc => completedSequence <= Len(applied)
    <2>1. CASE nextSequence = 0
      BY <1>1, <2>1
    <2>2. CASE nextSequence > 0
      <3>1. nextSequence - 1 \in Nat /\ Accepted(nextSequence - 1)
        BY <1>1, <2>2 DEF InFlight
      <3>2. config.applyFunc => Applies
        BY <3>1, ConfigChecked, Zenon
      <3> QED  BY <3>2, Zenon DEF AppliedSoFar
    <2> QED  BY <1>1, <2>1, <2>2
  <1>3. submitGate => completedSequence <= sequenceCounter
    <2>1. submitGate => \A s \in Submitters : pc[s] # "count"
      BY Zenon DEF GateHeld, Holding
    <2>2. submitGate /\ nextSequence > 0 => nextSequence - 1 < sequenceCounter
      BY <1>1, <2>1 DEF InFlight, Accepted
    <2> QED  BY <1>1, <2>2
  <1> QED  BY <1>2, <1>3, Zenon DEF CompletedMeansApplied

\* A drain succeeds when the boundary has come to its target.
LEMMA DrainCoversStep ==
    Types /\ GateHeld /\ InFlight /\ AppliedSoFar /\ DrainCovers /\ [Next]_vars => DrainCovers'
  <1> SUFFICES ASSUME Types, GateHeld, InFlight, AppliedSoFar, DrainCovers, [Next]_vars PROVE DrainCovers'
    BY Zenon
  <1>0. /\ sequenceCounter \in Nat /\ target \in [Drainers -> Nat] /\ since \in [Drainers -> Nat]
        /\ drain \in [Drainers -> {"idle", "gate", "check", "wait", "return", "done"}]
        /\ fence \in [Drainers -> {"none", "ok", "cancelled", "stopped", "fatal"}]
        /\ answer \in [Drainers -> {"none", "ok", "cancelled", "stopped", "fatal", "vacuous"}]
    BY Zenon DEF Types, SubmitTypes, DrainTypes
  <1>1. CASE Start
    <2>1. UNCHANGED <<drain, target, since, fence, answer, applied, sequenceCounter, config>>
      BY <1>1, StartFrame, Zenon
    <2> QED  BY <2>1, Zenon DEF DrainCovers
  <1>2. ASSUME NEW x \in Submitters \cup Drainers, CancelCaller(x) PROVE DrainCovers'
    <2>1. UNCHANGED <<drain, target, since, fence, answer, applied, sequenceCounter, config>>
      BY <1>2, CancelCallerFrame, Zenon
    <2> QED  BY <2>1, Zenon DEF DrainCovers
  <1>3. ASSUME NEW s \in Submitters, Submit(s) PROVE DrainCovers'
    <2>1. UNCHANGED <<drain, target, since, fence, answer, applied, config>>
      BY <1>3, SubmitFrame, ZenonT(40)
    <2>2. /\ sequenceCounter' \in {sequenceCounter, sequenceCounter + 1} /\ sequenceCounter \in Nat
          /\ since \in [Drainers -> Nat]
      BY <1>3, ZenonT(40) DEF Submit, SubmitCall, reserveRawCborBytes, AwaitBudget, BudgetFreed, BudgetAbandoned, lockSubmit, SubmitAbandoned, waitForPendingCapacity, CapacityFreed, SubmitRefused, trackItem, Enqueue, CommitSequence, EnqueueAbandoned, At, Aborted, Return, Types, SubmitTypes, DrainTypes
    <2> QED  BY <2>1, <2>2 DEF DrainCovers
  <1>4. ASSUME NEW w \in Workers, Pool(w) PROVE DrainCovers'
    <2>1. UNCHANGED <<drain, target, since, fence, answer, applied, sequenceCounter, config>>
      BY <1>4, PoolFrame, Zenon
    <2> QED  BY <2>1, Zenon DEF DrainCovers
  <1>5. CASE Runner
    <2>1. UNCHANGED <<drain, target, since, fence, answer, sequenceCounter, config>>
      BY <1>5, RunnerFrame, ZenonT(40)
    <2>2. Len(applied') >= Len(applied) /\ Len(applied) \in Nat /\ Len(applied') \in Nat
      <3>1. applied' = applied \/ applied' = Append(applied, cur)
        BY <1>5, ZenonT(40) DEF Runner, Receive, maybeApply, applyItem, applyPending, StoreCompleted,
           WakeWaiters, setFatalError, CancelAfterFailure, SendResult, ResultsFull, SendDone,
           RunnerExit
      <3>2. applied \in Seq(Nat)
        BY Zenon DEF Types, RunnerTypes
      <3> QED  BY <3>1, <3>2
    <2>3. since \in [Drainers -> Nat]
      BY Zenon DEF Types, DrainTypes
    <2> QED  BY <2>1, <2>2, <2>3 DEF DrainCovers
  <1>6. CASE Results
    <2>1. UNCHANGED <<drain, target, since, fence, answer, applied, sequenceCounter, config>>
      BY <1>6, ResultsFrame, Zenon
    <2> QED  BY <2>1, Zenon DEF DrainCovers
  <1>7. ASSUME NEW d \in Drainers, WaitForDrain(d) PROVE DrainCovers'
    <2>1. UNCHANGED <<sequenceCounter, applied, config>>
      BY <1>7, DrainFrame, Zenon DEF Drain
    <2> QED  BY <1>0, <1>7, <2>1 DEF DrainCovers, WaitForDrain
  <1>8. ASSUME NEW d \in Drainers, FenceBoundary(d) PROVE DrainCovers'
    <2>1. UNCHANGED <<sequenceCounter, applied, config>>
      BY <1>8, DrainFrame, Zenon DEF Drain
    <2> QED  BY <1>0, <1>8, <2>1 DEF DrainCovers, FenceBoundary, FenceReturns, stoppedError
  <1>9. ASSUME NEW d \in Drainers, FenceReached(d) PROVE DrainCovers'
    <2>1. UNCHANGED <<sequenceCounter, applied, config>>
      BY <1>9, DrainFrame, Zenon DEF Drain
    <2>2. config.applyFunc => Len(applied) >= since[d]
      BY <1>0, <1>9, CompletedIsApplied, Lengths DEF CompletedMeansApplied, DrainCovers, FenceReached
    <2> QED  BY <1>0, <1>9, <2>1, <2>2, ZenonT(40) DEF DrainCovers, FenceReached, FenceReturns
  <1>10. ASSUME NEW d \in Drainers, FenceWaits(d) PROVE DrainCovers'
    <2>1. UNCHANGED <<sequenceCounter, applied, config>>
      BY <1>10, DrainFrame, ZenonT(40) DEF Drain
    <2> QED  BY <1>0, <1>10, <2>1, ZenonT(40) DEF DrainCovers, FenceWaits
  <1>11. ASSUME NEW d \in Drainers, FenceWoken(d) PROVE DrainCovers'
    <2>1. UNCHANGED <<sequenceCounter, applied, config>>
      BY <1>11, DrainFrame, ZenonT(40) DEF Drain
    <2> QED  BY <1>0, <1>11, <2>1, ZenonT(40) DEF DrainCovers, FenceWoken
  <1>12. ASSUME NEW d \in Drainers, FenceAbandoned(d) PROVE DrainCovers'
    <2>1. UNCHANGED <<sequenceCounter, applied, config>>
      BY <1>12, DrainFrame, Zenon DEF Drain
    <2> QED  BY <1>0, <1>12, <2>1 DEF DrainCovers, FenceAbandoned, FenceReturns, stoppedError
  <1>13. ASSUME NEW d \in Drainers, DrainReturns(d) PROVE DrainCovers'
    <2>1. UNCHANGED <<sequenceCounter, applied, config>>
      BY <1>13, DrainFrame, ZenonT(40) DEF Drain
    <2> QED  BY <1>0, <1>13, <2>1, ZenonT(40) DEF DrainCovers, DrainReturns, Drained, stoppedError
  <1>14. CASE StopNext
    <2>1. UNCHANGED <<drain, target, since, fence, answer, applied, sequenceCounter, config>>
      BY <1>14, StopNextFrame, ZenonT(40)
    <2> QED  BY <2>1, Zenon DEF DrainCovers
  <1>15. CASE UNCHANGED vars
    <2>1. UNCHANGED <<drain, target, since, fence, answer, applied, sequenceCounter, config>>
      BY <1>15, StutterFrame, ZenonT(40)
    <2> QED  BY <2>1, Zenon DEF DrainCovers
  <1> QED
    BY <1>1, <1>2, <1>3, <1>4, <1>5, <1>6, <1>7, <1>8, <1>9, <1>10, <1>11,
       <1>12, <1>13, <1>14, <1>15, ZenonT(40)
       DEF Next, Drain, StopNext, Ended

-----------------------------------------------------------------------------
\* The numbers given out, the one a caller holds with its item included.
Claiming == {"enqueue", "count"}
Claimed(n) ==
    /\ n <= sequenceCounter
    /\ n = sequenceCounter => \E s \in Submitters : pc[s] \in Claiming

\* The runner is ahead of the completion boundary while it processes.
Ahead ==
    /\ runner \in {"check", "apply", "pending"} => completedSequence < nextSequence
    /\ runner \in {"check", "apply", "pending", "store"} => completedSequence <= Processed

\* No number runs ahead of the boundary by more than MaxPending.
Throttled ==
    MaxPending > 0 => \A n \in Nat : Claimed(n) => n <= completedSequence + MaxPending

\* The next item waits in the buffer only after a cancellation, when no number
\* is given out any more.
CallOver ==
    \/ runner = "receive"
    \/ runner \in {"store", "wake", "fail", "cancel", "send", "blocked"} /\ outcome # "fatal"
CutShort ==
    MaxPending > 0 /\ nextSequence \in pending /\ CallOver
        => ctxDone /\ \A n \in Nat : Claimed(n) => n < nextSequence + MaxPending

\* The channels have the room they were made with.
Roomy == \A c \in Chans : Len(chan[c]) <= BufSize

\* What a step of Submit does to the numbers given out.
LEMMA SubmitMoves ==
    ASSUME Types, NEW s \in Submitters, Submit(s)
    PROVE  /\ \A t \in Submitters \ {s} : pc'[t] = pc[t]
           /\ \/ /\ pc[s] \notin Claiming /\ pc'[s] \notin Claiming
                 /\ UNCHANGED <<sequenceCounter, activeItems, size, chan>>
              \/ trackItem(s) \/ Enqueue(s) \/ CommitSequence(s) \/ EnqueueAbandoned(s)
  <1>0. pc \in [Submitters -> {"idle", "budget", "budgetWait", "gate", "capacity",
                               "capacityWait", "enqueue", "count"}]
    BY Zenon DEF Types, SubmitTypes
  <1> DEFINE Q == /\ \A t \in Submitters \ {s} : pc'[t] = pc[t]
                  /\ pc[s] \notin Claiming /\ pc'[s] \notin Claiming
                  /\ UNCHANGED <<sequenceCounter, activeItems, size, chan>>
  <1>1. ASSUME SubmitCall(s) PROVE Q
    BY <1>0, <1>1, ZenonT(40) DEF Claiming, budgetVars, SubmitCall
  <1>2. ASSUME reserveRawCborBytes(s) PROVE Q
    BY <1>0, <1>2, ZenonT(40) DEF Claiming, budgetVars, reserveRawCborBytes, At
  <1>3. ASSUME AwaitBudget(s) PROVE Q
    BY <1>0, <1>3, ZenonT(40) DEF Claiming, budgetVars, AwaitBudget, At
  <1>4. ASSUME BudgetFreed(s) PROVE Q
    BY <1>0, <1>4, ZenonT(40) DEF Claiming, budgetVars, BudgetFreed, At
  <1>5. ASSUME BudgetAbandoned(s) PROVE Q
    BY <1>0, <1>5, ZenonT(40) DEF Claiming, budgetVars, BudgetAbandoned, Return
  <1>6. ASSUME lockSubmit(s) PROVE Q
    BY <1>0, <1>6, ZenonT(40) DEF Claiming, budgetVars, lockSubmit, At
  <1>7. ASSUME SubmitAbandoned(s) PROVE Q
    BY <1>0, <1>7, ZenonT(40) DEF Claiming, budgetVars, SubmitAbandoned, Aborted, Return
  <1>8. ASSUME waitForPendingCapacity(s) PROVE Q
    BY <1>0, <1>8, ZenonT(40) DEF Claiming, budgetVars, waitForPendingCapacity, At
  <1>9. ASSUME CapacityFreed(s) PROVE Q
    BY <1>0, <1>9, ZenonT(40) DEF Claiming, budgetVars, CapacityFreed, At
  <1>10. ASSUME SubmitRefused(s) PROVE Q
    BY <1>0, <1>10, ZenonT(40) DEF Claiming, budgetVars, SubmitRefused, Aborted, Return
  <1>11. ASSUME trackItem(s) PROVE \A t \in Submitters \ {s} : pc'[t] = pc[t]
    BY <1>0, <1>11, ZenonT(40) DEF trackItem, At
  <1>12. ASSUME Enqueue(s) PROVE \A t \in Submitters \ {s} : pc'[t] = pc[t]
    BY <1>0, <1>12, Zenon DEF Enqueue, At
  <1>13. ASSUME CommitSequence(s) PROVE \A t \in Submitters \ {s} : pc'[t] = pc[t]
    BY <1>0, <1>13, ZenonT(40) DEF CommitSequence, Return
  <1>14. ASSUME EnqueueAbandoned(s) PROVE \A t \in Submitters \ {s} : pc'[t] = pc[t]
    BY <1>0, <1>14, ZenonT(40) DEF EnqueueAbandoned, Aborted, Return, ReleaseItems
  <1> HIDE DEF Q
  <1>15. Q \/ trackItem(s) \/ Enqueue(s) \/ CommitSequence(s) \/ EnqueueAbandoned(s)
    BY <1>1, <1>2, <1>3, <1>4, <1>5, <1>6, <1>7, <1>8, <1>9, <1>10,
       ZenonT(40) DEF Submit
  <1> QED  BY <1>11, <1>12, <1>13, <1>14, <1>15, ZenonT(40) DEF Q

\* A number is given out under the gate, and taken back only before its item
\* is on its way.
LEMMA SubmitClaims ==
    ASSUME Types, GateHeld, NEW s \in Submitters, Submit(s)
    PROVE  /\ \A n \in Nat : Claimed(n)' => Claimed(n) \/ (trackItem(s) /\ n = sequenceCounter)
           /\ \A n \in Nat :
                Claimed(n) => Claimed(n)' \/ (EnqueueAbandoned(s) /\ n = sequenceCounter)
           /\ trackItem(s) => ~Claimed(sequenceCounter)
  <1>0. /\ sequenceCounter \in Nat
        /\ pc \in [Submitters -> {"idle", "budget", "budgetWait", "gate", "capacity",
                                  "capacityWait", "enqueue", "count"}]
    BY Zenon DEF Types, SubmitTypes
  <1>1. \A t \in Submitters \ {s} : pc'[t] = pc[t]
    BY SubmitMoves, Zenon
  <1>2. pc[s] \in Holding => \A t \in Submitters \ {s} : pc[t] \notin Claiming
    BY Zenon DEF GateHeld, Holding, Claiming
  <1>3. trackItem(s) => ~Claimed(sequenceCounter)
    BY <1>0, <1>2, ZenonT(40) DEF trackItem, At, Claimed, Claiming, Holding
  <1>4. CASE /\ pc[s] \notin Claiming /\ pc'[s] \notin Claiming
             /\ UNCHANGED <<sequenceCounter, activeItems, size, chan>>
    <2>1. \A t \in Submitters : pc'[t] \in Claiming <=> pc[t] \in Claiming
      BY <1>1, <1>4, Zenon
    <2> QED  BY <1>3, <1>4, <2>1, ZenonT(40) DEF Claimed
  <1>5. CASE trackItem(s)
    <2>1. sequenceCounter' = sequenceCounter /\ pc'[s] \in Claiming
      BY <1>0, <1>5, ZenonT(40) DEF trackItem, At, Claiming
    <2> QED  BY <1>0, <1>1, <1>3, <1>5, <2>1, ZenonT(40) DEF Claimed
  <1>6. CASE Enqueue(s)
    <2>1. sequenceCounter' = sequenceCounter /\ pc'[s] \in Claiming /\ pc[s] \in Claiming
      BY <1>0, <1>6, ZenonT(40) DEF Enqueue, At, Claiming
    <2> QED  BY <1>0, <1>1, <1>3, <1>6, <2>1, ZenonT(40) DEF Claimed
  <1>7. CASE CommitSequence(s)
    <2>1. /\ sequenceCounter' = sequenceCounter + 1 /\ pc[s] \in Claiming /\ pc[s] \in Holding
          /\ pc'[s] \notin Claiming
      BY <1>0, <1>7, Zenon DEF CommitSequence, Return, Claiming, Holding
    <2>2. \A t \in Submitters : pc'[t] \notin Claiming
      BY <1>1, <1>2, <2>1, Zenon
    <2> QED  BY <1>0, <1>3, <1>7, <2>1, <2>2 DEF Claimed
  <1>8. CASE EnqueueAbandoned(s)
    <2>1. /\ sequenceCounter' = sequenceCounter /\ pc[s] \in Claiming /\ pc[s] \in Holding
          /\ pc'[s] \notin Claiming
      BY <1>0, <1>8, ZenonT(40) DEF EnqueueAbandoned, Aborted, Return, Claiming, Holding
    <2>2. \A t \in Submitters : pc'[t] \notin Claiming
      BY <1>1, <1>2, <2>1, ZenonT(40)
    <2> QED  BY <1>0, <1>3, <1>8, <2>1, <2>2, Zenon DEF Claimed
  <1> QED  BY <1>4, <1>5, <1>6, <1>7, <1>8, SubmitMoves, ZenonT(40)

\* The boundary moves to what was processed, and what comes next is beyond it.
LEMMA AheadStep ==
    Types /\ InLine /\ KeepsUp /\ AppliedSoFar /\ Ahead /\ [Next]_vars => Ahead'
  <1> SUFFICES ASSUME Types, InLine, KeepsUp, AppliedSoFar, Ahead, [Next]_vars PROVE Ahead'
    BY Zenon
  <1>1. CASE Start
    <2>1. UNCHANGED <<runner, completedSequence, nextSequence, delivered, forwarder, resultsQueue, batch>>
      BY <1>1, StartFrame, ZenonT(40)
    <2> QED  BY <2>1, Zenon DEF Ahead, Processed, Sent, Handed
  <1>2. ASSUME NEW x \in Submitters \cup Drainers, CancelCaller(x) PROVE Ahead'
    <2>1. UNCHANGED <<runner, completedSequence, nextSequence, delivered, forwarder, resultsQueue, batch>>
      BY <1>2, CancelCallerFrame, Zenon
    <2> QED  BY <2>1, Zenon DEF Ahead, Processed, Sent, Handed
  <1>3. ASSUME NEW s \in Submitters, Submit(s) PROVE Ahead'
    <2>1. UNCHANGED <<runner, completedSequence, nextSequence, delivered, forwarder, resultsQueue, batch>>
      BY <1>3, SubmitFrame, Zenon
    <2> QED  BY <2>1, Zenon DEF Ahead, Processed, Sent, Handed
  <1>4. ASSUME NEW w \in Workers, Pool(w) PROVE Ahead'
    <2>1. UNCHANGED <<runner, completedSequence, nextSequence, delivered, forwarder, resultsQueue, batch>>
      BY <1>4, PoolFrame, ZenonT(40)
    <2> QED  BY <2>1, Zenon DEF Ahead, Processed, Sent, Handed
  <1>5. CASE Receive
    <2>1. ~SendResult => Processed' = Sent + Len(batch')
      BY <1>5, RunnerProcesses, ZenonT(40) DEF Runner
    <2>2. /\ Processed = Sent + Len(batch) /\ Sent \in Nat /\ Len(batch) \in Nat
          /\ nextSequence \in Nat /\ batch \in Seq(Nat) /\ completedSequence \in Nat
      BY Lengths, Zenon DEF Types, RunnerTypes
    <2>3. ~SendResult
      BY <1>5, Zenon DEF SendResult, Receive
    <2> QED  BY <1>5, <2>1, <2>2, <2>3 DEF Ahead, KeepsUp, Whole, AppliedSoFar, Receive, Ends, Idles
  <1>6. CASE maybeApply
    <2>1. ~SendResult => Processed' = Sent + Len(batch')
      BY <1>6, RunnerProcesses, ZenonT(40) DEF Runner
    <2>2. /\ Processed = Sent + Len(batch) /\ Sent \in Nat /\ Len(batch) \in Nat
          /\ nextSequence \in Nat /\ batch \in Seq(Nat) /\ completedSequence \in Nat
      BY Lengths, Zenon DEF Types, RunnerTypes
    <2>3. ~SendResult
      BY <1>6, Zenon DEF SendResult, maybeApply
    <2>4. /\ UNCHANGED <<completedSequence, nextSequence>> /\ runner = "check"
          /\ batch' = batch \/ batch' = Append(batch, cur)
      BY <1>6, Zenon DEF maybeApply, Ends, Idles
    <2>5. Len(batch') \in Nat /\ Len(batch') >= Len(batch)
      BY <2>2, <2>4
    <2> QED  BY <2>1, <2>2, <2>3, <2>4, <2>5 DEF Ahead
  <1>7. CASE applyItem
    <2>1. ~SendResult => Processed' = Sent + Len(batch')
      BY <1>7, RunnerProcesses, ZenonT(40) DEF Runner
    <2>2. /\ Processed = Sent + Len(batch) /\ Sent \in Nat /\ Len(batch) \in Nat
          /\ nextSequence \in Nat /\ batch \in Seq(Nat) /\ completedSequence \in Nat
      BY Lengths, Zenon DEF Types, RunnerTypes
    <2>3. ~SendResult
      BY <1>7, Zenon DEF SendResult, applyItem
    <2>4. /\ UNCHANGED <<completedSequence, nextSequence>> /\ runner = "apply"
          /\ batch' = batch \/ batch' = Append(batch, cur)
      BY <1>7, Zenon DEF applyItem, Ends, Idles
    <2>5. Len(batch') \in Nat /\ Len(batch') >= Len(batch)
      BY <2>2, <2>4
    <2> QED  BY <2>1, <2>2, <2>3, <2>4, <2>5 DEF Ahead
  <1>8. CASE applyPending
    <2>1. ~SendResult => Processed' = Sent + Len(batch')
      BY <1>8, RunnerProcesses, Zenon DEF Runner
    <2>2. /\ Processed = Sent + Len(batch) /\ Sent \in Nat /\ Len(batch) \in Nat
          /\ nextSequence \in Nat /\ batch \in Seq(Nat) /\ completedSequence \in Nat
      BY Lengths, Zenon DEF Types, RunnerTypes
    <2>3. ~SendResult
      BY <1>8, Zenon DEF SendResult, applyPending
    <2> QED  BY <1>8, <2>1, <2>2, <2>3 DEF Ahead, KeepsUp, Whole, AppliedSoFar, applyPending, Ends, Idles
  <1>9. CASE StoreCompleted
    <2>1. runner' \notin {"check", "apply", "pending", "store"}
      BY <1>9, ZenonT(40) DEF StoreCompleted
    <2> QED  BY <2>1, Zenon DEF Ahead
  <1>10. CASE WakeWaiters
    <2>1. runner' \notin {"check", "apply", "pending", "store"}
      BY <1>10, ZenonT(40) DEF WakeWaiters
    <2> QED  BY <2>1, Zenon DEF Ahead
  <1>11. CASE setFatalError
    <2>1. runner' \notin {"check", "apply", "pending", "store"}
      BY <1>11, ZenonT(40) DEF setFatalError
    <2> QED  BY <2>1, Zenon DEF Ahead
  <1>12. CASE CancelAfterFailure
    <2>1. runner' \notin {"check", "apply", "pending", "store"}
      BY <1>12, Zenon DEF CancelAfterFailure
    <2> QED  BY <2>1, Zenon DEF Ahead
  <1>13. CASE SendResult
    <2>1. runner' = "send"
      BY <1>13, ZenonT(40) DEF SendResult
    <2> QED  BY <2>1, Zenon DEF Ahead
  <1>14. CASE ResultsFull
    <2>1. runner' \notin {"check", "apply", "pending", "store"}
      BY <1>14, ZenonT(40) DEF ResultsFull
    <2> QED  BY <2>1, Zenon DEF Ahead
  <1>15. CASE SendDone
    <2>1. runner' \notin {"check", "apply", "pending", "store"}
      BY <1>15, ZenonT(40) DEF SendDone
    <2> QED  BY <2>1, Zenon DEF Ahead
  <1>16. CASE RunnerExit
    <2>1. runner' \notin {"check", "apply", "pending", "store"}
      BY <1>16, Zenon DEF RunnerExit
    <2> QED  BY <2>1, Zenon DEF Ahead
  <1>17. CASE Results
    <2>1. UNCHANGED <<runner, completedSequence, nextSequence>>
      BY <1>17, ResultsFrame, ZenonT(40)
    <2>2. Processed' = Processed
      BY <1>17, ResultsKeep, ZenonT(40)
    <2> QED  BY <2>1, <2>2, Zenon DEF Ahead
  <1>18. ASSUME NEW d \in Drainers, Drain(d) PROVE Ahead'
    <2>1. UNCHANGED <<runner, completedSequence, nextSequence, delivered, forwarder, resultsQueue, batch>>
      BY <1>18, DrainFrame, ZenonT(40)
    <2> QED  BY <2>1, Zenon DEF Ahead, Processed, Sent, Handed
  <1>19. CASE StopNext
    <2>1. UNCHANGED <<runner, completedSequence, nextSequence, delivered, forwarder, resultsQueue, batch>>
      BY <1>19, StopNextFrame, ZenonT(40)
    <2> QED  BY <2>1, Zenon DEF Ahead, Processed, Sent, Handed
  <1>20. CASE UNCHANGED vars
    <2>1. UNCHANGED <<runner, completedSequence, nextSequence, delivered, forwarder, resultsQueue, batch>>
      BY <1>20, StutterFrame, ZenonT(40)
    <2> QED  BY <2>1, Zenon DEF Ahead, Processed, Sent, Handed
  <1> QED
    BY <1>1, <1>2, <1>3, <1>4, <1>5, <1>6, <1>7, <1>8, <1>9, <1>10, <1>11,
       <1>12, <1>13, <1>14, <1>15, <1>16, <1>17, <1>18, <1>19, <1>20, ZenonT(40)
       DEF Next, Runner, StopNext, Ended

\* The boundary never moves back.
LEMMA BoundaryGrows ==
    ASSUME Types, InLine, Ahead, Runner
    PROVE  completedSequence' \in Nat /\ completedSequence <= completedSequence'
  <1>0. completedSequence \in Nat /\ batch \in Seq(Nat)
    BY Zenon DEF Types, RunnerTypes
  <1>1. CASE StoreCompleted
    <2>1. runner = "store" /\ completedSequence' = batch[Len(batch)] + 1
      BY <1>1, Zenon DEF StoreCompleted
    <2>2. batch # <<>> /\ Len(batch) \in DOMAIN batch
      BY <1>0, <2>1 DEF Types, RunnerTypes
    <2>3. completedSequence' = Processed
      BY <2>1, <2>2, Lengths DEF InLine, Numbered
    <2> QED  BY <1>0, <2>1, <2>3, Lengths, ZenonT(40) DEF Ahead
  <1>2. CASE ~StoreCompleted
    <2>1. completedSequence' = completedSequence
      BY <1>2, ZenonT(40) DEF Runner, Receive, maybeApply, applyItem, applyPending,
           StoreCompleted, WakeWaiters, setFatalError, CancelAfterFailure, SendResult,
           ResultsFull, SendDone, RunnerExit, Idles
    <2> QED  BY <1>0, <2>1
  <1> QED  BY <1>1, <1>2, Zenon

\* Submit looks at the boundary before it gives a number out.
LEMMA ThrottledStep ==
    Types /\ GateHeld /\ InLine /\ Ahead /\ Throttled /\ [Next]_vars => Throttled'
  <1> SUFFICES ASSUME Types, GateHeld, InLine, Ahead, Throttled, [Next]_vars PROVE Throttled'
    BY Zenon
  <1>1. CASE Start
    <2>1. UNCHANGED <<scenario, sequenceCounter, pc, completedSequence>>
      BY <1>1, StartFrame, Zenon
    <2> QED  BY <2>1, Zenon DEF Throttled, Claimed, MaxPending, Here, Pipelines
  <1>2. ASSUME NEW x \in Submitters \cup Drainers, CancelCaller(x) PROVE Throttled'
    <2>1. UNCHANGED <<scenario, sequenceCounter, pc, completedSequence>>
      BY <1>2, CancelCallerFrame, ZenonT(40)
    <2> QED  BY <2>1, Zenon DEF Throttled, Claimed, MaxPending, Here, Pipelines
  <1>3. ASSUME NEW s \in Submitters, Submit(s) PROVE Throttled'
    <2>1. MaxPending' = MaxPending /\ completedSequence' = completedSequence
      BY <1>3, SubmitFrame, ZenonT(40) DEF MaxPending, Here, Pipelines
    <2>2. /\ MaxPending \in Nat /\ completedSequence \in Nat /\ sequenceCounter \in Nat
      BY HereFacts, ZenonT(40) DEF Types, RunnerTypes, SubmitTypes
    <2>3. trackItem(s) /\ MaxPending > 0 => sequenceCounter <= completedSequence + MaxPending
      BY <2>2 DEF trackItem, HasCapacity
    <2>4. \A n \in Nat : Claimed(n)' => Claimed(n) \/ (trackItem(s) /\ n = sequenceCounter)
      BY <1>3, SubmitClaims, ZenonT(40)
    <2> QED  BY <2>1, <2>2, <2>3, <2>4, ZenonT(40) DEF Throttled
  <1>4. ASSUME NEW w \in Workers, Pool(w) PROVE Throttled'
    <2>1. UNCHANGED <<scenario, sequenceCounter, pc, completedSequence>>
      BY <1>4, PoolFrame, ZenonT(40)
    <2> QED  BY <2>1, Zenon DEF Throttled, Claimed, MaxPending, Here, Pipelines
  <1>5. CASE Runner
    <2>1. MaxPending' = MaxPending /\ UNCHANGED <<sequenceCounter, pc>>
      BY <1>5, RunnerFrame, ZenonT(40) DEF MaxPending, Here, Pipelines
    <2>2. completedSequence' \in Nat /\ completedSequence <= completedSequence'
      BY <1>5, BoundaryGrows, Zenon
    <2>3. MaxPending \in Nat /\ completedSequence \in Nat
      BY HereFacts, ZenonT(40) DEF Types, RunnerTypes
    <2>4. \A n \in Nat : Claimed(n)' => Claimed(n)
      BY <2>1, Zenon DEF Claimed
    <2>5. MaxPending > 0 => \A n \in Nat : Claimed(n) => n <= completedSequence + MaxPending
      BY Zenon DEF Throttled
    <2>6. ASSUME MaxPending > 0, NEW n \in Nat, Claimed(n)
          PROVE  n <= completedSequence' + MaxPending
      <3>1. PICK b \in Nat : b = completedSequence' /\ completedSequence <= b
        BY <2>2, Zenon
      <3>2. n <= completedSequence + MaxPending
        BY <2>5, <2>6, ZenonT(40)
      <3>3. completedSequence <= b
        BY <3>1, Zenon
      <3>4. n <= b + MaxPending
        BY ONLY <2>3, <3>2, <3>3, n \in Nat, b \in Nat
      <3> QED  BY <3>1, <3>4, ZenonT(40)
    <2> QED  BY <2>1, <2>4, <2>6, ZenonT(40) DEF Throttled
  <1>6. CASE Results
    <2>1. UNCHANGED <<scenario, sequenceCounter, pc, completedSequence>>
      BY <1>6, ResultsFrame, ZenonT(40)
    <2> QED  BY <2>1, Zenon DEF Throttled, Claimed, MaxPending, Here, Pipelines
  <1>7. ASSUME NEW d \in Drainers, Drain(d) PROVE Throttled'
    <2>1. UNCHANGED <<scenario, sequenceCounter, pc, completedSequence>>
      BY <1>7, DrainFrame, ZenonT(40)
    <2> QED  BY <2>1, Zenon DEF Throttled, Claimed, MaxPending, Here, Pipelines
  <1>8. CASE StopNext
    <2>1. UNCHANGED <<scenario, sequenceCounter, pc, completedSequence>>
      BY <1>8, StopNextFrame, ZenonT(40)
    <2> QED  BY <2>1, Zenon DEF Throttled, Claimed, MaxPending, Here, Pipelines
  <1>9. CASE UNCHANGED vars
    <2>1. UNCHANGED <<scenario, sequenceCounter, pc, completedSequence>>
      BY <1>9, StutterFrame, ZenonT(40)
    <2> QED  BY <2>1, Zenon DEF Throttled, Claimed, MaxPending, Here, Pipelines
  <1> QED
    BY <1>1, <1>2, <1>3, <1>4, <1>5, <1>6, <1>7, <1>8, <1>9, ZenonT(40)
       DEF Next, StopNext, Ended

\* A call that leaves the next item in the buffer was cancelled.
LEMMA CutShortStep ==
    Types /\ GateHeld /\ Ahead /\ Throttled /\ CutShort /\ [Next]_vars => CutShort'
  <1> SUFFICES ASSUME Types, GateHeld, Ahead, Throttled, CutShort, [Next]_vars PROVE CutShort'
    BY Zenon
  <1>1. CASE Start
    <2>1. UNCHANGED <<scenario, sequenceCounter, pc, nextSequence, pending, runner, outcome, ctxDone>>
      BY <1>1, StartFrame, ZenonT(40)
    <2> QED  BY <2>1, Zenon DEF CutShort, CallOver, Claimed, MaxPending, Here, Pipelines
  <1>2. ASSUME NEW x \in Submitters \cup Drainers, CancelCaller(x) PROVE CutShort'
    <2>1. UNCHANGED <<scenario, sequenceCounter, pc, nextSequence, pending, runner, outcome, ctxDone>>
      BY <1>2, CancelCallerFrame, ZenonT(40)
    <2> QED  BY <2>1, Zenon DEF CutShort, CallOver, Claimed, MaxPending, Here, Pipelines
  <1>3. ASSUME NEW s \in Submitters, Submit(s) PROVE CutShort'
    <2>1. /\ MaxPending' = MaxPending /\ CallOver' = CallOver
          /\ UNCHANGED <<nextSequence, pending, ctxDone>>
      BY <1>3, SubmitFrame, ZenonT(40) DEF MaxPending, Here, Pipelines, CallOver
    <2>2. \A n \in Nat : Claimed(n)' => Claimed(n) \/ ~ctxDone
      <3>1. trackItem(s) => ~ctxDone
        BY Zenon DEF trackItem
      <3> QED  BY <1>3, <3>1, SubmitClaims, ZenonT(40)
    <2> QED  BY <2>1, <2>2, ZenonT(40) DEF CutShort
  <1>4. ASSUME NEW w \in Workers, Pool(w) PROVE CutShort'
    <2>1. UNCHANGED <<scenario, sequenceCounter, pc, nextSequence, pending, runner, outcome, ctxDone>>
      BY <1>4, PoolFrame, Zenon
    <2> QED  BY <2>1, Zenon DEF CutShort, CallOver, Claimed, MaxPending, Here, Pipelines
  <1>5. CASE Receive
    <2>1. MaxPending' = MaxPending /\ UNCHANGED <<sequenceCounter, pc>>
      BY <1>5, RunnerFrame, ZenonT(40) DEF Runner, MaxPending, Here, Pipelines
    <2>2. ctxDone => ctxDone'
      BY CtxStays, Zenon DEF Types
    <2>3. \A n \in Nat : Claimed(n)' => Claimed(n)
      BY <2>1, Zenon DEF Claimed
    <2>4. /\ runner = "receive"
          /\ CallOver' => /\ nextSequence' = nextSequence
                          /\ nextSequence \in pending' => nextSequence \in pending
      BY <1>5, Zenon DEF CallOver, Receive, Ends
    <2> QED  BY <2>1, <2>2, <2>3, <2>4, ZenonT(40) DEF CutShort, CallOver
  <1>6. CASE maybeApply
    <2>1. MaxPending' = MaxPending /\ UNCHANGED <<sequenceCounter, pc>>
      BY <1>6, RunnerFrame, ZenonT(40) DEF Runner, MaxPending, Here, Pipelines
    <2>2. ctxDone => ctxDone'
      BY CtxStays, Zenon DEF Types
    <2>3. \A n \in Nat : Claimed(n)' => Claimed(n)
      BY <2>1, Zenon DEF Claimed
    <2>4. /\ completedSequence < nextSequence
          /\ nextSequence \in Nat /\ completedSequence \in Nat /\ MaxPending \in Nat
      BY <1>6, HereFacts, ZenonT(40) DEF maybeApply, Ahead, Types, RunnerTypes
    <2>5. CallOver' /\ nextSequence' \in pending' => ctxDone /\ nextSequence' = nextSequence
      BY <1>6, Zenon DEF CallOver, maybeApply, Ends
    <2>6. MaxPending > 0 => \A n \in Nat : Claimed(n) => n < nextSequence + MaxPending
      BY <2>4 DEF Throttled
    <2> QED  BY <2>1, <2>2, <2>3, <2>5, <2>6, ZenonT(40) DEF CutShort
  <1>7. CASE applyItem
    <2>1. MaxPending' = MaxPending /\ UNCHANGED <<sequenceCounter, pc>>
      BY <1>7, RunnerFrame, ZenonT(40) DEF Runner, MaxPending, Here, Pipelines
    <2>2. ctxDone => ctxDone'
      BY CtxStays, Zenon DEF Types
    <2>3. \A n \in Nat : Claimed(n)' => Claimed(n)
      BY <2>1, Zenon DEF Claimed
    <2>4. /\ completedSequence < nextSequence
          /\ nextSequence \in Nat /\ completedSequence \in Nat /\ MaxPending \in Nat
      BY <1>7, HereFacts, ZenonT(40) DEF applyItem, Ahead, Types, RunnerTypes
    <2>5. CallOver' /\ nextSequence' \in pending' => ctxDone /\ nextSequence' = nextSequence
      BY <1>7, ZenonT(40) DEF CallOver, applyItem, Ends
    <2>6. MaxPending > 0 => \A n \in Nat : Claimed(n) => n < nextSequence + MaxPending
      BY <2>4 DEF Throttled
    <2> QED  BY <2>1, <2>2, <2>3, <2>5, <2>6, Zenon DEF CutShort
  <1>8. CASE applyPending
    <2>1. MaxPending' = MaxPending /\ UNCHANGED <<sequenceCounter, pc>>
      BY <1>8, RunnerFrame, ZenonT(40) DEF Runner, MaxPending, Here, Pipelines
    <2>2. ctxDone => ctxDone'
      BY CtxStays, Zenon DEF Types
    <2>3. \A n \in Nat : Claimed(n)' => Claimed(n)
      BY <2>1, Zenon DEF Claimed
    <2>4. /\ completedSequence < nextSequence
          /\ nextSequence \in Nat /\ completedSequence \in Nat /\ MaxPending \in Nat
      BY <1>8, HereFacts, ZenonT(40) DEF applyPending, Ahead, Types, RunnerTypes
    <2>5. CallOver' /\ nextSequence' \in pending' => ctxDone /\ nextSequence' = nextSequence
      BY <1>8, ZenonT(40) DEF CallOver, applyPending, Ends
    <2>6. MaxPending > 0 => \A n \in Nat : Claimed(n) => n < nextSequence + MaxPending
      BY <2>4 DEF Throttled
    <2> QED  BY <2>1, <2>2, <2>3, <2>5, <2>6, Zenon DEF CutShort
  <1>9. CASE StoreCompleted
    <2>1. MaxPending' = MaxPending /\ UNCHANGED <<sequenceCounter, pc>>
      BY <1>9, RunnerFrame, ZenonT(40) DEF Runner, MaxPending, Here, Pipelines
    <2>2. ctxDone => ctxDone'
      BY CtxStays, Zenon DEF Types
    <2>3. \A n \in Nat : Claimed(n)' => Claimed(n)
      BY <2>1, Zenon DEF Claimed
    <2>4. nextSequence' = nextSequence /\ pending' = pending /\ (CallOver' => CallOver)
      BY <1>9, ZenonT(40) DEF CallOver, StoreCompleted
    <2> QED  BY <2>1, <2>2, <2>3, <2>4, ZenonT(40) DEF CutShort
  <1>10. CASE WakeWaiters
    <2>1. MaxPending' = MaxPending /\ UNCHANGED <<sequenceCounter, pc>>
      BY <1>10, RunnerFrame, ZenonT(40) DEF Runner, MaxPending, Here, Pipelines
    <2>2. ctxDone => ctxDone'
      BY CtxStays, Zenon DEF Types
    <2>3. \A n \in Nat : Claimed(n)' => Claimed(n)
      BY <2>1, Zenon DEF Claimed
    <2>4. nextSequence' = nextSequence /\ pending' = pending /\ (CallOver' => CallOver)
      BY <1>10, ZenonT(40) DEF CallOver, WakeWaiters
    <2> QED  BY <2>1, <2>2, <2>3, <2>4, Zenon DEF CutShort
  <1>11. CASE setFatalError
    <2>1. MaxPending' = MaxPending /\ UNCHANGED <<sequenceCounter, pc>>
      BY <1>11, RunnerFrame, ZenonT(40) DEF Runner, MaxPending, Here, Pipelines
    <2>2. ctxDone => ctxDone'
      BY CtxStays, Zenon DEF Types
    <2>3. \A n \in Nat : Claimed(n)' => Claimed(n)
      BY <2>1, Zenon DEF Claimed
    <2>4. nextSequence' = nextSequence /\ pending' = pending /\ (CallOver' => CallOver)
      BY <1>11, ZenonT(40) DEF CallOver, setFatalError
    <2> QED  BY <2>1, <2>2, <2>3, <2>4, Zenon DEF CutShort
  <1>12. CASE CancelAfterFailure
    <2>1. MaxPending' = MaxPending /\ UNCHANGED <<sequenceCounter, pc>>
      BY <1>12, RunnerFrame, ZenonT(40) DEF Runner, MaxPending, Here, Pipelines
    <2>2. ctxDone => ctxDone'
      BY CtxStays, Zenon DEF Types
    <2>3. \A n \in Nat : Claimed(n)' => Claimed(n)
      BY <2>1, Zenon DEF Claimed
    <2>4. nextSequence' = nextSequence /\ pending' = pending /\ (CallOver' => CallOver)
      BY <1>12, ZenonT(40) DEF CallOver, CancelAfterFailure
    <2> QED  BY <2>1, <2>2, <2>3, <2>4, Zenon DEF CutShort
  <1>13. CASE SendResult
    <2>1. MaxPending' = MaxPending /\ UNCHANGED <<sequenceCounter, pc>>
      BY <1>13, RunnerFrame, ZenonT(40) DEF Runner, MaxPending, Here, Pipelines
    <2>2. ctxDone => ctxDone'
      BY CtxStays, Zenon DEF Types
    <2>3. \A n \in Nat : Claimed(n)' => Claimed(n)
      BY <2>1, Zenon DEF Claimed
    <2>4. nextSequence' = nextSequence /\ pending' = pending /\ (CallOver' => CallOver)
      BY <1>13, ZenonT(40) DEF CallOver, SendResult
    <2> QED  BY <2>1, <2>2, <2>3, <2>4, Zenon DEF CutShort
  <1>14. CASE ResultsFull
    <2>1. MaxPending' = MaxPending /\ UNCHANGED <<sequenceCounter, pc>>
      BY <1>14, RunnerFrame, ZenonT(40) DEF Runner, MaxPending, Here, Pipelines
    <2>2. ctxDone => ctxDone'
      BY CtxStays, Zenon DEF Types
    <2>3. \A n \in Nat : Claimed(n)' => Claimed(n)
      BY <2>1, Zenon DEF Claimed
    <2>4. nextSequence' = nextSequence /\ pending' = pending /\ (CallOver' => CallOver)
      BY <1>14, ZenonT(40) DEF CallOver, ResultsFull
    <2> QED  BY <2>1, <2>2, <2>3, <2>4, Zenon DEF CutShort
  <1>15. CASE SendDone
    <2>1. MaxPending' = MaxPending /\ UNCHANGED <<sequenceCounter, pc>>
      BY <1>15, RunnerFrame, ZenonT(40) DEF Runner, MaxPending, Here, Pipelines
    <2>2. ctxDone => ctxDone'
      BY CtxStays, Zenon DEF Types
    <2>3. \A n \in Nat : Claimed(n)' => Claimed(n)
      BY <2>1, Zenon DEF Claimed
    <2>4. nextSequence' = nextSequence /\ pending' = pending /\ (CallOver' => CallOver)
      BY <1>15, ZenonT(40) DEF CallOver, SendDone
    <2> QED  BY <2>1, <2>2, <2>3, <2>4, Zenon DEF CutShort
  <1>16. CASE RunnerExit
    <2>1. MaxPending' = MaxPending /\ UNCHANGED <<sequenceCounter, pc>>
      BY <1>16, RunnerFrame, ZenonT(40) DEF Runner, MaxPending, Here, Pipelines
    <2>2. ctxDone => ctxDone'
      BY CtxStays, Zenon DEF Types
    <2>3. \A n \in Nat : Claimed(n)' => Claimed(n)
      BY <2>1, Zenon DEF Claimed
    <2>4. nextSequence' = nextSequence /\ pending' = pending /\ (CallOver' => CallOver)
      BY <1>16, ZenonT(40) DEF CallOver, RunnerExit
    <2> QED  BY <2>1, <2>2, <2>3, <2>4, Zenon DEF CutShort
  <1>17. CASE Results
    <2>1. UNCHANGED <<scenario, sequenceCounter, pc, nextSequence, pending, runner, outcome, ctxDone>>
      BY <1>17, ResultsFrame, Zenon
    <2> QED  BY <2>1, Zenon DEF CutShort, CallOver, Claimed, MaxPending, Here, Pipelines
  <1>18. ASSUME NEW d \in Drainers, Drain(d) PROVE CutShort'
    <2>1. UNCHANGED <<scenario, sequenceCounter, pc, nextSequence, pending, runner, outcome, ctxDone>>
      BY <1>18, DrainFrame, ZenonT(40)
    <2> QED  BY <2>1, Zenon DEF CutShort, CallOver, Claimed, MaxPending, Here, Pipelines
  <1>19. CASE StopNext
    <2>1. /\ MaxPending' = MaxPending /\ CallOver' = CallOver
          /\ UNCHANGED <<nextSequence, pending, sequenceCounter, pc>>
      BY <1>19, StopNextFrame, ZenonT(40) DEF MaxPending, Here, Pipelines, CallOver
    <2>2. \A n \in Nat : Claimed(n)' => Claimed(n)
      BY <2>1, ZenonT(40) DEF Claimed
    <2>3. ctxDone => ctxDone'
      BY CtxStays, Zenon DEF Types
    <2> QED  BY <2>1, <2>2, <2>3, ZenonT(40) DEF CutShort
  <1>20. CASE UNCHANGED vars
    <2>1. UNCHANGED <<scenario, sequenceCounter, pc, nextSequence, pending, runner, outcome, ctxDone>>
      BY <1>20, StutterFrame, ZenonT(40)
    <2> QED  BY <2>1, Zenon DEF CutShort, CallOver, Claimed, MaxPending, Here, Pipelines
  <1> QED
    BY <1>1, <1>2, <1>3, <1>4, <1>5, <1>6, <1>7, <1>8, <1>9, <1>10, <1>11,
       <1>12, <1>13, <1>14, <1>15, <1>16, <1>17, <1>18, <1>19, <1>20, ZenonT(40)
       DEF Next, Runner, StopNext, Ended

\* A channel that keeps to its room does so after one send or receive.
LEMMA RoomKept ==
    ASSUME NEW old \in [Chans -> Seq(Nat)], \A c \in Chans : Len(old[c]) <= BufSize,
           NEW c \in Chans, NEW q, Len(q) <= BufSize, NEW new, new = [old EXCEPT ![c] = q]
    PROVE  \A d \in Chans : Len(new[d]) <= BufSize
  BY Zenon

\* A send waits for room.
LEMMA RoomyStep ==
    Types /\ Roomy /\ [Next]_vars => Roomy'
  <1> SUFFICES ASSUME Types, Roomy, [Next]_vars PROVE Roomy'
    BY Zenon
  <1>0. chan \in [Chans -> Seq(Nat)]
    BY Zenon DEF Types, PoolTypes
  <1>1. CASE Start
    <2>1. UNCHANGED <<chan>>
      BY <1>1, StartFrame, Zenon
    <2> QED  BY <2>1, Zenon DEF Roomy
  <1>2. ASSUME NEW x \in Submitters \cup Drainers, CancelCaller(x) PROVE Roomy'
    <2>1. UNCHANGED <<chan>>
      BY <1>2, CancelCallerFrame, Zenon
    <2> QED  BY <2>1, Zenon DEF Roomy
  <1>3. ASSUME NEW s \in Submitters, Submit(s) PROVE Roomy'
    <2>1. CASE Enqueue(s)
      <3>1. /\ chan' = [chan EXCEPT ![SubmitChan] = Append(chan[SubmitChan], sequenceCounter)]
            /\ Len(chan[SubmitChan]) < BufSize
        BY <2>1, Zenon DEF Enqueue, Room
      <3>2. SubmitChan \in Chans
        BY DEF Chans, SubmitChan, ValidatedChan
      <3>3. Len(Append(chan[SubmitChan], sequenceCounter)) <= BufSize
        BY <1>0, <3>1, <3>2, PipelineAssumption
      <3> QED  BY <1>0, <3>1, <3>2, <3>3, RoomKept, ZenonT(40) DEF Roomy
    <2>2. CASE chan' = chan
      BY <2>2, Zenon DEF Roomy
    <2> QED  BY <1>3, <2>1, <2>2, SubmitSends, ZenonT(40)
  <1>4. ASSUME NEW w \in Workers, Pool(w) PROVE Roomy'
    <2>1. Input(w) \in {1, 2}
      BY HereFacts, ZenonT(40) DEF SubmitChan, DecodedChan
    <2>2. Input(w) \in Chans /\ Input(w) + 1 \in Chans
      BY <2>1 DEF Chans, SubmitChan, ValidatedChan
    <2>3. CASE Work(w)
      <3>1. /\ chan' = [chan EXCEPT ![Input(w)] = Tail(chan[Input(w)])]
            /\ chan[Input(w)] # <<>>
        BY <2>3, Zenon DEF Work
      <3>2. Len(Tail(chan[Input(w)])) <= BufSize
        BY <1>0, <2>2, <3>1, PipelineAssumption DEF Roomy
      <3> QED  BY <1>0, <2>2, <3>1, <3>2, RoomKept, ZenonT(40) DEF Roomy
    <2>4. CASE Forward(w)
      <3>1. /\ chan' = [chan EXCEPT ![Input(w) + 1] = Append(chan[Input(w) + 1], item[w])]
            /\ Len(chan[Input(w) + 1]) < BufSize
        BY <2>4, Zenon DEF Forward, Room
      <3>2. Len(Append(chan[Input(w) + 1], item[w])) <= BufSize
        BY <1>0, <2>2, <3>1, PipelineAssumption
      <3> QED  BY <1>0, <2>2, <3>1, <3>2, RoomKept, ZenonT(40) DEF Roomy
    <2>5. CASE WorkerExit(w)
      BY <2>5, Zenon DEF WorkerExit, Roomy
    <2> QED  BY <1>4, <2>3, <2>4, <2>5, Zenon DEF Pool
  <1>5. CASE Runner
    <2>1. CASE Receive
      <3>1. /\ chan' = [chan EXCEPT ![ApplyInput] = Tail(chan[ApplyInput])]
            /\ chan[ApplyInput] # <<>>
        BY <2>1, ZenonT(40) DEF Receive
      <3>2. ApplyInput \in Chans
        BY <2>1, ReceiveTakes, Zenon
      <3>3. Len(Tail(chan[ApplyInput])) <= BufSize
        BY <1>0, <3>1, <3>2, PipelineAssumption DEF Roomy
      <3> QED  BY <1>0, <3>1, <3>2, <3>3, RoomKept, ZenonT(40) DEF Roomy
    <2>2. CASE chan' = chan
      BY <2>2, Zenon DEF Roomy
    <2>3. CASE applyPending
      BY <2>3, Zenon DEF applyPending, Roomy
    <2> QED  BY <1>5, <2>1, <2>2, <2>3, RunnerTakes, Zenon
  <1>6. CASE Results
    <2>1. UNCHANGED <<chan>>
      BY <1>6, ResultsFrame, Zenon
    <2> QED  BY <2>1, Zenon DEF Roomy
  <1>7. ASSUME NEW d \in Drainers, Drain(d) PROVE Roomy'
    <2>1. UNCHANGED <<chan>>
      BY <1>7, DrainFrame, ZenonT(40)
    <2> QED  BY <2>1, Zenon DEF Roomy
  <1>8. CASE StopNext
    <2>1. UNCHANGED <<chan>>
      BY <1>8, StopNextFrame, ZenonT(40)
    <2> QED  BY <2>1, Zenon DEF Roomy
  <1>9. CASE UNCHANGED vars
    <2>1. UNCHANGED <<chan>>
      BY <1>9, StutterFrame, Zenon
    <2> QED  BY <2>1, Zenon DEF Roomy
  <1> QED
    BY <1>1, <1>2, <1>3, <1>4, <1>5, <1>6, <1>7, <1>8, <1>9, ZenonT(40)
       DEF Next, StopNext, Ended

=============================================================================
