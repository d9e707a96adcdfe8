--------------------------- MODULE PipelineProofs ---------------------------
(***************************************************************************)
(* What holds of the block pipeline for any pools of workers, any callers, *)
(* any limits and any configuration that Start accepts: the types, the     *)
(* gate of Submit, the order in which Stop closes the channels, and the    *)
(* cause of every cancellation.                                            *)
(***************************************************************************)
EXTENDS Pipeline, TLAPS

\* The provers get half a minute for a step, not five seconds.
USE SMTT(30), ZenonT(30)

Chans == SubmitChan..ValidatedChan
Holding == {"capacity", "capacityWait", "enqueue", "count"}
Verdicts == {"raw", "decoded", "decodeError", "valid", "validationError"}

\* What the variables of every part range over, the sequence numbers being any.
LifeTypes ==
    /\ scenario \in DOMAIN Scenarios
    /\ started \in BOOLEAN /\ stopping \in BOOLEAN /\ stopped \in BOOLEAN
    /\ ctxDone \in BOOLEAN /\ fatalErr \in BOOLEAN /\ parentGone \in BOOLEAN
    /\ submitGate \in BOOLEAN

SubmitTypes ==
    /\ pc \in [Submitters -> {"idle", "budget", "budgetWait", "gate", "capacity",
                               "capacityWait", "enqueue", "count"}]
    /\ calls \in [Submitters -> Nat] /\ raw \in [Submitters -> 0..MaxUint]
    /\ sequenceCounter \in Nat

PoolTypes ==
    /\ chan \in [Chans -> Seq(Nat)]
    /\ worker \in [Workers -> {"idle", "forward", "done"}]
    /\ item \in [Workers -> Int]
    /\ \A w \in Workers : worker[w] = "forward" => item[w] \in Nat
    /\ verdict \in [Seqs -> Verdicts]

RunnerTypes ==
    /\ runner \in {"receive", "check", "apply", "pending", "store", "wake", "fail",
                   "cancel", "send", "blocked", "done"}
    /\ cur \in Int /\ (runner \in {"check", "apply"} => cur \in Nat)
    /\ batch \in Seq(Nat) /\ (runner = "store" => batch # <<>>)
    /\ outcome \in {"ok", "ctx", "fatal"} /\ pending \in SUBSET Nat
    /\ completedSequence \in Nat /\ nextSequence \in Nat
    /\ applied \in Seq(Nat) /\ resultsQueue \in Seq(Nat)

ResultTypes ==
    /\ forwarder \in {"receive", "hand", "mark", "done"}
    /\ handing \in Int /\ (forwarder \in {"hand", "mark"} => handing \in Nat)
    /\ delivered \in Seq(Nat)

DrainTypes ==
    /\ drain \in [Drainers -> {"idle", "gate", "check", "wait", "return", "done"}]
    /\ target \in [Drainers -> Nat] /\ since \in [Drainers -> Nat]
    /\ fence \in [Drainers -> {"none", "ok", "cancelled", "stopped", "fatal"}]
    /\ answer \in [Drainers -> {"none", "ok", "cancelled", "stopped", "fatal", "vacuous"}]

Types ==
    /\ LifeTypes /\ SubmitTypes /\ PoolTypes
    /\ RunnerTypes /\ ResultTypes /\ DrainTypes

\* One call at a time is inside the gate, and none before Start.
GateHeld ==
    /\ \A s \in Submitters : pc[s] \in Holding => ~submitGate
    /\ \A s, t \in Submitters : pc[s] \in Holding /\ pc[t] \in Holding => s = t
    /\ started => ~Refused(config)
    /\ ~started => sequenceCounter = 0 /\ \A s \in Submitters : pc[s] = "idle"

\* Stop closes a channel after the last sender has left.
ClosedInOrder ==
    /\ stop # "idle" => stopping
    /\ SubmitChan \in closed => stopping /\ \A s \in Submitters : pc[s] # "enqueue"
    /\ DecodedChan \in closed => \A w \in DecodeWorkers : worker[w] = "done"
    /\ ValidatedChan \in closed => \A w \in Workers \ DecodeWorkers : worker[w] = "done"
    /\ stop \in {"draining", "done"} => runner = "done"

\* Every cancellation has a cause that was published before it.
CauseKnown ==
    /\ stop # "idle" => stopping
    /\ runner = "cancel" => fatalErr
    /\ ctxDone => stopping \/ fatalErr \/ parentGone
    /\ \A d \in Drainers : fence[d] = "stopped" => stopping \/ ctxDone
    /\ \A d \in Drainers : answer[d] = "stopped" => parentGone

\* The steps of Stop and the end of the context given to Start.
StopNext == ParentCancelled \/ StopBegins \/ StopOn

\* Start only notes that the pipeline runs.
LEMMA StartFrame ==
    ASSUME Start PROVE
        UNCHANGED <<scenario, config, stopping, stopped, fatalErr, parentGone,
                    ctxDone, pc, calls, raw, cancelled, result, submitGate,
                    sequenceCounter, completedSequence, woken, rawBytesInUse,
                    freed, activeItems, size, chan, closed, worker, item,
                    verdict, runner, cur, batch, outcome, pending,
                    nextSequence, applied, resultsQueue, forwarder, handing,
                    delivered, drain, target, since, fence, answer, stop>>
  BY ZenonT(40) DEF Start, submitVars, countVars, budgetVars, poolVars, applyVars,
               resultVars, drainVars

\* A cancelled call keeps everything else.
LEMMA CancelCallerFrame ==
    ASSUME NEW x, CancelCaller(x) PROVE
        UNCHANGED <<scenario, config, started, stopping, stopped, fatalErr,
                    parentGone, ctxDone, pc, calls, raw, result, submitGate,
                    sequenceCounter, completedSequence, woken, rawBytesInUse,
                    freed, activeItems, size, chan, closed, worker, item,
                    verdict, runner, cur, batch, outcome, pending,
                    nextSequence, applied, resultsQueue, forwarder, handing,
                    delivered, drain, target, since, fence, answer, stop>>
  BY ZenonT(40) DEF CancelCaller, NotSubmitting, lifeVars, budgetVars, poolVars,
               applyVars, resultVars, drainVars

\* What a step of Submit leaves alone.
LEMMA SubmitFrame ==
    ASSUME NEW s, Submit(s) PROVE
        UNCHANGED <<scenario, config, started, stopping, stopped, fatalErr,
                    parentGone, ctxDone, completedSequence, closed, worker,
                    item, verdict, runner, cur, batch, outcome, pending,
                    nextSequence, applied, resultsQueue, forwarder, handing,
                    delivered, drain, target, since, fence, answer, stop>>
  BY ZenonT(40) DEF Submit, SubmitCall, reserveRawCborBytes, AwaitBudget,
               BudgetFreed, BudgetAbandoned, lockSubmit, SubmitAbandoned,
               waitForPendingCapacity, CapacityFreed, SubmitRefused,
               trackItem, Enqueue, CommitSequence, EnqueueAbandoned,
               NotSubmitting, lifeVars, budgetVars, poolVars, applyVars,
               resultVars, drainVars

\* What a step of a worker leaves alone.
LEMMA PoolFrame ==
    ASSUME NEW w, Pool(w) PROVE
        UNCHANGED <<scenario, config, started, stopping, stopped, fatalErr,
                    parentGone, ctxDone, pc, calls, raw, cancelled, result,
                    submitGate, sequenceCounter, completedSequence, woken,
                    rawBytesInUse, freed, activeItems, size, closed, runner,
                    cur, batch, outcome, pending, nextSequence, applied,
                    resultsQueue, forwarder, handing, delivered, drain,
                    target, since, fence, answer, stop>>
  BY ZenonT(40) DEF Pool, Work, Forward, WorkerExit, InPools, lifeVars, submitVars,
               countVars, budgetVars, applyVars, resultVars, drainVars

\* What a step of the apply runner leaves alone.
LEMMA RunnerFrame ==
    ASSUME Runner PROVE
        UNCHANGED <<scenario, config, started, stopping, stopped, parentGone,
                    pc, calls, raw, cancelled, result, submitGate,
                    sequenceCounter, rawBytesInUse, freed, activeItems, size,
                    closed, worker, item, verdict, forwarder, handing,
                    delivered, drain, target, since, fence, answer, stop>>
  BY ZenonT(40) DEF Runner, Receive, maybeApply, applyItem, applyPending,
               StoreCompleted, WakeWaiters, setFatalError, CancelAfterFailure,
               SendResult, ResultsFull, SendDone, RunnerExit, InRunner,
               submitVars, budgetVars, poolVars, resultVars, drainVars

\* What a step of forwardResults leaves alone.
LEMMA ResultsFrame ==
    ASSUME Results PROVE
        UNCHANGED <<scenario, config, started, stopping, stopped, fatalErr,
                    parentGone, ctxDone, pc, calls, raw, cancelled, result,
                    submitGate, sequenceCounter, completedSequence, woken,
                    chan, closed, worker, item, verdict, runner, cur, batch,
                    outcome, pending, nextSequence, applied, drain, target,
                    since, fence, answer, stop>>
  BY ZenonT(40) DEF Results, TakeResult, HandOver, ConsumerRelease,
               markItemDelivered, DrainResults, ResultsEnd, InResults,
               lifeVars, submitVars, countVars, poolVars, applyVars,
               drainVars, budgetVars

\* What a step of WaitForDrain leaves alone.
LEMMA DrainFrame ==
    ASSUME NEW d, Drain(d) PROVE
        UNCHANGED <<scenario, config, started, stopping, stopped, fatalErr,
                    parentGone, ctxDone, pc, calls, raw, cancelled, result,
                    submitGate, sequenceCounter, completedSequence,
                    rawBytesInUse, freed, activeItems, size, chan, closed,
                    worker, item, verdict, runner, cur, batch, outcome,
                    pending, nextSequence, applied, resultsQueue, forwarder,
                    handing, delivered, stop>>
  BY ZenonT(40) DEF Drain, WaitForDrain, FenceBoundary, FenceReached, FenceWaits,
               FenceWoken, FenceAbandoned, DrainReturns, InDrain, lifeVars,
               submitVars, countVars, budgetVars, poolVars, applyVars,
               resultVars

\* What a step of Stop leaves alone.
LEMMA StopNextFrame ==
    ASSUME StopNext PROVE
        UNCHANGED <<scenario, config, started, fatalErr, pc, calls, raw,
                    cancelled, result, submitGate, sequenceCounter,
                    completedSequence, woken, chan, worker, item, verdict,
                    runner, cur, batch, outcome, pending, nextSequence,
                    applied, resultsQueue, forwarder, handing, delivered,
                    drain, target, since, fence, answer>>
  BY ZenonT(40) DEF StopNext, ParentCancelled, StopBegins, StopCancels, StopCloses,
               StopPool, StopApplied, StopReturns, StopOn, InStop, submitVars,
               countVars, poolVars, applyVars, resultVars, drainVars,
               budgetVars

\* A stuttering step.
LEMMA StutterFrame ==
    ASSUME UNCHANGED vars PROVE
        UNCHANGED <<scenario, config, started, stopping, stopped, fatalErr,
                    parentGone, ctxDone, pc, calls, raw, cancelled, result,
                    submitGate, sequenceCounter, completedSequence, woken,
                    rawBytesInUse, freed, activeItems, size, chan, closed,
                    worker, item, verdict, runner, cur, batch, outcome,
                    pending, nextSequence, applied, resultsQueue, forwarder,
                    handing, delivered, drain, target, since, fence, answer,
                    stop>>
  BY Zenon DEF vars, lifeVars, submitVars, countVars, budgetVars, poolVars,
         applyVars, resultVars, drainVars

\* A pipeline keeps its scenario and its configuration.
LEMMA Fixed ==
    ASSUME [Next]_vars
    PROVE  /\ scenario' = scenario /\ config' = config /\ Here' = Here
           /\ Workers' = Workers /\ DecodeWorkers' = DecodeWorkers /\ Running' = Running
           /\ Seqs' = Seqs /\ MaxPending' = MaxPending /\ MaxRaw' = MaxRaw
           /\ ApplyInput' = ApplyInput /\ Applies' = Applies
  <1>1. scenario' = scenario /\ config' = config
    <2>1. CASE UNCHANGED vars
      BY <2>1, StutterFrame, Zenon
    <2> QED
      BY <2>1, StartFrame, CancelCallerFrame, SubmitFrame, PoolFrame, RunnerFrame,
         ResultsFrame, DrainFrame, StopNextFrame, ZenonT(40)
         DEF Next, StopNext, Ended
  <1> QED
    BY <1>1, Zenon DEF Here, Workers, DecodeWorkers, ValidateWorkers, Running, Seqs,
       MaxPending, MaxRaw, ApplyInput, Applies, Pipelines

\* What is assumed of the scenario at hand.
LEMMA HereFacts ==
    ASSUME Types
    PROVE  /\ IsScenario(Here) /\ MaxPending \in Nat /\ MaxRaw \in 1..MaxUint
           /\ Here.calls \in [Submitters -> Nat] /\ Here.rawSizes \subseteq 0..MaxUint
           /\ Workers = DecodeWorkers \cup ValidateWorkers
           /\ DecodeWorkers \cap ValidateWorkers = {}
           /\ \A w \in Workers : Input(w) \in {SubmitChan, DecodedChan}
  BY PipelineAssumption, Zenon DEF Types, LifeTypes, Here, Pipelines, IsScenario, MaxPending, MaxRaw,
     Workers, DecodeWorkers, ValidateWorkers, Input

\* Every step keeps the flags Boolean.
LEMMA LifeTypesStep ==
    LifeTypes /\ [Next]_vars => LifeTypes'
  <1> SUFFICES ASSUME LifeTypes, [Next]_vars PROVE LifeTypes'
    BY Zenon
  <1> scenario' = scenario
    BY Fixed, Zenon
  <1> USE DEF LifeTypes
  <1>1. CASE Start
    BY <1>1, Zenon DEF Start, submitVars, countVars, budgetVars, poolVars, applyVars,
                resultVars, drainVars
  <1>2. ASSUME NEW x \in Submitters \cup Drainers, CancelCaller(x) PROVE LifeTypes'
    BY <1>2, CancelCallerFrame, Zenon
  <1>3. ASSUME NEW s \in Submitters, SubmitCall(s) PROVE LifeTypes'
    BY <1>3, Zenon DEF SubmitCall, NotSubmitting, lifeVars, budgetVars, poolVars,
                applyVars, resultVars, drainVars
  <1>4. ASSUME NEW s \in Submitters, reserveRawCborBytes(s) PROVE LifeTypes'
    BY <1>4, Zenon DEF reserveRawCborBytes, At, NotSubmitting, lifeVars, budgetVars,
                poolVars, applyVars, resultVars, drainVars
  <1>5. ASSUME NEW s \in Submitters, AwaitBudget(s) PROVE LifeTypes'
    BY <1>5, Zenon DEF AwaitBudget, At, NotSubmitting, lifeVars, budgetVars,
                poolVars, applyVars, resultVars, drainVars
  <1>6. ASSUME NEW s \in Submitters, BudgetFreed(s) PROVE LifeTypes'
    BY <1>6, Zenon DEF BudgetFreed, At, NotSubmitting, lifeVars, budgetVars,
                poolVars, applyVars, resultVars, drainVars
  <1>7. ASSUME NEW s \in Submitters, BudgetAbandoned(s) PROVE LifeTypes'
    BY <1>7, Zenon DEF BudgetAbandoned, Return, NotSubmitting, lifeVars, budgetVars,
                poolVars, applyVars, resultVars, drainVars
  <1>8. ASSUME NEW s \in Submitters, lockSubmit(s) PROVE LifeTypes'
    BY <1>8, ZenonT(40) DEF lockSubmit, At, NotSubmitting, lifeVars, budgetVars, poolVars,
                applyVars, resultVars, drainVars
  <1>9. ASSUME NEW s \in Submitters, SubmitAbandoned(s) PROVE LifeTypes'
    BY <1>9, Zenon DEF SubmitAbandoned, Aborted, Return, NotSubmitting, lifeVars,
                budgetVars, poolVars, applyVars, resultVars, drainVars
  <1>10. ASSUME NEW s \in Submitters, waitForPendingCapacity(s) PROVE LifeTypes'
    BY <1>10, Zenon DEF waitForPendingCapacity, At, NotSubmitting, lifeVars,
                 budgetVars, poolVars, applyVars, resultVars, drainVars
  <1>11. ASSUME NEW s \in Submitters, CapacityFreed(s) PROVE LifeTypes'
    BY <1>11, Zenon DEF CapacityFreed, At, NotSubmitting, lifeVars, budgetVars,
                 poolVars, applyVars, resultVars, drainVars
  <1>12. ASSUME NEW s \in Submitters, SubmitRefused(s) PROVE LifeTypes'
    BY <1>12, Zenon DEF SubmitRefused, Aborted, Return, NotSubmitting, lifeVars,
                 budgetVars, poolVars, applyVars, resultVars, drainVars
  <1>13. ASSUME NEW s \in Submitters, trackItem(s) PROVE LifeTypes'
    BY <1>13, Zenon DEF trackItem, At, NotSubmitting, lifeVars, budgetVars, poolVars,
                 applyVars, resultVars, drainVars
  <1>14. ASSUME NEW s \in Submitters, Enqueue(s) PROVE LifeTypes'
    BY <1>14, Zenon DEF Enqueue, At, NotSubmitting, lifeVars, budgetVars, poolVars,
                 applyVars, resultVars, drainVars
  <1>15. ASSUME NEW s \in Submitters, CommitSequence(s) PROVE LifeTypes'
    BY <1>15, Zenon DEF CommitSequence, Return, NotSubmitting, lifeVars, budgetVars,
                 poolVars, applyVars, resultVars, drainVars
  <1>16. ASSUME NEW s \in Submitters, EnqueueAbandoned(s) PROVE LifeTypes'
    BY <1>16, Zenon DEF EnqueueAbandoned, Aborted, Return, ReleaseItems,
                 NotSubmitting, lifeVars, budgetVars, poolVars, applyVars,
                 resultVars, drainVars
  <1>17. ASSUME NEW w \in Workers, Pool(w) PROVE LifeTypes'
    BY <1>17, PoolFrame, Zenon
  <1>18. CASE Receive
    BY <1>18, Zenon DEF Receive, Ends, Idles, InRunner, submitVars, budgetVars,
                 poolVars, resultVars, drainVars
  <1>19. CASE maybeApply
    BY <1>19, Zenon DEF maybeApply, Ends, Idles, InRunner, submitVars, budgetVars,
                 poolVars, resultVars, drainVars
  <1>20. CASE applyItem
    BY <1>20, Zenon DEF applyItem, Ends, Idles, InRunner, submitVars, budgetVars,
                 poolVars, resultVars, drainVars
  <1>21. CASE applyPending
    BY <1>21, Zenon DEF applyPending, Ends, Idles, InRunner, submitVars, budgetVars,
                 poolVars, resultVars, drainVars
  <1>22. CASE StoreCompleted
    BY <1>22, Zenon DEF StoreCompleted, InRunner, submitVars, budgetVars, poolVars,
                 resultVars, drainVars
  <1>23. CASE WakeWaiters
    BY <1>23, Zenon DEF WakeWaiters, InRunner, submitVars, budgetVars, poolVars,
                 resultVars, drainVars
  <1>24. CASE setFatalError
    BY <1>24, Zenon DEF setFatalError, InRunner, submitVars, budgetVars, poolVars,
                 resultVars, drainVars
  <1>25. CASE CancelAfterFailure
    BY <1>25, Zenon DEF CancelAfterFailure, InRunner, submitVars, budgetVars,
                 poolVars, resultVars, drainVars
  <1>26. CASE SendResult
    BY <1>26, Zenon DEF SendResult, Idles, InRunner, submitVars, budgetVars,
                 poolVars, resultVars, drainVars
  <1>27. CASE ResultsFull
    BY <1>27, Zenon DEF ResultsFull, Idles, InRunner, submitVars, budgetVars,
                 poolVars, resultVars, drainVars
  <1>28. CASE SendDone
    BY <1>28, Zenon DEF SendDone, Idles, InRunner, submitVars, budgetVars, poolVars,
                 resultVars, drainVars
  <1>29. CASE RunnerExit
    BY <1>29, Zenon DEF RunnerExit, Idles, InRunner, submitVars, budgetVars,
                 poolVars, resultVars, drainVars
  <1>30. CASE Results
    BY <1>30, ResultsFrame, Zenon
  <1>31. ASSUME NEW d \in Drainers, Drain(d) PROVE LifeTypes'
    BY <1>31, DrainFrame, Zenon
  <1>32. CASE ParentCancelled
    BY <1>32, Zenon DEF ParentCancelled, InStop, submitVars, countVars, poolVars,
                 applyVars, resultVars, drainVars, budgetVars
  <1>33. CASE StopBegins
    BY <1>33, Zenon DEF StopBegins, Step, InStop, submitVars, countVars, poolVars,
                 applyVars, resultVars, drainVars, budgetVars
  <1>34. CASE StopCancels
    BY <1>34, Zenon DEF StopCancels, Step, InStop, submitVars, countVars, poolVars,
                 applyVars, resultVars, drainVars, budgetVars
  <1>35. CASE StopCloses
    BY <1>35, Zenon DEF StopCloses, Step, InStop, submitVars, countVars, poolVars,
                 applyVars, resultVars, drainVars, budgetVars
  <1>36. CASE StopPool("decoding", "validating", DecodeWorkers)
    BY <1>36, Zenon DEF StopPool, Step, InStop, submitVars, countVars, poolVars,
                 applyVars, resultVars, drainVars, budgetVars
  <1>37. CASE StopPool("validating", "applying", Running \ DecodeWorkers)
    BY <1>37, Zenon DEF StopPool, Step, InStop, submitVars, countVars, poolVars,
                 applyVars, resultVars, drainVars, budgetVars
  <1>38. CASE StopApplied
    BY <1>38, Zenon DEF StopApplied, Step, InStop, submitVars, countVars, poolVars,
                 applyVars, resultVars, drainVars, budgetVars
  <1>39. CASE StopReturns
    BY <1>39, Zenon DEF StopReturns, Step, InStop, submitVars, countVars, poolVars,
                 applyVars, resultVars, drainVars, budgetVars
  <1>40. CASE UNCHANGED vars
    BY <1>40, StutterFrame, Zenon
  <1> QED
    BY <1>1, <1>2, <1>3, <1>4, <1>5, <1>6, <1>7, <1>8, <1>9, <1>10, <1>11,
       <1>12, <1>13, <1>14, <1>15, <1>16, <1>17, <1>18, <1>19, <1>20, <1>21,
       <1>22, <1>23, <1>24, <1>25, <1>26, <1>27, <1>28, <1>29, <1>30, <1>31,
       <1>32, <1>33, <1>34, <1>35, <1>36, <1>37, <1>38, <1>39, <1>40, ZenonT(40)
       DEF Next, Submit, Runner, StopNext, StopOn, Ended

\* Every step keeps the types of Submit's variables.
LEMMA SubmitTypesStep ==
    Types /\ SubmitTypes /\ [Next]_vars => SubmitTypes'
  <1> SUFFICES ASSUME Types, SubmitTypes, [Next]_vars PROVE SubmitTypes'
    BY Zenon
  <1> USE DEF SubmitTypes
  <1>1. CASE Start
    BY <1>1, StartFrame, Zenon
  <1>2. ASSUME NEW x \in Submitters \cup Drainers, CancelCaller(x) PROVE SubmitTypes'
    BY <1>2, CancelCallerFrame, Zenon
  <1>3. ASSUME NEW s \in Submitters, SubmitCall(s) PROVE SubmitTypes'
    BY <1>3, HereFacts DEF SubmitCall, NotSubmitting, lifeVars, budgetVars,
                           poolVars, applyVars, resultVars, drainVars
  <1>4. ASSUME NEW s \in Submitters, reserveRawCborBytes(s) PROVE SubmitTypes'
    BY <1>4, Zenon DEF reserveRawCborBytes, At, NotSubmitting, lifeVars, budgetVars,
                poolVars, applyVars, resultVars, drainVars
  <1>5. ASSUME NEW s \in Submitters, AwaitBudget(s) PROVE SubmitTypes'
    BY <1>5, Zenon DEF AwaitBudget, At, NotSubmitting, lifeVars, budgetVars,
                poolVars, applyVars, resultVars, drainVars
  <1>6. ASSUME NEW s \in Submitters, BudgetFreed(s) PROVE SubmitTypes'
    BY <1>6, Zenon DEF BudgetFreed, At, NotSubmitting, lifeVars, budgetVars,
                poolVars, applyVars, resultVars, drainVars
  <1>7. ASSUME NEW s \in Submitters, BudgetAbandoned(s) PROVE SubmitTypes'
    BY <1>7, PipelineAssumption DEF BudgetAbandoned, Return, NotSubmitting,
                                    lifeVars, budgetVars, poolVars, applyVars,
                                    resultVars, drainVars
  <1>8. ASSUME NEW s \in Submitters, lockSubmit(s) PROVE SubmitTypes'
    BY <1>8, Zenon DEF lockSubmit, At, NotSubmitting, lifeVars, budgetVars, poolVars,
                applyVars, resultVars, drainVars
  <1>9. ASSUME NEW s \in Submitters, SubmitAbandoned(s) PROVE SubmitTypes'
    BY <1>9, PipelineAssumption DEF SubmitAbandoned, Aborted, Return,
                                    NotSubmitting, lifeVars, budgetVars,
                                    poolVars, applyVars, resultVars, drainVars
  <1>10. ASSUME NEW s \in Submitters, waitForPendingCapacity(s) PROVE SubmitTypes'
    BY <1>10, Zenon DEF waitForPendingCapacity, At, NotSubmitting, lifeVars,
                 budgetVars, poolVars, applyVars, resultVars, drainVars
  <1>11. ASSUME NEW s \in Submitters, CapacityFreed(s) PROVE SubmitTypes'
    BY <1>11, Zenon DEF CapacityFreed, At, NotSubmitting, lifeVars, budgetVars,
                 poolVars, applyVars, resultVars, drainVars
  <1>12. ASSUME NEW s \in Submitters, SubmitRefused(s) PROVE SubmitTypes'
    BY <1>12, PipelineAssumption DEF SubmitRefused, Aborted, Return,
                                     NotSubmitting, lifeVars, budgetVars,
                                     poolVars, applyVars, resultVars, drainVars
  <1>13. ASSUME NEW s \in Submitters, trackItem(s) PROVE SubmitTypes'
    BY <1>13, Zenon DEF trackItem, At, NotSubmitting, lifeVars, budgetVars, poolVars,
                 applyVars, resultVars, drainVars
  <1>14. ASSUME NEW s \in Submitters, Enqueue(s) PROVE SubmitTypes'
    BY <1>14, Zenon DEF Enqueue, At, NotSubmitting, lifeVars, budgetVars, poolVars,
                 applyVars, resultVars, drainVars
  <1>15. ASSUME NEW s \in Submitters, CommitSequence(s) PROVE SubmitTypes'
    BY <1>15, PipelineAssumption DEF CommitSequence, Return, NotSubmitting,
                                     lifeVars, budgetVars, poolVars,
                                     applyVars, resultVars, drainVars
  <1>16. ASSUME NEW s \in Submitters, EnqueueAbandoned(s) PROVE SubmitTypes'
    BY <1>16, PipelineAssumption DEF EnqueueAbandoned, Aborted, Return,
                                     ReleaseItems, NotSubmitting, lifeVars,
                                     budgetVars, poolVars, applyVars,
                                     resultVars, drainVars
  <1>17. ASSUME NEW w \in Workers, Pool(w) PROVE SubmitTypes'
    BY <1>17, PoolFrame, Zenon
  <1>18. CASE Runner
    BY <1>18, RunnerFrame, Zenon
  <1>19. CASE Results
    BY <1>19, ResultsFrame, Zenon
  <1>20. ASSUME NEW d \in Drainers, Drain(d) PROVE SubmitTypes'
    BY <1>20, DrainFrame, Zenon
  <1>21. CASE StopNext
    BY <1>21, StopNextFrame, Zenon
  <1>22. CASE UNCHANGED vars
    BY <1>22, StutterFrame, Zenon
  <1> QED
    BY <1>1, <1>2, <1>3, <1>4, <1>5, <1>6, <1>7, <1>8, <1>9, <1>10, <1>11,
       <1>12, <1>13, <1>14, <1>15, <1>16, <1>17, <1>18, <1>19, <1>20, <1>21,
       <1>22, ZenonT(40)
       DEF Next, Submit, StopNext, Ended

\* Every step keeps the types of the channels and the workers.
LEMMA PoolTypesStep ==
    Types /\ PoolTypes /\ [Next]_vars => PoolTypes'
  <1> SUFFICES ASSUME Types, PoolTypes, [Next]_vars PROVE PoolTypes'
    BY Zenon
  <1> Workers' = Workers /\ Seqs' = Seqs
    BY Fixed, Zenon
  <1> USE DEF PoolTypes, Chans, SubmitChan, DecodedChan, ValidatedChan
  <1>1. CASE Start
    BY <1>1, StartFrame, Zenon
  <1>2. ASSUME NEW x \in Submitters \cup Drainers, CancelCaller(x) PROVE PoolTypes'
    BY <1>2, CancelCallerFrame, Zenon
  <1>3. ASSUME NEW s \in Submitters, SubmitCall(s) PROVE PoolTypes'
    BY <1>3, Zenon DEF SubmitCall, NotSubmitting, lifeVars, budgetVars, poolVars,
                applyVars, resultVars, drainVars
  <1>4. ASSUME NEW s \in Submitters, reserveRawCborBytes(s) PROVE PoolTypes'
    BY <1>4, Zenon DEF reserveRawCborBytes, At, NotSubmitting, lifeVars, budgetVars,
                poolVars, applyVars, resultVars, drainVars
  <1>5. ASSUME NEW s \in Submitters, AwaitBudget(s) PROVE PoolTypes'
    BY <1>5, Zenon DEF AwaitBudget, At, NotSubmitting, lifeVars, budgetVars,
                poolVars, applyVars, resultVars, drainVars
  <1>6. ASSUME NEW s \in Submitters, BudgetFreed(s) PROVE PoolTypes'
    BY <1>6, Zenon DEF BudgetFreed, At, NotSubmitting, lifeVars, budgetVars,
                poolVars, applyVars, resultVars, drainVars
  <1>7. ASSUME NEW s \in Submitters, BudgetAbandoned(s) PROVE PoolTypes'
    BY <1>7, Zenon DEF BudgetAbandoned, Return, NotSubmitting, lifeVars, budgetVars,
                poolVars, applyVars, resultVars, drainVars
  <1>8. ASSUME NEW s \in Submitters, lockSubmit(s) PROVE PoolTypes'
    BY <1>8, Zenon DEF lockSubmit, At, NotSubmitting, lifeVars, budgetVars, poolVars,
                applyVars, resultVars, drainVars
  <1>9. ASSUME NEW s \in Submitters, SubmitAbandoned(s) PROVE PoolTypes'
    BY <1>9, Zenon DEF SubmitAbandoned, Aborted, Return, NotSubmitting, lifeVars,
                budgetVars, poolVars, applyVars, resultVars, drainVars
  <1>10. ASSUME NEW s \in Submitters, waitForPendingCapacity(s) PROVE PoolTypes'
    BY <1>10, Zenon DEF waitForPendingCapacity, At, NotSubmitting, lifeVars,
                 budgetVars, poolVars, applyVars, resultVars, drainVars
  <1>11. ASSUME NEW s \in Submitters, CapacityFreed(s) PROVE PoolTypes'
    BY <1>11, Zenon DEF CapacityFreed, At, NotSubmitting, lifeVars, budgetVars,
                 poolVars, applyVars, resultVars, drainVars
  <1>12. ASSUME NEW s \in Submitters, SubmitRefused(s) PROVE PoolTypes'
    BY <1>12, Zenon DEF SubmitRefused, Aborted, Return, NotSubmitting, lifeVars,
                 budgetVars, poolVars, applyVars, resultVars, drainVars
  <1>13. ASSUME NEW s \in Submitters, trackItem(s) PROVE PoolTypes'
    BY <1>13, Zenon DEF trackItem, At, NotSubmitting, lifeVars, budgetVars, poolVars,
                 applyVars, resultVars, drainVars
  <1>14. ASSUME NEW s \in Submitters, Enqueue(s) PROVE PoolTypes'
    BY <1>14 DEF Enqueue, At, NotSubmitting, lifeVars, budgetVars, poolVars,
                 applyVars, resultVars, drainVars, Types, SubmitTypes
  <1>15. ASSUME NEW s \in Submitters, CommitSequence(s) PROVE PoolTypes'
    BY <1>15, Zenon DEF CommitSequence, Return, NotSubmitting, lifeVars, budgetVars,
                 poolVars, applyVars, resultVars, drainVars
  <1>16. ASSUME NEW s \in Submitters, EnqueueAbandoned(s) PROVE PoolTypes'
    BY <1>16, Zenon DEF EnqueueAbandoned, Aborted, Return, ReleaseItems,
                 NotSubmitting, lifeVars, budgetVars, poolVars, applyVars,
                 resultVars, drainVars
  <1>17. ASSUME NEW w \in Workers, w \in Running, Work(w) PROVE PoolTypes'
    <2> DEFINE n == Head(chan[Input(w)])
    <2>1. /\ Input(w) \in 1..2 /\ n \in Nat
          /\ chan' = [chan EXCEPT ![Input(w)] = Tail(@)] /\ chan[Input(w)] # <<>>
          /\ worker' = [worker EXCEPT ![w] = "forward"]
          /\ item' = [item EXCEPT ![w] = n]
      BY <1>17, HereFacts DEF Work
    <2>2. verdict' \in [Seqs -> Verdicts]
      <3>1. PICK found \in Process(w, verdict[n]) : verdict' = [verdict EXCEPT ![n] = found]
        BY <1>17, ZenonT(40) DEF Work
      <3>2. found \in Verdicts \/ n \notin Seqs
        BY <3>1, Zenon DEF Process, Decoding, Validating, Finds, Verdicts
      <3> QED  BY <3>1, <3>2, ZenonT(40)
    <2>3. chan' \in [1..3 -> Seq(Nat)]
      BY <2>1
    <2> QED  BY <2>1, <2>2, <2>3
  <1>18. ASSUME NEW w \in Workers, w \in Running, Forward(w) PROVE PoolTypes'
    <2>1. /\ chan' = [chan EXCEPT ![Input(w) + 1] = Append(@, item[w])]
          /\ worker' = [worker EXCEPT ![w] = "idle"] /\ worker[w] = "forward"
          /\ item' = [item EXCEPT ![w] = None] /\ verdict' = verdict
      BY <1>18, ZenonT(40) DEF Forward
    <2>2. Input(w) + 1 \in 1..3 /\ item[w] \in Nat
      <3>1. Input(w) \in {1, 2}
        BY HereFacts, ZenonT(40)
      <3>2. item[w] \in Nat
        BY <2>1, Zenon
      <3> QED  BY <3>1, <3>2
    <2> HIDE DEF Chans
    <2>3. chan' \in [Chans -> Seq(Nat)]
      BY <2>1, <2>2 DEF Chans
    <2> QED  BY <2>1, <2>2, <2>3 DEF None
  <1>19. ASSUME NEW w \in Workers, w \in Running, WorkerExit(w) PROVE PoolTypes'
    BY <1>19 DEF WorkerExit, InPools, lifeVars, submitVars, countVars,
                 budgetVars, applyVars, resultVars, drainVars, None
  <1>20. CASE Receive
    <2>1. /\ ApplyInput \in 1..3 /\ UNCHANGED <<worker, item, verdict>>
          /\ chan' = [chan EXCEPT ![ApplyInput] = Tail(@)] /\ chan[ApplyInput] # <<>>
      BY <1>20 DEF Receive, InRunner, poolVars, ApplyInput
    <2> QED  BY <2>1
  <1>21. CASE maybeApply
    BY <1>21, Zenon DEF maybeApply, Ends, Idles, InRunner, submitVars, budgetVars,
                 poolVars, resultVars, drainVars
  <1>22. CASE applyItem
    BY <1>22, Zenon DEF applyItem, Ends, Idles, InRunner, submitVars, budgetVars,
                 poolVars, resultVars, drainVars
  <1>23. CASE applyPending
    BY <1>23, Zenon DEF applyPending, Ends, Idles, InRunner, submitVars, budgetVars,
                 poolVars, resultVars, drainVars
  <1>24. CASE StoreCompleted
    BY <1>24, Zenon DEF StoreCompleted, InRunner, submitVars, budgetVars, poolVars,
                 resultVars, drainVars
  <1>25. CASE WakeWaiters
    BY <1>25, Zenon DEF WakeWaiters, InRunner, submitVars, budgetVars, poolVars,
                 resultVars, drainVars
  <1>26. CASE setFatalError
    BY <1>26, Zenon DEF setFatalError, InRunner, submitVars, budgetVars, poolVars,
                 resultVars, drainVars
  <1>27. CASE CancelAfterFailure
    BY <1>27, Zenon DEF CancelAfterFailure, InRunner, submitVars, budgetVars,
                 poolVars, resultVars, drainVars
  <1>28. CASE SendResult
    BY <1>28, Zenon DEF SendResult, Idles, InRunner, submitVars, budgetVars,
                 poolVars, resultVars, drainVars
  <1>29. CASE ResultsFull
    BY <1>29, Zenon DEF ResultsFull, Idles, InRunner, submitVars, budgetVars,
                 poolVars, resultVars, drainVars
  <1>30. CASE SendDone
    BY <1>30, Zenon DEF SendDone, Idles, InRunner, submitVars, budgetVars, poolVars,
                 resultVars, drainVars
  <1>31. CASE RunnerExit
    BY <1>31, Zenon DEF RunnerExit, Idles, InRunner, submitVars, budgetVars,
                 poolVars, resultVars, drainVars
  <1>32. CASE Results
    BY <1>32, ResultsFrame, Zenon
  <1>33. ASSUME NEW d \in Drainers, Drain(d) PROVE PoolTypes'
    BY <1>33, DrainFrame, Zenon
  <1>34. CASE StopNext
    BY <1>34, StopNextFrame, Zenon
  <1>35. CASE UNCHANGED vars
    BY <1>35, StutterFrame, Zenon
  <1> QED
    BY <1>1, <1>2, <1>3, <1>4, <1>5, <1>6, <1>7, <1>8, <1>9, <1>10, <1>11,
       <1>12, <1>13, <1>14, <1>15, <1>16, <1>17, <1>18, <1>19, <1>20, <1>21,
       <1>22, <1>23, <1>24, <1>25, <1>26, <1>27, <1>28, <1>29, <1>30, <1>31,
       <1>32, <1>33, <1>34, <1>35, ZenonT(40)
       DEF Next, Submit, Pool, Runner, StopNext, Ended

\* Every step keeps the types of the runner's variables.
LEMMA RunnerTypesStep ==
    Types /\ RunnerTypes /\ [Next]_vars => RunnerTypes'
  <1> SUFFICES ASSUME Types, RunnerTypes, [Next]_vars PROVE RunnerTypes'
    BY Zenon
  <1> USE DEF RunnerTypes
  <1>1. CASE Start
    BY <1>1, StartFrame, ZenonT(40)
  <1>2. ASSUME NEW x \in Submitters \cup Drainers, CancelCaller(x) PROVE RunnerTypes'
    BY <1>2, CancelCallerFrame, ZenonT(40)
  <1>3. ASSUME NEW s \in Submitters, Submit(s) PROVE RunnerTypes'
    BY <1>3, SubmitFrame, ZenonT(40)
  <1>4. ASSUME NEW w \in Workers, Pool(w) PROVE RunnerTypes'
    BY <1>4, PoolFrame, ZenonT(40)
  <1>5. CASE Receive
    <2> DEFINE n == Head(chan[ApplyInput])
    <2>1. n \in Nat
      <3>1. ApplyInput \in Chans /\ chan[ApplyInput] # <<>>
        BY <1>5 DEF Receive, ApplyInput, Chans, SubmitChan, DecodedChan, ValidatedChan
      <3>2. chan[ApplyInput] \in Seq(Nat)
        BY <3>1, Zenon DEF Types, PoolTypes
      <3> QED  BY <3>1, <3>2
    <2> HIDE DEF n
    <2>2. /\ UNCHANGED <<applied, resultsQueue, completedSequence>>
          /\ \/ cur' = cur \/ cur' = n
          /\ \/ batch' = batch /\ outcome' = outcome /\ runner' \in {"receive", "check"}
             \/ batch' = <<>> /\ outcome' \in {"ctx", "fatal"} /\ runner' \in {"send", "fail"}
          /\ runner' = "check" => cur' = n
          /\ nextSequence' \in {nextSequence, nextSequence + 1}
          /\ pending' \in {pending, pending \cup {n}}
      BY <1>5, Zenon DEF Receive, Ends, Idles, n
    <2>3. pending' \in SUBSET Nat /\ nextSequence' \in Nat
      BY <2>1, <2>2
    <2>4. cur' \in Int /\ (runner' \in {"check", "apply"} => cur' \in Nat)
      BY <2>1, <2>2
    <2>5. batch' \in Seq(Nat) /\ (runner' = "store" => batch' # <<>>)
      <3>1. <<>> \in Seq(Nat)
        OBVIOUS
      <3> HIDE DEF RunnerTypes
      <3>2. batch \in Seq(Nat)
        BY Zenon DEF RunnerTypes
      <3> QED  BY <2>2, <3>1, <3>2, ZenonT(40)
    <2> QED  BY <2>2, <2>3, <2>4, <2>5, Zenon
  <1>6. CASE maybeApply
    <2>1. /\ UNCHANGED <<cur, pending, nextSequence, applied, resultsQueue, completedSequence>>
          /\ batch' \in {batch, Append(batch, cur)} /\ outcome' \in {outcome, "fatal", "ctx"}
          /\ runner' \in {"pending", "apply", "store", "fail", "send"}
          /\ (runner' = "store" => batch' # <<>>) /\ runner = "check"
      BY <1>6, Zenon DEF maybeApply, Ends, Idles
    <2>2. batch' \in Seq(Nat) /\ applied' \in Seq(Nat)
      <3>1. batch \in Seq(Nat) /\ applied \in Seq(Nat) /\ (runner # "pending" => cur \in Nat)
        BY <2>1, Zenon
      <3>2. runner # "pending" => Append(batch, cur) \in Seq(Nat) /\ Append(applied, cur) \in Seq(Nat)
        BY <3>1
      <3> HIDE DEF RunnerTypes
      <3> QED  BY <2>1, <3>1, <3>2, ZenonT(40)
    <2>3. cur' \in Int /\ (runner' \in {"check", "apply"} => cur' \in Nat)
      BY <2>1, Zenon
    <2>4. pending' \in SUBSET Nat /\ nextSequence' \in Nat
      BY <2>1, Zenon
    <2> QED  BY <2>1, <2>2, <2>3, <2>4, Zenon
  <1>7. CASE applyItem
    <2>1. /\ UNCHANGED <<cur, pending, nextSequence, resultsQueue, completedSequence>>
          /\ batch' \in {batch, Append(batch, cur)} /\ outcome' \in {outcome, "fatal"}
          /\ applied' \in {applied, Append(applied, cur)}
          /\ runner' \in {"pending", "store", "fail"}
          /\ (runner' = "store" => batch' # <<>>) /\ runner = "apply"
      BY <1>7, Zenon DEF applyItem, Ends, Idles
    <2>2. batch' \in Seq(Nat) /\ applied' \in Seq(Nat)
      <3>1. batch \in Seq(Nat) /\ applied \in Seq(Nat) /\ (runner # "pending" => cur \in Nat)
        BY <2>1, ZenonT(40)
      <3>2. runner # "pending" => Append(batch, cur) \in Seq(Nat) /\ Append(applied, cur) \in Seq(Nat)
        BY <3>1
      <3> HIDE DEF RunnerTypes
      <3> QED  BY <2>1, <3>1, <3>2, ZenonT(40)
    <2>3. cur' \in Int /\ (runner' \in {"check", "apply"} => cur' \in Nat)
      BY <2>1, Zenon
    <2>4. pending' \in SUBSET Nat /\ nextSequence' \in Nat
      BY <2>1, Zenon
    <2> QED  BY <2>1, <2>2, <2>3, <2>4, Zenon
  <1>8. CASE applyPending
    <2>1. /\ UNCHANGED <<applied, resultsQueue, completedSequence>>
          /\ runner = "pending" /\ batch' = batch /\ outcome' \in {outcome, "ctx", "ok"}
          /\ cur' \in {cur, nextSequence} /\ nextSequence' \in {nextSequence, nextSequence + 1}
          /\ pending' \in {pending, pending \ {nextSequence}}
          /\ runner' \in {"check", "store", "send"} /\ (runner' = "check" => cur' = nextSequence)
          /\ (runner' = "store" => batch' # <<>>)
      BY <1>8, Zenon DEF applyPending, Ends, Idles
    <2>2. batch' \in Seq(Nat) /\ applied' \in Seq(Nat)
      <3>1. batch \in Seq(Nat) /\ applied \in Seq(Nat) /\ (runner # "pending" => cur \in Nat)
        BY <2>1, ZenonT(40)
      <3>2. runner # "pending" => Append(batch, cur) \in Seq(Nat) /\ Append(applied, cur) \in Seq(Nat)
        BY <3>1
      <3> HIDE DEF RunnerTypes
      <3> QED  BY <2>1, <3>1, <3>2, ZenonT(40)
    <2>3. cur' \in Int /\ (runner' \in {"check", "apply"} => cur' \in Nat)
      BY <2>1
    <2>4. pending' \in SUBSET Nat /\ nextSequence' \in Nat
      BY <2>1
    <2> QED  BY <2>1, <2>2, <2>3, <2>4, ZenonT(40)
  <1>9. CASE StoreCompleted
    BY <1>9 DEF StoreCompleted, InRunner, submitVars, budgetVars, poolVars,
                resultVars, drainVars
  <1>10. CASE WakeWaiters
    BY <1>10, Zenon DEF WakeWaiters, InRunner, submitVars, budgetVars, poolVars,
                 resultVars, drainVars
  <1>11. CASE setFatalError
    BY <1>11, ZenonT(40) DEF setFatalError, InRunner, submitVars, budgetVars, poolVars,
                 resultVars, drainVars
  <1>12. CASE CancelAfterFailure
    BY <1>12, ZenonT(40) DEF CancelAfterFailure, InRunner, submitVars, budgetVars,
                 poolVars, resultVars, drainVars
  <1>13. CASE SendResult
    BY <1>13 DEF SendResult, Idles, InRunner, submitVars, budgetVars,
                 poolVars, resultVars, drainVars
  <1>14. CASE ResultsFull
    BY <1>14, Zenon DEF ResultsFull, Idles, InRunner, submitVars, budgetVars,
                 poolVars, resultVars, drainVars
  <1>15. CASE SendDone
    BY <1>15 DEF SendDone, Idles, InRunner, submitVars, budgetVars, poolVars,
                 resultVars, drainVars, None
  <1>16. CASE RunnerExit
    BY <1>16, ZenonT(40) DEF RunnerExit, Idles, InRunner, submitVars, budgetVars,
                 poolVars, resultVars, drainVars
  <1>17. CASE TakeResult
    BY <1>17 DEF TakeResult, InResults, lifeVars, submitVars, countVars,
                 poolVars, applyVars, drainVars, budgetVars
  <1>18. CASE HandOver
    BY <1>18, ZenonT(40) DEF HandOver, InResults, lifeVars, submitVars, countVars,
                 poolVars, applyVars, drainVars, budgetVars
  <1>19. CASE ConsumerRelease
    BY <1>19, ZenonT(40) DEF ConsumerRelease, InResults, lifeVars, submitVars, countVars,
                 poolVars, applyVars, drainVars, budgetVars
  <1>20. CASE markItemDelivered
    BY <1>20, ZenonT(40) DEF markItemDelivered, InResults, lifeVars, submitVars,
                 countVars, poolVars, applyVars, drainVars, budgetVars
  <1>21. CASE DrainResults
    BY <1>21 DEF DrainResults, InResults, lifeVars, submitVars, countVars,
                 poolVars, applyVars, drainVars, budgetVars
  <1>22. CASE ResultsEnd
    BY <1>22, ZenonT(40) DEF ResultsEnd, InResults, lifeVars, submitVars, countVars,
                 poolVars, applyVars, drainVars, budgetVars
  <1>23. ASSUME NEW d \in Drainers, Drain(d) PROVE RunnerTypes'
    BY <1>23, DrainFrame, ZenonT(40)
  <1>24. CASE StopNext
    BY <1>24, StopNextFrame, ZenonT(40)
  <1>25. CASE UNCHANGED vars
    BY <1>25, StutterFrame, ZenonT(40)
  <1> QED
    BY <1>1, <1>2, <1>3, <1>4, <1>5, <1>6, <1>7, <1>8, <1>9, <1>10, <1>11,
       <1>12, <1>13, <1>14, <1>15, <1>16, <1>17, <1>18, <1>19, <1>20, <1>21,
       <1>22, <1>23, <1>24, <1>25, ZenonT(40)
       DEF Next, Runner, Results, StopNext, Ended

\* Every step keeps the types of the forwarder's variables.
LEMMA ResultTypesStep ==
    RunnerTypes /\ ResultTypes /\ [Next]_vars => ResultTypes'
  <1> SUFFICES ASSUME RunnerTypes, ResultTypes, [Next]_vars PROVE ResultTypes'
    BY ZenonT(40)
  <1> USE DEF RunnerTypes, ResultTypes
  <1>1. CASE Start
    BY <1>1, StartFrame, ZenonT(40)
  <1>2. ASSUME NEW x \in Submitters \cup Drainers, CancelCaller(x) PROVE ResultTypes'
    BY <1>2, CancelCallerFrame, ZenonT(40)
  <1>3. ASSUME NEW s \in Submitters, Submit(s) PROVE ResultTypes'
    BY <1>3, SubmitFrame, ZenonT(40)
  <1>4. ASSUME NEW w \in Workers, Pool(w) PROVE ResultTypes'
    BY <1>4, PoolFrame, ZenonT(40)
  <1>5. CASE Runner
    BY <1>5, RunnerFrame, ZenonT(40)
  <1>6. CASE TakeResult
    BY <1>6 DEF TakeResult, InResults, lifeVars, submitVars, countVars,
                poolVars, applyVars, drainVars, budgetVars
  <1>7. CASE HandOver
    BY <1>7 DEF HandOver, InResults, lifeVars, submitVars, countVars,
                poolVars, applyVars, drainVars, budgetVars
  <1>8. CASE ConsumerRelease
    BY <1>8, Zenon DEF ConsumerRelease, InResults, lifeVars, submitVars, countVars,
                poolVars, applyVars, drainVars, budgetVars
  <1>9. CASE markItemDelivered
    BY <1>9 DEF markItemDelivered, InResults, lifeVars, submitVars, countVars,
                poolVars, applyVars, drainVars, budgetVars, None
  <1>10. CASE DrainResults
    <2> DEFINE drained == IF forwarder = "hand" THEN <<handing>> \o resultsQueue
                                                ELSE resultsQueue
    <2>1. drained \in Seq(Nat)
      OBVIOUS
    <2>2. delivered' = delivered \o drained /\ handing' = None /\ forwarder' = "receive"
      BY <1>10, Zenon DEF DrainResults
    <2> HIDE DEF drained
    <2> QED  BY <2>1, <2>2 DEF None
  <1>11. CASE ResultsEnd
    BY <1>11, Zenon DEF ResultsEnd, InResults, lifeVars, submitVars, countVars,
                 poolVars, applyVars, drainVars, budgetVars
  <1>12. ASSUME NEW d \in Drainers, Drain(d) PROVE ResultTypes'
    BY <1>12, DrainFrame, Zenon
  <1>13. CASE StopNext
    BY <1>13, StopNextFrame, ZenonT(40)
  <1>14. CASE UNCHANGED vars
    BY <1>14, StutterFrame, ZenonT(40)
  <1> QED
    BY <1>1, <1>2, <1>3, <1>4, <1>5, <1>6, <1>7, <1>8, <1>9, <1>10, <1>11,
       <1>12, <1>13, <1>14, ZenonT(40)
       DEF Next, Results, StopNext, Ended

\* Every step keeps the types of the drains.
LEMMA DrainTypesStep ==
    Types /\ DrainTypes /\ [Next]_vars => DrainTypes'
  <1> SUFFICES ASSUME Types, DrainTypes, [Next]_vars PROVE DrainTypes'
    BY Zenon
  <1> USE DEF DrainTypes
  <1>1. CASE Start
    BY <1>1, StartFrame, ZenonT(40)
  <1>2. ASSUME NEW x \in Submitters \cup Drainers, CancelCaller(x) PROVE DrainTypes'
    BY <1>2, CancelCallerFrame, ZenonT(40)
  <1>3. ASSUME NEW s \in Submitters, Submit(s) PROVE DrainTypes'
    BY <1>3, SubmitFrame, ZenonT(40)
  <1>4. ASSUME NEW w \in Workers, Pool(w) PROVE DrainTypes'
    BY <1>4, PoolFrame, ZenonT(40)
  <1>5. CASE Runner
    BY <1>5, RunnerFrame, ZenonT(40)
  <1>6. CASE Results
    BY <1>6, ResultsFrame, ZenonT(40)
  <1>7. ASSUME NEW d \in Drainers, WaitForDrain(d) PROVE DrainTypes'
    BY <1>7 DEF WaitForDrain, InDrain, lifeVars, submitVars, countVars,
                budgetVars, poolVars, applyVars, resultVars, Types, SubmitTypes
  <1>8. ASSUME NEW d \in Drainers, FenceBoundary(d) PROVE DrainTypes'
    BY <1>8 DEF FenceBoundary, FenceReturns, InDrain, lifeVars, submitVars,
                countVars, budgetVars, poolVars, applyVars, resultVars,
                stoppedError, Types, SubmitTypes
  <1>9. ASSUME NEW d \in Drainers, FenceReached(d) PROVE DrainTypes'
    BY <1>9, ZenonT(40) DEF FenceReached, FenceReturns, InDrain, lifeVars, submitVars,
                countVars, budgetVars, poolVars, applyVars, resultVars
  <1>10. ASSUME NEW d \in Drainers, FenceWaits(d) PROVE DrainTypes'
    BY <1>10, ZenonT(40) DEF FenceWaits, InDrain, lifeVars, submitVars, countVars,
                 budgetVars, poolVars, applyVars, resultVars
  <1>11. ASSUME NEW d \in Drainers, FenceWoken(d) PROVE DrainTypes'
    BY <1>11, ZenonT(40) DEF FenceWoken, InDrain, lifeVars, submitVars, countVars,
                 budgetVars, poolVars, applyVars, resultVars
  <1>12. ASSUME NEW d \in Drainers, FenceAbandoned(d) PROVE DrainTypes'
    BY <1>12, ZenonT(40) DEF FenceAbandoned, FenceReturns, InDrain, lifeVars, submitVars,
                 countVars, budgetVars, poolVars, applyVars, resultVars,
                 stoppedError
  <1>13. ASSUME NEW d \in Drainers, DrainReturns(d) PROVE DrainTypes'
    BY <1>13, Zenon DEF DrainReturns, InDrain, lifeVars, submitVars, countVars,
                 budgetVars, poolVars, applyVars, resultVars, Drained,
                 stoppedError
  <1>14. CASE StopNext
    BY <1>14, StopNextFrame, ZenonT(40)
  <1>15. CASE UNCHANGED vars
    BY <1>15, StutterFrame, ZenonT(40)
  <1> QED
    BY <1>1, <1>2, <1>3, <1>4, <1>5, <1>6, <1>7, <1>8, <1>9, <1>10, <1>11,
       <1>12, <1>13, <1>14, <1>15, ZenonT(40)
       DEF Next, Drain, StopNext, Ended

\* lockSubmit takes the gate when it is free, and the holder gives it back.
LEMMA GateHeldStep ==
    SubmitTypes /\ GateHeld /\ [Next]_vars => GateHeld'
  <1> SUFFICES ASSUME SubmitTypes, GateHeld, [Next]_vars PROVE GateHeld'
    BY Zenon
  <1> config' = config
    BY Fixed, ZenonT(40)
  <1> USE DEF SubmitTypes, GateHeld, Holding
  <1>1. CASE Start
    BY <1>1, ZenonT(40) DEF Start, submitVars, countVars, budgetVars, poolVars, applyVars,
                resultVars, drainVars
  <1>2. ASSUME NEW x \in Submitters \cup Drainers, CancelCaller(x) PROVE GateHeld'
    BY <1>2, CancelCallerFrame, ZenonT(40)
  <1>3. ASSUME NEW s \in Submitters, SubmitCall(s) PROVE GateHeld'
    BY <1>3 DEF SubmitCall, NotSubmitting, lifeVars, budgetVars, poolVars,
                applyVars, resultVars, drainVars
  <1>4. ASSUME NEW s \in Submitters, reserveRawCborBytes(s) PROVE GateHeld'
    BY <1>4, ZenonT(40) DEF reserveRawCborBytes, At, NotSubmitting, lifeVars, budgetVars,
                poolVars, applyVars, resultVars, drainVars
  <1>5. ASSUME NEW s \in Submitters, AwaitBudget(s) PROVE GateHeld'
    BY <1>5, ZenonT(40) DEF AwaitBudget, At, NotSubmitting, lifeVars, budgetVars,
                poolVars, applyVars, resultVars, drainVars
  <1>6. ASSUME NEW s \in Submitters, BudgetFreed(s) PROVE GateHeld'
    BY <1>6, ZenonT(40) DEF BudgetFreed, At, NotSubmitting, lifeVars, budgetVars,
                poolVars, applyVars, resultVars, drainVars
  <1>7. ASSUME NEW s \in Submitters, BudgetAbandoned(s) PROVE GateHeld'
    BY <1>7 DEF BudgetAbandoned, Return, NotSubmitting, lifeVars, budgetVars,
                poolVars, applyVars, resultVars, drainVars
  <1>8. ASSUME NEW s \in Submitters, lockSubmit(s) PROVE GateHeld'
    BY <1>8 DEF lockSubmit, At, NotSubmitting, lifeVars, budgetVars, poolVars,
                applyVars, resultVars, drainVars
  <1>9. ASSUME NEW s \in Submitters, SubmitAbandoned(s) PROVE GateHeld'
    BY <1>9, ZenonT(40) DEF SubmitAbandoned, Aborted, Return, NotSubmitting, lifeVars,
                budgetVars, poolVars, applyVars, resultVars, drainVars
  <1>10. ASSUME NEW s \in Submitters, waitForPendingCapacity(s) PROVE GateHeld'
    BY <1>10 DEF waitForPendingCapacity, At, NotSubmitting, lifeVars,
                 budgetVars, poolVars, applyVars, resultVars, drainVars
  <1>11. ASSUME NEW s \in Submitters, CapacityFreed(s) PROVE GateHeld'
    BY <1>11 DEF CapacityFreed, At, NotSubmitting, lifeVars, budgetVars,
                 poolVars, applyVars, resultVars, drainVars
  <1>12. ASSUME NEW s \in Submitters, SubmitRefused(s) PROVE GateHeld'
    BY <1>12 DEF SubmitRefused, Aborted, Return, NotSubmitting, lifeVars,
                 budgetVars, poolVars, applyVars, resultVars, drainVars
  <1>13. ASSUME NEW s \in Submitters, trackItem(s) PROVE GateHeld'
    BY <1>13, ZenonT(40) DEF trackItem, At, NotSubmitting, lifeVars, budgetVars, poolVars,
                 applyVars, resultVars, drainVars
  <1>14. ASSUME NEW s \in Submitters, Enqueue(s) PROVE GateHeld'
    BY <1>14, ZenonT(40) DEF Enqueue, At, NotSubmitting, lifeVars, budgetVars, poolVars,
                 applyVars, resultVars, drainVars
  <1>15. ASSUME NEW s \in Submitters, CommitSequence(s) PROVE GateHeld'
    BY <1>15, ZenonT(40) DEF CommitSequence, Return, NotSubmitting, lifeVars, budgetVars,
                 poolVars, applyVars, resultVars, drainVars
  <1>16. ASSUME NEW s \in Submitters, EnqueueAbandoned(s) PROVE GateHeld'
    BY <1>16 DEF EnqueueAbandoned, Aborted, Return, ReleaseItems,
                 NotSubmitting, lifeVars, budgetVars, poolVars, applyVars,
                 resultVars, drainVars
  <1>17. ASSUME NEW w \in Workers, Pool(w) PROVE GateHeld'
    BY <1>17, PoolFrame, ZenonT(40)
  <1>18. CASE Runner
    BY <1>18, RunnerFrame
  <1>19. CASE Results
    BY <1>19, ResultsFrame
  <1>20. ASSUME NEW d \in Drainers, Drain(d) PROVE GateHeld'
    BY <1>20, DrainFrame, ZenonT(40)
  <1>21. CASE StopNext
    BY <1>21, StopNextFrame
  <1>22. CASE UNCHANGED vars
    BY <1>22, StutterFrame
  <1> QED
    BY <1>1, <1>2, <1>3, <1>4, <1>5, <1>6, <1>7, <1>8, <1>9, <1>10, <1>11,
       <1>12, <1>13, <1>14, <1>15, <1>16, <1>17, <1>18, <1>19, <1>20, <1>21,
       <1>22, ZenonT(40)
       DEF Next, Submit, StopNext, Ended

\* Stop waits for the gate, for each pool and for the runner in turn.
LEMMA ClosedInOrderStep ==
    Types /\ GateHeld /\ ClosedInOrder /\ [Next]_vars => ClosedInOrder'
  <1> SUFFICES ASSUME Types, GateHeld, ClosedInOrder, [Next]_vars PROVE ClosedInOrder'
    BY Zenon
  <1> Workers' = Workers /\ DecodeWorkers' = DecodeWorkers
    BY Fixed, Zenon
  <1> USE DEF ClosedInOrder, SubmitChan, DecodedChan, ValidatedChan
  <1>1. CASE Start
    BY <1>1, StartFrame, ZenonT(40)
  <1>2. ASSUME NEW x \in Submitters \cup Drainers, CancelCaller(x) PROVE ClosedInOrder'
    BY <1>2, CancelCallerFrame, ZenonT(40)
  <1>3. ASSUME NEW s \in Submitters, SubmitCall(s) PROVE ClosedInOrder'
    BY <1>3, ZenonT(40) DEF SubmitCall, NotSubmitting, lifeVars, budgetVars, poolVars,
                applyVars, resultVars, drainVars, SubmitTypes, Types
  <1>4. ASSUME NEW s \in Submitters, reserveRawCborBytes(s) PROVE ClosedInOrder'
    BY <1>4, ZenonT(40) DEF reserveRawCborBytes, At, NotSubmitting, lifeVars, budgetVars,
                poolVars, applyVars, resultVars, drainVars, SubmitTypes, Types
  <1>5. ASSUME NEW s \in Submitters, AwaitBudget(s) PROVE ClosedInOrder'
    BY <1>5, ZenonT(40) DEF AwaitBudget, At, NotSubmitting, lifeVars, budgetVars,
                poolVars, applyVars, resultVars, drainVars, SubmitTypes, Types
  <1>6. ASSUME NEW s \in Submitters, BudgetFreed(s) PROVE ClosedInOrder'
    BY <1>6, ZenonT(40) DEF BudgetFreed, At, NotSubmitting, lifeVars, budgetVars,
                poolVars, applyVars, resultVars, drainVars, SubmitTypes, Types
  <1>7. ASSUME NEW s \in Submitters, BudgetAbandoned(s) PROVE ClosedInOrder'
    BY <1>7, ZenonT(40) DEF BudgetAbandoned, Return, NotSubmitting, lifeVars, budgetVars,
                poolVars, applyVars, resultVars, drainVars, SubmitTypes, Types
  <1>8. ASSUME NEW s \in Submitters, lockSubmit(s) PROVE ClosedInOrder'
    BY <1>8, ZenonT(40) DEF lockSubmit, At, NotSubmitting, lifeVars, budgetVars, poolVars,
                applyVars, resultVars, drainVars, SubmitTypes, Types
  <1>9. ASSUME NEW s \in Submitters, SubmitAbandoned(s) PROVE ClosedInOrder'
    BY <1>9 DEF SubmitAbandoned, Aborted, Return, NotSubmitting, lifeVars,
                budgetVars, poolVars, applyVars, resultVars, drainVars,
                SubmitTypes, Types
  <1>10. ASSUME NEW s \in Submitters, waitForPendingCapacity(s) PROVE ClosedInOrder'
    BY <1>10, ZenonT(40) DEF waitForPendingCapacity, At, NotSubmitting, lifeVars,
                 budgetVars, poolVars, applyVars, resultVars, drainVars,
                 SubmitTypes, Types
  <1>11. ASSUME NEW s \in Submitters, CapacityFreed(s) PROVE ClosedInOrder'
    BY <1>11, ZenonT(40) DEF CapacityFreed, At, NotSubmitting, lifeVars, budgetVars,
                 poolVars, applyVars, resultVars, drainVars, SubmitTypes, Types
  <1>12. ASSUME NEW s \in Submitters, SubmitRefused(s) PROVE ClosedInOrder'
    BY <1>12, ZenonT(40) DEF SubmitRefused, Aborted, Return, NotSubmitting, lifeVars,
                 budgetVars, poolVars, applyVars, resultVars, drainVars,
                 SubmitTypes, Types
  <1>13. ASSUME NEW s \in Submitters, trackItem(s) PROVE ClosedInOrder'
    BY <1>13, Zenon DEF trackItem, At, NotSubmitting, lifeVars, budgetVars, poolVars,
                 applyVars, resultVars, drainVars, SubmitTypes, Types
  <1>14. ASSUME NEW s \in Submitters, Enqueue(s) PROVE ClosedInOrder'
    BY <1>14, Zenon DEF Enqueue, At, NotSubmitting, lifeVars, budgetVars, poolVars,
                 applyVars, resultVars, drainVars, SubmitTypes, Types
  <1>15. ASSUME NEW s \in Submitters, CommitSequence(s) PROVE ClosedInOrder'
    BY <1>15, ZenonT(40) DEF CommitSequence, Return, NotSubmitting, lifeVars, budgetVars,
                 poolVars, applyVars, resultVars, drainVars, SubmitTypes, Types
  <1>16. ASSUME NEW s \in Submitters, EnqueueAbandoned(s) PROVE ClosedInOrder'
    BY <1>16, ZenonT(40) DEF EnqueueAbandoned, Aborted, Return, ReleaseItems,
                 NotSubmitting, lifeVars, budgetVars, poolVars, applyVars,
                 resultVars, drainVars, SubmitTypes, Types
  <1>17. ASSUME NEW w \in Workers, w \in Running, Work(w) PROVE ClosedInOrder'
    BY <1>17 DEF Work, InPools, lifeVars, submitVars, countVars, budgetVars,
                 applyVars, resultVars, drainVars, PoolTypes, Types
  <1>18. ASSUME NEW w \in Workers, w \in Running, Forward(w) PROVE ClosedInOrder'
    BY <1>18 DEF Forward, InPools, lifeVars, submitVars, countVars,
                 budgetVars, applyVars, resultVars, drainVars, PoolTypes, Types
  <1>19. ASSUME NEW w \in Workers, w \in Running, WorkerExit(w) PROVE ClosedInOrder'
    BY <1>19 DEF WorkerExit, InPools, lifeVars, submitVars, countVars,
                 budgetVars, applyVars, resultVars, drainVars, PoolTypes, Types
  <1>20. CASE Receive
    BY <1>20, ZenonT(40) DEF Receive, Ends, Idles, InRunner, submitVars, budgetVars,
                 poolVars, resultVars, drainVars
  <1>21. CASE maybeApply
    BY <1>21, ZenonT(40) DEF maybeApply, Ends, Idles, InRunner, submitVars, budgetVars,
                 poolVars, resultVars, drainVars
  <1>22. CASE applyItem
    BY <1>22, ZenonT(40) DEF applyItem, Ends, Idles, InRunner, submitVars, budgetVars,
                 poolVars, resultVars, drainVars
  <1>23. CASE applyPending
    BY <1>23, ZenonT(40) DEF applyPending, Ends, Idles, InRunner, submitVars, budgetVars,
                 poolVars, resultVars, drainVars
  <1>24. CASE StoreCompleted
    BY <1>24, ZenonT(40) DEF StoreCompleted, InRunner, submitVars, budgetVars, poolVars,
                 resultVars, drainVars
  <1>25. CASE WakeWaiters
    BY <1>25, ZenonT(40) DEF WakeWaiters, InRunner, submitVars, budgetVars, poolVars,
                 resultVars, drainVars
  <1>26. CASE setFatalError
    BY <1>26, ZenonT(40) DEF setFatalError, InRunner, submitVars, budgetVars, poolVars,
                 resultVars, drainVars
  <1>27. CASE CancelAfterFailure
    BY <1>27, ZenonT(40) DEF CancelAfterFailure, InRunner, submitVars, budgetVars,
                 poolVars, resultVars, drainVars
  <1>28. CASE SendResult
    BY <1>28, ZenonT(40) DEF SendResult, Idles, InRunner, submitVars, budgetVars,
                 poolVars, resultVars, drainVars
  <1>29. CASE ResultsFull
    BY <1>29, ZenonT(40) DEF ResultsFull, Idles, InRunner, submitVars, budgetVars,
                 poolVars, resultVars, drainVars
  <1>30. CASE SendDone
    BY <1>30, ZenonT(40) DEF SendDone, Idles, InRunner, submitVars, budgetVars, poolVars,
                 resultVars, drainVars
  <1>31. CASE RunnerExit
    BY <1>31, ZenonT(40) DEF RunnerExit, Idles, InRunner, submitVars, budgetVars,
                 poolVars, resultVars, drainVars
  <1>32. CASE Results
    BY <1>32, ResultsFrame, ZenonT(40)
  <1>33. ASSUME NEW d \in Drainers, Drain(d) PROVE ClosedInOrder'
    BY <1>33, DrainFrame, ZenonT(40)
  <1>34. CASE ParentCancelled
    BY <1>34, ZenonT(40) DEF ParentCancelled, InStop, submitVars, countVars, poolVars,
                 applyVars, resultVars, drainVars, budgetVars
  <1>35. CASE StopBegins
    BY <1>35, ZenonT(40) DEF StopBegins, Step, InStop, submitVars, countVars, poolVars,
                 applyVars, resultVars, drainVars, budgetVars
  <1>36. CASE StopCancels
    BY <1>36, ZenonT(40) DEF StopCancels, Step, InStop, submitVars, countVars, poolVars,
                 applyVars, resultVars, drainVars, budgetVars
  <1>37. CASE StopCloses
    BY <1>37 DEF StopCloses, Step, InStop, submitVars, countVars, poolVars,
                 applyVars, resultVars, drainVars, budgetVars, GateHeld,
                 Holding
  <1>38. CASE StopPool("decoding", "validating", DecodeWorkers)
    BY <1>38 DEF StopPool, Step, InStop, submitVars, countVars, poolVars,
                 applyVars, resultVars, drainVars, budgetVars, Input
  <1>39. CASE StopPool("validating", "applying", Running \ DecodeWorkers)
    BY <1>39 DEF StopPool, Step, InStop, submitVars, countVars, poolVars,
                 applyVars, resultVars, drainVars, budgetVars, Input, Running,
                 Workers
  <1>40. CASE StopApplied
    BY <1>40, Zenon DEF StopApplied, Step, InStop, submitVars, countVars, poolVars,
                 applyVars, resultVars, drainVars, budgetVars
  <1>41. CASE StopReturns
    BY <1>41, ZenonT(40) DEF StopReturns, Step, InStop, submitVars, countVars, poolVars,
                 applyVars, resultVars, drainVars, budgetVars
  <1>42. CASE UNCHANGED vars
    BY <1>42, StutterFrame, ZenonT(40)
  <1> QED
    BY <1>1, <1>2, <1>3, <1>4, <1>5, <1>6, <1>7, <1>8, <1>9, <1>10, <1>11,
       <1>12, <1>13, <1>14, <1>15, <1>16, <1>17, <1>18, <1>19, <1>20, <1>21,
       <1>22, <1>23, <1>24, <1>25, <1>26, <1>27, <1>28, <1>29, <1>30, <1>31,
       <1>32, <1>33, <1>34, <1>35, <1>36, <1>37, <1>38, <1>39, <1>40, <1>41,
       <1>42, ZenonT(40)
       DEF Next, Submit, Pool, Runner, StopNext, StopOn, Ended

\* Stop and fail publish the cause before they cancel.
LEMMA CauseKnownStep ==
    Types /\ CauseKnown /\ [Next]_vars => CauseKnown'
  <1> SUFFICES ASSUME Types, CauseKnown, [Next]_vars PROVE CauseKnown'
    BY Zenon
  <1> USE DEF CauseKnown
  <1>1. CASE Start
    BY <1>1, StartFrame
  <1>2. ASSUME NEW x \in Submitters \cup Drainers, CancelCaller(x) PROVE CauseKnown'
    BY <1>2, CancelCallerFrame, ZenonT(40)
  <1>3. ASSUME NEW s \in Submitters, Submit(s) PROVE CauseKnown'
    BY <1>3, SubmitFrame, ZenonT(40)
  <1>4. ASSUME NEW w \in Workers, Pool(w) PROVE CauseKnown'
    BY <1>4, PoolFrame, ZenonT(40)
  <1>5. CASE Receive
    BY <1>5, ZenonT(40) DEF Receive, Ends, Idles, InRunner, submitVars, budgetVars,
                poolVars, resultVars, drainVars
  <1>6. CASE maybeApply
    BY <1>6, ZenonT(40) DEF maybeApply, Ends, Idles, InRunner, submitVars, budgetVars,
                poolVars, resultVars, drainVars
  <1>7. CASE applyItem
    BY <1>7, ZenonT(40) DEF applyItem, Ends, Idles, InRunner, submitVars, budgetVars,
                poolVars, resultVars, drainVars
  <1>8. CASE applyPending
    BY <1>8, ZenonT(40) DEF applyPending, Ends, Idles, InRunner, submitVars, budgetVars,
                poolVars, resultVars, drainVars
  <1>9. CASE StoreCompleted
    BY <1>9, ZenonT(40) DEF StoreCompleted, InRunner, submitVars, budgetVars, poolVars,
                resultVars, drainVars
  <1>10. CASE WakeWaiters
    BY <1>10, ZenonT(40) DEF WakeWaiters, InRunner, submitVars, budgetVars, poolVars,
                 resultVars, drainVars
  <1>11. CASE setFatalError
    BY <1>11, ZenonT(40) DEF setFatalError, InRunner, submitVars, budgetVars, poolVars,
                 resultVars, drainVars
  <1>12. CASE CancelAfterFailure
    BY <1>12, ZenonT(40) DEF CancelAfterFailure, InRunner, submitVars, budgetVars,
                 poolVars, resultVars, drainVars
  <1>13. CASE SendResult
    BY <1>13, ZenonT(40) DEF SendResult, Idles, InRunner, submitVars, budgetVars,
                 poolVars, resultVars, drainVars
  <1>14. CASE ResultsFull
    BY <1>14, ZenonT(40) DEF ResultsFull, Idles, InRunner, submitVars, budgetVars,
                 poolVars, resultVars, drainVars
  <1>15. CASE SendDone
    BY <1>15, ZenonT(40) DEF SendDone, Idles, InRunner, submitVars, budgetVars, poolVars,
                 resultVars, drainVars
  <1>16. CASE RunnerExit
    BY <1>16, ZenonT(40) DEF RunnerExit, Idles, InRunner, submitVars, budgetVars,
                 poolVars, resultVars, drainVars
  <1>17. CASE Results
    BY <1>17, ResultsFrame
  <1>18. ASSUME NEW d \in Drainers, WaitForDrain(d) PROVE CauseKnown'
    BY <1>18, ZenonT(40) DEF WaitForDrain, InDrain, lifeVars, submitVars, countVars,
                 budgetVars, poolVars, applyVars, resultVars, Types,
                 DrainTypes, stoppedError, Drained
  <1>19. ASSUME NEW d \in Drainers, FenceBoundary(d) PROVE CauseKnown'
    BY <1>19, Zenon DEF FenceBoundary, FenceReturns, InDrain, lifeVars, submitVars,
                 countVars, budgetVars, poolVars, applyVars, resultVars,
                 Types, DrainTypes, stoppedError, Drained
  <1>20. ASSUME NEW d \in Drainers, FenceReached(d) PROVE CauseKnown'
    BY <1>20, ZenonT(40) DEF FenceReached, FenceReturns, InDrain, lifeVars, submitVars,
                 countVars, budgetVars, poolVars, applyVars, resultVars,
                 Types, DrainTypes, stoppedError, Drained
  <1>21. ASSUME NEW d \in Drainers, FenceWaits(d) PROVE CauseKnown'
    BY <1>21, Zenon DEF FenceWaits, InDrain, lifeVars, submitVars, countVars,
                 budgetVars, poolVars, applyVars, resultVars, Types,
                 DrainTypes, stoppedError, Drained
  <1>22. ASSUME NEW d \in Drainers, FenceWoken(d) PROVE CauseKnown'
    BY <1>22, ZenonT(40) DEF FenceWoken, InDrain, lifeVars, submitVars, countVars,
                 budgetVars, poolVars, applyVars, resultVars, Types,
                 DrainTypes, stoppedError, Drained
  <1>23. ASSUME NEW d \in Drainers, FenceAbandoned(d) PROVE CauseKnown'
    BY <1>23, ZenonT(40) DEF FenceAbandoned, FenceReturns, InDrain, lifeVars, submitVars,
                 countVars, budgetVars, poolVars, applyVars, resultVars,
                 Types, DrainTypes, stoppedError, Drained
  <1>24. ASSUME NEW d \in Drainers, DrainReturns(d) PROVE CauseKnown'
    BY <1>24, ZenonT(40) DEF DrainReturns, InDrain, lifeVars, submitVars, countVars,
                 budgetVars, poolVars, applyVars, resultVars, Types,
                 DrainTypes, stoppedError, Drained
  <1>25. CASE ParentCancelled
    BY <1>25, ZenonT(40) DEF ParentCancelled, InStop, submitVars, countVars, poolVars,
                 applyVars, resultVars, drainVars, budgetVars
  <1>26. CASE StopBegins
    BY <1>26, ZenonT(40) DEF StopBegins, Step, InStop, submitVars, countVars, poolVars,
                 applyVars, resultVars, drainVars, budgetVars
  <1>27. CASE StopCancels
    BY <1>27, ZenonT(40) DEF StopCancels, Step, InStop, submitVars, countVars, poolVars,
                 applyVars, resultVars, drainVars, budgetVars
  <1>28. CASE StopCloses
    BY <1>28, ZenonT(40) DEF StopCloses, Step, InStop, submitVars, countVars, poolVars,
                 applyVars, resultVars, drainVars, budgetVars
  <1>29. CASE StopPool("decoding", "validating", DecodeWorkers)
    BY <1>29, ZenonT(40) DEF StopPool, Step, InStop, submitVars, countVars, poolVars,
                 applyVars, resultVars, drainVars, budgetVars
  <1>30. CASE StopPool("validating", "applying", Running \ DecodeWorkers)
    BY <1>30 DEF StopPool, Step, InStop, submitVars, countVars, poolVars,
                 applyVars, resultVars, drainVars, budgetVars
  <1>31. CASE StopApplied
    BY <1>31, ZenonT(40) DEF StopApplied, Step, InStop, submitVars, countVars, poolVars,
                 applyVars, resultVars, drainVars, budgetVars
  <1>32. CASE StopReturns
    BY <1>32, ZenonT(40) DEF StopReturns, Step, InStop, submitVars, countVars, poolVars,
                 applyVars, resultVars, drainVars, budgetVars
  <1>33. CASE UNCHANGED vars
    BY <1>33, StutterFrame
  <1> QED
    BY <1>1, <1>2, <1>3, <1>4, <1>5, <1>6, <1>7, <1>8, <1>9, <1>10, <1>11,
       <1>12, <1>13, <1>14, <1>15, <1>16, <1>17, <1>18, <1>19, <1>20, <1>21,
       <1>22, <1>23, <1>24, <1>25, <1>26, <1>27, <1>28, <1>29, <1>30, <1>31,
       <1>32, <1>33, ZenonT(40)
       DEF Next, Runner, Drain, StopNext, StopOn, Ended

\* Every step keeps the types.
LEMMA TypesStep == Types /\ [Next]_vars => Types'
  BY LifeTypesStep, SubmitTypesStep, PoolTypesStep, RunnerTypesStep, ResultTypesStep,
     DrainTypesStep DEF Types

-----------------------------------------------------------------------------
\* The four together.
StateInv == Types /\ GateHeld /\ ClosedInOrder /\ CauseKnown

\* A pipeline that has not been started satisfies them.
LEMMA StateInvInit == Init => StateInv
  <1> SUFFICES ASSUME Init PROVE StateInv
    OBVIOUS
  <1>1. Types
    <2>1. LifeTypes
      BY ZenonT(40) DEF Init, LifeTypes
    <2>2. SubmitTypes
      <3>1. /\ pc = [s \in Submitters |-> "idle"] /\ calls = Here.calls
            /\ raw = [s \in Submitters |-> 0] /\ sequenceCounter = 0
        BY ZenonT(40) DEF Init
      <3>2. Here.calls \in [Submitters -> Nat] /\ 0 \in 0..MaxUint
        BY <2>1, PipelineAssumption DEF LifeTypes, Here, Pipelines, IsScenario
      <3> QED  BY <3>1, <3>2 DEF SubmitTypes
    <2>3. PoolTypes
      <3>1. chan \in [Chans -> Seq(Nat)]
        BY DEF Init, Chans
      <3>2. worker = [w \in Workers |-> "idle"] /\ item = [w \in Workers |-> -1]
            /\ verdict = [n \in Seqs |-> "raw"]
        BY DEF Init, None
      <3> QED  BY <3>1, <3>2 DEF PoolTypes, Verdicts
    <2>4. RunnerTypes
      BY DEF Init, RunnerTypes, None
    <2>5. ResultTypes
      BY DEF Init, ResultTypes, None
    <2>6. DrainTypes
      BY DEF Init, DrainTypes
    <2> QED  BY <2>1, <2>2, <2>3, <2>4, <2>5, <2>6 DEF Types
  <1>2. GateHeld
    BY DEF Init, GateHeld, Holding
  <1>3. ClosedInOrder
    BY DEF Init, ClosedInOrder
  <1>4. CauseKnown
    BY DEF Init, CauseKnown
  <1> QED  BY <1>1, <1>2, <1>3, <1>4, ZenonT(40) DEF StateInv

\* Every step keeps them.
LEMMA StateInvStep == StateInv /\ [Next]_vars => StateInv'
  <1> SUFFICES ASSUME StateInv, [Next]_vars PROVE StateInv'
    OBVIOUS
  <1>1. Types /\ GateHeld /\ ClosedInOrder /\ CauseKnown
    BY ZenonT(40) DEF StateInv
  <1> QED
    BY <1>1, TypesStep, GateHeldStep, ClosedInOrderStep, CauseKnownStep, ZenonT(40) DEF StateInv, Types

\* They hold throughout.
THEOREM PipelineStateInv == Spec => []StateInv
  BY StateInvInit, StateInvStep, PTL DEF Spec

\* Nobody sends on a channel that Stop has closed (pipeline.go, Stop, Submit).
THEOREM PipelineNoSendOnClosed == Spec => []NoSendOnClosed
  <1>1. StateInv => NoSendOnClosed
    <2> SUFFICES ASSUME StateInv PROVE NoSendOnClosed
      OBVIOUS
    <2>1. ClosedInOrder
      BY DEF StateInv
    <2>2. ASSUME NEW w \in Workers, Input(w) + 1 \in closed PROVE worker[w] # "forward"
      BY <2>1, <2>2 DEF ClosedInOrder, Input, SubmitChan, DecodedChan, ValidatedChan, Workers
    <2> QED  BY <2>1, <2>2 DEF ClosedInOrder, NoSendOnClosed
  <1> QED  BY <1>1, PipelineStateInv, PTL

=============================================================================
