------------------------------ MODULE Pipeline ------------------------------
(***************************************************************************)
(* The block pipeline (pipeline/): callers submit blocks, a pool of        *)
(* workers decodes them and a second pool validates them out of order, and *)
(* one runner applies them in the order of submission.  Results go to a    *)
(* consumer through a forwarding goroutine, WaitForDrain and Fence wait    *)
(* for an ordering boundary, and Stop takes the whole thing down.          *)
(*                                                                         *)
(* Every goroutine is a process with a program counter; a step ends at a   *)
(* lock, a channel operation or an atomic that another goroutine reads.    *)
(* A block is its sequence number, what the stages found out about it and  *)
(* the number of raw bytes it keeps.  A channel that is closed to wake its *)
(* waiters and then replaced (completionChan, rawBytesFreed) is the set of *)
(* waiters the close has woken.  The errors channel and the metrics are    *)
(* left out: every send on it gives way when it is full or the pipeline is *)
(* cancelled, and nothing in the pipeline reads them.                      *)
(***************************************************************************)
EXTENDS Integers, Sequences, FiniteSets, Functions

CONSTANTS
    Scenarios,        \* the pipelines of an instance and their callers, by name
    Submitters,       \* goroutines that call Submit
    Drainers,         \* goroutines that call WaitForDrain, once each
    BufSize,          \* PrefetchBufferSize
    MaxUint           \* the largest uint64

(***************************************************************************)
(* A scenario says which configurations the pipeline may be built with,    *)
(* MaxPendingBlocks (zero for no limit) and MaxRawCborBytes; the workers   *)
(* of its decode and its validate pool; the bound on the Submit calls of   *)
(* every submitter, the lengths of the raw blocks submitted and the        *)
(* drainers at work; which of the checks may reject a block, which callers *)
(* may have their own context cancelled, whether Stop may be called, the   *)
(* context given to Start cancelled, and whether somebody reads Results.   *)
(***************************************************************************)
IsScenario(z) ==
    /\ z.maxPending \in Nat /\ z.maxRaw \in 1..MaxUint
    /\ z.decoders \cap z.validators = {}
    /\ z.calls \in [Submitters -> Nat] /\ z.drains \subseteq Drainers
    /\ z.rawSizes \subseteq 0..MaxUint
    /\ z.mayFail \subseteq {"decode", "validate", "context", "apply"}
    /\ z.mayCancel \subseteq Submitters \cup Drainers
    /\ {z.mayStop, z.mayLoseParent, z.consumes} \subseteq BOOLEAN

ASSUME PipelineAssumption ==
    /\ BufSize \in Nat \ {0} /\ MaxUint \in Nat \ {0}
    /\ IsFiniteSet(Submitters) /\ Submitters \cap Drainers = {}
    /\ \A name \in DOMAIN Scenarios : IsScenario(Scenarios[name])

VARIABLES
    scenario, config, started, stopping, stopped, ctxDone, fatalErr, parentGone,
    pc, calls, raw, cancelled, result,              \* Submit
    submitGate, sequenceCounter, completedSequence, woken,
    rawBytesInUse, freed, activeItems, size,        \* the raw byte budget
    chan, closed, worker, item, verdict,            \* the two worker pools
    runner, cur, batch, outcome, pending, nextSequence, applied,
    resultsQueue, forwarder, handing, delivered,
    drain, target, since, fence, answer,            \* WaitForDrain
    stop

lifeVars == <<scenario, config, started, stopping, stopped, fatalErr, parentGone>>
submitVars == <<pc, calls, raw, cancelled, result>>
countVars == <<sequenceCounter, completedSequence>>
budgetVars == <<rawBytesInUse, freed, activeItems, size>>
poolVars == <<worker, item, verdict>>
applyVars == <<runner, cur, batch, outcome, pending, nextSequence, applied>>
resultVars == <<forwarder, handing, delivered>>
drainVars == <<drain, target, since, fence, answer>>
vars == <<lifeVars, ctxDone, submitVars, submitGate, countVars, woken,
          budgetVars, chan, closed, poolVars, applyVars, resultsQueue,
          resultVars, drainVars, stop>>

-----------------------------------------------------------------------------
Pipelines == Scenarios
Here == Pipelines[scenario]
MaxPending == Here.maxPending
MaxRaw == Here.maxRaw
DecodeWorkers == Here.decoders
ValidateWorkers == Here.validators

Seqs == 0..SumFunction(Here.calls)
Workers == DecodeWorkers \cup ValidateWorkers
None == -1

\* The channels: submitChan, decodedChan and validatedChan.
SubmitChan == 1
DecodedChan == 2
ValidatedChan == 3
Input(w) == IF w \in DecodeWorkers THEN SubmitChan ELSE DecodedChan
ApplyInput == IF config.validating THEN ValidatedChan ELSE DecodedChan

\* A channel with room; a push on it, and what is left after a receive.
Room(q) == Len(q) < BufSize

BugUnvalidatedAllowed(c) ==
    \/ c.headerOnly /\ (c.trusted \/ c.applyFunc \/ c.chainContext \/ c.verifyConfig)
    \/ c.trusted /\ (c.applyFunc \/ c.validating \/ c.chainContext \/ c.resolver)
    \/ /\ ~c.trusted
       /\ \/ ~c.eta0 \/ ~c.kesPeriod \/ ~c.resolver \/ c.skipBodyHash
          \/ /\ ~c.headerOnly
             /\ ~c.chainContext \/ ~c.applyFunc \/ ~c.verifyConfig \/ c.bypass

\* Why Start refuses a configuration; the order of the checks only decides
\* which error is returned.
Refused(c) ==
    \/ c.headerOnly /\ (c.trusted \/ c.applyFunc \/ c.chainContext \/ c.verifyConfig)
    \/ c.trusted /\ (c.applyFunc \/ c.validating \/ c.chainContext \/ c.resolver)
    \/ /\ ~c.trusted
       /\ \/ ~c.validating \/ ~c.eta0 \/ ~c.kesPeriod \/ ~c.resolver
          \/ c.skipBodyHash
          \/ /\ ~c.headerOnly
             /\ ~c.chainContext \/ ~c.applyFunc \/ ~c.verifyConfig \/ c.bypass

BugDoubleWraps(n) == (2 * n) % (MaxUint + 1)

\* The two copies a block keeps: its raw bytes and the decoded block's.
saturatingDouble(n) == IF n > MaxUint \div 2 THEN MaxUint ELSE 2 * n

\* The error a caller sees once the pipeline's context is cancelled.
stoppedError == IF fatalErr THEN "fatal" ELSE "stopped"

-----------------------------------------------------------------------------
Init ==
    /\ scenario \in DOMAIN Scenarios /\ config \in Here.configs
    /\ started = FALSE /\ stopping = FALSE /\ stopped = FALSE
    /\ ctxDone = FALSE /\ fatalErr = FALSE /\ parentGone = FALSE
    /\ pc = [s \in Submitters |-> "idle"]
    /\ calls = Here.calls
    /\ raw = [s \in Submitters |-> 0]
    /\ cancelled = [x \in Submitters \cup Drainers |-> FALSE]
    /\ result = [s \in Submitters |-> "none"]
    /\ submitGate = TRUE /\ sequenceCounter = 0 /\ completedSequence = 0
    /\ woken = {} /\ freed = {} /\ rawBytesInUse = 0 /\ activeItems = {}
    /\ size = [n \in Seqs |-> 0]
    /\ chan = [c \in SubmitChan..ValidatedChan |-> <<>>] /\ closed = {}
    /\ worker = [w \in Workers |-> "idle"]
    /\ item = [w \in Workers |-> None]
    /\ verdict = [n \in Seqs |-> "raw"]
    /\ runner = "receive" /\ cur = None /\ batch = <<>> /\ outcome = "ok"
    /\ pending = {} /\ nextSequence = 0 /\ applied = <<>>
    /\ resultsQueue = <<>> /\ forwarder = "receive" /\ handing = None
    /\ delivered = <<>>
    /\ drain = [d \in Drainers |-> "idle"]
    /\ target = [d \in Drainers |-> 0]
    /\ since = [d \in Drainers |-> 0]
    /\ fence = [d \in Drainers |-> "none"]
    /\ answer = [d \in Drainers |-> "none"]
    /\ stop = "idle"

\* Start accepts the configuration and launches the goroutines, which do
\* nothing before it: every one of them waits for a block or for the end.
Start ==
    /\ ~started /\ ~stopping /\ ~Refused(config)
    /\ started' = TRUE
    /\ UNCHANGED <<scenario, config, stopping, stopped, fatalErr, parentGone, ctxDone,
                   submitVars, submitGate, countVars, woken, budgetVars, chan,
                   closed, poolVars, applyVars, resultsQueue, resultVars,
                   drainVars, stop>>

-----------------------------------------------------------------------------
(***************************************************************************)
(* The raw byte budget.                                                    *)
(***************************************************************************)
retained(s) == saturatingDouble(raw[s])

BugFreedUnseen(bytes) ==
    /\ rawBytesInUse' = IF bytes >= rawBytesInUse THEN 0 ELSE rawBytesInUse - bytes
    /\ UNCHANGED freed

releaseRawCborBytes(bytes) ==
    /\ rawBytesInUse' = IF bytes >= rawBytesInUse THEN 0 ELSE rawBytesInUse - bytes
    /\ freed' = IF bytes = 0 THEN freed
                ELSE freed \cup {s \in Submitters : pc[s] = "budgetWait"}

\* What a set of items is charged for.
Bytes(S) == SumFunctionOnSet([n \in Seqs |-> saturatingDouble(size[n])], S)

BugReleasedTwice(S) ==
    /\ activeItems' = activeItems \ S
    /\ releaseRawCborBytes(Bytes(S))
    /\ UNCHANGED size

\* Release or markItemDelivered of each item of a set: an item gives its bytes
\* back once, whoever comes first.
ReleaseItems(S) ==
    /\ activeItems' = activeItems \ S
    /\ releaseRawCborBytes(Bytes(S \cap activeItems))
    /\ UNCHANGED size

(***************************************************************************)
(* Submit.  A call ends with Return: the deferred functions give back the  *)
(* reservation and the gate, when the caller holds them.                   *)
(***************************************************************************)
Return(s, r) ==
    /\ pc' = [pc EXCEPT ![s] = "idle"]
    /\ result' = [result EXCEPT ![s] = r]
    /\ raw' = [raw EXCEPT ![s] = 0]
    /\ cancelled' = [cancelled EXCEPT ![s] = FALSE]
    /\ UNCHANGED calls

At(s, from, to) ==
    /\ pc[s] = from
    /\ pc' = [pc EXCEPT ![s] = to]
    /\ UNCHANGED <<calls, raw, cancelled, result>>

NotSubmitting == UNCHANGED <<lifeVars, ctxDone, completedSequence, closed, poolVars,
                             applyVars, resultsQueue, resultVars, drainVars, stop>>

\* The caller's own context is cancelled, while its call is in progress.
CancelCaller(x) ==
    /\ x \in Here.mayCancel /\ ~cancelled[x]
    /\ x \in Submitters => pc[x] # "idle"
    /\ cancelled' = [cancelled EXCEPT ![x] = TRUE]
    /\ UNCHANGED <<pc, calls, raw, result, submitGate, sequenceCounter, woken,
                   budgetVars, chan>>
    /\ NotSubmitting

SubmitCall(s) ==
    /\ pc[s] = "idle" /\ calls[s] > 0 /\ started
    /\ \E r \in Here.rawSizes :
        /\ calls' = [calls EXCEPT ![s] = @ - 1]
        /\ \/ /\ saturatingDouble(r) <= MaxRaw
              /\ pc' = [pc EXCEPT ![s] = "budget"]
              /\ raw' = [raw EXCEPT ![s] = r]
              /\ result' = [result EXCEPT ![s] = "none"]
           \/ /\ saturatingDouble(r) > MaxRaw
              /\ result' = [result EXCEPT ![s] = "tooLarge"]
              /\ UNCHANGED <<pc, raw>>
    /\ UNCHANGED <<cancelled, submitGate, sequenceCounter, woken, budgetVars, chan>>
    /\ NotSubmitting

BugReserveUnchecked(s) ==
    /\ At(s, "budget", "gate")
    /\ rawBytesInUse' = rawBytesInUse + retained(s)
    /\ UNCHANGED <<freed, activeItems, size, submitGate, sequenceCounter, woken, chan>>
    /\ NotSubmitting

reserveRawCborBytes(s) ==
    /\ retained(s) <= MaxRaw - rawBytesInUse
    /\ At(s, "budget", "gate")
    /\ rawBytesInUse' = rawBytesInUse + retained(s)
    /\ UNCHANGED <<freed, activeItems, size, submitGate, sequenceCounter, woken, chan>>
    /\ NotSubmitting

AwaitBudget(s) ==
    /\ retained(s) > MaxRaw - rawBytesInUse
    /\ At(s, "budget", "budgetWait")
    /\ freed' = freed \ {s}
    /\ UNCHANGED <<rawBytesInUse, activeItems, size, submitGate, sequenceCounter,
                   woken, chan>>
    /\ NotSubmitting

BudgetFreed(s) ==
    /\ s \in freed
    /\ At(s, "budgetWait", "budget")
    /\ UNCHANGED <<submitGate, sequenceCounter, woken, budgetVars, chan>>
    /\ NotSubmitting

\* Here the code returns ErrPipelineStopped whatever cancelled the pipeline.
BudgetAbandoned(s) ==
    /\ pc[s] = "budgetWait"
    /\ \/ cancelled[s] /\ Return(s, "cancelled")
       \/ ctxDone /\ Return(s, "stopped")
    /\ UNCHANGED <<submitGate, sequenceCounter, woken, budgetVars, chan>>
    /\ NotSubmitting

\* lockSubmit: the contexts are checked before and after the gate is taken.
lockSubmit(s) ==
    /\ submitGate /\ ~cancelled[s] /\ ~ctxDone
    /\ At(s, "gate", "capacity")
    /\ submitGate' = FALSE
    /\ UNCHANGED <<sequenceCounter, woken, budgetVars, chan>>
    /\ NotSubmitting

\* A wait of Submit that a context ends: the reservation goes back, and the
\* gate too once it is held.
Aborted(s) ==
    \/ cancelled[s] /\ Return(s, "cancelled")
    \/ ctxDone /\ Return(s, stoppedError)
    \/ stopping /\ pc[s] \in {"capacity", "enqueue"} /\ Return(s, stoppedError)

SubmitAbandoned(s) ==
    /\ pc[s] \in {"gate", "capacityWait"}
    /\ Aborted(s)
    /\ submitGate' = (submitGate \/ pc[s] = "capacityWait")
    /\ releaseRawCborBytes(retained(s))
    /\ UNCHANGED <<activeItems, size, sequenceCounter, woken, chan>>
    /\ NotSubmitting

BugCapacityTwoMore ==
    \/ MaxPending = 0
    \/ sequenceCounter <= completedSequence
    \/ sequenceCounter - completedSequence <= MaxPending + 1

HasCapacity ==
    \/ MaxPending = 0
    \/ sequenceCounter <= completedSequence
    \/ sequenceCounter - completedSequence <= MaxPending

waitForPendingCapacity(s) ==
    /\ ~HasCapacity
    /\ At(s, "capacity", "capacityWait")
    /\ woken' = woken \ {s}
    /\ UNCHANGED <<submitGate, sequenceCounter, budgetVars, chan>>
    /\ NotSubmitting

CapacityFreed(s) ==
    /\ s \in woken
    /\ At(s, "capacityWait", "capacity")
    /\ UNCHANGED <<submitGate, sequenceCounter, woken, budgetVars, chan>>
    /\ NotSubmitting

\* The checks between the wait for capacity and the creation of the item.
SubmitRefused(s) ==
    /\ pc[s] = "capacity" /\ HasCapacity
    /\ Aborted(s)
    /\ submitGate' = TRUE
    /\ releaseRawCborBytes(retained(s))
    /\ UNCHANGED <<activeItems, size, sequenceCounter, woken, chan>>
    /\ NotSubmitting

\* The item takes the next sequence number provisionally and owns the bytes.
trackItem(s) ==
    /\ HasCapacity /\ ~cancelled[s] /\ ~ctxDone /\ ~stopping
    /\ At(s, "capacity", "enqueue")
    /\ activeItems' = activeItems \cup {sequenceCounter}
    /\ size' = [size EXCEPT ![sequenceCounter] = raw[s]]
    /\ UNCHANGED <<submitGate, sequenceCounter, woken, rawBytesInUse, freed, chan>>
    /\ NotSubmitting

Enqueue(s) ==
    /\ Room(chan[SubmitChan])
    /\ At(s, "enqueue", "count")
    /\ chan' = [chan EXCEPT ![SubmitChan] = Append(@, sequenceCounter)]
    /\ UNCHANGED <<submitGate, sequenceCounter, woken, budgetVars>>
    /\ NotSubmitting

\* The item is on its way before its number is committed.
CommitSequence(s) ==
    /\ pc[s] = "count"
    /\ Return(s, "ok")
    /\ sequenceCounter' = sequenceCounter + 1
    /\ submitGate' = TRUE
    /\ UNCHANGED <<woken, budgetVars, chan>>
    /\ NotSubmitting

EnqueueAbandoned(s) ==
    /\ pc[s] = "enqueue"
    /\ Aborted(s)
    /\ submitGate' = TRUE
    /\ ReleaseItems({sequenceCounter})
    /\ UNCHANGED <<sequenceCounter, woken, chan>>
    /\ NotSubmitting

-----------------------------------------------------------------------------
(***************************************************************************)
(* The worker pools.  A worker takes an item, runs its stage (a panic is   *)
(* an error of that stage) and forwards the item whatever the stage found. *)
(***************************************************************************)
Finds(stage, good, bad) == {good} \cup IF stage \in Here.mayFail THEN {bad} ELSE {}

\* DecodeStage.Process and ValidateStage.Process: an item that was not decoded
\* is not validated, and a cancelled context leaves an item unresolved.
Decoding == Finds("decode", "decoded", "decodeError")

Validating(found) ==
    IF found = "decoded" THEN Finds("validate", "valid", "validationError") ELSE {found}

Process(w, found) ==
    IF ctxDone THEN {found}
    ELSE IF w \in DecodeWorkers THEN Decoding ELSE Validating(found)

InPools == UNCHANGED <<lifeVars, ctxDone, submitVars, submitGate, countVars, woken,
                       budgetVars, closed, applyVars, resultsQueue, resultVars,
                       drainVars, stop>>

Work(w) ==
    /\ worker[w] = "idle" /\ chan[Input(w)] # <<>>
    /\ LET n == Head(chan[Input(w)]) IN
        /\ \E found \in Process(w, verdict[n]) :
            verdict' = [verdict EXCEPT ![n] = found]
        /\ item' = [item EXCEPT ![w] = n]
    /\ chan' = [chan EXCEPT ![Input(w)] = Tail(@)]
    /\ worker' = [worker EXCEPT ![w] = "forward"]
    /\ InPools

Forward(w) ==
    /\ worker[w] = "forward" /\ Room(chan[Input(w) + 1])
    /\ chan' = [chan EXCEPT ![Input(w) + 1] = Append(@, item[w])]
    /\ worker' = [worker EXCEPT ![w] = "idle"]
    /\ item' = [item EXCEPT ![w] = None]
    /\ UNCHANGED verdict
    /\ InPools

WorkerExit(w) ==
    /\ \/ worker[w] \in {"idle", "forward"} /\ ctxDone
       \/ worker[w] = "idle" /\ Input(w) \in closed /\ chan[Input(w)] = <<>>
    /\ worker' = [worker EXCEPT ![w] = "done"]
    /\ item' = [item EXCEPT ![w] = None]
    /\ UNCHANGED <<verdict, chan>>
    /\ InPools

-----------------------------------------------------------------------------
(***************************************************************************)
(* The apply runner and its stage: `batch' are the items processed by the  *)
(* current call, `outcome' how it ended.                                   *)
(***************************************************************************)
InRunner == UNCHANGED <<scenario, config, started, stopping, stopped, parentGone,
                        submitVars,
                        submitGate, sequenceCounter, budgetVars, closed, poolVars,
                        resultVars, drainVars, stop>>

Idles == UNCHANGED <<ctxDone, fatalErr, completedSequence, woken>>

\* The call returns: the completion boundary moves if anything was processed.
Ends(how, processed) ==
    /\ outcome' = how
    /\ batch' = processed
    /\ runner' = IF processed = <<>>
                 THEN IF how = "fatal" THEN "fail" ELSE "send"
                 ELSE "store"

\* processWithStatus on the next item received.
Receive ==
    /\ runner = "receive" /\ chan[ApplyInput] # <<>>
    /\ chan' = [chan EXCEPT ![ApplyInput] = Tail(@)]
    /\ LET n == Head(chan[ApplyInput]) IN
        \/ /\ ctxDone
           /\ Ends("ctx", <<>>)
           /\ UNCHANGED <<cur, pending, nextSequence>>
        \/ /\ ~ctxDone /\ n = nextSequence
           /\ nextSequence' = nextSequence + 1
           /\ cur' = n
           /\ runner' = "check"
           /\ UNCHANGED <<batch, outcome, pending>>
        \/ /\ ~ctxDone /\ n # nextSequence
           /\ MaxPending > 0 /\ Cardinality(pending) >= MaxPending
           /\ Ends("fatal", <<>>)
           /\ UNCHANGED <<cur, pending, nextSequence>>
        \/ /\ ~ctxDone /\ n # nextSequence
           /\ MaxPending = 0 \/ Cardinality(pending) < MaxPending
           /\ pending' = pending \cup {n}
           /\ UNCHANGED <<runner, cur, batch, outcome, nextSequence>>
    /\ UNCHANGED <<applied, resultsQueue>>
    /\ Idles /\ InRunner

\* What the stages recorded keeps the item from being processed.
Unfit(n) ==
    \/ verdict[n] = "decodeError" /\ ~config.trusted
    \/ verdict[n] = "validationError"
    \/ config.validating /\ verdict[n] # "valid"

\* The mode applies blocks; the chain context and the ledger state, which are
\* checked then, may reject one.
Applies == ~config.trusted /\ ~config.headerOnly
ContextRejects == Applies /\ "context" \in Here.mayFail

\* An item that cannot be applied is passed over.
BugUnfitSkipped ==
    /\ runner = "check"
    /\ \/ /\ Unfit(cur)
          /\ batch' = Append(batch, cur)
          /\ runner' = "pending"
       \/ /\ ~Unfit(cur)
          /\ runner' = "apply"
          /\ UNCHANGED batch
    /\ UNCHANGED <<cur, outcome, pending, nextSequence, applied, chan, resultsQueue>>
    /\ Idles /\ InRunner

\* maybeApply up to its last look at the context.
maybeApply ==
    /\ runner = "check"
    /\ \/ /\ Unfit(cur) \/ ContextRejects
          /\ Ends("fatal", batch)
       \/ /\ ~Unfit(cur) /\ ~Applies
          /\ batch' = Append(batch, cur)
          /\ runner' = "pending"
          /\ UNCHANGED outcome
       \/ /\ ~Unfit(cur) /\ Applies /\ ctxDone
          /\ Ends("ctx", batch)
       \/ /\ ~Unfit(cur) /\ Applies /\ ~ctxDone
          /\ runner' = "apply"
          /\ UNCHANGED <<batch, outcome>>
    /\ UNCHANGED <<cur, pending, nextSequence, applied, chan, resultsQueue>>
    /\ Idles /\ InRunner

\* callApplyFunc, which a cancellation no longer holds back.
applyItem ==
    /\ runner = "apply"
    /\ \/ /\ applied' = Append(applied, cur)
          /\ batch' = Append(batch, cur)
          /\ runner' = "pending"
          /\ UNCHANGED outcome
       \/ /\ "apply" \in Here.mayFail
          /\ Ends("fatal", batch)
          /\ UNCHANGED applied
    /\ UNCHANGED <<cur, pending, nextSequence, chan, resultsQueue>>
    /\ Idles /\ InRunner

BugPendingForgotten ==
    /\ runner = "pending"
    /\ Ends(IF ctxDone THEN "ctx" ELSE "ok", batch)
    /\ UNCHANGED <<cur, pending, nextSequence, applied, chan, resultsQueue>>
    /\ Idles /\ InRunner

\* applyPending: one turn of its loop.
applyPending ==
    /\ runner = "pending"
    /\ \/ /\ ctxDone
          /\ Ends("ctx", batch)
          /\ UNCHANGED <<cur, pending, nextSequence>>
       \/ /\ ~ctxDone /\ nextSequence \in pending
          /\ pending' = pending \ {nextSequence}
          /\ nextSequence' = nextSequence + 1
          /\ cur' = nextSequence
          /\ runner' = "check"
          /\ UNCHANGED <<batch, outcome>>
       \/ /\ ~ctxDone /\ nextSequence \notin pending
          /\ Ends("ok", batch)
          /\ UNCHANGED <<cur, pending, nextSequence>>
    /\ UNCHANGED <<applied, chan, resultsQueue>>
    /\ Idles /\ InRunner

BugRejectedCounted ==
    /\ runner = "store"
    /\ completedSequence' = nextSequence
    /\ runner' = "wake"
    /\ UNCHANGED <<ctxDone, fatalErr, woken, cur, batch, outcome, pending,
                   nextSequence, applied, chan, resultsQueue>>
    /\ InRunner

\* markProcessed: the boundary is stored before its waiters are woken.
StoreCompleted ==
    /\ runner = "store"
    /\ completedSequence' = batch[Len(batch)] + 1
    /\ runner' = "wake"
    /\ UNCHANGED <<ctxDone, fatalErr, woken, cur, batch, outcome, pending,
                   nextSequence, applied, chan, resultsQueue>>
    /\ InRunner

Waiting == {s \in Submitters : pc[s] = "capacityWait"}
             \cup {d \in Drainers : drain[d] = "wait"}

BugFencesAsleep ==
    /\ runner = "wake"
    /\ woken' = woken \cup {s \in Submitters : pc[s] = "capacityWait"}
    /\ runner' = IF outcome = "fatal" THEN "fail" ELSE "send"
    /\ UNCHANGED <<ctxDone, fatalErr, completedSequence, cur, batch, outcome,
                   pending, nextSequence, applied, chan, resultsQueue>>
    /\ InRunner

BugSubmittersAsleep ==
    /\ runner = "wake"
    /\ woken' = woken \cup {d \in Drainers : drain[d] = "wait"}
    /\ runner' = IF outcome = "fatal" THEN "fail" ELSE "send"
    /\ UNCHANGED <<ctxDone, fatalErr, completedSequence, cur, batch, outcome,
                   pending, nextSequence, applied, chan, resultsQueue>>
    /\ InRunner

WakeWaiters ==
    /\ runner = "wake"
    /\ woken' = woken \cup Waiting
    /\ runner' = IF outcome = "fatal" THEN "fail" ELSE "send"
    /\ UNCHANGED <<ctxDone, fatalErr, completedSequence, cur, batch, outcome,
                   pending, nextSequence, applied, chan, resultsQueue>>
    /\ InRunner

\* fail: the cause is recorded before the pipeline is cancelled.
setFatalError ==
    /\ runner = "fail"
    /\ fatalErr' = TRUE
    /\ runner' = "cancel"
    /\ UNCHANGED <<ctxDone, completedSequence, woken, cur, batch, outcome,
                   pending, nextSequence, applied, chan, resultsQueue>>
    /\ InRunner

CancelAfterFailure ==
    /\ runner = "cancel"
    /\ ctxDone' = TRUE
    /\ runner' = "send"
    /\ UNCHANGED <<fatalErr, completedSequence, woken, cur, batch, outcome,
                   pending, nextSequence, applied, chan, resultsQueue>>
    /\ InRunner

\* forwardProcessed and forwardCommitted: one item.  The second one waits for
\* room whatever happens; the first one gives up when it is cancelled.
SendResult ==
    /\ runner \in {"send", "blocked"} /\ batch # <<>> /\ Room(resultsQueue)
    /\ resultsQueue' = Append(resultsQueue, Head(batch))
    /\ batch' = Tail(batch)
    /\ runner' = "send"
    /\ UNCHANGED <<cur, outcome, pending, nextSequence, applied, chan>>
    /\ Idles /\ InRunner

BugFullDropsOne ==
    /\ runner = "send" /\ batch # <<>> /\ ~Room(resultsQueue)
    /\ outcome # "fatal"
    /\ batch' = Tail(batch)
    /\ UNCHANGED <<runner, cur, outcome, pending, nextSequence, applied, chan,
                   resultsQueue>>
    /\ Idles /\ InRunner

ResultsFull ==
    /\ runner = "send" /\ batch # <<>> /\ ~Room(resultsQueue)
    /\ outcome # "fatal"
    /\ runner' = "blocked"
    /\ UNCHANGED <<cur, batch, outcome, pending, nextSequence, applied, chan,
                   resultsQueue>>
    /\ Idles /\ InRunner

\* The end of a call of the runner's loop: after an error it reports, the
\* runner may find the context cancelled; after a fatal one it is over.
SendDone ==
    /\ \/ runner = "send" /\ batch = <<>>
       \/ runner = "blocked" /\ ctxDone
    /\ batch' = <<>>
    /\ outcome' = "ok"
    /\ cur' = None
    /\ \/ outcome # "fatal" /\ runner' = "receive"
       \/ outcome # "ok" /\ runner' = "done"
    /\ UNCHANGED <<pending, nextSequence, applied, chan, resultsQueue>>
    /\ Idles /\ InRunner

RunnerExit ==
    /\ runner = "receive"
    /\ ctxDone \/ (ApplyInput \in closed /\ chan[ApplyInput] = <<>>)
    /\ runner' = "done"
    /\ UNCHANGED <<cur, batch, outcome, pending, nextSequence, applied, chan,
                   resultsQueue>>
    /\ Idles /\ InRunner

-----------------------------------------------------------------------------
(***************************************************************************)
(* forwardResults: a result is charged until somebody has received it.     *)
(***************************************************************************)
InResults == UNCHANGED <<lifeVars, ctxDone, submitVars, submitGate, countVars, woken,
                         chan, closed, poolVars, applyVars, drainVars, stop>>

TakeResult ==
    /\ forwarder = "receive" /\ resultsQueue # <<>>
    /\ handing' = Head(resultsQueue)
    /\ resultsQueue' = Tail(resultsQueue)
    /\ forwarder' = "hand"
    /\ UNCHANGED <<delivered, budgetVars>>
    /\ InResults

BugStopDoesNotDrain ==
    /\ forwarder = "hand" /\ Here.consumes
    /\ delivered' = Append(delivered, handing)
    /\ forwarder' = "mark"
    /\ UNCHANGED <<handing, resultsQueue, budgetVars>>
    /\ InResults

\* A receive from Results, by the consumer or by Stop, which also releases it.
HandOver ==
    /\ forwarder = "hand"
    /\ \/ Here.consumes /\ UNCHANGED budgetVars
       \/ stop \in {"applying", "draining"} /\ ReleaseItems({handing})
    /\ delivered' = Append(delivered, handing)
    /\ forwarder' = "mark"
    /\ UNCHANGED <<handing, resultsQueue>>
    /\ InResults

\* The consumer retires the result it received, maybe before it is marked.
ConsumerRelease ==
    /\ Here.consumes /\ forwarder = "mark" /\ handing \in activeItems
    /\ ReleaseItems({handing})
    /\ UNCHANGED <<forwarder, handing, delivered, resultsQueue>>
    /\ InResults

markItemDelivered ==
    /\ forwarder = "mark"
    /\ ReleaseItems({handing})
    /\ handing' = None
    /\ forwarder' = "receive"
    /\ UNCHANGED <<delivered, resultsQueue>>
    /\ InResults

\* A request of DrainResults takes the item in hand and the whole queue.
DrainResults ==
    /\ Here.consumes /\ forwarder \in {"receive", "hand"}
    /\ LET drained == IF forwarder = "hand" THEN <<handing>> \o resultsQueue
                                            ELSE resultsQueue IN
        /\ drained # <<>>
        /\ delivered' = delivered \o drained
        /\ ReleaseItems(Range(drained))
    /\ handing' = None
    /\ resultsQueue' = <<>>
    /\ forwarder' = "receive"
    /\ InResults

ResultsEnd ==
    /\ forwarder = "receive" /\ resultsQueue = <<>> /\ stop = "draining"
    /\ forwarder' = "done"
    /\ UNCHANGED <<handing, delivered, resultsQueue, budgetVars>>
    /\ InResults

-----------------------------------------------------------------------------
(***************************************************************************)
(* WaitForDrain, and the Fence inside it.  `since' is what had been        *)
(* accepted when the call was made.                                        *)
(***************************************************************************)
InDrain == UNCHANGED <<lifeVars, ctxDone, submitVars, submitGate, countVars,
                       budgetVars, chan, closed, poolVars, applyVars,
                       resultsQueue, resultVars, stop>>

FenceReturns(d, r) ==
    /\ fence' = [fence EXCEPT ![d] = r]
    /\ drain' = [drain EXCEPT ![d] = "return"]

WaitForDrain(d) ==
    /\ d \in Here.drains /\ drain[d] = "idle" /\ started
    /\ since' = [since EXCEPT ![d] = sequenceCounter]
    /\ \/ /\ cancelled[d]
          /\ answer' = [answer EXCEPT ![d] = "cancelled"]
          /\ drain' = [drain EXCEPT ![d] = "done"]
       \/ /\ ~cancelled[d] /\ stopping
          /\ answer' = [answer EXCEPT ![d] = "vacuous"]
          /\ drain' = [drain EXCEPT ![d] = "done"]
       \/ /\ ~cancelled[d] /\ ~stopping
          /\ drain' = [drain EXCEPT ![d] = "gate"]
          /\ UNCHANGED answer
    /\ UNCHANGED <<target, fence, woken>>
    /\ InDrain

\* The boundary is read under the gate, which no submission holds then.
FenceBoundary(d) ==
    /\ drain[d] = "gate" /\ submitGate /\ ~cancelled[d] /\ ~ctxDone
    /\ \/ /\ stopping
          /\ FenceReturns(d, stoppedError)
          /\ UNCHANGED target
       \/ /\ ~stopping
          /\ target' = [target EXCEPT ![d] = sequenceCounter]
          /\ drain' = [drain EXCEPT ![d] = "check"]
          /\ UNCHANGED fence
    /\ UNCHANGED <<since, answer, woken>>
    /\ InDrain

BugFenceOneShort(d) ==
    /\ drain[d] = "check" /\ completedSequence + 1 >= target[d]
    /\ FenceReturns(d, "ok")
    /\ UNCHANGED <<target, since, answer, woken>>
    /\ InDrain

FenceReached(d) ==
    /\ drain[d] = "check" /\ completedSequence >= target[d]
    /\ FenceReturns(d, "ok")
    /\ UNCHANGED <<target, since, answer, woken>>
    /\ InDrain

FenceWaits(d) ==
    /\ drain[d] = "check" /\ completedSequence < target[d]
    /\ drain' = [drain EXCEPT ![d] = "wait"]
    /\ woken' = woken \ {d}
    /\ UNCHANGED <<target, since, fence, answer>>
    /\ InDrain

FenceWoken(d) ==
    /\ drain[d] = "wait" /\ d \in woken
    /\ drain' = [drain EXCEPT ![d] = "check"]
    /\ UNCHANGED <<target, since, fence, answer, woken>>
    /\ InDrain

FenceAbandoned(d) ==
    /\ drain[d] \in {"gate", "wait"}
    /\ \/ cancelled[d] /\ FenceReturns(d, "cancelled")
       \/ ctxDone /\ FenceReturns(d, stoppedError)
    /\ UNCHANGED <<target, since, answer, woken>>
    /\ InDrain

\* What WaitForDrain makes of the answer of the fence.
Drained(d) ==
    IF cancelled[d] THEN "cancelled"
    ELSE IF stopping THEN "vacuous"
    ELSE IF ctxDone THEN stoppedError
    ELSE fence[d]

DrainReturns(d) ==
    /\ drain[d] = "return"
    /\ answer' = [answer EXCEPT ![d] = Drained(d)]
    /\ drain' = [drain EXCEPT ![d] = "done"]
    /\ UNCHANGED <<target, since, fence, woken>>
    /\ InDrain

-----------------------------------------------------------------------------
(***************************************************************************)
(* Stop, and the end of the context the pipeline was started with.         *)
(***************************************************************************)
InStop == UNCHANGED <<scenario, config, started, fatalErr, submitVars, submitGate,
                      countVars,
                      woken, chan, poolVars, applyVars, resultsQueue,
                      resultVars, drainVars>>

ParentCancelled ==
    /\ Here.mayLoseParent /\ started /\ ~parentGone
    /\ parentGone' = TRUE
    /\ ctxDone' = TRUE
    /\ UNCHANGED <<stopping, stopped, closed, budgetVars, stop>>
    /\ InStop

Step(from, to) ==
    /\ stop = from
    /\ stop' = to

BugStopUnpublished ==
    /\ Here.mayStop /\ started /\ Step("idle", "cancelling")
    /\ ctxDone' = TRUE
    /\ UNCHANGED <<stopping, stopped, parentGone, closed, budgetVars>>
    /\ InStop

\* The stop is published before the context is cancelled.
StopBegins ==
    /\ Here.mayStop /\ started /\ Step("idle", "cancelling")
    /\ stopping' = TRUE
    /\ UNCHANGED <<stopped, parentGone, ctxDone, closed, budgetVars>>
    /\ InStop

StopCancels ==
    /\ Step("cancelling", "closing")
    /\ ctxDone' = TRUE
    /\ UNCHANGED <<stopping, stopped, parentGone, closed, budgetVars>>
    /\ InStop

BugStopSkipsGate ==
    /\ Step("closing", "decoding")
    /\ stopped' = TRUE
    /\ closed' = closed \cup {SubmitChan}
    /\ UNCHANGED <<stopping, parentGone, ctxDone, budgetVars>>
    /\ InStop

StopCloses ==
    /\ Step("closing", "decoding") /\ submitGate
    /\ stopped' = TRUE
    /\ closed' = closed \cup {SubmitChan}
    /\ UNCHANGED <<stopping, parentGone, ctxDone, budgetVars>>
    /\ InStop

\* The two pools are waited for, and the channel each one fills is closed.
StopPool(from, to, pool) ==
    /\ Step(from, to)
    /\ \A w \in pool : worker[w] = "done"
    /\ closed' = closed \cup {Input(w) + 1 : w \in pool}
    /\ UNCHANGED <<stopping, stopped, parentGone, ctxDone, budgetVars>>
    /\ InStop

\* The runner has ended: its queue is closed.
StopApplied ==
    /\ Step("applying", "draining") /\ runner = "done"
    /\ UNCHANGED <<stopping, stopped, parentGone, ctxDone, closed, budgetVars>>
    /\ InStop

\* releaseActiveItems: whatever was lost on the way gives its bytes back.
StopReturns ==
    /\ Step("draining", "done") /\ forwarder = "done"
    /\ ReleaseItems(activeItems)
    /\ UNCHANGED <<stopping, stopped, parentGone, ctxDone, closed>>
    /\ InStop

-----------------------------------------------------------------------------
Submit(s) ==
    \/ SubmitCall(s) \/ reserveRawCborBytes(s) \/ AwaitBudget(s) \/ BudgetFreed(s)
    \/ BudgetAbandoned(s) \/ lockSubmit(s) \/ SubmitAbandoned(s)
    \/ waitForPendingCapacity(s) \/ CapacityFreed(s) \/ SubmitRefused(s)
    \/ trackItem(s) \/ Enqueue(s) \/ CommitSequence(s) \/ EnqueueAbandoned(s)

\* The workers that Start launched.
Running == DecodeWorkers \cup IF config.validating THEN ValidateWorkers ELSE {}

Pool(w) == w \in Running /\ (Work(w) \/ Forward(w) \/ WorkerExit(w))

Runner ==
    \/ Receive \/ maybeApply \/ applyItem \/ applyPending \/ StoreCompleted
    \/ WakeWaiters \/ setFatalError \/ CancelAfterFailure \/ SendResult
    \/ ResultsFull \/ SendDone \/ RunnerExit

Results ==
    \/ TakeResult \/ HandOver \/ ConsumerRelease \/ markItemDelivered
    \/ DrainResults \/ ResultsEnd

Drain(d) ==
    \/ WaitForDrain(d) \/ FenceBoundary(d) \/ FenceReached(d) \/ FenceWaits(d)
    \/ FenceWoken(d) \/ FenceAbandoned(d) \/ DrainReturns(d)

StopOn ==
    \/ StopCancels \/ StopCloses
    \/ StopPool("decoding", "validating", DecodeWorkers)
    \/ StopPool("validating", "applying", Running \ DecodeWorkers)
    \/ StopApplied \/ StopReturns

\* Nobody has anything left to do.
Ended ==
    /\ ~started => Refused(config)
    /\ started => /\ \A s \in Submitters : pc[s] = "idle" /\ calls[s] = 0
                  /\ \A d \in Here.drains : drain[d] = "done"
                  /\ \A w \in Workers : worker[w] \in {"idle", "done"}
                  /\ runner \in {"receive", "done"}
                  /\ forwarder \in {"receive", "done"}
                  /\ stop \in {"idle", "done"}
    /\ UNCHANGED vars

Next ==
    \/ Start
    \/ \E x \in Submitters \cup Drainers : CancelCaller(x)
    \/ \E s \in Submitters : Submit(s)
    \/ \E w \in Workers : Pool(w)
    \/ Runner \/ Results
    \/ \E d \in Drainers : Drain(d)
    \/ ParentCancelled \/ StopBegins \/ StopOn
    \/ Ended

Spec == Init /\ [][Next]_vars

\* The goroutines of the pipeline, the calls in progress, a Stop once begun and
\* the reader of Results, if there is one, do not all halt while one can run.
\* The number of blocks is bounded, so no goroutine can starve another.
FairSpec ==
    /\ Spec
    /\ WF_vars(\/ Start \/ Runner \/ Results \/ StopOn
               \/ \E s \in Submitters : Submit(s)
               \/ \E w \in Workers : Pool(w)
               \/ \E d \in Drainers : Drain(d))

-----------------------------------------------------------------------------
Reserving(s) == pc[s] \in {"gate", "capacity", "capacityWait"}

TypeOK ==
    /\ {started, stopping, stopped, ctxDone, fatalErr, parentGone, submitGate} \subseteq BOOLEAN
    /\ pc \in [Submitters -> {"idle", "budget", "budgetWait", "gate", "capacity",
                               "capacityWait", "enqueue", "count"}]
    /\ sequenceCounter \in Seqs /\ completedSequence \in Seqs
    /\ nextSequence \in Seqs /\ rawBytesInUse \in 0..MaxRaw
    /\ pending \subseteq Seqs /\ activeItems \subseteq Seqs
    /\ \A c \in DOMAIN chan : Range(chan[c]) \subseteq Seqs /\ Len(chan[c]) <= BufSize
    /\ worker \in [Workers -> {"idle", "forward", "done"}]
    /\ runner \in {"receive", "check", "apply", "pending", "store", "wake", "fail",
                   "cancel", "send", "blocked", "done"}
    /\ forwarder \in {"receive", "hand", "mark", "done"}

\* ApplyFunc sees the blocks in the order of submission, none skipped and each
\* one validated, however the workers overtake each other and whatever was
\* rejected or cancelled before (apply_stage.go, processWithStatus, maybeApply).
AppliedInOrder ==
    \A i \in DOMAIN applied : applied[i] = i - 1 /\ verdict[i - 1] = "valid"

\* Results hands over the processed blocks in order and without a gap, and
\* never one that a stage left unresolved (forwardProcessed, forwardCommitted,
\* forwardResults, DrainResults).
ResultsInOrder ==
    \A i \in DOMAIN delivered :
        /\ delivered[i] = i - 1
        /\ verdict[i - 1] \in (IF config.trusted THEN {"decoded", "decodeError"} ELSE {"valid"})

\* The completion boundary counts only what was applied: a rejected block and
\* one that a cancellation cut off stay beyond it (accountProcessed).
CompletedMeansApplied ==
    /\ config.applyFunc => completedSequence <= Len(applied)
    /\ submitGate => completedSequence <= sequenceCounter

\* The backpressure of Submit keeps the apply stage from ever refusing a block
\* because its buffer is full (waitForPendingCapacity, ErrPendingLimitExceeded).
PendingNeverOverflows ==
    (/\ MaxPending > 0 /\ runner = "receive" /\ chan[ApplyInput] # <<>>
     /\ Head(chan[ApplyInput]) # nextSequence)
    => Cardinality(pending) < MaxPending

\* The bytes charged are those of the calls holding a reservation and of the
\* items not yet handed over, each once (trackItem, releaseReservation).
BudgetExact ==
    rawBytesInUse = Bytes(activeItems)
        + SumFunctionOnSet([s \in Submitters |-> retained(s)], {s \in Submitters : Reserving(s)})

\* The two copies of all the blocks inside the pipeline fit in the limit, if
\* there is one: at the largest uint64 a saturated block passes too
\* (reserveRawCborBytes, saturatingDouble).
BlocksFitBudget ==
    MaxRaw < MaxUint =>
        SumFunctionOnSet([n \in Seqs |-> 2 * size[n]], activeItems) <= MaxRaw

\* Nobody is about to send on a channel that Stop has closed, which would
\* panic (Stop, submitGate and the two pools).
NoSendOnClosed ==
    /\ SubmitChan \in closed => \A s \in Submitters : pc[s] # "enqueue"
    /\ \A w \in Workers : Input(w) + 1 \in closed => worker[w] # "forward"
    /\ stop \in {"draining", "done"} => runner \notin {"send", "blocked"}

\* When WaitForDrain reports success, every block accepted before the call has
\* been applied; so has it when its Fence does (Fence, WaitForDrain).
DrainMeansApplied ==
    \A d \in Drainers :
        (fence[d] = "ok" \/ answer[d] = "ok") /\ config.applyFunc
            => Len(applied) >= since[d]

\* WaitForDrain reports a stopped pipeline only for a context cancelled from
\* outside: a Stop makes it vacuous, a rejected block is named (Stop publishes
\* stopping before it cancels, fail the error).
DrainNamesCause ==
    \A d \in Drainers : answer[d] = "stopped" => parentGone

\* Stop returns, whether or not anybody reads Results and wherever every other
\* goroutine is when it is called.
StopCompletes == stopping ~> stop = "done"

\* Every Submit returns: what it waits for comes, or the cancellation does.  It
\* takes a reader of Results, or else a Stop.
SubmitReturns ==
    \A s \in Submitters :
        pc[s] # "idle" /\ (Here.consumes \/ stopping) ~> pc[s] = "idle"

\* Every WaitForDrain returns.
DrainEnds == \A d \in Drainers : drain[d] # "idle" ~> drain[d] = "done"

\* While nothing cancels it and Results is read, the pipeline again and again
\* reaches the point where every block it accepted has been handed over.
AcceptedIsDelivered ==
    []<>(ctxDone \/ ~Here.consumes \/ Len(delivered) = sequenceCounter)

\* Blocks are applied, counted and handed over in the order of submission and
\* without a gap.
BlocksInOrder == AppliedInOrder /\ ResultsInOrder /\ CompletedMeansApplied

\* The bounds hold: the types, the apply buffer, and the byte budget, which is
\* charged and given back once for every block.
WithinBounds == TypeOK /\ PendingNeverOverflows /\ BudgetExact /\ BlocksFitBudget

\* What WaitForDrain and Fence answer is true.
DrainIsTrue == DrainMeansApplied /\ DrainNamesCause

\* Submit, WaitForDrain and Stop return, no wake-up of theirs being lost, and
\* what was accepted is delivered.
PipelineNeverStalls == SubmitReturns /\ DrainEnds /\ StopCompletes /\ AcceptedIsDelivered

=============================================================================
