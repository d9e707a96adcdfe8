------------------------ MODULE PipelineBoundsProofs ------------------------
(***************************************************************************)
(* The raw byte budget of the block pipeline, and what all the invariants  *)
(* together say of it.                                                     *)
(***************************************************************************)
EXTENDS PipelineOrderProofs, SumLemmas

\* The provers get half a minute for a step, not five seconds.
USE SMTT(30), ZenonT(30)

\* Every Submit takes one of the calls, so the numbers stay in Seqs.
CallsLeft == [s \in Submitters |-> calls[s] + IF pc[s] = "idle" THEN 0 ELSE 1]
CallsCounted == sequenceCounter + SumFunction(CallsLeft) <= SumFunction(Here.calls)

\* A step of Submit spends nobody else's calls, and its own at most once.
Spends(s) ==
    /\ \A t \in Submitters \ {s} : calls'[t] = calls[t] /\ pc'[t] = pc[t]
    /\ sequenceCounter' + calls'[s] + (IF pc'[s] = "idle" THEN 0 ELSE 1)
        <= sequenceCounter + calls[s] + (IF pc[s] = "idle" THEN 0 ELSE 1)

\* The sequence number is committed at the end of the call that was counted.
LEMMA SubmitSpends ==
    ASSUME SubmitTypes, NEW s \in Submitters, Submit(s)
    PROVE  Spends(s)
  <1> USE DEF SubmitTypes, Spends
  <1>1. CASE SubmitCall(s)
    BY <1>1 DEF SubmitCall
  <1>2. CASE reserveRawCborBytes(s)
    BY <1>2 DEF reserveRawCborBytes, At
  <1>3. CASE AwaitBudget(s)
    BY <1>3 DEF AwaitBudget, At
  <1>4. CASE BudgetFreed(s)
    BY <1>4 DEF BudgetFreed, At
  <1>5. CASE BudgetAbandoned(s)
    BY <1>5 DEF BudgetAbandoned, Return
  <1>6. CASE lockSubmit(s)
    BY <1>6 DEF lockSubmit, At
  <1>7. CASE SubmitAbandoned(s)
    BY <1>7 DEF SubmitAbandoned, Aborted, Return
  <1>8. CASE waitForPendingCapacity(s)
    BY <1>8 DEF waitForPendingCapacity, At
  <1>9. CASE CapacityFreed(s)
    BY <1>9 DEF CapacityFreed, At
  <1>10. CASE SubmitRefused(s)
    BY <1>10 DEF SubmitRefused, Aborted, Return
  <1>11. CASE trackItem(s)
    BY <1>11 DEF trackItem, At
  <1>12. CASE Enqueue(s)
    BY <1>12 DEF Enqueue, At
  <1>13. CASE CommitSequence(s)
    BY <1>13 DEF CommitSequence, Return
  <1>14. CASE EnqueueAbandoned(s)
    BY <1>14 DEF EnqueueAbandoned, Aborted, Return, ReleaseItems
  <1> QED
    BY <1>1, <1>2, <1>3, <1>4, <1>5, <1>6, <1>7, <1>8, <1>9, <1>10, <1>11,
       <1>12, <1>13, <1>14, ZenonT(40)
       DEF Submit

\* No step makes more calls than there are.
LEMMA CallsCountedStep ==
    Types /\ CallsCounted /\ [Next]_vars => CallsCounted'
  <1> SUFFICES ASSUME Types, CallsCounted, [Next]_vars PROVE CallsCounted'
    BY Zenon
  <1> Here' = Here
    BY Fixed, Zenon
  <1>1. CASE Start
    BY <1>1, StartFrame, Zenon DEF CallsCounted, CallsLeft
  <1>2. ASSUME NEW x \in Submitters \cup Drainers, CancelCaller(x) PROVE CallsCounted'
    BY <1>2, CancelCallerFrame, Zenon DEF CallsCounted, CallsLeft
  <1>3. ASSUME NEW s \in Submitters, Submit(s) PROVE CallsCounted'
    <2>1. /\ CallsLeft \in [Submitters -> Nat]
          /\ \A t \in Submitters : CallsLeft[t] = calls[t] + IF pc[t] = "idle" THEN 0 ELSE 1
      BY DEF CallsLeft, Types, SubmitTypes
    <2>2. /\ CallsLeft' \in [Submitters -> Nat]
          /\ \A t \in Submitters : CallsLeft'[t] = calls'[t] + IF pc'[t] = "idle" THEN 0 ELSE 1
      BY SubmitTypesStep DEF CallsLeft, Types, SubmitTypes
    <2>3. Spends(s)
      BY <1>3, SubmitSpends, ZenonT(40) DEF Types
    <2>4. \A t \in Submitters \ {s} : CallsLeft'[t] = CallsLeft[t]
      BY <2>1, <2>2, <2>3, ZenonT(40) DEF Spends
    <2>5. sequenceCounter' + CallsLeft'[s] <= sequenceCounter + CallsLeft[s]
      <3>1. sequenceCounter \in Nat /\ sequenceCounter' \in Nat
            /\ calls[s] \in Nat /\ calls'[s] \in Nat
        BY SubmitTypesStep, Zenon DEF Types, SubmitTypes
      <3>2. /\ CallsLeft[s] = calls[s] + IF pc[s] = "idle" THEN 0 ELSE 1
            /\ CallsLeft'[s] = calls'[s] + IF pc'[s] = "idle" THEN 0 ELSE 1
        BY <2>1, <2>2, Zenon
      <3> QED  BY <2>3, <3>1, <3>2 DEF Spends
    <2>6. /\ SumFunction(CallsLeft) \in Nat
          /\ SumFunction(CallsLeft') = SumFunction(CallsLeft) + (CallsLeft'[s] - CallsLeft[s])
      <3> DEFINE f == CallsLeft
                 g == CallsLeft'
      <3>1. f \in [Submitters -> Nat] /\ g \in [Submitters -> Nat]
            /\ \A y \in Submitters \ {s} : g[y] = f[y]
        BY <2>1, <2>2, <2>4, ZenonT(40)
      <3> HIDE DEF f, g
      <3>2. SumFunction(f) \in Nat /\ SumFunction(g) = SumFunction(f) + (g[s] - f[s])
        BY <3>1, PipelineAssumption, SumChange
      <3> QED  BY <3>2, Zenon DEF f, g
    <2>7. /\ sequenceCounter \in Nat /\ sequenceCounter' \in Nat
          /\ CallsLeft[s] \in Nat /\ CallsLeft'[s] \in Nat
      BY <2>1, <2>2, SubmitTypesStep, Zenon DEF Types, SubmitTypes
    <2>8. sequenceCounter + SumFunction(CallsLeft) <= SumFunction(Here.calls)
      BY Zenon DEF CallsCounted
    <2>9. SumFunction(Here.calls) \in Nat
      BY HereFacts, PipelineAssumption, SumIsNat, Zenon DEF SumFunction
    <2>10. sequenceCounter' + SumFunction(CallsLeft') <= SumFunction(Here.calls)
      BY <2>5, <2>6, <2>7, <2>8, <2>9
    <2> QED  BY <2>10, Zenon DEF CallsCounted
  <1>4. ASSUME NEW w \in Workers, Pool(w) PROVE CallsCounted'
    BY <1>4, PoolFrame, Zenon DEF CallsCounted, CallsLeft
  <1>5. CASE Runner
    BY <1>5, RunnerFrame, ZenonT(40) DEF CallsCounted, CallsLeft
  <1>6. CASE Results
    BY <1>6, ResultsFrame, ZenonT(40) DEF CallsCounted, CallsLeft
  <1>7. ASSUME NEW d \in Drainers, Drain(d) PROVE CallsCounted'
    BY <1>7, DrainFrame, ZenonT(40) DEF CallsCounted, CallsLeft
  <1>8. CASE StopNext
    BY <1>8, StopNextFrame, ZenonT(40) DEF CallsCounted, CallsLeft
  <1>9. CASE UNCHANGED vars
    BY <1>9, StutterFrame, ZenonT(40) DEF CallsCounted, CallsLeft
  <1> QED
    BY <1>1, <1>2, <1>3, <1>4, <1>5, <1>6, <1>7, <1>8, <1>9, ZenonT(40)
       DEF Next, StopNext, Ended

\* The number of the next item is in range while its call is in progress.
LEMMA NumbersInRange ==
    ASSUME Types, CallsCounted
    PROVE  InRange
  <1>1. /\ CallsLeft \in [Submitters -> Nat]
        /\ \A s \in Submitters : pc[s] # "idle" => CallsLeft[s] >= 1
    BY DEF CallsLeft, Types, SubmitTypes
  <1>2. \A s \in Submitters : CallsLeft[s] <= SumFunction(CallsLeft)
    <2> DEFINE f == CallsLeft
    <2>1. f \in [Submitters -> Nat]
      BY <1>1, Zenon
    <2> HIDE DEF f
    <2>2. \A s \in Submitters : f[s] <= SumFunction(f)
      BY <2>1, PipelineAssumption, SumChange, ZenonT(40)
    <2> QED  BY <2>2, ZenonT(40) DEF f
  <1>3. SumFunction(CallsLeft) \in Nat
    <2> DEFINE f == CallsLeft
    <2>1. f \in [Submitters -> Nat]
      BY <1>1, Zenon
    <2> HIDE DEF f
    <2>2. SumFunction(f) \in Nat
      BY <2>1, PipelineAssumption, SumIsNat, ZenonT(40) DEF SumFunction
    <2> QED  BY <2>2, ZenonT(40) DEF f
  <1>4. SumFunction(Here.calls) \in Nat
    BY HereFacts, PipelineAssumption, SumIsNat, ZenonT(40) DEF SumFunction
  <1>5. sequenceCounter \in Nat
    BY Zenon DEF Types, SubmitTypes
  <1>6. sequenceCounter + SumFunction(CallsLeft) <= SumFunction(Here.calls)
    BY Zenon DEF CallsCounted
  <1>7. IsFiniteSet(Seqs) /\ Seqs \subseteq Nat
    BY <1>4, FS_Interval DEF Seqs
  <1>8. sequenceCounter \in Seqs /\ \A n \in 0..sequenceCounter : n \in Seqs
    BY <1>3, <1>4, <1>5, <1>6 DEF Seqs
  <1>9. ASSUME NEW s \in Submitters, pc[s] # "idle" PROVE sequenceCounter + 1 \in Seqs
    <2>1. CallsLeft[s] >= 1 /\ CallsLeft[s] <= SumFunction(CallsLeft) /\ CallsLeft[s] \in Nat
      BY <1>1, <1>2, <1>9, ZenonT(40)
    <2> QED  BY <2>1, <1>3, <1>4, <1>5, <1>6 DEF Seqs
  <1> QED  BY <1>7, <1>8, <1>9, ZenonT(40) DEF InRange

-----------------------------------------------------------------------------
\* The buffer of the apply stage has room for whatever arrives out of order.
LEMMA BufferFits ==
    ASSUME Types, InFlight, Apart, AppliedSoFar, Throttled, CutShort
    PROVE  PendingNeverOverflows
  <1> SUFFICES ASSUME MaxPending > 0, runner = "receive", chan[ApplyInput] # <<>>,
                      Head(chan[ApplyInput]) # nextSequence
               PROVE  Cardinality(pending) < MaxPending
    BY Zenon DEF PendingNeverOverflows
  <1> DEFINE h == Head(chan[ApplyInput])
  <1>1. /\ MaxPending \in Nat /\ nextSequence \in Nat /\ completedSequence \in Nat
        /\ sequenceCounter \in Nat /\ pending \subseteq Nat
        /\ completedSequence <= nextSequence
    BY HereFacts, Zenon DEF Types, RunnerTypes, SubmitTypes, AppliedSoFar
  <1>2. ApplyInput \in Chans /\ chan[ApplyInput] \in Seq(Nat)
    BY DEF Types, PoolTypes, ApplyInput, Chans, SubmitChan, DecodedChan, ValidatedChan
  <1>3. h \in Nat /\ 1 \in DOMAIN chan[ApplyInput] /\ h = chan[ApplyInput][1]
    BY <1>2
  <1>4. Fresh(h) /\ h \notin pending
    BY <1>2, <1>3 DEF InFlight, Apart
  <1>5. \A n \in pending : Fresh(n)
    BY Zenon DEF InFlight
  <1> HIDE DEF h
  <1>6. \A n \in Nat : Fresh(n) => nextSequence <= n /\ Claimed(n)
    BY Zenon DEF Fresh, Accepted, Claimed, Claiming
  <1>7. CASE nextSequence \in pending
    <2>1. \A n \in Nat : Claimed(n) => n < nextSequence + MaxPending
      BY <1>7, ZenonT(40) DEF CutShort, CallOver
    <2>2. \A n \in Nat : Fresh(n) => n \in nextSequence..(nextSequence + MaxPending - 1)
      BY <1>1, <1>6, <2>1
    <2>3. pending \subseteq nextSequence..(nextSequence + MaxPending - 1)
      BY <1>1, <1>5, <2>2, ZenonT(40)
    <2>4. h \in nextSequence..(nextSequence + MaxPending - 1)
      BY <1>3, <1>4, <2>2, ZenonT(40)
    <2>5. nextSequence \in Nat /\ MaxPending \in Nat
      BY <1>1, ZenonT(40)
    <2> QED  BY <1>4, <2>3, <2>4, <2>5, SmallerThanInterval, ZenonT(40)
  <1>8. CASE nextSequence \notin pending
    <2> DEFINE a == nextSequence + 1
    <2>1. \A n \in Nat : Claimed(n) => n <= nextSequence + MaxPending
      BY <1>1 DEF Throttled
    <2>2. \A n \in Nat : Fresh(n) /\ n # nextSequence => n \in a..(a + MaxPending - 1)
      BY <1>1, <1>6, <2>1
    <2>3. pending \subseteq a..(a + MaxPending - 1)
      BY <1>1, <1>5, <1>8, <2>2, ZenonT(40)
    <2>4. h \in a..(a + MaxPending - 1)
      BY <1>3, <1>4, <2>2, ZenonT(40) DEF h
    <2>5. a \in Nat /\ MaxPending \in Nat
      BY <1>1
    <2> HIDE DEF a
    <2> QED  BY <1>4, <2>3, <2>4, <2>5, SmallerThanInterval, ZenonT(40)
  <1> QED  BY <1>7, <1>8, Zenon

-----------------------------------------------------------------------------
(***************************************************************************)
(* The ledger of the raw bytes: what the items are charged for and what    *)
(* the calls that hold a reservation have reserved.                        *)
(***************************************************************************)
Charge == [n \in Seqs |-> saturatingDouble(size[n])]
Reserve == [s \in Submitters |-> retained(s)]
Held == {s \in Submitters : Reserving(s)}
Reserved == SumFunctionOnSet(Reserve, Held)
Charged == SumFunctionOnSet(Charge, activeItems)

\* Only numbers given out are charged, and the account is the sum of it all.
Sizes == size \in [Seqs -> 0..MaxUint]
ActiveClaimed == activeItems \subseteq Nat /\ \A n \in activeItems : Claimed(n)
Exact == rawBytesInUse \in Nat /\ rawBytesInUse <= MaxRaw /\ rawBytesInUse = Charged + Reserved
Ledger == Sizes /\ ActiveClaimed /\ Exact

\* The two copies of a block take a number of bytes.
LEMMA DoubleIsNat ==
    ASSUME NEW n \in 0..MaxUint
    PROVE  saturatingDouble(n) \in Nat /\ (saturatingDouble(n) # MaxUint => saturatingDouble(n) = 2 * n)
  BY PipelineAssumption DEF saturatingDouble

\* What the sums range over.
LEMMA AccountTypes ==
    ASSUME Types, CallsCounted
    PROVE  /\ IsFiniteSet(Held) /\ \A s \in Submitters : Reserve[s] \in Nat /\ Reserve[s] = retained(s)
           /\ Reserved \in Nat
           /\ Sizes => \A n \in Seqs : Charge[n] \in Nat /\ Charge[n] = saturatingDouble(size[n])
           /\ ActiveClaimed => activeItems \subseteq Seqs /\ IsFiniteSet(activeItems)
           /\ Sizes /\ ActiveClaimed => Charged \in Nat
  <1>1. Held \subseteq Submitters /\ IsFiniteSet(Held)
    BY PipelineAssumption, FS_Subset, ZenonT(40) DEF Held
  <1>2. \A s \in Submitters : Reserve[s] \in Nat /\ Reserve[s] = retained(s)
    <2>1. \A s \in Submitters : raw[s] \in 0..MaxUint
      BY Zenon DEF Types, SubmitTypes
    <2> QED  BY <2>1, DoubleIsNat, ZenonT(40) DEF Reserve, retained
  <1>3. Reserved \in Nat
    <2>1. \A s \in Held : Reserve[s] \in Nat
      BY <1>1, <1>2, ZenonT(40)
    <2> QED  BY ONLY <1>1, <2>1, SumIsNat, ZenonT(40) DEF Reserved
  <1>4. Sizes => \A n \in Seqs : Charge[n] \in Nat /\ Charge[n] = saturatingDouble(size[n])
    <2>1. Sizes => \A n \in Seqs : size[n] \in 0..MaxUint
      BY Zenon DEF Sizes
    <2> QED  BY <2>1, DoubleIsNat, ZenonT(40) DEF Charge
  <1>5. ActiveClaimed => activeItems \subseteq Seqs /\ IsFiniteSet(activeItems)
    <2>1. ActiveClaimed => activeItems \subseteq 0..sequenceCounter
      BY DEF ActiveClaimed, Claimed
    <2>2. \A n \in 0..sequenceCounter : n \in Seqs
      BY NumbersInRange, ZenonT(40) DEF InRange
    <2>3. IsFiniteSet(0..sequenceCounter)
      BY FS_Interval DEF Types, SubmitTypes
    <2>4. ActiveClaimed => IsFiniteSet(activeItems)
      BY <2>1, <2>3, FS_Subset, ZenonT(40)
    <2> QED  BY <2>1, <2>2, <2>4, ZenonT(40)
  <1>6. Sizes /\ ActiveClaimed => Charged \in Nat
    <2> SUFFICES ASSUME Sizes, ActiveClaimed PROVE Charged \in Nat
      BY Zenon
    <2>1. IsFiniteSet(activeItems) /\ \A n \in activeItems : Charge[n] \in Nat
      BY <1>4, <1>5, ZenonT(40)
    <2> QED  BY ONLY <2>1, SumIsNat, ZenonT(40) DEF Charged
  <1> QED  BY <1>1, <1>2, <1>3, <1>4, <1>5, <1>6, Zenon

\* What a call holds counts while it holds it.
LEMMA HeldSame ==
    ASSUME Types, CallsCounted,
           \A t \in Submitters : (Reserving(t)' <=> Reserving(t)) /\ (Reserving(t) => raw'[t] = raw[t])
    PROVE  Reserved' = Reserved
  <1>1. Held' = Held
    BY Zenon DEF Held
  <1>2. \A t \in Held : Reserve'[t] = Reserve[t]
    BY Zenon DEF Held, Reserve, retained
  <1>3. IsFiniteSet(Held)
    BY AccountTypes, ZenonT(40)
  <1>4. SumFunctionOnSet(Reserve', Held) = SumFunctionOnSet(Reserve, Held)
    BY ONLY <1>2, <1>3, SumSame, ZenonT(40)
  <1> QED  BY <1>1, <1>4, ZenonT(40) DEF Reserved

\* A call that gives its reservation up.
LEMMA HeldLess ==
    ASSUME Types, CallsCounted, NEW s \in Submitters, Reserving(s), ~Reserving(s)',
           \A t \in Submitters \ {s} : (Reserving(t)' <=> Reserving(t)) /\ raw'[t] = raw[t]
    PROVE  Reserved = retained(s) + Reserved' /\ Reserved' \in Nat /\ retained(s) \in Nat
  <1>1. /\ Held' \in SUBSET Held /\ s \in Held
        /\ \A t \in Held : t \in Held' <=> t # s
    BY Zenon DEF Held
  <1>2. \A t \in Held' : Reserve'[t] = Reserve[t]
    BY <1>1, ZenonT(40) DEF Held, Reserve, retained
  <1>3. /\ IsFiniteSet(Held) /\ Reserve[s] = retained(s)
        /\ \A t \in Held : Reserve[t] \in Nat
    BY AccountTypes, ZenonT(40) DEF Held
  <1>4. /\ SumFunctionOnSet(Reserve, Held) = Reserve[s] + SumFunctionOnSet(Reserve', Held')
        /\ SumFunctionOnSet(Reserve', Held') \in Nat /\ Reserve[s] \in Nat
    BY ONLY <1>1, <1>2, <1>3, SumLess
  <1> QED  BY <1>3, <1>4, ZenonT(40) DEF Reserved

\* A call that reserves.
LEMMA HeldMore ==
    ASSUME Types, CallsCounted, NEW s \in Submitters, ~Reserving(s), Reserving(s)',
           \A t \in Submitters \ {s} : Reserving(t)' <=> Reserving(t), raw' = raw
    PROVE  Reserved' = retained(s) + Reserved /\ retained(s) \in Nat
  <1>1. /\ Held \in SUBSET Held' /\ s \in Held'
        /\ \A t \in Held' : t \in Held <=> t # s
    BY Zenon DEF Held
  <1>2. Reserve' = Reserve
    BY Zenon DEF Reserve, retained
  <1>3. Held' \in SUBSET Submitters
    BY Zenon DEF Held
  <1>4. IsFiniteSet(Held')
    BY <1>3, PipelineAssumption, FS_Subset, ZenonT(40)
  <1>5. \A t \in Submitters : Reserve[t] \in Nat /\ Reserve[t] = retained(t)
    BY AccountTypes, ZenonT(40)
  <1>6. \A t \in Held' : Reserve[t] \in Nat
    BY <1>3, <1>5, ZenonT(40)
  <1>7. /\ SumFunctionOnSet(Reserve, Held') = Reserve[s] + SumFunctionOnSet(Reserve, Held)
        /\ Reserve[s] \in Nat
    BY ONLY <1>1, <1>4, <1>6, SumLess
  <1> QED  BY <1>2, <1>5, <1>7, ZenonT(40) DEF Reserved

\* Items given back are taken off the account, each one once.
LEMMA ReleaseExact ==
    ASSUME Types, CallsCounted, Ledger, NEW S, ReleaseItems(S), scenario' = scenario
    PROVE  /\ activeItems' = activeItems \ S /\ size' = size
           /\ rawBytesInUse' = Charged' + Reserved
           /\ rawBytesInUse' \in Nat /\ rawBytesInUse' <= rawBytesInUse
  <1> DEFINE gone == S \cap activeItems
             bytes == SumFunctionOnSet(Charge, gone)
  <1>1. /\ activeItems' = activeItems \ S /\ size' = size
        /\ rawBytesInUse' = IF bytes >= rawBytesInUse THEN 0 ELSE rawBytesInUse - bytes
    BY Zenon DEF ReleaseItems, releaseRawCborBytes, Bytes, Charge
  <1>2. /\ IsFiniteSet(activeItems) /\ \A n \in activeItems : Charge[n] \in Nat
        /\ Reserved \in Nat /\ rawBytesInUse \in Nat /\ rawBytesInUse = Charged + Reserved
    BY AccountTypes, Zenon DEF Ledger, Exact
  <1>3. Charge' = Charge
    BY <1>1, ZenonT(40) DEF Charge, Seqs, Here, Pipelines
  <1>4. gone \in SUBSET activeItems /\ activeItems \ gone = activeItems \ S
    BY Zenon
  <1> HIDE DEF gone
  <1>5. SumFunctionOnSet(Charge, activeItems)
          = SumFunctionOnSet(Charge, activeItems \ gone) + SumFunctionOnSet(Charge, gone)
    BY ONLY <1>2, <1>4, SumParts
  <1>6. /\ IsFiniteSet(gone) /\ IsFiniteSet(activeItems \ gone)
        /\ \A n \in gone : Charge[n] \in Nat
        /\ \A n \in activeItems \ gone : Charge[n] \in Nat
    <2>1. activeItems \ gone \in SUBSET activeItems
      BY Zenon
    <2>2. IsFiniteSet(gone) /\ IsFiniteSet(activeItems \ gone)
      BY ONLY <1>2, <1>4, <2>1, FS_Subset, Zenon
    <2> QED  BY <1>2, <1>4, <2>2, Zenon
  <1>7. bytes \in Nat /\ SumFunctionOnSet(Charge, activeItems \ gone) \in Nat
    BY ONLY <1>6, SumIsNat, ZenonT(40)
  <1>8. Charged' = SumFunctionOnSet(Charge, activeItems \ gone)
    BY <1>1, <1>3, <1>4, ZenonT(40) DEF Charged
  <1>9. Charged = Charged' + bytes /\ Charged' \in Nat
    BY <1>5, <1>7, <1>8, ZenonT(40) DEF Charged
  <1> HIDE DEF bytes
  <1>10. PICK c \in Nat : c = Charged' /\ Charged = c + bytes
    BY <1>9, ZenonT(40)
  <1>11. Charged = c + bytes
    BY <1>10, ZenonT(40)
  <1>12. PICK r : /\ r = IF bytes >= rawBytesInUse THEN 0 ELSE rawBytesInUse - bytes
                  /\ r = rawBytesInUse'
    BY <1>1, ZenonT(40)
  <1>13. r = IF bytes >= rawBytesInUse THEN 0 ELSE rawBytesInUse - bytes
    BY <1>12, ZenonT(40)
  <1>14. r = c + Reserved /\ r \in Nat /\ r <= rawBytesInUse
    BY ONLY <1>2, <1>7, <1>11, <1>13, c \in Nat
  <1> QED  BY <1>1, <1>10, <1>12, <1>14, ZenonT(40)

\* The charged items keep their numbers.
LEMMA SubmitKeepsClaims ==
    ASSUME Types, GateHeld, ActiveClaimed, NEW s \in Submitters, Submit(s)
    PROVE  ActiveClaimed'
  <1>0. sequenceCounter \in Nat
    BY Zenon DEF Types, SubmitTypes
  <1>1. \A n \in Nat : Claimed(n) => Claimed(n)' \/ (EnqueueAbandoned(s) /\ n = sequenceCounter)
    BY SubmitClaims, ZenonT(40)
  <1>2. \A n \in activeItems : n \in Nat /\ Claimed(n)
    BY Zenon DEF ActiveClaimed
  <1>3. CASE EnqueueAbandoned(s)
    <2>1. activeItems' = activeItems \ {sequenceCounter}
      BY <1>3, ZenonT(40) DEF EnqueueAbandoned, ReleaseItems
    <2>2. \A n \in activeItems' : n \in Nat /\ Claimed(n)'
      BY <1>1, <1>2, <2>1, ZenonT(40)
    <2> QED  BY <2>2, ZenonT(40) DEF ActiveClaimed
  <1>4. CASE trackItem(s)
    <2>1. /\ activeItems' = activeItems \cup {sequenceCounter} /\ sequenceCounter' = sequenceCounter
          /\ pc'[s] = "enqueue" /\ pc[s] = "capacity"
      BY <1>4, ZenonT(40) DEF trackItem, At, Types, SubmitTypes
    <2>2. Claimed(sequenceCounter)'
      BY <1>0, <2>1 DEF Claimed, Claiming
    <2>3. ~EnqueueAbandoned(s)
      BY <2>1, Zenon DEF EnqueueAbandoned
    <2>4. \A n \in activeItems' : n \in Nat /\ Claimed(n)'
      BY <1>0, <1>1, <1>2, <2>1, <2>2, <2>3, ZenonT(40)
    <2> QED  BY <2>4, Zenon DEF ActiveClaimed
  <1>5. CASE ~EnqueueAbandoned(s) /\ ~trackItem(s)
    <2>1. activeItems' = activeItems
      <3>1. CASE Enqueue(s)
        BY <3>1, ZenonT(40) DEF Enqueue, budgetVars
      <3>2. CASE CommitSequence(s)
        BY <3>2, ZenonT(40) DEF CommitSequence, budgetVars
      <3> QED  BY <1>5, <3>1, <3>2, SubmitMoves, ZenonT(40)
    <2>2. \A n \in activeItems' : n \in Nat /\ Claimed(n)'
      BY <1>1, <1>2, <1>5, <2>1, ZenonT(40)
    <2> QED  BY <2>2, Zenon DEF ActiveClaimed
  <1> QED  BY <1>3, <1>4, <1>5, ZenonT(40)

\* The item takes over the reservation of its call.
LEMMA TrackExact ==
    ASSUME Types, GateHeld, CallsCounted, Ledger, NEW s \in Submitters, Submit(s), trackItem(s)
    PROVE  Sizes' /\ Exact'
  <1>0. /\ scenario' = scenario /\ Seqs' = Seqs /\ MaxRaw' = MaxRaw
    BY SubmitFrame, ZenonT(40) DEF Seqs, MaxRaw, Here, Pipelines
  <1>1. /\ activeItems' = activeItems \cup {sequenceCounter}
        /\ size' = [size EXCEPT ![sequenceCounter] = raw[s]]
        /\ UNCHANGED <<rawBytesInUse, raw>> /\ pc' = [pc EXCEPT ![s] = "enqueue"]
        /\ pc[s] = "capacity"
    BY Zenon DEF trackItem, At
  <1>2. /\ raw[s] \in 0..MaxUint /\ sequenceCounter \in Nat
        /\ pc \in [Submitters -> {"idle", "budget", "budgetWait", "gate", "capacity",
                                  "capacityWait", "enqueue", "count"}]
    BY Zenon DEF Types, SubmitTypes
  <1>3. sequenceCounter \in Seqs
    BY <1>2, NumbersInRange, ZenonT(40) DEF InRange
  <1>4. size \in [Seqs -> 0..MaxUint]
    BY Zenon DEF Ledger, Sizes
  <1>5. Sizes'
    BY <1>0, <1>1, <1>2, <1>3, <1>4, ZenonT(40) DEF Sizes
  <1>6. sequenceCounter \notin activeItems
    <2>1. ~Claimed(sequenceCounter)
      BY SubmitClaims, Zenon
    <2>2. \A n \in activeItems : Claimed(n)
      BY Zenon DEF Ledger, ActiveClaimed
    <2> QED  BY <2>1, <2>2, ZenonT(40)
  <1>7. /\ activeItems \subseteq Seqs /\ IsFiniteSet(activeItems)
        /\ \A n \in Seqs : Charge[n] \in Nat
        /\ Charged \in Nat /\ Reserved \in Nat
    BY AccountTypes, Zenon DEF Ledger
  <1>8. retained(s) \in Nat /\ Reserved = retained(s) + Reserved' /\ Reserved' \in Nat
    <2>1. Reserving(s) /\ ~Reserving(s)'
      BY <1>1, <1>2, ZenonT(40) DEF Reserving
    <2>2. \A t \in Submitters \ {s} : (Reserving(t)' <=> Reserving(t)) /\ raw'[t] = raw[t]
      BY <1>1, <1>2, ZenonT(40) DEF Reserving
    <2> QED  BY <2>1, <2>2, HeldLess, ZenonT(40)
  <1>9. Charged' = retained(s) + Charged
    <2>1. PICK g : g = Charge'
      BY Zenon
    <2>2. /\ g[sequenceCounter] = retained(s)
          /\ \A n \in Seqs \ {sequenceCounter} : g[n] = Charge[n]
      BY <1>0, <1>1, <1>3, <1>4, <2>1, ZenonT(40) DEF Charge, retained
    <2>3. PICK S : S = activeItems'
      BY Zenon
    <2>4. /\ activeItems \in SUBSET S /\ sequenceCounter \in S
          /\ \A n \in S : n \in activeItems <=> n # sequenceCounter
      BY <1>1, <1>6, <2>3, ZenonT(40)
    <2>5. IsFiniteSet(S)
      BY <1>1, <1>7, <2>3, FS_AddElement, ZenonT(40)
    <2>6. \A n \in S : g[n] \in Nat
      BY <1>1, <1>7, <1>8, <2>2, <2>3, ZenonT(40)
    <2>7. \A n \in activeItems : Charge[n] = g[n]
      BY <1>6, <1>7, <2>2, Zenon
    <2>8. SumFunctionOnSet(g, S) = g[sequenceCounter] + SumFunctionOnSet(Charge, activeItems)
      BY ONLY <2>4, <2>5, <2>6, <2>7, SumLess
    <2> QED  BY <2>1, <2>2, <2>3, <2>8, ZenonT(40) DEF Charged
  <1>10. rawBytesInUse \in Nat /\ rawBytesInUse <= MaxRaw /\ rawBytesInUse = Charged + Reserved
    BY Zenon DEF Ledger, Exact
  <1>11. rawBytesInUse = Charged' + Reserved'
    BY <1>7, <1>8, <1>9, <1>10
  <1>12. Exact'
    BY <1>0, <1>1, <1>10, <1>11, Zenon DEF Exact
  <1> QED  BY <1>5, <1>12, ZenonT(40)

\* While the account is left alone, so is what it is the sum of.
LEMMA NeutralExact ==
    ASSUME Types, CallsCounted, Ledger, UNCHANGED <<scenario, rawBytesInUse, activeItems, size>>,
           \A t \in Submitters : (Reserving(t)' <=> Reserving(t)) /\ (Reserving(t) => raw'[t] = raw[t])
    PROVE  Sizes' /\ Exact'
  <1>1. Seqs' = Seqs /\ MaxRaw' = MaxRaw
    BY Zenon DEF Seqs, MaxRaw, Here, Pipelines
  <1>2. Charged' = Charged
    BY <1>1, ZenonT(40) DEF Charged, Charge
  <1>3. Reserved' = Reserved
    BY HeldSame, Zenon
  <1> QED  BY <1>1, <1>2, <1>3, ZenonT(40) DEF Ledger, Sizes, Exact

\* Submit reserves within the limit.
LEMMA ReserveExact ==
    ASSUME Types, CallsCounted, Ledger, NEW s \in Submitters, reserveRawCborBytes(s)
    PROVE  Sizes' /\ Exact'
  <1>0. Seqs' = Seqs /\ MaxRaw' = MaxRaw /\ UNCHANGED <<size, activeItems, raw>>
    BY Zenon DEF reserveRawCborBytes, NotSubmitting, lifeVars, Seqs, MaxRaw, Here, Pipelines, At
  <1>1. /\ retained(s) <= MaxRaw - rawBytesInUse /\ rawBytesInUse' = rawBytesInUse + retained(s)
        /\ pc[s] = "budget" /\ pc' = [pc EXCEPT ![s] = "gate"]
    BY Zenon DEF reserveRawCborBytes, At
  <1>2. pc \in [Submitters -> {"idle", "budget", "budgetWait", "gate", "capacity",
                               "capacityWait", "enqueue", "count"}]
    BY Zenon DEF Types, SubmitTypes
  <1>3. Reserved' = retained(s) + Reserved /\ retained(s) \in Nat
    <2>1. ~Reserving(s) /\ Reserving(s)'
      BY <1>1, <1>2, Zenon DEF Reserving
    <2>2. \A t \in Submitters \ {s} : Reserving(t)' <=> Reserving(t)
      BY <1>1, <1>2, Zenon DEF Reserving
    <2> QED  BY <1>0, <2>1, <2>2, HeldMore, ZenonT(40)
  <1>4. Charged' = Charged
    BY <1>0, Zenon DEF Charged, Charge
  <1>5. /\ rawBytesInUse \in Nat /\ rawBytesInUse = Charged + Reserved
        /\ Charged \in Nat /\ Reserved \in Nat /\ MaxRaw \in Nat
    BY AccountTypes, HereFacts, PipelineAssumption DEF Ledger, Exact
  <1>6. rawBytesInUse + retained(s) \in Nat /\ rawBytesInUse + retained(s) <= MaxRaw
    BY <1>1, <1>3, <1>5
  <1>7. rawBytesInUse + retained(s) = Charged + (retained(s) + Reserved)
    BY <1>3, <1>5
  <1> QED  BY <1>0, <1>1, <1>3, <1>4, <1>6, <1>7, ZenonT(40) DEF Ledger, Sizes, Exact

\* A call that fails gives its reservation back.
LEMMA GiveBackExact ==
    ASSUME Types, CallsCounted, Ledger, NEW s \in Submitters, Reserving(s),
           NEW r, Return(s, r), releaseRawCborBytes(retained(s)),
           UNCHANGED <<scenario, activeItems, size>>
    PROVE  Sizes' /\ Exact'
  <1>0. Seqs' = Seqs /\ MaxRaw' = MaxRaw
    BY Zenon DEF Seqs, MaxRaw, Here, Pipelines
  <1>1. /\ pc' = [pc EXCEPT ![s] = "idle"] /\ raw' = [raw EXCEPT ![s] = 0]
        /\ rawBytesInUse' = IF retained(s) >= rawBytesInUse THEN 0 ELSE rawBytesInUse - retained(s)
    BY Zenon DEF Return, releaseRawCborBytes
  <1>2. /\ raw \in [Submitters -> 0..MaxUint]
        /\ pc \in [Submitters -> {"idle", "budget", "budgetWait", "gate", "capacity",
                                  "capacityWait", "enqueue", "count"}]
    BY Zenon DEF Types, SubmitTypes
  <1>3. Reserved = retained(s) + Reserved' /\ Reserved' \in Nat /\ retained(s) \in Nat
    <2>1. ~Reserving(s)'
      BY <1>1, <1>2, Zenon DEF Reserving
    <2>2. \A t \in Submitters \ {s} : (Reserving(t)' <=> Reserving(t)) /\ raw'[t] = raw[t]
      BY <1>1, <1>2, ZenonT(40) DEF Reserving
    <2> QED  BY <2>1, <2>2, HeldLess, ZenonT(40)
  <1>4. Charged' = Charged
    BY <1>0, Zenon DEF Charged, Charge
  <1>5. /\ rawBytesInUse \in Nat /\ rawBytesInUse = Charged + Reserved
        /\ Charged \in Nat /\ MaxRaw \in Nat /\ rawBytesInUse <= MaxRaw
    BY AccountTypes, HereFacts, PipelineAssumption DEF Ledger, Exact
  <1>6. PICK h \in Nat : h = Reserved'
    BY <1>3, Zenon
  <1>7. Reserved = retained(s) + h
    BY <1>3, <1>6, Zenon
  <1>8. PICK b : /\ b = IF retained(s) >= rawBytesInUse THEN 0 ELSE rawBytesInUse - retained(s)
                 /\ b = rawBytesInUse'
    BY <1>1, Zenon
  <1>9. b = IF retained(s) >= rawBytesInUse THEN 0 ELSE rawBytesInUse - retained(s)
    BY <1>8, ZenonT(40)
  <1>10. retained(s) \in Nat
    BY <1>3, Zenon
  <1>11. b = Charged + h /\ b \in Nat /\ b <= MaxRaw
    BY ONLY <1>5, <1>7, <1>9, <1>10, h \in Nat
  <1>12. Exact'
    BY <1>0, <1>4, <1>6, <1>8, <1>11, ZenonT(40) DEF Exact
  <1>13. Sizes'
    BY <1>0, Zenon DEF Ledger, Sizes
  <1> QED  BY <1>12, <1>13, Zenon

\* Items that leave give back what they were charged for.
LEMMA ReleaseKeepsExact ==
    ASSUME Types, CallsCounted, Ledger, NEW S, ReleaseItems(S), scenario' = scenario,
           \A t \in Submitters : (Reserving(t)' <=> Reserving(t)) /\ (Reserving(t) => raw'[t] = raw[t])
    PROVE  Sizes' /\ Exact'
  <1>1. /\ size' = size /\ rawBytesInUse' = Charged' + Reserved
        /\ rawBytesInUse' \in Nat /\ rawBytesInUse' <= rawBytesInUse
    BY ReleaseExact, Zenon
  <1>2. Seqs' = Seqs /\ MaxRaw' = MaxRaw
    BY Zenon DEF Seqs, MaxRaw, Here, Pipelines
  <1>3. Reserved' = Reserved
    BY HeldSame, Zenon
  <1>4. PICK b \in Nat : b = rawBytesInUse' /\ b <= rawBytesInUse
    BY <1>1, Zenon
  <1>5. b <= rawBytesInUse
    BY <1>4, Zenon
  <1>6. MaxRaw \in Nat /\ rawBytesInUse \in Nat /\ rawBytesInUse <= MaxRaw
    BY HereFacts, PipelineAssumption DEF Ledger, Exact
  <1>7. b <= MaxRaw
    BY ONLY <1>5, <1>6, b \in Nat
  <1>8. rawBytesInUse' <= MaxRaw'
    BY <1>2, <1>4, <1>7, ZenonT(40)
  <1>9. Exact'
    BY <1>1, <1>3, <1>8, ZenonT(40) DEF Exact
  <1> QED  BY <1>1, <1>2, <1>9, ZenonT(40) DEF Ledger, Sizes

\* A step of Submit keeps the account.
LEMMA SubmitLedger ==
    ASSUME Types, GateHeld, CallsCounted, Ledger, NEW s \in Submitters, Submit(s)
    PROVE  Ledger'
  <1>0. ActiveClaimed'
    BY SubmitKeepsClaims, Zenon DEF Ledger
  <1>1. scenario' = scenario
    BY SubmitFrame, Zenon
  <1>2. /\ raw \in [Submitters -> 0..MaxUint]
        /\ pc \in [Submitters -> {"idle", "budget", "budgetWait", "gate", "capacity",
                                  "capacityWait", "enqueue", "count"}]
    BY Zenon DEF Types, SubmitTypes
  <1>3. Sizes' /\ Exact'
    <2>1. CASE reserveRawCborBytes(s)
      BY <2>1, ReserveExact, ZenonT(40)
    <2>2. CASE trackItem(s)
      BY <2>2, TrackExact, Zenon
    <2>3. CASE SubmitAbandoned(s) \/ SubmitRefused(s)
      <3>1. Reserving(s)
        BY <2>3, Zenon DEF SubmitAbandoned, SubmitRefused, Reserving
      <3>2. \E r : Return(s, r)
        BY <2>3, ZenonT(40) DEF SubmitAbandoned, SubmitRefused, Aborted
      <3>3. releaseRawCborBytes(retained(s)) /\ UNCHANGED <<activeItems, size>>
        BY <2>3, ZenonT(40) DEF SubmitAbandoned, SubmitRefused
      <3> QED  BY <1>1, <3>1, <3>2, <3>3, GiveBackExact, ZenonT(40)
    <2>4. CASE EnqueueAbandoned(s)
      <3>1. ReleaseItems({sequenceCounter}) /\ pc[s] = "enqueue"
        BY <2>4, Zenon DEF EnqueueAbandoned
      <3>2. PICK r : Return(s, r)
        BY <2>4, ZenonT(40) DEF EnqueueAbandoned, Aborted
      <3>3. pc' = [pc EXCEPT ![s] = "idle"] /\ raw' = [raw EXCEPT ![s] = 0]
        BY <3>2, Zenon DEF Return
      <3>4. \A t \in Submitters : (Reserving(t)' <=> Reserving(t)) /\ (Reserving(t) => raw'[t] = raw[t])
        BY <1>2, <3>1, <3>3, ZenonT(40) DEF Reserving
      <3> QED  BY <1>1, <3>1, <3>4, ReleaseKeepsExact, ZenonT(40)
    <2>5. CASE \/ SubmitCall(s) \/ AwaitBudget(s) \/ BudgetFreed(s) \/ BudgetAbandoned(s)
               \/ lockSubmit(s) \/ waitForPendingCapacity(s) \/ CapacityFreed(s)
               \/ Enqueue(s) \/ CommitSequence(s)
      <3>1. UNCHANGED <<rawBytesInUse, activeItems, size>>
        BY <2>5, ZenonT(40) DEF SubmitCall, AwaitBudget, BudgetFreed, BudgetAbandoned, lockSubmit,
           waitForPendingCapacity, CapacityFreed, Enqueue, CommitSequence, budgetVars
      <3>2. \A t \in Submitters : (Reserving(t)' <=> Reserving(t)) /\ (Reserving(t) => raw'[t] = raw[t])
        <4>1. CASE SubmitCall(s)
          BY <1>2, <4>1, ZenonT(40) DEF SubmitCall, Reserving
        <4>2. CASE BudgetAbandoned(s)
          BY <1>2, <4>2, ZenonT(40) DEF BudgetAbandoned, Return, Reserving
        <4>3. CASE CommitSequence(s)
          BY <1>2, <4>3, ZenonT(40) DEF CommitSequence, Return, Reserving
        <4>4. CASE \/ AwaitBudget(s) \/ BudgetFreed(s) \/ lockSubmit(s)
                   \/ waitForPendingCapacity(s) \/ CapacityFreed(s) \/ Enqueue(s)
          BY <1>2, <4>4, ZenonT(40) DEF AwaitBudget, BudgetFreed, lockSubmit, waitForPendingCapacity,
             CapacityFreed, Enqueue, At, Reserving
        <4> QED  BY <2>5, <4>1, <4>2, <4>3, <4>4, ZenonT(40)
      <3> QED  BY <1>1, <3>1, <3>2, NeutralExact, ZenonT(40)
    <2> QED  BY <2>1, <2>2, <2>3, <2>4, <2>5, ZenonT(40) DEF Submit
  <1> QED  BY <1>0, <1>3, ZenonT(40) DEF Ledger

\* So do they when nothing else changes.
LEMMA ReleaseLedger ==
    ASSUME Types, CallsCounted, Ledger, UNCHANGED <<scenario, pc, raw, sequenceCounter>>,
           (\E S : ReleaseItems(S)) \/ UNCHANGED budgetVars
    PROVE  Ledger'
  <1>1. \A t \in Submitters : (Reserving(t)' <=> Reserving(t)) /\ (Reserving(t) => raw'[t] = raw[t])
    BY ZenonT(40) DEF Reserving
  <1>2. activeItems' \subseteq activeItems
    BY ZenonT(40) DEF ReleaseItems, budgetVars
  <1>3. \A n \in Nat : Claimed(n)' <=> Claimed(n)
    BY Zenon DEF Claimed
  <1>4. ActiveClaimed'
    BY <1>2, <1>3, ZenonT(40) DEF Ledger, ActiveClaimed
  <1>5. Sizes' /\ Exact'
    <2>1. CASE \E S : ReleaseItems(S)
      BY <1>1, <2>1, ReleaseKeepsExact, ZenonT(40)
    <2>2. CASE UNCHANGED budgetVars
      BY <1>1, <2>2, NeutralExact, ZenonT(40) DEF budgetVars
    <2> QED  BY <2>1, <2>2, ZenonT(40)
  <1> QED  BY <1>4, <1>5, ZenonT(40) DEF Ledger

\* Every step keeps the account.
LEMMA LedgerStep ==
    Types /\ GateHeld /\ CallsCounted /\ Ledger /\ [Next]_vars => Ledger'
  <1> SUFFICES ASSUME Types, GateHeld, CallsCounted, Ledger, [Next]_vars PROVE Ledger'
    BY Zenon
  <1>1. CASE \E s \in Submitters : Submit(s)
    BY <1>1, SubmitLedger, ZenonT(40)
  <1>2. CASE Results
    <2>1. (\E S : ReleaseItems(S)) \/ UNCHANGED budgetVars
      BY <1>2, ZenonT(40) DEF Results, TakeResult, HandOver, ConsumerRelease, markItemDelivered,
         DrainResults, ResultsEnd
    <2> QED  BY <1>2, <2>1, ResultsFrame, ReleaseLedger, ZenonT(40)
  <1>3. CASE StopNext
    <2>1. (\E S : ReleaseItems(S)) \/ UNCHANGED budgetVars
      BY <1>3, ZenonT(40) DEF StopNext, StopOn, ParentCancelled, StopBegins, StopCancels, StopCloses,
         StopPool, StopApplied, StopReturns
    <2> QED  BY <1>3, <2>1, StopNextFrame, ReleaseLedger, ZenonT(40)
  <1>4. CASE \/ Start \/ (\E x \in Submitters \cup Drainers : CancelCaller(x))
             \/ (\E w \in Workers : Pool(w)) \/ Runner
             \/ (\E d \in Drainers : Drain(d)) \/ UNCHANGED vars
    <2>1. UNCHANGED <<scenario, pc, raw, sequenceCounter>> /\ UNCHANGED budgetVars
      BY <1>4, StartFrame, CancelCallerFrame, PoolFrame, RunnerFrame, DrainFrame, StutterFrame, ZenonT(40)
         DEF budgetVars
    <2> QED  BY <2>1, ReleaseLedger, ZenonT(40)
  <1> QED  BY <1>1, <1>2, <1>3, <1>4, ZenonT(40) DEF Next, StopNext, Ended

-----------------------------------------------------------------------------
(***************************************************************************)
(* All of it together, and what follows.                                   *)
(***************************************************************************)
PipelineInv ==
    /\ Types /\ GateHeld /\ CallsCounted /\ ClosedInOrder /\ CauseKnown
    /\ InFlight /\ Apart /\ Resolved
    /\ InLine /\ KeepsUp /\ AppliedSoFar /\ Vetted /\ DrainCovers

\* A pipeline that has not been started satisfies the invariant.
LEMMA PipelineInvInit == Init => PipelineInv
  <1> SUFFICES ASSUME Init PROVE PipelineInv
    BY Zenon
  <1>1. StateInv
    BY StateInvInit, Zenon
  <1>2. Types /\ GateHeld /\ ClosedInOrder /\ CauseKnown
    BY <1>1, ZenonT(40) DEF StateInv
  <1>3. CallsCounted
    <2>1. Here.calls \in [Submitters -> Nat]
      BY <1>2, HereFacts, ZenonT(40)
    <2>2. CallsLeft = Here.calls
      BY <2>1 DEF Init, CallsLeft
    <2>3. SumFunction(Here.calls) \in Nat
      BY <2>1, PipelineAssumption, SumIsNat, Zenon DEF SumFunction
    <2> QED  BY <2>2, <2>3 DEF CallsCounted, Init
  <1>6. InFlight /\ Apart /\ Resolved
    <2>1. \A c \in Chans : chan[c] = <<>>
      BY Zenon DEF Init, Chans
    <2>2. \A w \in Workers : ~Forwarding(w)
      BY Zenon DEF Init, Forwarding
    <2>3. pending = {} /\ nextSequence = 0
      BY Zenon DEF Init
    <2>4. \A n \in Seqs : verdict[n] = "raw"
      BY Zenon DEF Init
    <2>5. {DecodedChan, ValidatedChan} \subseteq Chans
      BY DEF Chans, DecodedChan, ValidatedChan, SubmitChan
    <2>6. InFlight
      BY <2>1, <2>2, <2>3 DEF InFlight
    <2>7. Apart
      BY <2>1, <2>2, <2>3 DEF Apart
    <2>8. Resolved
      BY <2>1, <2>2, <2>3, <2>4, <2>5 DEF Resolved
    <2> QED  BY <2>6, <2>7, <2>8, Zenon
  <1>7. Processed = 0
    BY DEF Init, Processed, Sent, Handed
  <1>8. InLine /\ KeepsUp
    BY <1>7 DEF Init, InLine, KeepsUp, Numbered, Whole, None
  <1>9. AppliedSoFar /\ Vetted
    BY <1>7 DEF Init, AppliedSoFar, Vetted, Numbered, None
  <1>10. DrainCovers
    BY DEF Init, DrainCovers
  <1> QED
    BY <1>2, <1>3, <1>6, <1>8, <1>9, <1>10, ZenonT(40) DEF PipelineInv

\* Every step keeps it.
LEMMA PipelineInvStep == PipelineInv /\ [Next]_vars => PipelineInv'
  <1> SUFFICES ASSUME PipelineInv, [Next]_vars PROVE PipelineInv'
    BY Zenon
  <1>1. /\ Types /\ GateHeld /\ CallsCounted /\ ClosedInOrder /\ CauseKnown
        /\ InFlight /\ Apart /\ Resolved
        /\ InLine /\ KeepsUp /\ AppliedSoFar /\ Vetted /\ DrainCovers
    BY ZenonT(40) DEF PipelineInv
  <1>2. InRange
    BY <1>1, NumbersInRange, ZenonT(40)
  <1>3. Types' /\ GateHeld' /\ ClosedInOrder' /\ CauseKnown'
    BY <1>1, StateInvStep, ZenonT(40) DEF StateInv
  <1>4. CallsCounted' /\ InFlight' /\ Apart' /\ Resolved'
    BY <1>1, <1>2, CallsCountedStep, InFlightStep, ApartStep, ResolvedStep, ZenonT(40)
  <1>5. InLine' /\ KeepsUp' /\ AppliedSoFar' /\ Vetted' /\ DrainCovers'
    BY <1>1, <1>2, InLineStep, KeepsUpStep, AppliedSoFarStep, VettedStep, DrainCoversStep, ZenonT(40)
  <1> QED  BY <1>3, <1>4, <1>5, ZenonT(40) DEF PipelineInv

\* The invariant holds for any pools, callers, limits and configurations.
THEOREM PipelineInvHolds == Spec => []PipelineInv
  BY PipelineInvInit, PipelineInvStep, PTL DEF Spec

\* Blocks are applied, counted and handed over in the order of submission,
\* whatever order the workers finish in (apply_stage.go, processWithStatus).
THEOREM PipelineBlocksInOrder == Spec => []BlocksInOrder
  <1>1. PipelineInv => BlocksInOrder
    <2> SUFFICES ASSUME PipelineInv PROVE BlocksInOrder
      BY Zenon
    <2>1. Types /\ InLine /\ AppliedSoFar /\ Vetted /\ GateHeld /\ InFlight
      BY Zenon DEF PipelineInv
    <2>2. AppliedInOrder
      <3>1. Numbered(applied, 0) /\ applied \in Seq(Nat)
        BY <2>1, ZenonT(40) DEF AppliedSoFar, Types, RunnerTypes
      <3>2. \A n \in 0..(Len(applied) - 1) : verdict[n] = "valid"
        BY <2>1, Zenon DEF Vetted
      <3> QED  BY <3>1, <3>2 DEF AppliedInOrder, Numbered
    <2>3. ResultsInOrder
      <3>1. Numbered(delivered, 0) /\ delivered \in Seq(Nat)
        BY <2>1, Zenon DEF InLine, Types, ResultTypes
      <3>2. Len(delivered) \in Nat /\ Processed \in Nat /\ Len(delivered) <= Processed
        BY <2>1, Lengths
      <3>3. \A n \in 0..(Len(delivered) - 1) : Fit(n)
        BY <2>1, <3>2 DEF Vetted
      <3> QED  BY <3>1, <3>3 DEF ResultsInOrder, Numbered, Fit
    <2>4. CompletedMeansApplied
      BY <2>1, CompletedIsApplied, ZenonT(40)
    <2> QED  BY <2>2, <2>3, <2>4, ZenonT(40) DEF BlocksInOrder
  <1> QED  BY <1>1, PipelineInvHolds, PTL

\* A drain that succeeds covers every block accepted before it, and one that
\* fails names the cause (pipeline.go, WaitForDrain, Fence).
THEOREM PipelineDrainIsTrue == Spec => []DrainIsTrue
  <1>1. PipelineInv => DrainIsTrue
    <2> SUFFICES ASSUME PipelineInv PROVE DrainIsTrue
      BY Zenon
    <2>1. DrainCovers /\ CauseKnown
      BY Zenon DEF PipelineInv
    <2> QED  BY <2>1, ZenonT(40) DEF DrainCovers, CauseKnown, DrainIsTrue, DrainMeansApplied, DrainNamesCause
  <1> QED  BY <1>1, PipelineInvHolds, PTL

BoundsInv == PipelineInv /\ Ahead /\ Throttled /\ CutShort /\ Roomy /\ Ledger

\* A pipeline that has not been started is within its limits.
LEMMA BoundsInvInit == Init => BoundsInv
  <1> SUFFICES ASSUME Init PROVE BoundsInv
    BY Zenon
  <1>1. PipelineInv /\ Types
    BY PipelineInvInit, ZenonT(40) DEF PipelineInv
  <1>2. sequenceCounter = 0 /\ completedSequence = 0 /\ pending = {} /\ runner = "receive"
    BY Zenon DEF Init
  <1>3. \A s \in Submitters : pc[s] = "idle"
    BY Zenon DEF Init
  <1>4. \A n \in Nat : ~Claimed(n)
    BY <1>2, <1>3 DEF Claimed, Claiming
  <1>5. Ahead /\ Throttled /\ CutShort
    BY <1>2, <1>4, ZenonT(40) DEF Ahead, Throttled, CutShort
  <1>6. Roomy
    BY PipelineAssumption DEF Init, Roomy, Chans
  <1>7. Sizes
    <2>1. 0 \in 0..MaxUint
      BY PipelineAssumption
    <2> QED  BY <2>1, ZenonT(40) DEF Init, Sizes
  <1>8. ActiveClaimed
    BY Zenon DEF Init, ActiveClaimed
  <1>9. Exact
    <2>1. Charged = 0
      BY SumEmpty, ZenonT(40) DEF Init, Charged
    <2>2. Held = {}
      BY <1>3, ZenonT(40) DEF Held, Reserving
    <2>3. Reserved = 0
      BY <2>2, SumEmpty, ZenonT(40) DEF Reserved
    <2>4. rawBytesInUse = 0 /\ MaxRaw \in Nat
      BY <1>1, HereFacts DEF Init
    <2> QED  BY <2>1, <2>3, <2>4 DEF Exact
  <1> QED  BY <1>1, <1>5, <1>6, <1>7, <1>8, <1>9, ZenonT(40) DEF BoundsInv, Ledger

\* Every step keeps them.
LEMMA BoundsInvStep == BoundsInv /\ [Next]_vars => BoundsInv'
  <1> SUFFICES ASSUME BoundsInv, [Next]_vars PROVE BoundsInv'
    BY Zenon
  <1>1. /\ PipelineInv /\ Types /\ GateHeld /\ CallsCounted /\ InLine /\ KeepsUp /\ AppliedSoFar
        /\ Ahead /\ Throttled /\ CutShort /\ Roomy /\ Ledger
    BY ZenonT(40) DEF BoundsInv, PipelineInv
  <1>2. PipelineInv'
    BY <1>1, PipelineInvStep, ZenonT(40)
  <1>3. Ahead' /\ Throttled' /\ CutShort'
    BY <1>1, AheadStep, ThrottledStep, CutShortStep, ZenonT(40)
  <1>4. Roomy' /\ Ledger'
    BY <1>1, RoomyStep, LedgerStep, ZenonT(40)
  <1> QED  BY <1>2, <1>3, <1>4, ZenonT(40) DEF BoundsInv

\* The numbers, the queues and the account have the ranges they were made for.
LEMMA TypesFollow ==
    ASSUME Types, CallsCounted, InFlight, AppliedSoFar, Roomy, Ledger PROVE TypeOK
  <1>0. InRange
    BY NumbersInRange, ZenonT(40)
  <1>1. /\ Seqs \subseteq Nat /\ sequenceCounter \in Seqs
        /\ \A n \in 0..sequenceCounter : n \in Seqs
        /\ \A s \in Submitters : pc[s] # "idle" => sequenceCounter + 1 \in Seqs
    BY <1>0, ZenonT(40) DEF InRange
  <1>2. nextSequence \in Nat /\ completedSequence \in Nat /\ sequenceCounter \in Nat
    BY ZenonT(40) DEF Types, RunnerTypes, SubmitTypes
  <1>3. nextSequence \in Seqs
    <2>1. CASE nextSequence <= sequenceCounter
      BY <1>1, <1>2, <2>1
    <2>2. CASE nextSequence > sequenceCounter
      <3>1. Accepted(nextSequence - 1)
        BY <1>2, <2>2 DEF InFlight
      <3>2. nextSequence = sequenceCounter + 1 /\ \E s \in Submitters : pc[s] = "count"
        BY <1>2, <2>2, <3>1 DEF Accepted
      <3> QED  BY <1>1, <3>2, ZenonT(40)
    <2> QED  BY <1>2, <2>1, <2>2
  <1>4. completedSequence \in Seqs
    <2>1. completedSequence <= nextSequence
      BY Zenon DEF AppliedSoFar
    <2>2. \A n \in 0..(nextSequence - 1) : n \in Seqs
      BY <1>0, FlightInRange, ZenonT(40)
    <2> QED  BY <1>2, <1>3, <2>1, <2>2
  <1>5. rawBytesInUse \in 0..MaxRaw
    <2>1. rawBytesInUse \in Nat /\ rawBytesInUse <= MaxRaw /\ MaxRaw \in Nat
      BY HereFacts DEF Ledger, Exact
    <2> QED  BY <2>1
  <1>6. pending \subseteq Seqs /\ activeItems \subseteq Seqs
    BY <1>0, FlightInRange, AccountTypes, Zenon DEF Ledger
  <1>7. \A c \in DOMAIN chan : Range(chan[c]) \subseteq Seqs /\ Len(chan[c]) <= BufSize
    <2>1. DOMAIN chan = Chans
      BY Zenon DEF Types, PoolTypes
    <2>2. \A c \in Chans : \A i \in DOMAIN chan[c] : chan[c][i] \in Seqs
      BY <1>0, FlightInRange, ZenonT(40)
    <2> QED  BY <2>1, <2>2, ZenonT(40) DEF Roomy, Range
  <1>8. {started, stopping, stopped, ctxDone, fatalErr, parentGone, submitGate} \subseteq BOOLEAN
    BY ZenonT(40) DEF Types, LifeTypes
  <1>9. /\ pc \in [Submitters -> {"idle", "budget", "budgetWait", "gate", "capacity",
                                  "capacityWait", "enqueue", "count"}]
        /\ worker \in [Workers -> {"idle", "forward", "done"}]
        /\ runner \in {"receive", "check", "apply", "pending", "store", "wake", "fail",
                       "cancel", "send", "blocked", "done"}
        /\ forwarder \in {"receive", "hand", "mark", "done"}
    BY ZenonT(40) DEF Types, SubmitTypes, PoolTypes, RunnerTypes, ResultTypes
  <1> QED  BY <1>1, <1>3, <1>4, <1>5, <1>6, <1>7, <1>8, <1>9, ZenonT(40) DEF TypeOK

\* Two copies of every block inside the pipeline fit in the limit.
LEMMA BlocksFit ==
    ASSUME Types, CallsCounted, Ledger PROVE BlocksFitBudget
  <1> SUFFICES ASSUME MaxRaw < MaxUint
               PROVE  SumFunctionOnSet([n \in Seqs |-> 2 * size[n]], activeItems) <= MaxRaw
    BY Zenon DEF BlocksFitBudget
  <1> DEFINE twice == [n \in Seqs |-> 2 * size[n]]
  <1>1. /\ activeItems \subseteq Seqs /\ IsFiniteSet(activeItems)
        /\ \A n \in Seqs : Charge[n] \in Nat /\ Charge[n] = saturatingDouble(size[n])
        /\ Charged \in Nat /\ Reserved \in Nat
    BY AccountTypes, ZenonT(40) DEF Ledger
  <1>2. Charged <= MaxRaw /\ MaxRaw \in Nat /\ MaxUint \in Nat
    BY <1>1, HereFacts, PipelineAssumption DEF Ledger, Exact
  <1>3. \A n \in activeItems : twice[n] = Charge[n]
    <2> TAKE n \in activeItems
    <2>1. n \in Seqs /\ size[n] \in 0..MaxUint
      BY <1>1, ZenonT(40) DEF Ledger, Sizes
    <2>2. Charge[n] <= Charged
      <3>1. \A m \in activeItems : Charge[m] \in Nat
        BY <1>1, ZenonT(40)
      <3>2. Charged = Charge[n] + SumFunctionOnSet(Charge, activeItems \ {n})
        BY <1>1, <3>1, SumSplits, ZenonT(40) DEF Charged
      <3>3. SumFunctionOnSet(Charge, activeItems \ {n}) \in Nat
        <4>1. IsFiniteSet(activeItems \ {n}) /\ \A m \in activeItems \ {n} : Charge[m] \in Nat
          BY <1>1, <3>1, FS_Subset, ZenonT(40)
        <4> QED  BY ONLY <4>1, SumIsNat, ZenonT(40)
      <3> QED  BY <1>1, <2>1, <3>2, <3>3
    <2>3. saturatingDouble(size[n]) # MaxUint
      BY <1>1, <1>2, <2>1, <2>2
    <2>4. saturatingDouble(size[n]) = 2 * size[n]
      BY <2>1, <2>3, DoubleIsNat, ZenonT(40)
    <2> QED  BY <1>1, <2>1, <2>4, Zenon
  <1>4. SumFunctionOnSet(twice, activeItems) = SumFunctionOnSet(Charge, activeItems)
    <2> HIDE DEF twice
    <2>1. IsFiniteSet(activeItems)
      BY <1>1, Zenon
    <2> QED  BY ONLY <1>3, <2>1, SumSame, ZenonT(40)
  <1> QED  BY <1>2, <1>4, ZenonT(40) DEF Charged

\* The limits of the pipeline hold whatever the callers, the pools and the
\* sizes of the blocks: the apply buffer is never full when an item arrives out
\* of order, and the budget charges every block once (pipeline.go, Submit).
THEOREM PipelineWithinBounds == Spec => []WithinBounds
  <1>1. BoundsInv => WithinBounds
    <2> SUFFICES ASSUME BoundsInv PROVE WithinBounds
      BY Zenon
    <2>1. /\ Types /\ CallsCounted /\ InFlight /\ Apart /\ AppliedSoFar
          /\ Throttled /\ CutShort /\ Roomy /\ Ledger
      BY ZenonT(40) DEF BoundsInv, PipelineInv
    <2>2. TypeOK
      BY <2>1, TypesFollow, ZenonT(40)
    <2>3. PendingNeverOverflows
      BY <2>1, BufferFits, ZenonT(40)
    <2>4. BudgetExact
      BY <2>1, ZenonT(40) DEF Ledger, Exact, Charged, Reserved, Charge, Reserve, Held, BudgetExact, Bytes
    <2>5. BlocksFitBudget
      BY <2>1, BlocksFit, ZenonT(40)
    <2> QED  BY <2>2, <2>3, <2>4, <2>5, ZenonT(40) DEF WithinBounds
  <1>2. Spec => []BoundsInv
    BY BoundsInvInit, BoundsInvStep, PTL DEF Spec
  <1> QED  BY <1>1, <1>2, PTL

=============================================================================
