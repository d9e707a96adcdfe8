---------------------------- MODULE EgressProofs ----------------------------
(***************************************************************************)
(* Proofs that the egress scheduler never has two owners of the turn and   *)
(* never loses it, and that both classes wait a bounded number of writes,  *)
(* for any set of senders and any burst.                                   *)
(*                                                                         *)
(* The turn has one owner because a waiter is in one queue, once, until it *)
(* is granted the turn, and only a waiter is ever granted it (Placement).  *)
(* The bounds hold because praosRun counts at least the Praos grants that  *)
(* the first Leios waiter saw, and is zero from the moment a Leios segment *)
(* overtakes a Praos one until the next Praos grant (Counters).            *)
(***************************************************************************)
EXTENDS Egress, SequenceTheorems, TLAPS

\* The provers get half a minute for a step, not five seconds.
USE SMTT(30), ZenonT(30)

-----------------------------------------------------------------------------
(***************************************************************************)
(* What the operations on the Go slices used as queues do to the places of *)
(* their elements: q[1:], append(q, e) and append(q[:n], q[n+1:]...).      *)
(***************************************************************************)
\* Taking the head off a queue keeps the rest, one place further on.
LEMMA TailFacts ==
    ASSUME NEW S, NEW q \in Seq(S), q # <<>>
    PROVE  /\ Tail(q) \in Seq(S)
           /\ Head(q) \in S
           /\ Head(q) = q[1]
           /\ 1 \in DOMAIN q
           /\ \A i \in DOMAIN Tail(q) :
                 i + 1 \in DOMAIN q /\ i + 1 # 1 /\ Tail(q)[i] = q[i + 1]
  OBVIOUS

\* A queue that gains an element keeps the earlier ones in place.
LEMMA AppendFacts ==
    ASSUME NEW S, NEW q \in Seq(S), NEW e \in S
    PROVE  /\ Append(q, e) \in Seq(S)
           /\ Append(q, e) # <<>>
           /\ \A i \in DOMAIN Append(q, e) :
                 \/ i \in DOMAIN q /\ Append(q, e)[i] = q[i]
                 \/ i = Len(q) + 1 /\ i \notin DOMAIN q /\ Append(q, e)[i] = e
  OBVIOUS

\* Removing place n keeps the others, those behind it one place further on.
LEMMA RemoveAtFacts ==
    ASSUME NEW S, NEW q \in Seq(S), NEW n \in DOMAIN q
    PROVE  /\ RemoveAt(q, n) \in Seq(S)
           /\ Len(RemoveAt(q, n)) = Len(q) - 1
           /\ \A i \in DOMAIN RemoveAt(q, n) :
                 IF i < n THEN i \in DOMAIN q /\ RemoveAt(q, n)[i] = q[i]
                          ELSE i + 1 \in DOMAIN q /\ RemoveAt(q, n)[i] = q[i + 1]
           /\ RemoveAt(q, n) = <<>> => n = 1
<1> DEFINE a == SubSeq(q, 1, n - 1)
           b == SubSeq(q, n + 1, Len(q))
<1>0. n \in 1..Len(q) /\ Len(q) \in Nat
  OBVIOUS
<1>1. /\ a \in Seq(S)
      /\ Len(a) = n - 1
      /\ \A i \in 1..(n - 1) : a[i] = q[i]
  <2>1. \A i \in 1..(n - 1) : q[i] \in S
    BY <1>0
  <2>2. QED
    BY <1>0, <2>1, SubSeqProperties
<1>2. /\ b \in Seq(S)
      /\ Len(b) = Len(q) - n
      /\ \A i \in 1..(Len(q) - n) : b[i] = q[n + i]
  <2>1. \A i \in (n + 1)..Len(q) : q[i] \in S
    BY <1>0
  <2>2. /\ b \in Seq(S)
        /\ Len(b) = IF n + 1 <= Len(q) THEN Len(q) - (n + 1) + 1 ELSE 0
        /\ \A i \in 1..(Len(q) - (n + 1) + 1) : b[i] = q[(n + 1) + i - 1]
    BY SMTT(30), <1>0, <2>1, SubSeqProperties
  <2>3. QED
    BY <1>0, <2>2
<1> HIDE DEF a, b
<1>3. /\ a \o b \in Seq(S)
      /\ Len(a \o b) = Len(q) - 1
      /\ \A i \in 1..(Len(q) - 1) :
            (a \o b)[i] = IF i <= n - 1 THEN a[i] ELSE b[i - (n - 1)]
  <2>1. a \in Seq(S) /\ b \in Seq(S)
    BY <1>1, <1>2, Zenon
  <2>2. Len(a) = n - 1 /\ Len(a) + Len(b) = Len(q) - 1
    BY <1>0, <1>1, <1>2
  <2>3. /\ a \o b \in Seq(S)
        /\ Len(a \o b) = Len(a) + Len(b)
        /\ \A i \in 1..(Len(a) + Len(b)) :
              (a \o b)[i] = IF i <= Len(a) THEN a[i] ELSE b[i - Len(a)]
    BY <2>1, ConcatProperties, Zenon
  <2>4. QED
    BY <2>2, <2>3, ZenonT(40)
<1>4. RemoveAt(q, n) = a \o b
  BY Zenon DEF RemoveAt, a, b
<1>5. ASSUME NEW i \in 1..(Len(q) - 1)
      PROVE  IF i < n THEN i \in 1..Len(q) /\ (a \o b)[i] = q[i]
                      ELSE i + 1 \in 1..Len(q) /\ (a \o b)[i] = q[i + 1]
  <2>1. CASE i < n
    BY <2>1, <1>0, <1>1, <1>3
  <2>2. CASE ~(i < n)
    <3>1. i - (n - 1) \in 1..(Len(q) - n)
      BY <2>2, <1>0
    <3>2. b[i - (n - 1)] = q[i + 1]
      <4>1. b[i - (n - 1)] = q[n + (i - (n - 1))]
        BY <3>1, <1>2, ZenonT(40)
      <4>2. n + (i - (n - 1)) = i + 1
        BY <1>0
      <4>3. QED
        BY <4>1, <4>2, ZenonT(40)
    <3>3. QED
      BY SMTT(30), <2>2, <1>0, <1>3, <3>2
  <2>3. QED
    BY <2>1, <2>2, ZenonT(40)
<1>6. DOMAIN (a \o b) = 1..(Len(q) - 1) /\ DOMAIN q = 1..Len(q)
  BY <1>3
<1>7. a \o b = <<>> => n = 1
  BY <1>0, <1>3
<1>8. QED
  BY SMTT(30), <1>3, <1>4, <1>5, <1>6, <1>7

-----------------------------------------------------------------------------

(***************************************************************************)
(* A sender waits in at most one place of its queue, and the owner of a    *)
(* granted turn has left the queue and still waits for its channel.        *)
(***************************************************************************)
Queued(q) ==
    /\ \A i, j \in DOMAIN q : q[i] = q[j] => i = j
    /\ \A i \in DOMAIN q : q[i] \notin granted /\ pc[q[i]] \in {"wait", "cancel"}

Placement ==
    /\ Queued(praos)
    /\ Queued(leios)
    /\ \A s \in granted : pc[s] \in {"wait", "cancel"}

\* TurnHasOneOwner with the queues in place of the set of waiters.
OneOwner ==
    /\ \A s, t \in Holders : s = t
    /\ busy <=> Holders # {}
    /\ ~busy => praos = <<>> /\ leios = <<>>

Counters ==
    /\ leiosOvertaken <= praosRun
    /\ praosRun <= PraosBurst
    /\ leios = <<>> => leiosOvertaken = 0
    /\ praos = <<>> => praosOvertaken = 0
    /\ praosOvertaken <= 1
    /\ praosOvertaken = 1 => praosRun = 0

IInv == TypeOK /\ Placement /\ OneOwner /\ Counters

-----------------------------------------------------------------------------

\* Every sender is of one class.
LEMMA SenderClasses ==
    /\ PraosSenders \subseteq Senders
    /\ LeiosSenders \subseteq Senders
    /\ PraosSenders \cap LeiosSenders = {}
    /\ Senders = PraosSenders \cup LeiosSenders
  BY EgressAssumption, Zenon DEF PraosSenders

\* It holds in every initial state.
LEMMA InitIInv == Init => IInv
<1> SUFFICES ASSUME Init PROVE IInv
  BY Zenon
<1> USE DEF Init
<1>1. TypeOK
  <2>1. praos \in Seq(PraosSenders) /\ leios \in Seq(LeiosSenders)
    BY EmptySeq, Zenon
  <2>2. QED
    BY ZenonT(40), <2>1 DEF TypeOK
<1>2. Placement
  BY DEF Placement, Queued
<1>3. OneOwner
  <2>1. Holders = {}
    BY Zenon DEF Holders
  <2>2. QED
    BY <2>1, Zenon DEF OneOwner
<1>4. Counters
  BY EgressAssumption DEF Counters
<1>5. QED
  BY <1>1, <1>2, <1>3, <1>4, Zenon DEF IInv

(***************************************************************************)
(* The steps of a sender that neither queue nor release: they only move    *)
(* the turn from granted to a place in acquire, or change no turn.         *)
(***************************************************************************)
LEMMA LocalSteps ==
    ASSUME IInv, NEW s \in Senders,
           Send(s) \/ TakeFreeTurn(s) \/ WaitGranted(s) \/ WaitDone(s)
             \/ CheckLive(s) \/ TurnDecided(s)
    PROVE  IInv'
<1> USE DEF IInv, TypeOK, Goto
<1>1. CASE Send(s)
  BY <1>1, SenderClasses DEF Send, turn, history, Placement, Queued, OneOwner, Holders, Counters
<1>2. CASE TakeFreeTurn(s)
  BY <1>2, SenderClasses DEF TakeFreeTurn, history, Placement, Queued, OneOwner, Holders, Counters
<1>3. CASE WaitGranted(s)
  BY <1>3, SenderClasses DEF WaitGranted, history, Placement, Queued, OneOwner, Holders, Counters
<1>4. CASE WaitDone(s)
  BY <1>4, SenderClasses DEF WaitDone, turn, history, Placement, Queued, OneOwner, Holders, Counters
<1>5. CASE CheckLive(s)
  BY <1>5, SenderClasses DEF CheckLive, turn, history, Placement, Queued, OneOwner, Holders, Counters
<1>6. CASE TurnDecided(s)
  BY <1>6, SenderClasses DEF TurnDecided, history, Placement, Queued, OneOwner, Holders, Counters
<1>7. QED
  BY SMTT(30), <1>1, <1>2, <1>3, <1>4, <1>5, <1>6

\* A sender that finds the turn taken joins the queue of its class.
LEMMA QueueUpStep ==
    ASSUME IInv, NEW s \in Senders, QueueUp(s)
    PROVE  IInv'
<1> USE DEF IInv
<1>1. pc[s] = "acquire" /\ pc' = [pc EXCEPT ![s] = "wait"] /\ granted' = granted
      /\ pc \in [Senders -> {"idle", "acquire", "wait", "check", "write", "cancel", "handOn"}]
  BY Zenon DEF QueueUp, Goto, TypeOK
<1>2. s \notin granted
  BY <1>1, Zenon DEF Placement
<1>3. ASSUME NEW S, S \subseteq Senders, s \in S, NEW q \in Seq(S), Queued(q)
      PROVE  Append(q, s) \in Seq(S) /\ Append(q, s) # <<>>
             /\ (\A i, j \in DOMAIN Append(q, s) : Append(q, s)[i] = Append(q, s)[j] => i = j)
             /\ (\A i \in DOMAIN Append(q, s) :
                   Append(q, s)[i] \notin granted' /\ pc'[Append(q, s)[i]] \in {"wait", "cancel"})
  <2>1. \A i \in DOMAIN q : q[i] # s /\ q[i] \in S
    BY <1>1, <1>3 DEF Queued
  <2>2. QED
    BY <1>1, <1>2, <1>3, <2>1, AppendFacts DEF Queued
<1>4. ASSUME NEW S, S \subseteq Senders, NEW q \in Seq(S), Queued(q)
      PROVE  \A i \in DOMAIN q : q[i] \notin granted' /\ pc'[q[i]] \in {"wait", "cancel"}
  BY <1>1, <1>4 DEF Queued
<1>5. Holders' = Holders
  BY <1>1, Zenon DEF Holders
<1>6. CASE s \in LeiosSenders
  <2>1. leios' = Append(leios, s) /\ praos' = praos
    BY <1>6, Zenon DEF QueueUp
  <2>2. TypeOK'
    BY SMTT(30), <1>1, <1>3, <1>6, <2>1, SenderClasses DEF QueueUp, history, TypeOK, Placement
  <2>3. Placement'
    <3>1. Queued(leios)'
      BY SMTT(30), <1>3, <1>6, <2>1, SenderClasses DEF TypeOK, Placement, Queued
    <3>2. Queued(praos)'
      BY <1>4, <2>1, SenderClasses, Zenon DEF TypeOK, Placement, Queued
    <3>3. QED
      BY <1>1, <3>1, <3>2, ZenonT(40) DEF TypeOK, Placement
  <2>4. QED
    BY SMTT(30), <1>3, <1>5, <1>6, <2>1, <2>2, <2>3, SenderClasses
       DEF QueueUp, history, OneOwner, Counters, Placement, TypeOK
<1>7. CASE s \notin LeiosSenders
  <2>1. praos' = Append(praos, s) /\ leios' = leios /\ s \in PraosSenders
    BY <1>7, SenderClasses, Zenon DEF QueueUp
  <2>2. TypeOK'
    BY <1>1, <1>3, <2>1, SenderClasses, Zenon DEF QueueUp, history, TypeOK, Placement
  <2>3. Placement'
    <3>1. Queued(praos)'
      BY SMTT(30), <1>3, <2>1, SenderClasses DEF TypeOK, Placement, Queued
    <3>2. Queued(leios)'
      BY <1>4, <2>1, SenderClasses, Zenon DEF TypeOK, Placement, Queued
    <3>3. QED
      BY <1>1, <3>1, <3>2, Zenon DEF TypeOK, Placement
  <2>4. QED
    BY SMTT(30), <1>3, <1>5, <2>1, <2>2, <2>3, SenderClasses
       DEF QueueUp, history, OneOwner, Counters, Placement, TypeOK
<1>8. QED
  BY <1>6, <1>7, Zenon

\* A cancelled waiter that is still queued leaves its queue.
LEMMA WithdrawStep ==
    ASSUME IInv, NEW s \in Senders, Withdraw(s)
    PROVE  IInv'
<1> USE DEF IInv
<1>1. /\ pc[s] = "cancel"
      /\ pc' = [pc EXCEPT ![s] = "idle"]
      /\ UNCHANGED <<busy, praosRun, granted, stopped>>
      /\ pc \in [Senders -> {"idle", "acquire", "wait", "check", "write", "cancel", "handOn"}]
  BY Zenon DEF Withdraw, Goto, TypeOK
<1>2. ASSUME NEW S, S \subseteq Senders, NEW q \in Seq(S), Queued(q),
             NEW n \in DOMAIN q, q[n] = s
      PROVE  /\ RemoveAt(q, n) \in Seq(S)
             /\ RemoveAt(q, n) = <<>> => n = 1
             /\ s \notin granted
             /\ \A i, j \in DOMAIN RemoveAt(q, n) :
                   RemoveAt(q, n)[i] = RemoveAt(q, n)[j] => i = j
             /\ \A i \in DOMAIN RemoveAt(q, n) :
                   /\ RemoveAt(q, n)[i] \notin granted'
                   /\ pc'[RemoveAt(q, n)[i]] \in {"wait", "cancel"}
  <2> DEFINE r == RemoveAt(q, n)
  <2>1. /\ r \in Seq(S)
        /\ Len(r) = Len(q) - 1
        /\ \A i \in DOMAIN r : IF i < n THEN i \in DOMAIN q /\ r[i] = q[i]
                                        ELSE i + 1 \in DOMAIN q /\ r[i] = q[i + 1]
        /\ r = <<>> => n = 1
    BY RemoveAtFacts, ZenonT(40)
  <2> HIDE DEF r
  <2>2. DOMAIN q = 1..Len(q) /\ DOMAIN r = 1..Len(r)
    BY <2>1
  <2>3. \A i, j \in DOMAIN r : r[i] = r[j] => i = j
    BY <1>2, <2>1, <2>2 DEF Queued
  <2>4. \A i \in DOMAIN r : r[i] # s /\ \E k \in DOMAIN q : r[i] = q[k]
    BY <1>2, <2>1, <2>2 DEF Queued
  <2>5. \A i \in DOMAIN r : r[i] \notin granted' /\ pc'[r[i]] \in {"wait", "cancel"}
    BY <1>1, <1>2, <2>1, <2>4 DEF Queued
  <2>6. s \notin granted
    BY <1>2, Zenon DEF Queued
  <2>7. QED
    BY <2>1, <2>3, <2>5, <2>6, Zenon DEF r
<1>3. ASSUME NEW S, S \subseteq Senders, NEW q \in Seq(S), Queued(q), \A i \in DOMAIN q : q[i] # s
      PROVE  \A i \in DOMAIN q : q[i] \notin granted' /\ pc'[q[i]] \in {"wait", "cancel"}
  BY <1>1, <1>3 DEF Queued
<1>4. Holders' = Holders
  BY <1>1, Zenon DEF Holders
<1>5. ASSUME NEW n \in DOMAIN praos, praos[n] = s, praos' = RemoveAt(praos, n),
             praosOvertaken' = (IF n = 1 THEN 0 ELSE praosOvertaken),
             UNCHANGED <<leios, leiosOvertaken>>
      PROVE  IInv'
  <2>1. s \notin LeiosSenders /\ \A i \in DOMAIN leios : leios[i] # s
    BY <1>5, SenderClasses DEF TypeOK
  <2>2. Queued(praos)' /\ s \notin granted /\ praos' \in Seq(PraosSenders)
        /\ (praos' = <<>> => n = 1)
    BY <1>2, <1>5, SenderClasses DEF TypeOK, Placement, Queued
  <2>3. Queued(leios)'
    BY SMTT(30), <1>3, <1>5, <2>1, SenderClasses DEF TypeOK, Placement, Queued
  <2>4. TypeOK' /\ Placement'
    BY SMTT(30), <1>1, <1>5, <2>2, <2>3 DEF TypeOK, Placement
  <2>5. QED
    BY SMTT(30), <1>1, <1>4, <1>5, <2>2, <2>4 DEF OneOwner, Counters, TypeOK
<1>6. ASSUME NEW n \in DOMAIN leios, leios[n] = s, leios' = RemoveAt(leios, n),
             leiosOvertaken' = (IF n = 1 THEN 0 ELSE leiosOvertaken),
             UNCHANGED <<praos, praosOvertaken>>
      PROVE  IInv'
  <2>1. s \notin PraosSenders /\ \A i \in DOMAIN praos : praos[i] # s
    BY <1>6, SenderClasses DEF TypeOK
  <2>2. Queued(leios)' /\ s \notin granted /\ leios' \in Seq(LeiosSenders)
        /\ (leios' = <<>> => n = 1)
    BY SMTT(30), <1>2, <1>6, SenderClasses DEF TypeOK, Placement, Queued
  <2>3. Queued(praos)'
    BY SMTT(30), <1>3, <1>6, <2>1, SenderClasses DEF TypeOK, Placement, Queued
  <2>4. TypeOK' /\ Placement'
    BY SMTT(30), <1>1, <1>6, <2>2, <2>3 DEF TypeOK, Placement
  <2>5. QED
    BY SMTT(30), <1>1, <1>4, <1>6, <2>2, <2>4 DEF OneOwner, Counters, TypeOK
<1>7. QED
  BY <1>5, <1>6, Zenon DEF Withdraw

(***************************************************************************)
(* The one owner s of the turn releases it and leaves: the turn is free,   *)
(* or the first waiter of a class owns it.                                 *)
(***************************************************************************)
LEMMA ReleaseStep ==
    ASSUME IInv, NEW s \in Senders, pc[s] \in {"check", "write", "handOn"},
           pc' = [pc EXCEPT ![s] = "idle"], release, UNCHANGED stopped
    PROVE  IInv'
<1> USE DEF IInv
<1>1. /\ Holders = {s}
      /\ granted = {}
      /\ busy
      /\ pc \in [Senders -> {"idle", "acquire", "wait", "check", "write", "cancel", "handOn"}]
  <2>1. s \in Holders
    BY Zenon DEF Holders
  <2>2. Holders = {s} /\ busy
    BY <2>1, Zenon DEF OneOwner
  <2>3. granted = {}
    BY <2>2, Zenon DEF Holders, Placement
  <2>4. QED
    BY <2>2, <2>3, ZenonT(40) DEF TypeOK
<1>2. {t \in Senders : pc'[t] \in {"check", "write", "handOn"}} = {}
  BY <1>1, Zenon DEF Holders
<1>3. ASSUME NEW S, S \subseteq Senders, NEW q \in Seq(S), Queued(q), NEW i \in DOMAIN q
      PROVE  pc'[q[i]] \in {"wait", "cancel"}
  BY <1>1, <1>3 DEF Queued
<1>4. CASE FreeTurn
  <2>1. granted' = {} /\ praos' = <<>> /\ leios' = <<>> /\ busy' = FALSE
    BY <1>1, <1>4, Zenon DEF FreeTurn
  <2>2. Holders' = {}
    BY <1>2, <2>1, Zenon DEF Holders
  <2>3. OneOwner'
    BY <2>1, <2>2, ZenonT(40) DEF OneOwner
  <2>4. TypeOK' /\ Placement'
    <3>1. TypeOK'
      BY ZenonT(40), <1>1, <1>4 DEF FreeTurn, history, TypeOK
    <3>2. Placement'
      BY <2>1 DEF Placement, Queued
    <3>3. QED
      BY <3>1, <3>2, ZenonT(40)
  <2>5. Counters'
    BY <1>4, EgressAssumption DEF FreeTurn, history, TypeOK, Counters
  <2>6. QED
    BY <2>3, <2>4, <2>5, Zenon
<1>5. CASE GrantLeios
  <2> DEFINE w == Head(leios)
  <2>1. leios # <<>> /\ leios \in Seq(LeiosSenders) /\ praos \in Seq(PraosSenders)
    BY <1>5, Zenon DEF GrantLeios, LeiosIsNext, TypeOK
  <2>2. /\ Tail(leios) \in Seq(LeiosSenders)
        /\ w \in LeiosSenders /\ w = leios[1] /\ 1 \in DOMAIN leios
        /\ \A i \in DOMAIN Tail(leios) :
              i + 1 \in DOMAIN leios /\ i + 1 # 1 /\ Tail(leios)[i] = leios[i + 1]
    BY <2>1, TailFacts, Zenon
  <2> HIDE DEF w
  <2>3. /\ granted' = {w} /\ leios' = Tail(leios) /\ praos' = praos
        /\ busy' = busy /\ praosRun' = 0 /\ leiosOvertaken' = 0
        /\ praosOvertaken' = IF praos = <<>> THEN 0 ELSE praosOvertaken + 1
    BY <1>1, <1>5, ZenonT(40) DEF GrantLeios, w
  <2>4. pc'[w] \in {"wait", "cancel"}
    BY SMTT(30), <1>3, <2>1, <2>2, SenderClasses DEF Placement
  <2>5. Queued(praos)'
    <3>1. \A i \in DOMAIN praos : praos[i] # w /\ pc'[praos[i]] \in {"wait", "cancel"}
      BY SMTT(30), <1>3, <2>1, <2>2, SenderClasses DEF Placement
    <3>2. QED
      BY <2>3, <3>1, ZenonT(40) DEF Placement, Queued
  <2>6. Queued(leios)'
    <3>1. \A i \in DOMAIN leios : pc'[leios[i]] \in {"wait", "cancel"}
      BY <1>3, <2>1, SenderClasses, ZenonT(40) DEF Placement
    <3>2. \A i, j \in DOMAIN Tail(leios) : Tail(leios)[i] = Tail(leios)[j] => i = j
      <4>1. DOMAIN Tail(leios) \subseteq Int
        BY <2>1
      <4>2. QED
        BY <4>1, <2>2 DEF Placement, Queued
    <3>3. \A i \in DOMAIN Tail(leios) :
             Tail(leios)[i] # w /\ pc'[Tail(leios)[i]] \in {"wait", "cancel"}
      BY <2>2, <3>1, ZenonT(40) DEF Placement, Queued
    <3>4. QED
      BY <2>3, <3>2, <3>3, ZenonT(40) DEF Queued
  <2>7. Placement'
    BY SMTT(30), <2>3, <2>4, <2>5, <2>6 DEF Placement
  <2>8. Holders' = {w}
    BY <1>2, <2>3, ZenonT(40) DEF Holders
  <2>9. OneOwner'
    BY SMTT(30), <1>1, <2>3, <2>8 DEF OneOwner
  <2>10. TypeOK'
    BY SMTT(30), <1>1, <2>2, <2>3, SenderClasses DEF TypeOK
  <2>11. Counters'
    BY SMTT(30), <1>5, <2>3, EgressAssumption DEF GrantLeios, LeiosIsNext, Counters, TypeOK
  <2>12. QED
    BY <2>7, <2>9, <2>10, <2>11, Zenon
<1>6. CASE GrantPraos
  <2> DEFINE w == Head(praos)
  <2>1. praos # <<>> /\ leios \in Seq(LeiosSenders) /\ praos \in Seq(PraosSenders)
    BY <1>6, Zenon DEF GrantPraos, TypeOK
  <2>2. /\ Tail(praos) \in Seq(PraosSenders)
        /\ w \in PraosSenders /\ w = praos[1] /\ 1 \in DOMAIN praos
        /\ \A i \in DOMAIN Tail(praos) :
              i + 1 \in DOMAIN praos /\ i + 1 # 1 /\ Tail(praos)[i] = praos[i + 1]
    BY <2>1, TailFacts, ZenonT(40)
  <2> HIDE DEF w
  <2>3. /\ granted' = {w} /\ praos' = Tail(praos) /\ leios' = leios /\ busy' = busy
        /\ praosRun' = IF leios = <<>> THEN praosRun ELSE praosRun + 1
        /\ leiosOvertaken' = IF leios = <<>> THEN 0 ELSE leiosOvertaken + 1
        /\ praosOvertaken' = 0
    BY <1>1, <1>6, ZenonT(40) DEF GrantPraos, w
  <2>4. pc'[w] \in {"wait", "cancel"}
    BY SMTT(30), <1>3, <2>1, <2>2, SenderClasses DEF Placement
  <2>5. Queued(leios)'
    <3>1. \A i \in DOMAIN leios : leios[i] # w /\ pc'[leios[i]] \in {"wait", "cancel"}
      BY SMTT(30), <1>3, <2>1, <2>2, SenderClasses DEF Placement
    <3>2. QED
      BY <2>3, <3>1, ZenonT(40) DEF Placement, Queued
  <2>6. Queued(praos)'
    <3>1. \A i \in DOMAIN praos : pc'[praos[i]] \in {"wait", "cancel"}
      BY <1>3, <2>1, SenderClasses, ZenonT(40) DEF Placement
    <3>2. \A i, j \in DOMAIN Tail(praos) : Tail(praos)[i] = Tail(praos)[j] => i = j
      <4>1. DOMAIN Tail(praos) \subseteq Int
        BY <2>1
      <4>2. QED
        BY <4>1, <2>2 DEF Placement, Queued
    <3>3. \A i \in DOMAIN Tail(praos) :
             Tail(praos)[i] # w /\ pc'[Tail(praos)[i]] \in {"wait", "cancel"}
      BY <2>2, <3>1, ZenonT(40) DEF Placement, Queued
    <3>4. QED
      BY <2>3, <3>2, <3>3, ZenonT(40) DEF Queued
  <2>7. Placement'
    BY <2>3, <2>4, <2>5, <2>6, ZenonT(40) DEF Placement
  <2>8. Holders' = {w}
    BY <1>2, <2>3, ZenonT(40) DEF Holders
  <2>9. OneOwner'
    BY <1>1, <2>3, <2>8, ZenonT(40) DEF OneOwner
  <2>10. TypeOK'
    BY SMTT(30), <1>1, <2>2, <2>3, SenderClasses DEF TypeOK
  <2>11. Counters'
    BY <1>6, <2>3, EgressAssumption DEF GrantPraos, LeiosIsNext, Counters, TypeOK
  <2>12. QED
    BY <2>7, <2>9, <2>10, <2>11, Zenon
<1>7. QED
  BY <1>4, <1>5, <1>6, ZenonT(40) DEF release

-----------------------------------------------------------------------------

\* And every step keeps it.
LEMMA NextIInv == IInv /\ [Next]_vars => IInv'
<1> SUFFICES ASSUME IInv, [Next]_vars PROVE IInv'
  BY Zenon
<1>1. ASSUME NEW s \in Senders, Send(s) \/ Step(s) PROVE IInv'
  <2>1. CASE CheckDone(s) \/ HandOn(s) \/ WriteDone(s)
    <3>1. /\ pc[s] \in {"check", "write", "handOn"}
          /\ pc' = [pc EXCEPT ![s] = "idle"]
          /\ release
          /\ UNCHANGED stopped
      BY <2>1, Zenon DEF CheckDone, HandOn, WriteDone, Goto
    <3>2. QED
      BY ZenonT(40), <3>1, ReleaseStep
  <2>2. CASE QueueUp(s)
    BY <2>2, QueueUpStep, ZenonT(40)
  <2>3. CASE Withdraw(s)
    BY <2>3, WithdrawStep, ZenonT(40)
  <2>4. QED
    BY SMTT(30), <1>1, <2>1, <2>2, <2>3, LocalSteps DEF Step
<1>2. CASE Stop
  BY <1>2 DEF Stop, turn, history, IInv, TypeOK, Placement, Queued, OneOwner, Holders, Counters
<1>3. CASE UNCHANGED vars
  BY <1>3 DEF vars, IInv, TypeOK, Placement, Queued, OneOwner, Holders, Counters
<1>4. QED
  BY <1>1, <1>2, <1>3, Zenon DEF Next

\* IInv is an inductive invariant of the scheduler.
LEMMA Invariance == Spec => []IInv
  BY InitIInv, NextIInv, PTL DEF Spec

\* Every variable of the scheduler keeps its type.
THEOREM EgressTypeOK == Spec => []TypeOK
<1>1. IInv => TypeOK
  BY ZenonT(40) DEF IInv
<1>2. QED
  BY <1>1, Invariance, PTL

(***************************************************************************)
(* The turn to write has exactly one owner whenever egress.busy is set,    *)
(* for any number of senders, through any shutdown: no two segments        *)
(* interleave on the wire, and acquire, remove and release never leave the *)
(* turn busy with nobody to release it.                                    *)
(***************************************************************************)
THEOREM EgressTurnHasOneOwner == Spec => []TurnHasOneOwner
<1>1. IInv => TurnHasOneOwner
  <2>1. praos = <<>> /\ leios = <<>> => Waiting = {}
    BY DEF Waiting, Range
  <2>2. QED
    BY <2>1, Zenon DEF IInv, OneOwner, TurnHasOneOwner
<1>2. QED
  BY <1>1, Invariance, PTL

(***************************************************************************)
(* For every burst, at most praosBurst Praos segments go before the first  *)
(* waiting Leios segment.                                                  *)
(***************************************************************************)
THEOREM EgressLeiosBoundedWait == Spec => []LeiosBoundedWait
<1>1. IInv => LeiosBoundedWait
  BY EgressAssumption DEF IInv, TypeOK, Counters, LeiosBoundedWait
<1>2. QED
  BY <1>1, Invariance, PTL

(***************************************************************************)
(* The first waiting Praos segment is overtaken by at most one Leios       *)
(* segment.                                                                *)
(***************************************************************************)
THEOREM EgressPraosBoundedWait == Spec => []PraosBoundedWait
<1>1. IInv => PraosBoundedWait
  BY Zenon DEF IInv, Counters, PraosBoundedWait
<1>2. QED
  BY <1>1, Invariance, PTL

(***************************************************************************)
(* Together: the weights of grantNext bound the wait of both classes.      *)
(***************************************************************************)
THEOREM EgressBoundedWait == Spec => []BoundedWait
<1>1. LeiosBoundedWait /\ PraosBoundedWait => BoundedWait
  BY Zenon DEF BoundedWait
<1>2. QED
  BY <1>1, EgressLeiosBoundedWait, EgressPraosBoundedWait, PTL

=============================================================================
