------------------------------- MODULE Egress -------------------------------
(***************************************************************************)
(* The outbound scheduler of the muxer (muxer/egress.go, Muxer.Send).      *)
(*                                                                         *)
(* Every registered mini-protocol has a sender goroutine that calls Send   *)
(* for one segment after another.  Send may write to the connection only   *)
(* while it holds the turn.  The turn passes from the goroutine that       *)
(* releases it to a waiting one: Praos protocols first, each class in      *)
(* arrival order, and after PraosBurst Praos grants in a row a waiting     *)
(* Leios segment goes next.  The muxer may stop at any moment.             *)
(*                                                                         *)
(* A waiter is the channel acquire makes for itself; it is named here by   *)
(* its sender, since a sender waits for one segment at a time.  Segment    *)
(* contents and metrics are left out.                                      *)
(***************************************************************************)
EXTENDS Integers, Sequences, SequencesExt, FiniteSets

CONSTANTS
    Senders,      \* the goroutines that call Muxer.Send
    LeiosSenders, \* those whose protocol is LeiosNotify, LeiosFetch or LeiosVotes
    PraosBurst    \* praosBurst

ASSUME EgressAssumption ==
    /\ LeiosSenders \subseteq Senders
    /\ PraosBurst \in Nat \ {0}

VARIABLES
    busy,      \* egress.busy
    praos,     \* egress.praos, the waiting Praos segments
    leios,     \* egress.leios, the waiting Leios segments
    praosRun,  \* egress.praosRun
    granted,   \* the waiters whose channel is closed and not yet received from
    stopped,   \* Muxer.doneChan is closed
    pc,        \* where each sender is in Send and acquire
    leiosOvertaken, \* history: Praos grants since the head of leios became head
    praosOvertaken  \* history: Leios grants since the head of praos became head

vars == <<busy, praos, leios, praosRun, granted, stopped, pc,
          leiosOvertaken, praosOvertaken>>

history == <<leiosOvertaken, praosOvertaken>>

turn == <<busy, praos, leios, praosRun, granted, history>>

PraosSenders == Senders \ LeiosSenders

Init ==
    /\ busy = FALSE
    /\ praos = <<>>
    /\ leios = <<>>
    /\ praosRun = 0
    /\ granted = {}
    /\ stopped = FALSE
    /\ pc = [s \in Senders |-> "idle"]
    /\ leiosOvertaken = 0
    /\ praosOvertaken = 0

Goto(s, from, to) ==
    /\ pc[s] = from
    /\ pc' = [pc EXCEPT ![s] = to]

-----------------------------------------------------------------------------
(***************************************************************************)
(* release: the turn goes to the next waiter, whose channel is closed, or  *)
(* is freed.  It is one step, because release holds mu from its first line *)
(* to its last.                                                            *)
(***************************************************************************)
FreeTurn ==
    /\ praos = <<>>
    /\ leios = <<>>
    /\ busy' = FALSE
    /\ praosRun' = 0
    /\ UNCHANGED <<praos, leios, granted, history>>

BugBurstOffByOne == leios # <<>> /\ (praos = <<>> \/ praosRun > PraosBurst)

LeiosIsNext == leios # <<>> /\ (praos = <<>> \/ praosRun >= PraosBurst)

BugRunNotReset ==
    /\ LeiosIsNext
    /\ granted' = granted \cup {Head(leios)}
    /\ leios' = Tail(leios)
    /\ leiosOvertaken' = 0
    /\ praosOvertaken' = IF praos = <<>> THEN 0 ELSE praosOvertaken + 1
    /\ UNCHANGED <<busy, praos, praosRun>>

GrantLeios ==
    /\ LeiosIsNext
    /\ granted' = granted \cup {Head(leios)}
    /\ leios' = Tail(leios)
    /\ praosRun' = 0
    /\ leiosOvertaken' = 0
    /\ praosOvertaken' = IF praos = <<>> THEN 0 ELSE praosOvertaken + 1
    /\ UNCHANGED <<busy, praos>>

BugNotSignalled ==
    /\ praos # <<>>
    /\ ~LeiosIsNext
    /\ praos' = Tail(praos)
    /\ praosRun' = IF leios = <<>> THEN praosRun ELSE praosRun + 1
    /\ leiosOvertaken' = IF leios = <<>> THEN 0 ELSE leiosOvertaken + 1
    /\ praosOvertaken' = 0
    /\ UNCHANGED <<busy, leios, granted>>

GrantPraos ==
    /\ praos # <<>>
    /\ ~LeiosIsNext
    /\ granted' = granted \cup {Head(praos)}
    /\ praos' = Tail(praos)
    /\ praosRun' = IF leios = <<>> THEN praosRun ELSE praosRun + 1
    /\ leiosOvertaken' = IF leios = <<>> THEN 0 ELSE leiosOvertaken + 1
    /\ praosOvertaken' = 0
    /\ UNCHANGED <<busy, leios>>

release == FreeTurn \/ GrantLeios \/ GrantPraos

-----------------------------------------------------------------------------
(***************************************************************************)
(* Send, up to the call of acquire: a stopped muxer takes no segment.      *)
(***************************************************************************)
Send(s) ==
    /\ ~stopped
    /\ Goto(s, "idle", "acquire")
    /\ UNCHANGED <<turn, stopped>>

(***************************************************************************)
(* The first critical section of acquire: take a free turn, or queue up in *)
(* the queue of the segment's class.                                       *)
(***************************************************************************)
TakeFreeTurn(s) ==
    /\ ~busy
    /\ busy' = TRUE
    /\ Goto(s, "acquire", "check")
    /\ UNCHANGED <<praos, leios, praosRun, granted, stopped, history>>

QueueUp(s) ==
    /\ busy
    /\ IF s \in LeiosSenders
       THEN leios' = Append(leios, s) /\ UNCHANGED praos
       ELSE praos' = Append(praos, s) /\ UNCHANGED leios
    /\ Goto(s, "acquire", "wait")
    /\ UNCHANGED <<busy, praosRun, granted, stopped, history>>

(***************************************************************************)
(* The select of acquire: when the turn is granted and the muxer stops at  *)
(* the same time, either branch may be taken.                              *)
(***************************************************************************)
WaitGranted(s) ==
    /\ s \in granted
    /\ granted' = granted \ {s}
    /\ Goto(s, "wait", "check")
    /\ UNCHANGED <<busy, praos, leios, praosRun, stopped, history>>

WaitDone(s) ==
    /\ stopped
    /\ Goto(s, "wait", "cancel")
    /\ UNCHANGED <<turn, stopped>>

(***************************************************************************)
(* With the turn in hand acquire looks at doneChan once more: it gives the *)
(* turn back to a stopped muxer, and else returns it to Send.              *)
(***************************************************************************)
CheckLive(s) ==
    /\ ~stopped
    /\ Goto(s, "check", "write")
    /\ UNCHANGED <<turn, stopped>>

CheckDone(s) ==
    /\ stopped
    /\ Goto(s, "check", "idle")
    /\ release
    /\ UNCHANGED stopped

(***************************************************************************)
(* The critical section of a cancelled waiter: it leaves its queue, or     *)
(* finds that it was granted the turn as the muxer stopped, receives from  *)
(* its channel and hands the turn on.                                      *)
(***************************************************************************)
Withdraw(s) ==
    /\ \/ \E i \in DOMAIN praos :
             /\ praos[i] = s
             /\ praos' = RemoveAt(praos, i)
             /\ praosOvertaken' = IF i = 1 THEN 0 ELSE praosOvertaken
             /\ UNCHANGED <<leios, leiosOvertaken>>
       \/ \E i \in DOMAIN leios :
             /\ leios[i] = s
             /\ leios' = RemoveAt(leios, i)
             /\ leiosOvertaken' = IF i = 1 THEN 0 ELSE leiosOvertaken
             /\ UNCHANGED <<praos, praosOvertaken>>
    /\ Goto(s, "cancel", "idle")
    /\ UNCHANGED <<busy, praosRun, granted, stopped>>

TurnDecided(s) ==
    /\ s \notin Range(praos) \cup Range(leios)
    /\ s \in granted
    /\ granted' = granted \ {s}
    /\ Goto(s, "cancel", "handOn")
    /\ UNCHANGED <<busy, praos, leios, praosRun, stopped, history>>

BugTurnDropped(s) ==
    /\ Goto(s, "handOn", "idle")
    /\ UNCHANGED <<turn, stopped>>

HandOn(s) ==
    /\ Goto(s, "handOn", "idle")
    /\ release
    /\ UNCHANGED stopped

(***************************************************************************)
(* The write has returned, with success, an error or at its deadline, and  *)
(* the deferred release runs.                                              *)
(***************************************************************************)
WriteDone(s) ==
    /\ Goto(s, "write", "idle")
    /\ release
    /\ UNCHANGED stopped

\* Muxer.Stop closes doneChan, once.
Stop ==
    /\ ~stopped
    /\ stopped' = TRUE
    /\ UNCHANGED <<turn, pc>>

\* What a sender does once it is inside Send.
Step(s) ==
    \/ TakeFreeTurn(s)
    \/ QueueUp(s)
    \/ WaitGranted(s)
    \/ WaitDone(s)
    \/ CheckLive(s)
    \/ CheckDone(s)
    \/ Withdraw(s)
    \/ TurnDecided(s)
    \/ HandOn(s)
    \/ WriteDone(s)

Next ==
    \/ \E s \in Senders : Send(s) \/ Step(s)
    \/ Stop

Spec == Init /\ [][Next]_vars

(***************************************************************************)
(* A goroutine that can take a step takes it: the scheduler runs it, and   *)
(* the write deadline (segmentWriteTimeout) bounds a write.  Nothing       *)
(* obliges a protocol to send or the muxer to stop.                        *)
(***************************************************************************)
Fairness == \A s \in Senders : WF_vars(Step(s))

FairSpec == Spec /\ Fairness

-----------------------------------------------------------------------------
(* Properties *)

\* The goroutines that own the turn: granted it, or past the wait for it.
Holders == granted \cup {s \in Senders : pc[s] \in {"check", "write", "handOn"}}

Waiting == Range(praos) \cup Range(leios)

\* The type of every variable of the scheduler.
TypeOK ==
    /\ busy \in BOOLEAN
    /\ praos \in Seq(PraosSenders)
    /\ leios \in Seq(LeiosSenders)
    /\ praosRun \in Nat
    /\ granted \subseteq Senders
    /\ stopped \in BOOLEAN
    /\ pc \in [Senders -> {"idle", "acquire", "wait", "check", "write",
                           "cancel", "handOn"}]
    /\ leiosOvertaken \in Nat
    /\ praosOvertaken \in Nat

(***************************************************************************)
(* Two segments are never on the wire at once, and the turn is never lost: *)
(* whenever egress.busy is set exactly one goroutine owns the turn, also   *)
(* while the muxer stops and waiters that were just granted it give up;    *)
(* nobody waits for a turn that is free.                                   *)
(***************************************************************************)
TurnHasOneOwner ==
    /\ \A s, t \in Holders : s = t
    /\ busy <=> Holders # {}
    /\ ~busy => Waiting = {}

(***************************************************************************)
(* Leios is not starved: at most praosBurst Praos segments go before the   *)
(* first waiting Leios segment (the comment on praosBurst).                *)
(***************************************************************************)
LeiosBoundedWait == leiosOvertaken <= PraosBurst

(***************************************************************************)
(* The price of it: the first waiting Praos segment waits for at most one  *)
(* Leios write beyond the write in progress.                               *)
(***************************************************************************)
PraosBoundedWait == praosOvertaken <= 1

(***************************************************************************)
(* Every segment that waits for the turn is written, unless the muxer      *)
(* stops.                                                                  *)
(***************************************************************************)
EveryWaiterServed ==
    \A s \in Senders : pc[s] = "wait" ~> (pc[s] = "write" \/ stopped)

(***************************************************************************)
(* When the muxer stops, every sender leaves Send for good, so the wait    *)
(* group of the muxer can finish, and the turn ends up free.               *)
(***************************************************************************)
StopReleasesSenders ==
    stopped ~> [](~busy /\ \A s \in Senders : pc[s] = "idle")

(***************************************************************************)
(* The weights of the two classes, from both sides (grantNext).            *)
(***************************************************************************)
BoundedWait == LeiosBoundedWait /\ PraosBoundedWait

(***************************************************************************)
(* Nobody stays in acquire: its turn comes, or the stop of the muxer lets  *)
(* it go and leaves the turn free.                                         *)
(***************************************************************************)
EveryWaiterLeaves == EveryWaiterServed /\ StopReleasesSenders

=============================================================================
