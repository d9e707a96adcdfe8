--------------------------- MODULE MCMiniProtocols ---------------------------
(***************************************************************************)
(* The mini-protocols, one at a time: the table of each of them, spoken by *)
(* the rules of Conversation; or calls of the chain-sync client; or calls  *)
(* of the block-fetch client.  The variables of the others stand still.    *)
(***************************************************************************)
EXTENDS MiniProtocols, ConversationConstants, Naturals, TLC

CONSTANTS u1, u2, u3

VARIABLES scenario, client, call,    \* of either client
          proto, loops, server,      \* of the chain-sync client
          insts, reqs,               \* of the block-fetch client
          spoken, view, stream, deferred, last

Table(m, i) == [map |-> m, init |-> i]

MCTables ==
    [ChainSync |-> Table(ChainSyncMap, "Idle"),
     BlockFetch |-> Table(BlockFetchMap(TRUE), "Idle"),
     LeiosFetch |-> Table(LeiosFetchMap, "Idle"),
     LeiosNotify |-> Table(LeiosNotifyMap, "Idle"),
     LeiosVotes |-> Table(LeiosVotesMap, "Idle"),
     TxSubmission |-> Table(TxSubmissionMap, "Init"),
     MessageSubmissionV1 |-> Table(MessageSubmissionMapV1, "Init"),
     MessageSubmissionV2 |-> Table(MessageSubmissionMapV2, "Idle"),
     LocalStateQuery |-> Table(LocalStateQueryMap, "Idle"),
     LocalTxMonitor |-> Table(LocalTxMonitorMap, "Idle"),
     LocalTxSubmission |-> Table(LocalTxSubmissionMap, "Idle"),
     LocalMessageSubmission |-> Table(LocalMessageSubmissionMap, "Idle"),
     LocalMessageNotification |-> Table(LocalMessageNotificationMap, "Idle"),
     PeerSharing |-> Table(PeerSharingMap, "Idle"),
     KeepAlive |-> Table(KeepAliveMap, "Client"),
     none |-> Table([Over |-> Entry("none", <<>>)], "Over"),
     Handshake |-> Table(HandshakeMap, "Propose")]

Calls(x, y) == u1 :> x @@ u2 :> y @@ u3 :> <<>>
Do(op) == [op |-> op, len |-> 1, size |-> 0]
Get(op, len, size) == [op |-> op, len |-> len, size |-> size]
Span(size) == Get("RequestRange", 1, size)

\* Scenarios of the block-fetch client: who asks for what, and what goes wrong.
\* Start is not called while a Stop is on its way, whose delayed failOutstanding
\* would fail the new instance's requests.
FetchBase ==
    [script |-> Calls(<<>>, <<>>), maxInFlight |-> 3, maxBlocks |-> 2, pipeline |-> "none",
     expires |-> FALSE, strays |-> FALSE, refuses |-> FALSE, loses |-> FALSE, gaveUp |-> FALSE]

FetchScenarios ==
    [ranges |-> [FetchBase EXCEPT !.script = Calls(<<Do("Start"), Do("Start"), Span(2), Span(1)>>,
                                              <<Span(0), Span(4)>>),
                             !.refuses = TRUE],
     contexts |-> [FetchBase EXCEPT !.script = Calls(<<Do("Start"), Span(2), Span(1)>>,
                                                <<Span(0), Do("Stop")>>),
                               !.gaveUp = TRUE],
     single |-> [FetchBase EXCEPT !.script = Calls(<<Do("Start"), Get("GetBlock", 1, 0), Get("GetBlockRange", 2, 0)>>,
                                              <<Get("GetBlock", 1, 0), Do("Stop"), Do("Stop")>>),
                             !.loses = TRUE, !.refuses = TRUE],
     deadline |-> [FetchBase EXCEPT !.script = Calls(<<Do("Start"), Get("RequestRange", 2, 1)>>,
                                                <<Span(1)>>),
                               !.expires = TRUE, !.strays = TRUE],
     restart |-> [FetchBase EXCEPT !.script = Calls(<<Do("Start"), Span(1), Do("Stop"), Do("Start"), Span(1)>>,
                                               <<Span(1)>>)],
     early |-> [FetchBase EXCEPT !.script = Calls(<<Do("Start")>>, <<Do("Stop")>>)],
     piped |-> [FetchBase EXCEPT !.script = Calls(<<Do("Start"), Get("RequestRange", 2, 1), Do("Stop")>>,
                                             <<Span(1)>>),
                            !.pipeline = "drains", !.expires = TRUE],
     stuck |-> [FetchBase EXCEPT !.script = Calls(<<Do("Start"), Get("GetBlockRange", 1, 1), Do("Stop")>>,
                                             <<Span(1)>>),
                            !.pipeline = "stuck", !.loses = TRUE, !.expires = TRUE]]

Three(x, y, z) == u1 :> x @@ u2 :> y @@ u3 :> z

\* Scenarios of the chain-sync client: who calls what, and how the peer behaves.
\* Sync is not called again after a callback ended the sync, because the signals
\* of the first one would then count for the second.
CallBase ==
    [limit |-> 2, script |-> Three(<<>>, <<>>, <<>>), blocks |-> 3,
     pipeline |-> "none", awaits |-> FALSE, rollsBack |-> FALSE,
     stopsSync |-> FALSE, mayLose |-> FALSE, gaveUp |-> FALSE]

Begin == <<"Start", "Sync">>

CallScenarios ==
    [reintersect |-> [CallBase EXCEPT !.script = Three(Begin \o <<"Reintersect">>, <<"Stop">>, <<>>),
                                  !.blocks = 2, !.stopsSync = TRUE],
     quiescers |-> [CallBase EXCEPT !.script = Three(<<"Start", "Reintersect", "Reintersect">>,
                                                 <<"Reintersect">>, <<>>),
                                !.awaits = TRUE],
     restartSync |-> [CallBase EXCEPT !.script = Three(Begin \o <<"StopAfterDrain">> \o Begin,
                                               <<"Stop">>, <<"Start">>),
                              !.blocks = 2],
     tip |-> [CallBase EXCEPT !.script = Three(<<"Start", "GetCurrentTip">>, <<"GetCurrentTip">>, <<"Stop">>)],
     syncing |-> [CallBase EXCEPT !.script = Three(Begin, <<"GetCurrentTip", "Stop">>, <<>>),
                              !.blocks = 2, !.mayLose = TRUE],
     range |-> [CallBase EXCEPT !.script = Three(<<"Start", "GetAvailableBlockRange", "Sync">>,
                                             <<"Stop">>, <<>>),
                            !.blocks = 2, !.rollsBack = TRUE, !.mayLose = TRUE],
     stuckSync |-> [CallBase EXCEPT !.script = Three(Begin, <<"Stop">>, <<"StopAfterDrain">>),
                            !.pipeline = "stuck", !.awaits = TRUE, !.rollsBack = TRUE],
     fenced |-> [CallBase EXCEPT !.script = Three(Begin \o <<"Reintersect">>, <<"Stop">>, <<>>),
                             !.blocks = 2, !.pipeline = "drains", !.rollsBack = TRUE],
     wide |-> [CallBase EXCEPT !.script = Three(Begin \o <<"StopAfterDrain", "StopAfterDrain">>, <<>>, <<>>),
                           !.gaveUp = TRUE, !.limit = 3, !.blocks = 6, !.stopsSync = TRUE]]

Scenarios == CallScenarios @@ FetchScenarios
Users == {u1, u2, u3}

Sync == INSTANCE ChainSync
Fetch == INSTANCE BlockFetch
Speaking == INSTANCE Conversation

syncVars == <<scenario, client, call, proto, loops, server>>
fetchVars == <<scenario, client, call, insts, reqs>>
tableVars == <<spoken, view, stream, deferred, last>>

Syncing == scenario \in DOMAIN CallScenarios
Fetching == scenario \in DOMAIN FetchScenarios

MCInit ==
    /\ Speaking!Init
    /\ \/ /\ spoken # "none" /\ scenario = "none" /\ client = 0 /\ call = 0
          /\ proto = 0 /\ loops = <<>> /\ server = 0 /\ insts = <<>> /\ reqs = <<>>
       \/ /\ spoken = "none" /\ Syncing /\ Sync!Init /\ insts = <<>> /\ reqs = <<>>
       \/ /\ spoken = "none" /\ Fetching /\ Fetch!Init /\ proto = 0 /\ loops = <<>> /\ server = 0


MCNext ==
    \/ scenario = "none" /\ Speaking!Next /\ UNCHANGED <<syncVars, insts, reqs>>
    \/ Syncing /\ Sync!Next /\ UNCHANGED <<tableVars, insts, reqs>>
    \/ Fetching /\ Fetch!Next /\ UNCHANGED <<tableVars, proto, loops, server>>

MCSpec ==
    /\ MCInit /\ [][MCNext]_<<syncVars, fetchVars, tableVars>>
    /\ \A u \in Users :
          /\ WF_syncVars(Syncing /\ Sync!UserStep(u))
          /\ WF_syncVars(Syncing /\ Sync!WorkerStep(u))
          /\ WF_fetchVars(Fetching /\ Fetch!UserStep(u))
    /\ WF_syncVars(Syncing /\ \E i \in DOMAIN loops : Sync!LoopStep(i))
    /\ WF_syncVars(Syncing /\ Sync!RecvStep)
    /\ WF_syncVars(Syncing /\ Sync!ProtocolDone)
    /\ WF_syncVars(Syncing /\ Sync!WatcherCuts)
    /\ WF_fetchVars(Fetching /\ \E n \in DOMAIN insts : Fetch!RecvStep(n))
    /\ WF_fetchVars(Fetching /\ \E n \in DOMAIN insts : Fetch!WatchStep(n))
    /\ WF_fetchVars(Fetching /\ \E i \in DOMAIN reqs : Fetch!ReleaseOnDone(i))

\* The table of every mini-protocol lets two roles that pipeline within it agree on
\* whose turn it is, without a violation and without a stop short of its end.
SoundTable == scenario = "none" => Speaking!SoundTable

\* When quiesceSync returns nil its caller holds busyMutex, no sync loop is left
\* and no MsgRequestNext is unanswered.
QuiescedIsIdle == Syncing => Sync!QuiescedIsIdle

\* readyForNextBlockChan has room whenever the handler signals, which it does with
\* lifecycleMutex held.
SignalsFit == Syncing => Sync!SignalsFit

\* A stopped chain-sync client, which Start may give a new instance, has no trace
\* of the old one left; and it never runs two sync loops.
OneInstance == Syncing => Sync!TypeOK /\ Sync!OneInstance

\* handleBlock and its like give an answer to the request it answers.
AnswersMatch == Fetching => Fetch!AnswersMatch

\* inFlightBytes and the ingress allowances are those of the queued requests.
BytesAccounted == Fetching => Fetch!TypeOK /\ Fetch!BytesAccounted

\* The consumer of a range hears of its end once, and after its last block.
EndIsLast == Fetching => Fetch!EndIsLast

\* Once a stop of the chain-sync client has begun, every call on its way returns;
\* and nobody is left waiting for a block-fetch instance that is over.
Leaving ==
    \/ Syncing /\ client.life = "stopping"
    \/ Fetching /\ Fetch!Stranded

Released ==
    \/ Syncing /\ Sync!Released
    \/ Fetching /\ ~Fetch!Stranded

CallsReturn == Leaving ~> Released
==============================================================================
