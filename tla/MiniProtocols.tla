--------------------------- MODULE MiniProtocols ----------------------------
(***************************************************************************)
(* The state machines of the mini-protocols: the StateMap each of them     *)
(* gives to the engine of module Protocol.                                 *)
(***************************************************************************)
EXTENDS Sequences

\* A StateMapEntry with nothing pipelined.
Entry(agency, next) == [agency |-> agency, next |-> next, allow |-> FALSE, types |-> {}]

\* One where the other role's messages of these types may arrive early, and
\* may be sent early if allow is set.
PipelinedEntry(agency, next, allow, types) ==
    [agency |-> agency, next |-> next, allow |-> allow, types |-> types]

Final == Entry("none", <<>>)

BugChainSyncMap ==
    [Idle |-> Entry("client", [RequestNext |-> "CanAwait",
                               FindIntersect |-> "Intersect", Done |-> "Done"]),
     CanAwait |-> PipelinedEntry("server",
                      [AwaitReply |-> "MustReply", RollForward |-> "Idle",
                       RollBackward |-> "Idle"], TRUE, {"RequestNext"}),
     MustReply |-> Entry("server", [RollForward |-> "Idle", RollBackward |-> "Idle"]),
     Intersect |-> Entry("server", [IntersectFound |-> "Idle",
                                    IntersectNotFound |-> "Idle"]),
     Done |-> Final]

ChainSyncMap ==
    [Idle |-> Entry("client", [RequestNext |-> "CanAwait",
                               FindIntersect |-> "Intersect", Done |-> "Done"]),
     CanAwait |-> PipelinedEntry("server",
                      [AwaitReply |-> "MustReply", RollForward |-> "Idle",
                       RollBackward |-> "Idle"], TRUE, {"RequestNext"}),
     MustReply |-> PipelinedEntry("server",
                      [RollForward |-> "Idle", RollBackward |-> "Idle"],
                      FALSE, {"RequestNext"}),
     Intersect |-> Entry("server", [IntersectFound |-> "Idle",
                                    IntersectNotFound |-> "Idle"]),
     Done |-> Final]

\* With RequestPipelining, which sets AllowPipelinedSend.
BlockFetchMap(pipelining) ==
    [Idle |-> Entry("client", [RequestRange |-> "Busy", ClientDone |-> "Done"]),
     Busy |-> PipelinedEntry("server", [StartBatch |-> "Streaming", NoBlocks |-> "Idle"],
                             pipelining, {"RequestRange"}),
     Streaming |-> PipelinedEntry("server", [Block |-> "Streaming", BatchDone |-> "Idle"],
                                  pipelining, {"RequestRange"}),
     Done |-> Final]

LeiosFetchMap ==
    LET fetches == {"BlockRequest", "BlockTxsRequest"}
    IN  [Idle |-> Entry("client", [BlockRequest |-> "Block", BlockTxsRequest |-> "BlockTxs",
                                   VotesRequest |-> "Votes",
                                   BlockRangeRequest |-> "BlockRange", Done |-> "Done"]),
         Block |-> PipelinedEntry("server", [Block |-> "Idle"], FALSE, fetches),
         BlockTxs |-> PipelinedEntry("server", [BlockTxs |-> "Idle"], FALSE, fetches),
         Votes |-> Entry("server", [Votes |-> "Idle"]),
         BlockRange |-> Entry("server", [NextBlockAndTxsInRange |-> "BlockRange",
                                         LastBlockAndTxsInRange |-> "Idle"]),
         Done |-> Final]

LeiosNotifyMap ==
    [Idle |-> Entry("client", [RequestNext |-> "Busy", Quit |-> "Quit"]),
     Busy |-> PipelinedEntry("server",
                  [BlockAnnouncement |-> "Idle", BlockOffer |-> "Idle",
                   BlockTxsOffer |-> "Idle", VotesOffer |-> "Idle", Canceled |-> "Idle"],
                  TRUE, {"RequestNext", "Quit"}),
     Quit |-> Entry("server", [Done |-> "Done"]),
     Done |-> Final]

\* The state context counts the votes still to come; a request is for one or
\* two of them.
LeiosVotesMap ==
    [Idle |-> Entry("client", [RequestOne |-> "Busy1", RequestTwo |-> "Busy2",
                               Done |-> "Done"]),
     Busy2 |-> Entry("server", [Vote |-> "Busy1"]),
     Busy1 |-> Entry("server", [Vote |-> "Idle"]),
     Done |-> Final]

\* The names tell blocking requests, which a MatchFunc looks at, from others;
\* PipelinedMessageTypes cannot.
TxSubmissionMap ==
    LET requests == {"RequestTxIdsBlocking", "RequestTxIdsNonblocking", "RequestTxs"}
    IN  [Init |-> Entry("client", [Init |-> "Idle"]),
         Idle |-> Entry("server", [RequestTxIdsBlocking |-> "TxIdsBlocking",
                                   RequestTxIdsNonblocking |-> "TxIdsNonblocking",
                                   RequestTxs |-> "Txs"]),
         TxIdsBlocking |-> Entry("client", [ReplyTxIds |-> "Idle", Done |-> "Done"]),
         TxIdsNonblocking |-> PipelinedEntry("client", [ReplyTxIds |-> "Idle"],
                                             FALSE, requests),
         Txs |-> PipelinedEntry("client", [ReplyTxs |-> "Idle"], FALSE, requests),
         Done |-> Final]

MessageSubmissionMapV1 ==
    [Init |-> Entry("client", [Init |-> "Idle"]),
     Idle |-> Entry("server", [RequestIdsBlocking |-> "IdsBlocking",
                               RequestIdsNonblocking |-> "IdsNonblocking",
                               RequestMessages |-> "Messages"]),
     IdsBlocking |-> Entry("client", [ReplyIds |-> "Idle", Done |-> "Done"]),
     IdsNonblocking |-> Entry("client", [ReplyIds |-> "Idle"]),
     Messages |-> Entry("client", [ReplyMessages |-> "Idle"]),
     Done |-> Final]

MessageSubmissionMapV2 ==
    [Idle |-> Entry("server", [RequestIdsBlocking |-> "IdsBlocking",
                               RequestIdsNonblocking |-> "IdsNonblocking",
                               RequestMessages |-> "Messages", Done |-> "Done"]),
     IdsBlocking |-> Entry("client", [ReplyIds |-> "Idle"]),
     IdsNonblocking |-> Entry("client", [ReplyIds |-> "Idle"]),
     Messages |-> Entry("client", [ReplyMessages |-> "Idle"]),
     Done |-> Final]

LocalStateQueryMap ==
    [Idle |-> Entry("client", [Acquire |-> "Acquiring", AcquireVolatileTip |-> "Acquiring",
                               AcquireImmutableTip |-> "Acquiring", Done |-> "Done"]),
     Acquiring |-> Entry("server", [Failure |-> "Idle", Acquired |-> "Acquired"]),
     Acquired |-> Entry("client", [Query |-> "Querying", Reacquire |-> "Acquiring",
                                   ReacquireVolatileTip |-> "Acquiring",
                                   ReacquireImmutableTip |-> "Acquiring",
                                   Release |-> "Idle"]),
     Querying |-> Entry("server", [Result |-> "Acquired"]),
     Done |-> Final]

\* The state context keeps the query in flight: Busy is three states.
LocalTxMonitorMap ==
    [Idle |-> Entry("client", [Acquire |-> "Acquiring", Done |-> "Done"]),
     Acquiring |-> Entry("server", [Acquired |-> "Acquired"]),
     Acquired |-> Entry("client", [Acquire |-> "Acquiring", Release |-> "Idle",
                                   HasTx |-> "BusyHasTx", NextTx |-> "BusyNextTx",
                                   GetSizes |-> "BusyGetSizes"]),
     BusyHasTx |-> Entry("server", [ReplyHasTx |-> "Acquired"]),
     BusyNextTx |-> Entry("server", [ReplyNextTx |-> "Acquired"]),
     BusyGetSizes |-> Entry("server", [ReplyGetSizes |-> "Acquired"]),
     Done |-> Final]

LocalTxSubmissionMap ==
    [Idle |-> Entry("client", [SubmitTx |-> "Busy", Done |-> "Done"]),
     Busy |-> Entry("server", [AcceptTx |-> "Idle", RejectTx |-> "Idle"]),
     Done |-> Final]

LocalMessageSubmissionMap ==
    [Idle |-> Entry("client", [SubmitMessage |-> "Busy", Done |-> "Done"]),
     Busy |-> Entry("server", [AcceptMessage |-> "Idle", RejectMessage |-> "Idle"]),
     Done |-> Final]

LocalMessageNotificationMap ==
    [Idle |-> Entry("client", [RequestNonblocking |-> "BusyNonblocking",
                               RequestBlocking |-> "BusyBlocking", ClientDone |-> "Done"]),
     BusyNonblocking |-> Entry("server", [ReplyNonblocking |-> "Idle"]),
     BusyBlocking |-> Entry("server", [ReplyBlocking |-> "Idle"]),
     Done |-> Final]

PeerSharingMap ==
    [Idle |-> Entry("client", [ShareRequest |-> "Busy", Done |-> "Done"]),
     Busy |-> Entry("server", [SharePeers |-> "Idle"]),
     Done |-> Final]

KeepAliveMap ==
    [Client |-> Entry("client", [KeepAlive |-> "Server", Done |-> "Done"]),
     Server |-> Entry("server", [KeepAliveResponse |-> "Client"]),
     Done |-> Final]

HandshakeMap ==
    [Propose |-> Entry("client", [ProposeVersions |-> "Confirm"]),
     Confirm |-> Entry("server", [AcceptVersion |-> "Done", Refuse |-> "Done",
                                  QueryReply |-> "Done"]),
     Done |-> Final]

=============================================================================
