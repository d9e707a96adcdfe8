----------------------------- MODULE MCProtocol -----------------------------
(***************************************************************************)
(* Conversations for the engine: chain-sync with pipelined requests, an    *)
(* answer that takes two messages and an end that waits for its turn;      *)
(* block-fetch, whose answers are batches; a server of another             *)
(* implementation that answers out of turn; and peers that are stopped,    *)
(* time out, exceed a limit or lose their muxer.                           *)
(***************************************************************************)
EXTENDS Protocol, MiniProtocols

ChainSyncAnswers ==
    [RequestNext |-> {<<"RollForward">>, <<"AwaitReply", "RollForward">>},
     FindIntersect |-> {<<"IntersectFound">>},
     Done |-> {<<>>}]

Promptly == [ChainSyncAnswers EXCEPT !.RequestNext = {<<"RollForward">>}]
Slowly == [ChainSyncAnswers EXCEPT !.RequestNext = {<<"AwaitReply", "RollForward">>}]

Talk(script, responses) ==
    [map |-> ChainSyncMap, init |-> "Idle", script |-> script, responses |-> responses,
     sendLimit |-> 0, strays |-> {}, ending |-> {}]

BlockFetch ==
    [map |-> BlockFetchMap(TRUE), init |-> "Idle",
     script |-> <<"RequestRange", "RequestRange">>,
     responses |-> [RequestRange |-> {<<"NoBlocks">>, <<"StartBatch", "BatchDone">>},
                    ClientDone |-> {<<>>}],
     sendLimit |-> 0, strays |-> {}, ending |-> {}]

\* In the second one a flush of deferred transitions passes over a turn; the
\* last one lets a stray message arrive after the protocol has ended.
SafetyScenarios ==
    [intersect |-> Talk(<<"FindIntersect", "RequestNext">>, Slowly),
     flushing |-> Talk(<<"RequestNext", "RequestNext", "RequestNext", "Done">>, Promptly),
     batches |-> BlockFetch,
     streaming |-> [BlockFetch EXCEPT
                       !.script = <<"RequestRange", "ClientDone">>,
                       !.responses.RequestRange = {<<"StartBatch", "Block", "BatchDone">>}],
     leaving |-> [Talk(<<"RequestNext">>, Slowly) EXCEPT !.ending = {"client"}],
     stray |-> [Talk(<<"RequestNext">>, Promptly) EXCEPT
                   !.strays = {"RollForward", "IntersectFound"}],
     strayAfterDone |-> [Talk(<<"Done">>, Promptly) EXCEPT
                            !.strays = {"RollForward", "IntersectFound"}]]

LiveScenarios ==
    [pipelined |-> Talk(<<"RequestNext", "RequestNext">>, Slowly),
     ending |-> Talk(<<"RequestNext", "Done">>, Slowly),
     disturbed |-> [Talk(<<"RequestNext">>, Slowly) EXCEPT
                       !.sendLimit = 1, !.ending = {"server"}]]

=============================================================================
