-------------------------- MODULE MCMuxerLifecycle --------------------------
(* Instances of MuxerLifecycle for TLC. *)
EXTENDS MuxerLifecycle, TLC

CONSTANTS p, init, resp, u, u1, u2

\* One goroutine and one role that is registered twice and removed once.
Restarted ==
    [users |-> {u}, keys |-> {<<p, resp>>}, peerKeys |-> {<<p, resp>>},
     modes |-> {"both"}, queueLimit |-> 2, registers |-> 2, removals |-> 1,
     segments |-> 2, messages |-> 0, callbacks |-> 0]

\* Two goroutines restart a role while its segments arrive; both roles of a
\* protocol come and go under a segment for either; senders are stopped with
\* messages in every stage.
SafetyScenarios ==
    [restart |-> [Restarted EXCEPT !.users = {u1, u2}, !.modes = {"responder"},
                                   !.queueLimit = 1, !.segments = 3],
     routing |-> [Restarted EXCEPT !.keys = {<<p, init>>, <<p, resp>>},
                                   !.peerKeys = {<<p, init>>, <<p, resp>>},
                                   !.modes = {"responder"}, !.segments = 1],
     receipts |-> [Restarted EXCEPT !.segments = 0, !.messages = 2]]

\* A metrics callback may call back into the muxer.
LiveScenarios == [callbacks |-> [Restarted EXCEPT !.callbacks = 1]]

UserSymmetry == Permutations({u1, u2})
=============================================================================
