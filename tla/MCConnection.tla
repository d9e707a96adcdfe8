---------------------------- MODULE MCConnection ----------------------------
(* Instances of Connection for TLC. *)
EXTENDS Connection

Options ==
    [server : BOOLEAN, duplex : BOOLEAN, query : BOOLEAN, delayProtocols : BOOLEAN,
     delayMuxer : BOOLEAN, owns : BOOLEAN]

\* A server, a client, a full-duplex client and a query; the start of the
\* protocols and of the muxer is delayed or not.
NodeConfigs ==
    {c \in Options : /\ c.owns
                     /\ c.delayMuxer => c.delayProtocols
                     /\ c.query => ~c.duplex /\ ~c.server /\ ~c.delayProtocols
                     /\ c.duplex => ~c.delayProtocols
                     /\ c.server => ~c.duplex /\ ~c.delayMuxer}

\* A server whose application supplied the error channel.
SuppliedChannel ==
    {c \in Options : c.server /\ ~(c.owns \/ c.duplex \/ c.query \/ c.delayProtocols
                                   \/ c.delayMuxer)}
=============================================================================
