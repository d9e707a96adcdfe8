---------------------------- MODULE MCHandshake -----------------------------
(* Instances of Handshake for TLC. *)
EXTENDS Handshake

\* Releases that differ in the layouts they know, and other modes.
VersionSets ==
    {{10}, {10, 11}, {10, 12, 13}, {12, 13, 16}, {15, 16}, {NtC(14), NtC(15)},
     {NtC(14)}, {DMQNtC(1)}}

\* Peras is switched on only beside versions close to the one that carries it.
ConfigsWith(sets, magics, queries, garbled, empty) ==
    {c \in {[versions |-> vs, magic |-> m, fullDuplex |-> d, peerSharing |-> p, query |-> q,
             peras |-> s, garbled |-> vs \cap garbled, empty |-> vs \cap empty] :
               vs \in sets, m \in magics, d \in BOOLEAN, p \in BOOLEAN, q \in queries,
               s \in BOOLEAN} :
        c.peras => c.versions \cap 13..16 # {}}

AnyClients ==
    ConfigsWith(VersionSets, {1}, BOOLEAN, {}, {})
        \cup ConfigsWith({{10}, {12, 13, 16}}, {2}, BOOLEAN, {}, {})
        \cup ConfigsWith({{10, 12, 13}, {12, 13, 16}}, {1}, BOOLEAN, {13}, {})
AnyServers ==
    ConfigsWith(VersionSets, {1}, {FALSE}, {}, {})
        \cup ConfigsWith({{12, 13, 16}}, {1}, {FALSE}, {16}, {13})

=============================================================================
