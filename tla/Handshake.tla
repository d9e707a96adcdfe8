----------------------------- MODULE Handshake ------------------------------
(***************************************************************************)
(* The handshake between two peers (protocol/handshake, with the version   *)
(* tables of protocol/versions.go and protocol/versiondata.go): the client *)
(* proposes its versions, each with its parameters; the server answers a   *)
(* query, refuses, or accepts the highest version both support.            *)
(*                                                                         *)
(* A version's parameters travel in the layout of that version.  A peer of *)
(* another implementation may lay them out differently; such versions are  *)
(* in its configuration's field garbled.  The connection may be lost at    *)
(* any time, with the messages under way.                                  *)
(***************************************************************************)
EXTENDS Integers, FiniteSets

CONSTANTS
    Clients,    \* the configurations a client may have
    Servers     \* the configurations a server may have

\* The version numbers of node-to-client and of DMQ node-to-client.
NtC(n) == 32768 + n
DMQNtC(n) == 4096 + n

\* The layout of a version's parameters, which NewVersionDataFromCborFunc
\* reads; "none" for a version this implementation does not know.
Layout(v) ==
    CASE v \in NtC(9)..NtC(14) -> "NtC9to14"
      [] v \in NtC(15)..NtC(23) \cup {DMQNtC(1)} -> "NtC15andUp"
      [] v \in 7..10 -> "NtN7to10"
      [] v \in 11..12 -> "NtN11to12"
      [] v \in 13..15 \cup {1, 2} -> "NtN13andUp"
      [] v = 16 -> "NtN16andUp"
      [] OTHER -> "none"

Known(v) == Layout(v) # "none"
EnablePeerSharingProtocol(v) == v \in 11..16

\* A configuration: the versions of its map, and what it says of each. The data
\* of a garbled version does not decode; an empty one has no entry to decode with
\* (a server's map with a nil value under the version).
IsConfig(c) ==
    /\ c.versions \subseteq {v \in Nat : Known(v)}
    /\ IsFiniteSet(c.versions)
    /\ c.magic \in Nat
    /\ {c.fullDuplex, c.peerSharing, c.query, c.peras} \subseteq BOOLEAN
    /\ c.garbled \subseteq c.versions
    /\ c.empty \subseteq c.versions

ASSUME HandshakeAssumption ==
    /\ \A c \in Clients : IsConfig(c) /\ c.empty = {}
    /\ \A s \in Servers : IsConfig(s) /\ ~s.query

-----------------------------------------------------------------------------
(* Version parameters: what is written, and what the other side reads *)

HasDiffusion == {"NtN7to10", "NtN11to12", "NtN13andUp", "NtN16andUp"}
HasSharing == {"NtN11to12", "NtN13andUp", "NtN16andUp"}
HasQuery == HasSharing \cup {"NtC15andUp"}

\* Mutant: the field CborInitiatorAndResponderDiffusionMode is written in the
\* sense of its name.
BugDiffusionInverted(c, v) ==
    LET layout == Layout(v) IN
    [layout |-> IF v \in c.garbled THEN "other" ELSE layout,
     magic |-> c.magic,
     initiatorOnly |-> layout \in HasDiffusion /\ c.fullDuplex,
     sharing |-> IF layout \notin HasSharing \/ ~c.peerSharing THEN 0
                 ELSE IF layout = "NtN11to12" THEN 2 ELSE 1,
     query |-> layout \in HasQuery /\ c.query,
     peras |-> layout = "NtN16andUp" /\ c.peras]

\* GetProtocolVersionMapWithPerasSupport, encoded: a parameter the layout
\* lacks is not sent.
Encode(c, v) ==
    LET layout == Layout(v) IN
    [layout |-> IF v \in c.garbled THEN "other" ELSE layout,
     magic |-> c.magic,
     initiatorOnly |-> layout \in HasDiffusion /\ ~c.fullDuplex,
     sharing |-> IF layout \notin HasSharing \/ ~c.peerSharing THEN 0
                 ELSE IF layout = "NtN11to12" THEN 2 ELSE 1,
     query |-> layout \in HasQuery /\ c.query,
     peras |-> layout = "NtN16andUp" /\ c.peras]

Decodes(v, data) == data.layout = Layout(v)

\* The accessors of the decoded parameters.
DiffusionMode(v, data) == Layout(v) \in HasDiffusion => data.initiatorOnly
PeerSharing(v, data) ==
    \/ Layout(v) = "NtN11to12" /\ data.sharing # 0
    \/ Layout(v) \in {"NtN13andUp", "NtN16andUp"} /\ data.sharing >= 1
Query(v, data) == Layout(v) \in HasQuery /\ data.query
PerasSupported(v, data) == Layout(v) = "NtN16andUp" /\ data.peras

-----------------------------------------------------------------------------
(* The server's decision *)

\* Mutant: a query is looked for in the highest proposed version only.
BugQueryInHighest(proposal) ==
    \E v \in DOMAIN proposal :
        /\ \A w \in DOMAIN proposal : w <= v
        /\ Known(v) /\ Decodes(v, proposal[v]) /\ Query(v, proposal[v])

ProposedQuery(proposal) ==
    \E v \in DOMAIN proposal :
        Known(v) /\ Decodes(v, proposal[v]) /\ Query(v, proposal[v])

Intersection(s, proposal) == DOMAIN proposal \cap s.versions
\* Mutant: the first common version found is taken.
BugLowest(versions) == CHOOSE v \in versions : \A w \in versions : v <= w

Highest(versions) == CHOOSE v \in versions : \A w \in versions : w <= v

QueryReply(s) ==
    [type |-> "queryReply", versions |-> s.versions]
VersionMismatch(s) ==
    [type |-> "versionMismatch", versions |-> s.versions]
DecodeError(v) == [type |-> "decodeError", version |-> v]
Refused(v) == [type |-> "refused", version |-> v]
AcceptVersion(s, v) ==
    [type |-> "acceptVersion", version |-> v, data |-> Encode(s, v)]

\* Mutant: the server leaves the network magic to the client.
BugMagicUnchecked(s, v, data) ==
    IF v \in s.empty \/ ~Decodes(v, data) THEN DecodeError(v) ELSE AcceptVersion(s, v)

\* Mutant: a magic mismatch is refused as a decode failure.
BugWrongReason(s, v, data) ==
    IF v \in s.empty \/ ~Decodes(v, data) \/ data.magic # s.magic
    THEN DecodeError(v) ELSE AcceptVersion(s, v)

\* The answer to the parameters proposed for the selected version.
AnswerTo(s, v, data) ==
    IF v \in s.empty \/ ~Decodes(v, data) THEN DecodeError(v)
    ELSE IF data.magic # s.magic THEN Refused(v)
    ELSE AcceptVersion(s, v)

\* What handleProposeVersions answers.
Answer(s, proposal) ==
    LET both == Intersection(s, proposal)
        selected == Highest(both)
    IN  IF ProposedQuery(proposal) THEN QueryReply(s)
        ELSE IF both = {} THEN VersionMismatch(s)
        ELSE AnswerTo(s, selected, proposal[selected])

-----------------------------------------------------------------------------
VARIABLES
    client,     \* its configuration
    server,     \* its configuration
    cState,     \* where the client is, or what its handshake came to
    sState,     \* the same of the server
    cResult,    \* version and data given to the client's FinishedFunc
    sResult,    \* the same for the server
    toServer,   \* the message under way to the server
    toClient,   \* the message under way to the client
    answer,     \* the message the server is sending
    up          \* the connection works

config == <<client, server>>
vars == <<client, server, cState, sState, cResult, sResult, toServer, toClient,
          answer, up>>

NoMessage == [type |-> "none"]
NoResult == [version |-> 0]

Init ==
    /\ client \in Clients
    /\ server \in Servers
    /\ cState = "start" /\ sState = "propose"
    /\ cResult = NoResult /\ sResult = NoResult
    /\ toServer = NoMessage /\ toClient = NoMessage /\ answer = NoMessage
    /\ up = TRUE

-----------------------------------------------------------------------------
(* The client *)

ProposeVersions(c) ==
    [type |-> "proposeVersions",
     versionMap |-> [v \in c.versions |-> Encode(c, v)]]

ClientStart ==
    /\ cState = "start"
    /\ cState' = "confirm"
    /\ toServer' = IF up THEN ProposeVersions(client) ELSE NoMessage
    /\ UNCHANGED <<config, sState, cResult, sResult, toClient, answer, up>>

\* handleAcceptVersion's checks.
Acceptable(c, m) ==
    /\ m.version \in c.versions
    /\ Known(m.version)
    /\ Decodes(m.version, m.data)
    /\ m.data.magic = c.magic

\* Mutant: the outcome is recorded before it is checked.
BugRecordFirst ==
    /\ cState = "confirm"
    /\ toClient.type = "acceptVersion"
    /\ cResult' = [version |-> toClient.version, data |-> toClient.data]
    /\ cState' = IF Acceptable(client, toClient) THEN "finished" ELSE "rejected"
    /\ toClient' = NoMessage
    /\ UNCHANGED <<config, sState, sResult, toServer, answer, up>>

ClientAccept ==
    /\ cState = "confirm"
    /\ toClient.type = "acceptVersion"
    /\ \/ /\ Acceptable(client, toClient)
          /\ cState' = "finished"
          /\ cResult' = [version |-> toClient.version, data |-> toClient.data]
       \/ /\ ~Acceptable(client, toClient)
          /\ cState' = "rejected"
          /\ UNCHANGED cResult
    /\ toClient' = NoMessage
    /\ UNCHANGED <<config, sState, sResult, toServer, answer, up>>

\* handleRefuse returns an error for each reason.
ClientRefused ==
    /\ cState = "confirm"
    /\ toClient.type \in {"versionMismatch", "decodeError", "refused"}
    /\ cState' = toClient.type
    /\ toClient' = NoMessage
    /\ UNCHANGED <<config, sState, cResult, sResult, toServer, answer, up>>

\* handleQueryReply, for a client that asked.
AskedQuery(c) == \E v \in c.versions : Query(v, Encode(c, v))

ClientQueryReply ==
    /\ cState = "confirm"
    /\ toClient.type = "queryReply"
    /\ \/ AskedQuery(client) /\ cState' = "queried"
       \/ ~AskedQuery(client) /\ cState' = "rejected"
    /\ toClient' = NoMessage
    /\ UNCHANGED <<config, sState, cResult, sResult, toServer, answer, up>>

\* Mutant: the client proposes again each time, and never gives up.
BugProposesAgain ==
    /\ cState = "confirm"
    /\ toServer' = IF up THEN ProposeVersions(client) ELSE NoMessage
    /\ UNCHANGED <<config, cState, sState, cResult, sResult, toClient, answer, up>>

\* The timeout of the state Confirm, or of the connection's handshake.
ClientTimeout ==
    /\ cState = "confirm"
    /\ cState' = "failed"
    /\ UNCHANGED <<config, sState, cResult, sResult, toServer, toClient, answer, up>>

-----------------------------------------------------------------------------
(* The server *)

\* Mutant: the server takes its own highest version to be the agreed one.
BugOwnHighest ==
    /\ sState = "propose"
    /\ toServer.type = "proposeVersions"
    /\ answer' = Answer(server, toServer.versionMap)
    /\ sResult' = IF answer'.type = "acceptVersion"
                  THEN [version |-> Highest(server.versions),
                        data |-> toServer.versionMap[answer'.version]]
                  ELSE NoResult
    /\ sState' = "sending"
    /\ toServer' = NoMessage
    /\ UNCHANGED <<config, cState, cResult, toClient, up>>

\* handleProposeVersions up to SendMessageAndWait.
ServerDecide ==
    /\ sState = "propose"
    /\ toServer.type = "proposeVersions"
    /\ answer' = Answer(server, toServer.versionMap)
    /\ sResult' = IF answer'.type = "acceptVersion"
                  THEN [version |-> answer'.version,
                        data |-> toServer.versionMap[answer'.version]]
                  ELSE NoResult
    /\ sState' = "sending"
    /\ toServer' = NoMessage
    /\ UNCHANGED <<config, cState, cResult, toClient, up>>

\* The message is written, or the connection fails first.
ServerWrite ==
    /\ sState = "sending"
    /\ up
    /\ toClient' = answer
    /\ sState' = "written"
    /\ UNCHANGED <<config, cState, cResult, sResult, toServer, answer, up>>

ServerSendFails ==
    /\ sState = "sending"
    /\ ~up
    /\ sState' = "failed"
    /\ UNCHANGED <<config, cState, cResult, sResult, toServer, toClient, answer, up>>

\* FinishedFunc, or the error that ends the connection once the client has
\* its answer.
ServerReturn ==
    /\ sState = "written"
    /\ sState' = IF answer.type = "acceptVersion" THEN "finished" ELSE "refusing"
    /\ UNCHANGED <<config, cState, cResult, sResult, toServer, toClient, answer, up>>

\* The timeout of the state Propose, or of the connection's handshake.
ServerTimeout ==
    /\ sState \in {"propose", "sending"}
    /\ sState' = "failed"
    /\ UNCHANGED <<config, cState, cResult, sResult, toServer, toClient, answer, up>>

\* The connection is lost, with what is under way.
Disconnect ==
    /\ up
    /\ up' = FALSE
    /\ toServer' = NoMessage
    /\ toClient' = NoMessage
    /\ UNCHANGED <<config, cState, sState, cResult, sResult, answer>>

-----------------------------------------------------------------------------
ClientEnded ==
    cState \in {"finished", "rejected", "versionMismatch", "decodeError", "refused",
                "queried", "failed"}
ServerEnded == sState \in {"finished", "refusing", "failed"}

Program ==
    \/ ClientStart \/ ClientAccept \/ ClientRefused \/ ClientQueryReply \/ ClientTimeout
    \/ ServerDecide \/ ServerWrite \/ ServerSendFails \/ ServerReturn \/ ServerTimeout

Ended == ClientEnded /\ ServerEnded /\ UNCHANGED vars

Next == Program \/ Disconnect \/ Ended

Spec == Init /\ [][Next]_vars

\* The goroutines of both peers run and their timers fire.
FairSpec == Spec /\ WF_vars(Program)

-----------------------------------------------------------------------------
(* What a connection does with the outcome (connection.go) *)

\* setupConnection: this side runs both roles of the mini-protocols.
RunsBoth(me, result) ==
    me.fullDuplex /\ ~DiffusionMode(result.version, result.data)

\* Peer sharing is neither disabled here nor by the other side.
SharesPeers(me, result) ==
    /\ EnablePeerSharingProtocol(result.version)
    /\ me.peerSharing
    /\ PeerSharing(result.version, result.data)

RunsPeras(me, result) ==
    me.peras /\ PerasSupported(result.version, result.data)

-----------------------------------------------------------------------------
(* Properties *)

BothFinished == cState = "finished" /\ sState = "finished"

\* Type invariant; only a handshake that finished left the client a result.
TypeOK ==
    /\ client \in Clients /\ server \in Servers
    /\ ClientEnded \/ cState \in {"start", "confirm"}
    /\ ServerEnded \/ sState \in {"propose", "sending", "written"}
    /\ cState # "finished" => cResult = NoResult
    /\ up \in BOOLEAN

\* Peers that both finish have the same version and network magic: what the
\* server accepted is what the client checked.
SameAgreement ==
    BothFinished => cResult.version = sResult.version /\ client.magic = server.magic

\* The version agreed on is the highest that both support.
HighestCommonVersion ==
    cState = "finished" =>
        /\ cResult.version \in client.versions \cap server.versions
        /\ \A v \in client.versions \cap server.versions : v <= cResult.version

\* Each side runs the roles and protocols the other expects: both or neither
\* take full duplex, peer sharing and Peras to be agreed, though each decides
\* from its own configuration and the other's parameters.
SameFeatures ==
    BothFinished =>
        /\ RunsBoth(client, cResult) = RunsBoth(server, sResult)
        /\ SharesPeers(client, cResult) = SharesPeers(server, sResult)
        /\ RunsPeras(client, cResult) = RunsPeras(server, sResult)

\* A query is answered and never starts a session on the server, whatever
\* version would have been selected, unless no version could carry it.
QueryOpensNoSession ==
    (sState = "finished" /\ client.query) =>
        \A v \in client.versions \ client.garbled : Layout(v) \notin HasQuery

\* A client never turns down what a server of this implementation accepts.
AcceptanceStands ==
    cState = "rejected" => answer.version \in server.garbled

\* A refusal names its true reason.
RefusalIsTrue ==
    LET both == client.versions \cap server.versions IN
    /\ cState = "versionMismatch" => both = {}
    /\ cState = "refused" => both # {} /\ client.magic # server.magic
    /\ cState = "decodeError" => both \cap (client.garbled \cup server.empty) # {}

\* The handshake ends on both sides, whatever happens to the connection.
HandshakeEnds == <>(ClientEnded /\ ServerEnded)

\* Two peers that both finish run the same session: version, network, and
\* what is on in it.
SameSession == SameAgreement /\ SameFeatures

\* The outcome is the right one: the types, the highest common version, no
\* acceptance turned down, no refusal for a reason that is not there.
RightOutcome == TypeOK /\ HighestCommonVersion /\ AcceptanceStands /\ RefusalIsTrue

=============================================================================
