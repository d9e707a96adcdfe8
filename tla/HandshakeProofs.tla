-------------------------- MODULE HandshakeProofs ---------------------------
(***************************************************************************)
(* What two peers that finish a handshake agree on, for every set of       *)
(* versions and every configuration of either side.                        *)
(***************************************************************************)
EXTENDS Handshake, SumLemmas

\* The provers get half a minute for a step, not five seconds.
USE SMTT(30), ZenonT(30)

\* The map of versions a client proposes.
Proposal(c) == ProposeVersions(c).versionMap

\* The server accepted version v: what it sends and what it keeps.
Accepted(v) ==
    /\ answer = AcceptVersion(server, v)
    /\ sResult = [version |-> v, data |-> Proposal(client)[v]]
    /\ ~ProposedQuery(Proposal(client))

\* The inductive invariant.  Messages are what the configurations make of
\* them; the server answers once; and whoever has finished did so on that
\* answer.
IInv ==
    /\ client \in Clients /\ server \in Servers
    /\ toServer \in {NoMessage, ProposeVersions(client)}
    /\ toClient \in {NoMessage, answer}
    /\ sState = "propose" => answer = NoMessage
    /\ answer.type = "acceptVersion" => \E v : Accepted(v)
    /\ sState = "finished" => answer.type = "acceptVersion"
    /\ cState = "finished" =>
         /\ answer.type = "acceptVersion"
         /\ cResult = [version |-> answer.version, data |-> answer.data]
         /\ Acceptable(client, answer)

-----------------------------------------------------------------------------
\* Only AcceptVersion has its type, and a query is never accepted.
LEMMA AnswerAccepts ==
    ASSUME NEW s, NEW proposal, Answer(s, proposal).type = "acceptVersion"
    PROVE  /\ ~ProposedQuery(proposal)
           /\ \E v : Answer(s, proposal) = AcceptVersion(s, v)
  <1> DEFINE both == Intersection(s, proposal)
             sel == Highest(both)
  <1>1. CASE ProposedQuery(proposal)
    BY <1>1, Zenon DEF Answer, QueryReply
  <1>2. CASE ~ProposedQuery(proposal) /\ both = {}
    BY <1>2, Zenon DEF Answer, VersionMismatch
  <1>3. CASE ~ProposedQuery(proposal) /\ both # {}
    <2>1. Answer(s, proposal) = AnswerTo(s, sel, proposal[sel])
      BY <1>3, Zenon DEF Answer
    <2>2. AnswerTo(s, sel, proposal[sel]) \in
            {DecodeError(sel), Refused(sel), AcceptVersion(s, sel)}
      BY Zenon DEF AnswerTo
    <2>3. DecodeError(sel).type = "decodeError" /\ Refused(sel).type = "refused"
      BY SMTT(30) DEF DecodeError, Refused
    <2> QED  BY <1>3, <2>1, <2>2, <2>3, Zenon
  <1> QED  BY <1>1, <1>2, <1>3, Zenon

\* It holds in every initial state.
LEMMA InitIInv == Init => IInv
  BY SMTT(30) DEF Init, IInv, NoMessage

\* And every step keeps it.
LEMMA NextIInv == IInv /\ [Next]_vars => IInv'
  <1> SUFFICES ASSUME IInv, [Next]_vars PROVE IInv'
    BY Zenon
  <1> USE DEF IInv, Accepted
  <1>1. CASE ClientStart
    BY <1>1, Zenon DEF ClientStart, config, NoMessage
  <1>2. CASE ClientAccept
    BY <1>2 DEF ClientAccept, config, NoMessage
  <1>3. CASE ClientRefused
    BY <1>3, Zenon DEF ClientRefused, config, NoMessage
  <1>4. CASE ClientQueryReply
    BY <1>4, Zenon DEF ClientQueryReply, config, NoMessage
  <1>5. CASE ClientTimeout
    BY <1>5, Zenon DEF ClientTimeout, config, NoMessage
  <1>6. CASE ServerDecide
    <2>1. toServer = ProposeVersions(client)
      BY <1>6 DEF ServerDecide, NoMessage
    <2>2. answer' = Answer(server, Proposal(client))
      BY <1>6, <2>1, Zenon DEF ServerDecide, Proposal
    <2>3. ASSUME answer'.type = "acceptVersion" PROVE \E v : Accepted(v)'
      <3>1. PICK v : answer' = AcceptVersion(server, v)
        BY <2>2, <2>3, AnswerAccepts, Zenon
      <3>2. answer'.version = v
        BY <3>1, Zenon DEF AcceptVersion
      <3>3. sResult' = [version |-> v, data |-> Proposal(client)[v]]
        BY <1>6, <2>1, <2>3, <3>2, Zenon DEF ServerDecide, Proposal
      <3>4. ~ProposedQuery(Proposal(client))
        BY <2>2, <2>3, AnswerAccepts, Zenon
      <3> QED  BY <1>6, <3>1, <3>3, <3>4, Zenon DEF ServerDecide, config
    <2>4. toClient = NoMessage /\ cState # "finished" /\ answer = NoMessage
      BY <1>6 DEF ServerDecide, NoMessage
    <2> QED  BY <1>6, <2>3, <2>4, Zenon DEF ServerDecide, config
  <1>7. CASE ServerWrite
    BY <1>7, Zenon DEF ServerWrite, config, NoMessage
  <1>8. CASE ServerSendFails
    BY <1>8, Zenon DEF ServerSendFails, config, NoMessage
  <1>9. CASE ServerReturn
    BY <1>9, Zenon DEF ServerReturn, config, NoMessage
  <1>10. CASE ServerTimeout
    BY <1>10, Zenon DEF ServerTimeout, config, NoMessage
  <1>11. CASE Disconnect
    BY <1>11, ZenonT(40) DEF Disconnect, config, NoMessage
  <1>12. CASE UNCHANGED vars
    BY <1>12, Zenon DEF vars
  <1> QED
    BY <1>1, <1>2, <1>3, <1>4, <1>5, <1>6, <1>7, <1>8, <1>9, <1>10, <1>11, <1>12, Zenon
       DEF Next, Program, Ended

\* IInv holds throughout a handshake.
LEMMA Invariance == Spec => []IInv
  BY InitIInv, NextIInv, PTL DEF Spec

-----------------------------------------------------------------------------
(***************************************************************************)
(* Two peers that both finish have the same version and network magic.     *)
(***************************************************************************)
THEOREM HandshakeSameAgreement == Spec => []SameAgreement
  <1>1. IInv => SameAgreement
    BY DEF IInv, SameAgreement, BothFinished, Accepted, Acceptable, AcceptVersion, Encode
  <1> QED  BY <1>1, Invariance, PTL

\* What the two sides make of each other's parameters for one version.
LEMMA FeaturesMatch ==
    ASSUME NEW c, NEW s, NEW v,
           {c.fullDuplex, c.peerSharing, c.peras} \subseteq BOOLEAN,
           {s.fullDuplex, s.peerSharing, s.peras} \subseteq BOOLEAN
    PROVE  LET cr == [version |-> v, data |-> Encode(s, v)]
               sr == [version |-> v, data |-> Encode(c, v)]
           IN  /\ RunsBoth(c, cr) = RunsBoth(s, sr)
               /\ SharesPeers(c, cr) = SharesPeers(s, sr)
               /\ RunsPeras(c, cr) = RunsPeras(s, sr)
  <1> DEFINE cr == [version |-> v, data |-> Encode(s, v)]
             sr == [version |-> v, data |-> Encode(c, v)]
  <1>0. cr.version = v /\ sr.version = v /\ cr.data = Encode(s, v) /\ sr.data = Encode(c, v)
    BY Zenon
  <1> HIDE DEF cr, sr
  <1>1. RunsBoth(c, cr) = RunsBoth(s, sr)
    <2>1. ASSUME NEW o
          PROVE  ~DiffusionMode(v, Encode(o, v)) <=> Layout(v) \in HasDiffusion /\ o.fullDuplex
      BY ZenonT(40) DEF DiffusionMode, Encode
    <2>2. /\ RunsBoth(c, cr) <=> c.fullDuplex /\ ~DiffusionMode(v, Encode(s, v))
          /\ RunsBoth(s, sr) <=> s.fullDuplex /\ ~DiffusionMode(v, Encode(c, v))
      BY <1>0, ZenonT(40) DEF RunsBoth
    <2> QED  BY <2>1, <2>2, ZenonT(40) DEF RunsBoth
  <1>2. SharesPeers(c, cr) = SharesPeers(s, sr)
    <2>1. ASSUME NEW o
          PROVE  PeerSharing(v, Encode(o, v)) <=> Layout(v) \in HasSharing /\ o.peerSharing
      BY DEF PeerSharing, Encode, HasSharing
    <2>2. /\ SharesPeers(c, cr) <=> /\ EnablePeerSharingProtocol(v) /\ c.peerSharing
                                    /\ PeerSharing(v, Encode(s, v))
          /\ SharesPeers(s, sr) <=> /\ EnablePeerSharingProtocol(v) /\ s.peerSharing
                                    /\ PeerSharing(v, Encode(c, v))
      BY <1>0, ZenonT(40) DEF SharesPeers
    <2> QED  BY <2>1, <2>2, ZenonT(40) DEF SharesPeers
  <1>3. RunsPeras(c, cr) = RunsPeras(s, sr)
    <2>1. ASSUME NEW o
          PROVE  PerasSupported(v, Encode(o, v)) <=> Layout(v) = "NtN16andUp" /\ o.peras
      BY ZenonT(40) DEF PerasSupported, Encode
    <2>2. /\ RunsPeras(c, cr) <=> c.peras /\ PerasSupported(v, Encode(s, v))
          /\ RunsPeras(s, sr) <=> s.peras /\ PerasSupported(v, Encode(c, v))
      BY <1>0, ZenonT(40) DEF RunsPeras
    <2> QED  BY <2>1, <2>2, ZenonT(40) DEF RunsPeras
  <1> QED  BY <1>1, <1>2, <1>3, Zenon DEF cr, sr

(***************************************************************************)
(* They agree on full duplex, peer sharing and Peras, although each side   *)
(* decides by itself from the parameters the other sent.                   *)
(***************************************************************************)
THEOREM HandshakeSameFeatures == Spec => []SameFeatures
  <1>1. IInv => SameFeatures
    <2> SUFFICES ASSUME IInv, BothFinished
                 PROVE  /\ RunsBoth(client, cResult) = RunsBoth(server, sResult)
                        /\ SharesPeers(client, cResult) = SharesPeers(server, sResult)
                        /\ RunsPeras(client, cResult) = RunsPeras(server, sResult)
      BY Zenon DEF SameFeatures
    <2>1. PICK v : Accepted(v)
      BY Zenon DEF IInv, BothFinished
    <2>2. answer.version = v /\ answer.data = Encode(server, v)
      BY <2>1, Zenon DEF Accepted, AcceptVersion
    <2>3. cResult = [version |-> v, data |-> Encode(server, v)] /\ v \in client.versions
      BY <2>2, Zenon DEF IInv, BothFinished, Acceptable
    <2>4. sResult = [version |-> v, data |-> Encode(client, v)]
      BY <2>1, <2>3, Zenon DEF Accepted, Proposal, ProposeVersions
    <2>5. /\ {client.fullDuplex, client.peerSharing, client.peras} \subseteq BOOLEAN
          /\ {server.fullDuplex, server.peerSharing, server.peras} \subseteq BOOLEAN
      BY HandshakeAssumption, Zenon DEF IInv, IsConfig
    <2> QED  BY <2>3, <2>4, <2>5, FeaturesMatch, Zenon
  <1> QED  BY <1>1, Invariance, PTL

\* Two peers that both finish a handshake run the same session.
THEOREM HandshakeSameSession == Spec => []SameSession
  <1>1. SameAgreement /\ SameFeatures => SameSession
    BY Zenon DEF SameSession
  <1> QED  BY <1>1, HandshakeSameAgreement, HandshakeSameFeatures, PTL

(***************************************************************************)
(* A client that asks a query in any version that can carry it never gets  *)
(* a session on the server.                                                *)
(***************************************************************************)
THEOREM HandshakeQueryOpensNoSession == Spec => []QueryOpensNoSession
  <1>1. IInv => QueryOpensNoSession
    <2> SUFFICES ASSUME IInv, sState = "finished", client.query,
                        NEW v \in client.versions \ client.garbled,
                        Layout(v) \in HasQuery
                 PROVE  FALSE
      BY Zenon DEF QueryOpensNoSession
    <2>1. ~ProposedQuery(Proposal(client))
      BY Zenon DEF IInv, Accepted
    <2>2. v \in DOMAIN Proposal(client) /\ Proposal(client)[v] = Encode(client, v)
      BY Zenon DEF Proposal, ProposeVersions
    <2>3. Known(v)
      BY Zenon DEF Known, HasQuery, HasSharing
    <2>4. Decodes(v, Encode(client, v)) /\ Query(v, Encode(client, v))
      BY ZenonT(40) DEF Decodes, Query, Encode
    <2> QED  BY <2>1, <2>2, <2>3, <2>4, Zenon DEF ProposedQuery
  <1> QED  BY <1>1, Invariance, PTL
-----------------------------------------------------------------------------
\* Where each side stands, given that the server answers what Answer says: a
\* client that gave up did so for the answer it got.
Outcome ==
    /\ TypeOK
    /\ answer \in {NoMessage, Answer(server, Proposal(client))}
    /\ cState \in {"versionMismatch", "decodeError", "refused"} => answer.type = cState
    /\ cState = "rejected" =>
         \/ answer.type = "queryReply" /\ ~AskedQuery(client)
         \/ answer.type = "acceptVersion" /\ ~Acceptable(client, answer)

\* A client that has ended, or not begun, no longer reads what the server sends.
LEMMA OutcomeStep == IInv /\ Outcome /\ [Next]_vars => Outcome'
  <1> SUFFICES ASSUME IInv, Outcome, [Next]_vars PROVE Outcome'
    BY Zenon
  <1> USE DEF Outcome, TypeOK, ClientEnded, ServerEnded
  <1>0. toClient \in {NoMessage, answer} /\ (sState = "propose" => answer = NoMessage)
    BY Zenon DEF IInv
  <1>1. CASE ClientStart
    BY <1>1, Zenon DEF ClientStart, config, NoMessage
  <1>2. CASE ClientAccept
    BY <1>0, <1>2 DEF ClientAccept, config, NoMessage
  <1>3. CASE ClientRefused
    BY <1>0, <1>3 DEF ClientRefused, config, NoMessage
  <1>4. CASE ClientQueryReply
    BY <1>0, <1>4 DEF ClientQueryReply, config, NoMessage
  <1>5. CASE ClientTimeout
    BY <1>5, Zenon DEF ClientTimeout, config
  <1>6. CASE ServerDecide
    <2>1. answer' = Answer(server, Proposal(client))
      BY <1>6 DEF IInv, ServerDecide, NoMessage, Proposal
    <2>2. answer.type = "none"
      BY <1>0, <1>6 DEF ServerDecide, NoMessage
    <2> QED  BY <1>6, <2>1, <2>2, Zenon DEF ServerDecide, config
  <1>7. CASE ServerWrite
    BY <1>7, Zenon DEF ServerWrite, config
  <1>8. CASE ServerSendFails
    BY <1>8, Zenon DEF ServerSendFails, config
  <1>9. CASE ServerReturn
    BY <1>9, Zenon DEF ServerReturn, config
  <1>10. CASE ServerTimeout
    BY <1>10, Zenon DEF ServerTimeout, config
  <1>11. CASE Disconnect
    BY <1>11, ZenonT(40) DEF Disconnect, config
  <1>12. CASE UNCHANGED vars
    BY <1>12, Zenon DEF vars
  <1> QED
    BY <1>1, <1>2, <1>3, <1>4, <1>5, <1>6, <1>7, <1>8, <1>9, <1>10, <1>11, <1>12, Zenon
       DEF Next, Program, Ended

\* The server selects the highest version that both sides have.
LEMMA SelectsHighest ==
    ASSUME NEW c \in Clients, NEW s \in Servers, c.versions \cap s.versions # {}
    PROVE  LET both == c.versions \cap s.versions
           IN  /\ Highest(both) \in both
               /\ \A v \in both : v <= Highest(both)
  <1> DEFINE both == c.versions \cap s.versions
  <1>1. IsFiniteSet(both) /\ both \subseteq Int /\ both # {}
    BY HandshakeAssumption, FS_Subset DEF IsConfig
  <1>2. \E m \in both : \A n \in both : n <= m
    <2> HIDE DEF both
    <2> QED  BY <1>1, GreatestExists, ZenonT(40)
  <1> QED  BY <1>2, Zenon DEF Highest

\* What an answer m says of the two configurations.
AnswerSays(c, s, m) ==
    LET both == c.versions \cap s.versions
        sel == Highest(both)
    IN  \/ m.type = "queryReply" /\ AskedQuery(c)
        \/ m.type = "versionMismatch" /\ both = {}
        \/ m.type = "decodeError" /\ sel \in both \cap (c.garbled \cup s.empty)
        \/ m.type = "refused" /\ both # {} /\ c.magic # s.magic
        \/ /\ m = AcceptVersion(s, sel)
           /\ m.type = "acceptVersion"
           /\ sel \in both
           /\ c.magic = s.magic

\* The server's answer to a client's proposal is true of both.
LEMMA AnswerMeans ==
    ASSUME NEW c \in Clients, NEW s \in Servers, NEW m, m = Answer(s, Proposal(c))
    PROVE  AnswerSays(c, s, m)
  <1> DEFINE both == c.versions \cap s.versions
             sel == Highest(both)
  <1>1. /\ DOMAIN Proposal(c) = c.versions
        /\ \A v \in c.versions : Proposal(c)[v] = Encode(c, v)
    BY Zenon DEF Proposal, ProposeVersions
  <1>2. Intersection(s, Proposal(c)) = both
    BY <1>1, Zenon DEF Intersection
  <1>3. CASE ProposedQuery(Proposal(c))
    <2>1. AskedQuery(c)
      BY <1>1, <1>3, Zenon DEF ProposedQuery, AskedQuery
    <2>2. m.type = "queryReply"
      BY <1>3, Zenon DEF Answer, QueryReply
    <2> QED  BY <2>1, <2>2, Zenon DEF AnswerSays
  <1>4. CASE ~ProposedQuery(Proposal(c)) /\ both = {}
    BY <1>2, <1>4, Zenon DEF Answer, VersionMismatch, AnswerSays
  <1>5. CASE ~ProposedQuery(Proposal(c)) /\ both # {}
    <2>1. sel \in both
      BY <1>5, SelectsHighest, Zenon
    <2>2. m = AnswerTo(s, sel, Encode(c, sel))
      BY <1>1, <1>2, <1>5, <2>1, Zenon DEF Answer
    <2>3. /\ Encode(c, sel).magic = c.magic
          /\ sel \notin c.garbled => Encode(c, sel).layout = Layout(sel)
      BY ZenonT(40) DEF Encode
    <2>4. CASE sel \in s.empty \/ ~Decodes(sel, Encode(c, sel))
      BY <2>1, <2>2, <2>3, <2>4 DEF AnswerTo, DecodeError, Decodes, AnswerSays
    <2>5. CASE ~(sel \in s.empty \/ ~Decodes(sel, Encode(c, sel))) /\ c.magic # s.magic
      BY <1>5, <2>2, <2>3, <2>5 DEF AnswerTo, Refused, AnswerSays
    <2>6. CASE ~(sel \in s.empty \/ ~Decodes(sel, Encode(c, sel))) /\ c.magic = s.magic
      BY <2>1, <2>2, <2>3, <2>6 DEF AnswerTo, AcceptVersion, AnswerSays
    <2> QED  BY <2>4, <2>5, <2>6, Zenon
  <1> QED  BY <1>3, <1>4, <1>5, Zenon

(***************************************************************************)
(* A handshake ends the right way for every pair of configurations: on the *)
(* highest common version, with no acceptance turned down, and with no     *)
(* refusal for a reason that is not there.                                 *)
(***************************************************************************)
THEOREM HandshakeRightOutcome == Spec => []RightOutcome
  <1>1. Init => Outcome
    BY Zenon DEF Init, Outcome, TypeOK, ClientEnded, ServerEnded, NoMessage
  <1>2. IInv /\ Outcome => RightOutcome
    <2> SUFFICES ASSUME IInv, Outcome PROVE RightOutcome
      BY Zenon
    <2> DEFINE both == client.versions \cap server.versions
               sel == Highest(both)
    <2>1. client \in Clients /\ server \in Servers
      BY Zenon DEF IInv
    <2>0. answer.type # "none" => AnswerSays(client, server, answer)
      BY <2>1, AnswerMeans DEF Outcome, NoMessage
    <2>2. ASSUME answer.type = "acceptVersion"
          PROVE  /\ sel \in both /\ client.magic = server.magic
                 /\ answer.version = sel /\ answer.data = Encode(server, sel)
      <3>1. answer = AcceptVersion(server, sel) /\ sel \in both /\ client.magic = server.magic
        BY <2>0, <2>2, Zenon DEF AnswerSays
      <3> QED  BY <3>1, Zenon DEF AcceptVersion
    <2>3. HighestCommonVersion
      BY <2>1, <2>2, SelectsHighest DEF HighestCommonVersion, IInv
    <2>4. AcceptanceStands
      <3> SUFFICES ASSUME cState = "rejected" PROVE answer.version \in server.garbled
        BY Zenon DEF AcceptanceStands
      <3>1. ~(answer.type = "queryReply" /\ ~AskedQuery(client))
        BY <2>0, Zenon DEF AnswerSays
      <3>2. answer.type = "acceptVersion" /\ ~Acceptable(client, answer)
        BY <3>1, Zenon DEF Outcome
      <3>3. /\ Encode(server, sel).magic = server.magic
            /\ sel \notin server.garbled => Encode(server, sel).layout = Layout(sel)
        BY ZenonT(40) DEF Encode
      <3>4. Known(sel)
        BY <2>1, <2>2, <3>2, HandshakeAssumption, Zenon DEF IsConfig
      <3> QED  BY <2>2, <3>2, <3>3, <3>4, Zenon DEF Acceptable, Decodes
    <2>5. RefusalIsTrue
      <3>1. ASSUME cState \in {"versionMismatch", "decodeError", "refused"}
            PROVE  AnswerSays(client, server, answer) /\ answer.type = cState
        BY <2>0, <3>1, Zenon DEF Outcome
      <3>2. ASSUME cState = "versionMismatch" PROVE both = {}
        BY <3>1, <3>2, Zenon DEF AnswerSays
      <3>3. ASSUME cState = "refused" PROVE both # {} /\ client.magic # server.magic
        BY <3>1, <3>3, Zenon DEF AnswerSays
      <3>4. ASSUME cState = "decodeError"
            PROVE  both \cap (client.garbled \cup server.empty) # {}
        BY <3>1, <3>4, Zenon DEF AnswerSays
      <3> QED  BY <3>2, <3>3, <3>4, Zenon DEF RefusalIsTrue
    <2> QED  BY <2>3, <2>4, <2>5, Zenon DEF Outcome, RightOutcome
  <1> QED  BY <1>1, <1>2, OutcomeStep, Invariance, InitIInv, NextIInv, PTL DEF Spec
=============================================================================
