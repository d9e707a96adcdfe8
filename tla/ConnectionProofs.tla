-------------------------- MODULE ConnectionProofs --------------------------
(***************************************************************************)
(* What a Connection keeps to from its setup to its shutdown, for any      *)
(* mini-protocols, any number of goroutines that call Close and any        *)
(* capacity of the error channel.                                          *)
(***************************************************************************)
EXTENDS Connection, FiniteSetTheorems, TLAPS

\* The provers get half a minute for a step, not five seconds.
USE SMTT(30), ZenonT(30)

\* The types, with the records in full.
Types ==
    /\ cfg \in Configs
    /\ setup \in {"muxer", "handshake", "closing", "errors", "lock", "construct",
                  "register", "start", "ok", "failed"}
    /\ todo \in SUBSET Instances /\ busy \in SUBSET Instances
    /\ doneChan \in BOOLEAN /\ closed \in BOOLEAN /\ finished \in BOOLEAN
    /\ ready \in BOOLEAN /\ locked \in BOOLEAN /\ silent \in BOOLEAN
    /\ proto \in [Instances -> {"none", "made", "registered", "started", "stopped"}]
    /\ muxer \in [stopped : BOOLEAN, started : BOOLEAN, error : {"none", "closed", "other"}]
    /\ protoErrors \in Nat /\ reported \in 0..MaxErrors
    /\ muxForward \in {"none", "select", "got", "close", "gone"}
    /\ protoForward \in {"none", "select", "got", "close", "gone"}
    /\ errorChan \in [sent : 0..ErrorCap, closed : BOOLEAN]
    /\ shutdown \in [pc : {"wait", "stop", "waitGroup", "close", "end"},
                     stop : SUBSET Instances]
    /\ closer \in [Closers -> {"idle", "waiting", "returned"}]

\* The instances whose start failed or that were stopped.
Stopped == {x \in Instances : proto[x] = "stopped"}

\* Every error in the channel was reported by an instance at work or by one
\* that could not start, and neither starts again.
ErrorsCounted == protoErrors <= reported + Cardinality(Stopped)

\* Where setupConnection is decides what there is: nothing before the muxer,
\* no instance but the handshake before the protocols are made, protocolMu
\* only while they are, and no muxer told to read on before the end.
SetupStages ==
    /\ setup = "muxer" => /\ ~doneChan /\ muxForward = "none"
                          /\ \A x \in Instances : proto[x] = "none"
    /\ setup \in {"muxer", "handshake", "closing", "errors"} => protoForward = "none"
    /\ setup \in {"muxer", "handshake", "closing", "errors", "lock", "construct"} =>
         \A x \in Instances \ {Handshake} : proto[x] = "none"
    /\ setup # "muxer" => proto[Handshake] # "none"
    /\ setup \in {"register", "start"} => \A x \in Instances : proto[x] # "none"
    /\ locked <=> setup = "construct"
    /\ setup \in {"errors", "lock", "construct", "register", "start"} => ~cfg.query
    /\ muxer.started => setup = "ok" /\ ~cfg.query

Listening(x) == proto[x] \in {"registered", "started", "stopped"}

\* The servers are registered one by one before anything is started.
ServersFirst ==
    (RunsServers /\ ~cfg.query /\ ~muxer.stopped) =>
        /\ setup = "register" => \A x \in Servers \ todo : Listening(x)
        /\ setup \in {"start", "ok"} => \A x \in Servers : Listening(x)

Down(x) == proto[x] \in {"none", "stopped"}

\* Once the shutdown has read which instances there are, no other is made, and
\* each is down or has still to be stopped.
ShutdownStages ==
    /\ shutdown.pc # "wait" => doneChan /\ ~locked
    /\ \A x \in shutdown.stop : proto[x] # "none"
    /\ shutdown.pc = "stop" => \A x \in Instances \ shutdown.stop : Down(x)
    /\ shutdown.pc \in {"waitGroup", "close", "end"} =>
         muxer.stopped /\ \A x \in Instances : Down(x)
    /\ closed => shutdown.pc = "end"

Told == errorChan.sent > 0 \/ silent

\* Whoever asks for the shutdown has told the consumer why, or is the consumer,
\* or setupConnection, which returns the error.
ReasonGiven ==
    /\ "close" \in {muxForward, protoForward} => errorChan.sent > 0 \/ doneChan
    /\ doneChan => \/ Told
                   \/ setup \in {"closing", "failed"}
                   \/ \E c \in Closers : closer[c] # "idle"

ConnectionInv ==
    /\ Types /\ ErrorsCounted /\ SetupStages /\ ServersFirst
    /\ ShutdownStages /\ ReasonGiven

-----------------------------------------------------------------------------
\* Every step keeps the types.
LEMMA TypesStep ==
    Types /\ [Next]_vars => Types'
  <1> SUFFICES ASSUME Types, [Next]_vars PROVE Types'
    BY Zenon
  <1> USE DEF Types
  <1>1. CASE SetupMuxer
    <2>1. Handshake \in Instances
      BY <1>1, Zenon DEF SetupMuxer, Instances
    <2> QED  BY <1>1, <2>1 DEF SetupMuxer, errorVars
  <1>2. CASE HandshakeAborted
    BY <1>2 DEF HandshakeAborted, setupUnchanged
  <1>3. CASE HandshakeFailed
    BY <1>3 DEF HandshakeFailed, setupUnchanged
  <1>4. CASE HandshakeTimeout
    BY <1>4 DEF HandshakeTimeout, setupUnchanged
  <1>5. CASE SetupClosed
    BY <1>5 DEF SetupClosed, setupUnchanged
  <1>6. CASE HandshakeDone
    BY <1>6 DEF HandshakeDone, setupUnchanged
  <1>7. CASE SetupErrors
    BY <1>7 DEF SetupErrors, setupUnchanged
  <1>8. CASE SetupRefused
    BY <1>8 DEF SetupRefused, setupUnchanged, ShuttingDown
  <1>9. CASE SetupLock
    BY <1>9 DEF SetupLock, setupUnchanged, ShuttingDown
  <1>10. CASE SetupConstruct
    <2>1. todo' \in SUBSET Instances
      BY <1>10, Zenon DEF SetupConstruct, EarlyRegistrations, Instances
    <2>2. proto' \in [Instances -> {"none", "made", "registered", "started", "stopped"}]
      BY <1>10, Zenon DEF SetupConstruct
    <2>3. /\ UNCHANGED <<protoErrors, doneChan, muxer, protoForward>>
          /\ setup' = "register" /\ ready' = TRUE /\ locked' = FALSE
          /\ setupUnchanged
      BY <1>10, ZenonT(40) DEF SetupConstruct
    <2>4. /\ UNCHANGED <<cfg, reported, errorChan, silent, closed, finished, busy>>
          /\ UNCHANGED <<muxForward, shutdown, closer>>
      BY <2>3, ZenonT(40) DEF setupUnchanged
    <2>5. setup' \in {"muxer", "handshake", "closing", "errors", "lock", "construct",
                      "register", "start", "ok", "failed"}
      BY <2>3, Zenon
    <2>6. ready' \in BOOLEAN /\ locked' \in BOOLEAN
      BY <2>3, ZenonT(40)
    <2> QED  BY <2>1, <2>2, <2>3, <2>4, <2>5, <2>6
  <1>11. CASE SetupRegistered
    <2>1. todo' \in SUBSET Instances
      BY <1>11, Zenon DEF SetupRegistered, Running, Instances
    <2> QED  BY <1>11, <2>1 DEF SetupRegistered, setupUnchanged
  <1>12. CASE SetupStarted
    <2>1. muxer' \in [stopped : BOOLEAN, started : BOOLEAN,
                      error : {"none", "closed", "other"}]
      BY <1>12, ConnectionAssumption, ZenonT(40) DEF SetupStarted
    <2> QED  BY <1>12, <2>1 DEF SetupStarted, setupUnchanged
  <1>13. ASSUME NEW x \in Instances, SetupRegister(x) PROVE Types'
    BY <1>13 DEF SetupRegister, setupUnchanged
  <1>14. ASSUME NEW x \in Instances, SetupStart(x) PROVE Types'
    BY <1>14 DEF SetupStart, setupUnchanged, StartInstance
  <1>15. CASE HandshakeFinishes
    BY <1>15 DEF HandshakeFinishes, worldUnchanged, setupVars
  <1>16. ASSUME NEW x \in Instances, ProtoWorks(x) PROVE Types'
    BY <1>16 DEF ProtoWorks, worldUnchanged, setupVars
  <1>17. ASSUME NEW x \in Instances, ProtoSettles(x) PROVE Types'
    BY <1>17 DEF ProtoSettles, worldUnchanged, setupVars
  <1>18. ASSUME NEW x \in Instances, ProtoFails(x) PROVE Types'
    <2>1. reported' \in 0..MaxErrors
      BY <1>18, ConnectionAssumption DEF ProtoFails
    <2> QED  BY <1>18, <2>1 DEF ProtoFails, worldUnchanged, setupVars
  <1>19. ASSUME NEW x \in Instances, AppStartsProtocol(x) PROVE Types'
    BY <1>19 DEF AppStartsProtocol, worldUnchanged, setupVars, StartInstance
  <1>20. CASE AppStartsMuxer
    <2>1. muxer' \in [stopped : BOOLEAN, started : BOOLEAN,
                      error : {"none", "closed", "other"}]
      BY <1>20, ZenonT(40) DEF AppStartsMuxer
    <2> QED  BY <1>20, <2>1 DEF AppStartsMuxer, worldUnchanged, setupVars
  <1>21. ASSUME NEW kind \in {"closed", "other"}, MuxerFails(kind) PROVE Types'
    <2>1. muxer' \in [stopped : BOOLEAN, started : BOOLEAN,
                      error : {"none", "closed", "other"}]
      BY <1>21, ZenonT(40) DEF MuxerFails
    <2> QED  BY <1>21, <2>1 DEF MuxerFails, worldUnchanged, setupVars
  <1>22. ASSUME NEW c \in Closers, CloseCall(c) PROVE Types'
    BY <1>22 DEF CloseCall, downUnchanged, setupVars
  <1>23. CASE MuxForwardLeave
    BY <1>23 DEF MuxForwardLeave, forwardUnchanged, setupVars
  <1>24. CASE MuxForwardGet
    BY <1>24 DEF MuxForwardGet, forwardUnchanged, setupVars
  <1>25. CASE MuxForwardSuppress
    BY <1>25 DEF MuxForwardSuppress, forwardUnchanged, setupVars
  <1>26. CASE MuxForwardSend
    <2>1. errorChan' \in [sent : 0..ErrorCap, closed : BOOLEAN]
      BY <1>26, ConnectionAssumption DEF MuxForwardSend, ForwardError
    <2> QED  BY <1>26, <2>1 DEF MuxForwardSend, forwardUnchanged, setupVars
  <1>27. CASE MuxForwardClose
    BY <1>27 DEF MuxForwardClose, forwardUnchanged, setupVars
  <1>28. CASE ProtoForwardLeave
    BY <1>28 DEF ProtoForwardLeave, forwardUnchanged, setupVars
  <1>29. CASE ProtoForwardGet
    BY <1>29 DEF ProtoForwardGet, forwardUnchanged, setupVars
  <1>30. CASE ProtoForwardSend
    <2>1. errorChan' \in [sent : 0..ErrorCap, closed : BOOLEAN]
      BY <1>30, ConnectionAssumption DEF ProtoForwardSend, ForwardError
    <2> QED  BY <1>30, <2>1 DEF ProtoForwardSend, forwardUnchanged, setupVars
  <1>31. CASE ProtoForwardClose
    BY <1>31 DEF ProtoForwardClose, forwardUnchanged, setupVars
  <1>32. CASE ShutdownBegin
    BY <1>32 DEF ShutdownBegin, downUnchanged, setupVars
  <1>33. CASE ShutdownMuxer
    <2>1. muxer' \in [stopped : BOOLEAN, started : BOOLEAN,
                      error : {"none", "closed", "other"}]
      BY <1>33, ZenonT(40) DEF ShutdownMuxer
    <2> QED  BY <1>33, <2>1 DEF ShutdownMuxer, downUnchanged, setupVars
  <1>34. CASE ShutdownWait
    BY <1>34 DEF ShutdownWait, downUnchanged, setupVars
  <1>35. CASE ShutdownClose
    <2>1. errorChan' \in [sent : 0..ErrorCap, closed : BOOLEAN]
      BY <1>35, ConnectionAssumption, ZenonT(40) DEF ShutdownClose
    <2> QED  BY <1>35, <2>1 DEF ShutdownClose, downUnchanged, setupVars
  <1>36. ASSUME NEW x \in Instances, ShutdownStop(x) PROVE Types'
    BY <1>36 DEF ShutdownStop, downUnchanged, setupVars
  <1>37. ASSUME NEW c \in Closers, CloseReturn(c) PROVE Types'
    BY <1>37 DEF CloseReturn, downUnchanged, setupVars
  <1>38. CASE UNCHANGED vars
    BY <1>38 DEF vars, setupVars, errorVars
  <1> QED
    BY <1>1, <1>2, <1>3, <1>4, <1>5, <1>6, <1>7, <1>8, <1>9, <1>10, <1>11,
       <1>12, <1>13, <1>14, <1>15, <1>16, <1>17, <1>18, <1>19, <1>20, <1>21,
       <1>22, <1>23, <1>24, <1>25, <1>26, <1>27, <1>28, <1>29, <1>30, <1>31,
       <1>32, <1>33, <1>34, <1>35, <1>36, <1>37, <1>38, ZenonT(40)
       DEF Next, Program, SetupNext, WorldNext, ForwardNext, ShutdownNext, Ended

\* SetupConstruct alone makes instances, and it holds protocolMu.
LEMMA SetupStagesStep ==
    Types /\ ShutdownStages /\ SetupStages /\ [Next]_vars => SetupStages'
  <1> SUFFICES ASSUME Types, ShutdownStages, SetupStages, [Next]_vars PROVE SetupStages'
    BY Zenon
  <1> USE DEF Types, SetupStages
  <1>1. CASE SetupMuxer
    <2>1. Handshake \in Instances
      BY <1>1, Zenon DEF SetupMuxer, Instances
    <2> QED  BY <1>1, <2>1 DEF SetupMuxer, errorVars
  <1>2. CASE HandshakeAborted
    BY <1>2, Zenon DEF HandshakeAborted, setupUnchanged
  <1>3. CASE HandshakeFailed
    BY <1>3, Zenon DEF HandshakeFailed, setupUnchanged
  <1>4. CASE HandshakeTimeout
    BY <1>4, ZenonT(40) DEF HandshakeTimeout, setupUnchanged
  <1>5. CASE SetupClosed
    BY <1>5, Zenon DEF SetupClosed, setupUnchanged
  <1>6. CASE HandshakeDone
    BY <1>6, Zenon DEF HandshakeDone, setupUnchanged
  <1>7. CASE SetupErrors
    BY <1>7, Zenon DEF SetupErrors, setupUnchanged
  <1>8. CASE SetupRefused
    BY <1>8, Zenon DEF SetupRefused, setupUnchanged, ShuttingDown
  <1>9. CASE SetupLock
    BY <1>9, Zenon DEF SetupLock, setupUnchanged, ShuttingDown
  <1>10. CASE SetupConstruct
    <2>1. Handshake \in Instances
      BY Zenon DEF Instances
    <2>2. \A x \in Instances : proto'[x] # "none"
      BY <1>10, <2>1, Zenon DEF SetupConstruct
    <2>3. setup' = "register" /\ locked' = FALSE /\ UNCHANGED <<cfg, muxer>> /\ ~cfg.query
      BY <1>10, Zenon DEF SetupConstruct, setupUnchanged
    <2>4. setup = "construct"
      BY <1>10, Zenon DEF SetupConstruct
    <2> QED  BY <2>1, <2>2, <2>3, <2>4, ZenonT(40)
  <1>11. CASE SetupRegistered
    BY <1>11, Zenon DEF SetupRegistered, setupUnchanged
  <1>12. CASE SetupStarted
    BY <1>12, Zenon DEF SetupStarted, setupUnchanged
  <1>13. ASSUME NEW x \in Instances, SetupRegister(x) PROVE SetupStages'
    BY <1>13 DEF SetupRegister, setupUnchanged
  <1>14. ASSUME NEW x \in Instances, SetupStart(x) PROVE SetupStages'
    <2>1. /\ UNCHANGED <<cfg, setup, locked, doneChan, muxer, muxForward, protoForward>>
          /\ StartInstance(x)
      BY <1>14, ZenonT(40) DEF SetupStart, setupUnchanged
    <2>2. \A y \in Instances : proto'[y] = "none" <=> proto[y] = "none"
      BY <2>1 DEF StartInstance
    <2>3. Handshake \in Instances
      BY Zenon DEF Instances
    <2> QED  BY <2>1, <2>2, <2>3, ZenonT(40)
  <1>15. CASE HandshakeFinishes
    BY <1>15, ZenonT(40) DEF HandshakeFinishes, worldUnchanged, setupVars
  <1>16. ASSUME NEW x \in Instances, ProtoWorks(x) PROVE SetupStages'
    BY <1>16, ZenonT(40) DEF ProtoWorks, worldUnchanged, setupVars
  <1>17. ASSUME NEW x \in Instances, ProtoSettles(x) PROVE SetupStages'
    BY <1>17, ZenonT(40) DEF ProtoSettles, worldUnchanged, setupVars
  <1>18. ASSUME NEW x \in Instances, ProtoFails(x) PROVE SetupStages'
    BY <1>18 DEF ProtoFails, worldUnchanged, setupVars
  <1>19. ASSUME NEW x \in Instances, AppStartsProtocol(x) PROVE SetupStages'
    <2>1. /\ UNCHANGED <<cfg, setup, locked, doneChan, muxer, muxForward, protoForward>>
          /\ StartInstance(x)
      BY <1>19, ZenonT(40) DEF AppStartsProtocol, worldUnchanged, setupVars
    <2>2. \A y \in Instances : proto'[y] = "none" <=> proto[y] = "none"
      BY <2>1 DEF StartInstance
    <2>3. Handshake \in Instances
      BY Zenon DEF Instances
    <2> QED  BY <2>1, <2>2, <2>3, Zenon
  <1>20. CASE AppStartsMuxer
    BY <1>20, Zenon DEF AppStartsMuxer, worldUnchanged, setupVars
  <1>21. ASSUME NEW kind \in {"closed", "other"}, MuxerFails(kind) PROVE SetupStages'
    BY <1>21, ZenonT(40) DEF MuxerFails, worldUnchanged, setupVars
  <1>22. ASSUME NEW c \in Closers, CloseCall(c) PROVE SetupStages'
    BY <1>22, ZenonT(40) DEF CloseCall, downUnchanged, setupVars
  <1>23. CASE MuxForwardLeave
    BY <1>23, ZenonT(40) DEF MuxForwardLeave, forwardUnchanged, setupVars
  <1>24. CASE MuxForwardGet
    BY <1>24, ZenonT(40) DEF MuxForwardGet, forwardUnchanged, setupVars
  <1>25. CASE MuxForwardSuppress
    BY <1>25, ZenonT(40) DEF MuxForwardSuppress, forwardUnchanged, setupVars
  <1>26. CASE MuxForwardSend
    BY <1>26, ZenonT(40) DEF MuxForwardSend, forwardUnchanged, setupVars, ForwardError
  <1>27. CASE MuxForwardClose
    BY <1>27, ZenonT(40) DEF MuxForwardClose, forwardUnchanged, setupVars
  <1>28. CASE ProtoForwardLeave
    BY <1>28, ZenonT(40) DEF ProtoForwardLeave, forwardUnchanged, setupVars
  <1>29. CASE ProtoForwardGet
    BY <1>29, ZenonT(40) DEF ProtoForwardGet, forwardUnchanged, setupVars
  <1>30. CASE ProtoForwardSend
    BY <1>30, ZenonT(40) DEF ProtoForwardSend, forwardUnchanged, setupVars, ForwardError
  <1>31. CASE ProtoForwardClose
    BY <1>31, Zenon DEF ProtoForwardClose, forwardUnchanged, setupVars
  <1>32. CASE ShutdownBegin
    BY <1>32, ZenonT(40) DEF ShutdownBegin, downUnchanged, setupVars
  <1>33. CASE ShutdownMuxer
    BY <1>33, ZenonT(40) DEF ShutdownMuxer, downUnchanged, setupVars
  <1>34. CASE ShutdownWait
    BY <1>34, ZenonT(40) DEF ShutdownWait, downUnchanged, setupVars
  <1>35. CASE ShutdownClose
    BY <1>35, ZenonT(40) DEF ShutdownClose, downUnchanged, setupVars
  <1>36. ASSUME NEW x \in Instances, ShutdownStop(x) PROVE SetupStages'
    BY <1>36 DEF ShutdownStop, downUnchanged, setupVars, ShutdownStages
  <1>37. ASSUME NEW c \in Closers, CloseReturn(c) PROVE SetupStages'
    BY <1>37, ZenonT(40) DEF CloseReturn, downUnchanged, setupVars
  <1>38. CASE UNCHANGED vars
    BY <1>38, ZenonT(40) DEF vars, setupVars, errorVars
  <1> QED
    BY <1>1, <1>2, <1>3, <1>4, <1>5, <1>6, <1>7, <1>8, <1>9, <1>10, <1>11,
       <1>12, <1>13, <1>14, <1>15, <1>16, <1>17, <1>18, <1>19, <1>20, <1>21,
       <1>22, <1>23, <1>24, <1>25, <1>26, <1>27, <1>28, <1>29, <1>30, <1>31,
       <1>32, <1>33, <1>34, <1>35, <1>36, <1>37, <1>38, ZenonT(40)
       DEF Next, Program, SetupNext, WorldNext, ForwardNext, ShutdownNext, Ended

\* No instance is made or started behind the back of a shutdown that has begun.
LEMMA ShutdownStagesStep ==
    Types /\ SetupStages /\ ShutdownStages /\ [Next]_vars => ShutdownStages'
  <1> SUFFICES ASSUME Types, SetupStages, ShutdownStages, [Next]_vars PROVE ShutdownStages'
    BY Zenon
  <1> USE DEF Types, SetupStages, ShutdownStages, Down
  <1>1. CASE SetupMuxer
    BY <1>1 DEF SetupMuxer, errorVars
  <1>2. CASE HandshakeAborted
    BY <1>2 DEF HandshakeAborted, setupUnchanged
  <1>3. CASE HandshakeFailed
    BY <1>3 DEF HandshakeFailed, setupUnchanged
  <1>4. CASE HandshakeTimeout
    BY <1>4 DEF HandshakeTimeout, setupUnchanged
  <1>5. CASE SetupClosed
    BY <1>5 DEF SetupClosed, setupUnchanged
  <1>6. CASE HandshakeDone
    BY <1>6 DEF HandshakeDone, setupUnchanged
  <1>7. CASE SetupErrors
    BY <1>7 DEF SetupErrors, setupUnchanged
  <1>8. CASE SetupRefused
    BY <1>8 DEF SetupRefused, setupUnchanged, ShuttingDown
  <1>9. CASE SetupLock
    BY <1>9 DEF SetupLock, setupUnchanged, ShuttingDown
  <1>10. CASE SetupConstruct
    BY <1>10, Zenon DEF SetupConstruct, setupUnchanged, EarlyRegistrations
  <1>11. CASE SetupRegistered
    BY <1>11, ZenonT(40) DEF SetupRegistered, setupUnchanged
  <1>12. CASE SetupStarted
    BY <1>12, ZenonT(40) DEF SetupStarted, setupUnchanged
  <1>13. ASSUME NEW x \in Instances, SetupRegister(x) PROVE ShutdownStages'
    BY <1>13 DEF SetupRegister, setupUnchanged
  <1>14. ASSUME NEW x \in Instances, SetupStart(x) PROVE ShutdownStages'
    BY <1>14 DEF SetupStart, setupUnchanged, StartInstance
  <1>15. CASE HandshakeFinishes
    BY <1>15 DEF HandshakeFinishes, worldUnchanged, setupVars
  <1>16. ASSUME NEW x \in Instances, ProtoWorks(x) PROVE ShutdownStages'
    BY <1>16 DEF ProtoWorks, worldUnchanged, setupVars
  <1>17. ASSUME NEW x \in Instances, ProtoSettles(x) PROVE ShutdownStages'
    BY <1>17 DEF ProtoSettles, worldUnchanged, setupVars
  <1>18. ASSUME NEW x \in Instances, ProtoFails(x) PROVE ShutdownStages'
    BY <1>18 DEF ProtoFails, worldUnchanged, setupVars
  <1>19. ASSUME NEW x \in Instances, AppStartsProtocol(x) PROVE ShutdownStages'
    BY <1>19 DEF AppStartsProtocol, worldUnchanged, setupVars, StartInstance
  <1>20. CASE AppStartsMuxer
    BY <1>20 DEF AppStartsMuxer, worldUnchanged, setupVars
  <1>21. ASSUME NEW kind \in {"closed", "other"}, MuxerFails(kind) PROVE ShutdownStages'
    BY <1>21 DEF MuxerFails, worldUnchanged, setupVars
  <1>22. ASSUME NEW c \in Closers, CloseCall(c) PROVE ShutdownStages'
    BY <1>22 DEF CloseCall, downUnchanged, setupVars
  <1>23. CASE MuxForwardLeave
    BY <1>23 DEF MuxForwardLeave, forwardUnchanged, setupVars
  <1>24. CASE MuxForwardGet
    BY <1>24 DEF MuxForwardGet, forwardUnchanged, setupVars
  <1>25. CASE MuxForwardSuppress
    BY <1>25 DEF MuxForwardSuppress, forwardUnchanged, setupVars
  <1>26. CASE MuxForwardSend
    BY <1>26 DEF MuxForwardSend, forwardUnchanged, setupVars, ForwardError
  <1>27. CASE MuxForwardClose
    BY <1>27 DEF MuxForwardClose, forwardUnchanged, setupVars
  <1>28. CASE ProtoForwardLeave
    BY <1>28 DEF ProtoForwardLeave, forwardUnchanged, setupVars
  <1>29. CASE ProtoForwardGet
    BY <1>29 DEF ProtoForwardGet, forwardUnchanged, setupVars
  <1>30. CASE ProtoForwardSend
    BY <1>30 DEF ProtoForwardSend, forwardUnchanged, setupVars, ForwardError
  <1>31. CASE ProtoForwardClose
    BY <1>31 DEF ProtoForwardClose, forwardUnchanged, setupVars
  <1>32. CASE ShutdownBegin
    BY <1>32, Zenon DEF ShutdownBegin, downUnchanged, setupVars
  <1>33. CASE ShutdownMuxer
    BY <1>33, Zenon DEF ShutdownMuxer, downUnchanged, setupVars
  <1>34. CASE ShutdownWait
    BY <1>34 DEF ShutdownWait, downUnchanged, setupVars
  <1>35. CASE ShutdownClose
    BY <1>35 DEF ShutdownClose, downUnchanged, setupVars
  <1>36. ASSUME NEW x \in Instances, ShutdownStop(x) PROVE ShutdownStages'
    BY <1>36 DEF ShutdownStop, downUnchanged, setupVars
  <1>37. ASSUME NEW c \in Closers, CloseReturn(c) PROVE ShutdownStages'
    BY <1>37 DEF CloseReturn, downUnchanged, setupVars
  <1>38. CASE UNCHANGED vars
    BY <1>38, ZenonT(40) DEF vars, setupVars, errorVars
  <1> QED
    BY <1>1, <1>2, <1>3, <1>4, <1>5, <1>6, <1>7, <1>8, <1>9, <1>10, <1>11,
       <1>12, <1>13, <1>14, <1>15, <1>16, <1>17, <1>18, <1>19, <1>20, <1>21,
       <1>22, <1>23, <1>24, <1>25, <1>26, <1>27, <1>28, <1>29, <1>30, <1>31,
       <1>32, <1>33, <1>34, <1>35, <1>36, <1>37, <1>38, ZenonT(40)
       DEF Next, Program, SetupNext, WorldNext, ForwardNext, ShutdownNext, Ended

\* Each server is registered before the loop over them ends.
LEMMA ServersFirstStep ==
    Types /\ SetupStages /\ ServersFirst /\ [Next]_vars => ServersFirst'
  <1> SUFFICES ASSUME Types, SetupStages, ServersFirst, [Next]_vars PROVE ServersFirst'
    BY Zenon
  <1> USE DEF Types, SetupStages, ServersFirst, Listening, RunsServers
  <1>1. CASE SetupMuxer
    BY <1>1, Zenon DEF SetupMuxer, errorVars
  <1>2. CASE HandshakeAborted
    BY <1>2, Zenon DEF HandshakeAborted, setupUnchanged
  <1>3. CASE HandshakeFailed
    BY <1>3, Zenon DEF HandshakeFailed, setupUnchanged
  <1>4. CASE HandshakeTimeout
    BY <1>4, Zenon DEF HandshakeTimeout, setupUnchanged
  <1>5. CASE SetupClosed
    BY <1>5, Zenon DEF SetupClosed, setupUnchanged
  <1>6. CASE HandshakeDone
    BY <1>6, ZenonT(40) DEF HandshakeDone, setupUnchanged
  <1>7. CASE SetupErrors
    BY <1>7, Zenon DEF SetupErrors, setupUnchanged
  <1>8. CASE SetupRefused
    BY <1>8, Zenon DEF SetupRefused, setupUnchanged, ShuttingDown
  <1>9. CASE SetupLock
    BY <1>9, Zenon DEF SetupLock, setupUnchanged, ShuttingDown
  <1>10. CASE SetupConstruct
    BY <1>10, Zenon DEF SetupConstruct, setupUnchanged, EarlyRegistrations
  <1>11. CASE SetupRegistered
    BY <1>11, Zenon DEF SetupRegistered, setupUnchanged
  <1>12. CASE SetupStarted
    BY <1>12, Zenon DEF SetupStarted, setupUnchanged
  <1>13. ASSUME NEW x \in Instances, SetupRegister(x) PROVE ServersFirst'
    <2>1. /\ UNCHANGED <<cfg, setup, muxer>> /\ setup = "register"
          /\ todo' = todo \ {x}
          /\ proto' = IF proto[x] = "made" /\ ~muxer.stopped
                      THEN [proto EXCEPT ![x] = "registered"] ELSE proto
      BY <1>13, ZenonT(40) DEF SetupRegister, setupUnchanged
    <2>2. \A y \in Instances : Listening(y) => Listening(y)'
      BY <2>1
    <2>3. ~muxer.stopped => Listening(x)'
      BY <2>1
    <2> QED  BY <2>1, <2>2, <2>3 DEF Servers, Instances
  <1>14. ASSUME NEW x \in Instances, SetupStart(x) PROVE ServersFirst'
    <2>1. UNCHANGED <<cfg, setup, muxer>> /\ StartInstance(x) /\ setup = "start"
      BY <1>14, ZenonT(40) DEF SetupStart, setupUnchanged
    <2>2. \A y \in Instances : Listening(y) => Listening(y)'
      BY <2>1 DEF StartInstance
    <2> QED  BY <2>1, <2>2, ZenonT(40) DEF Servers, Instances
  <1>15. CASE HandshakeFinishes
    BY <1>15, Zenon DEF HandshakeFinishes, worldUnchanged, setupVars
  <1>16. ASSUME NEW x \in Instances, ProtoWorks(x) PROVE ServersFirst'
    BY <1>16, Zenon DEF ProtoWorks, worldUnchanged, setupVars
  <1>17. ASSUME NEW x \in Instances, ProtoSettles(x) PROVE ServersFirst'
    BY <1>17, Zenon DEF ProtoSettles, worldUnchanged, setupVars
  <1>18. ASSUME NEW x \in Instances, ProtoFails(x) PROVE ServersFirst'
    BY <1>18 DEF ProtoFails, worldUnchanged, setupVars
  <1>19. ASSUME NEW x \in Instances, AppStartsProtocol(x) PROVE ServersFirst'
    <2>1. UNCHANGED <<cfg, setup, muxer>> /\ StartInstance(x) /\ setup = "ok"
      BY <1>19, ZenonT(40) DEF AppStartsProtocol, worldUnchanged, setupVars
    <2>2. \A y \in Instances : Listening(y) => Listening(y)'
      BY <2>1 DEF StartInstance
    <2> QED  BY <2>1, <2>2, ZenonT(40) DEF Servers, Instances
  <1>20. CASE AppStartsMuxer
    BY <1>20, Zenon DEF AppStartsMuxer, worldUnchanged, setupVars
  <1>21. ASSUME NEW kind \in {"closed", "other"}, MuxerFails(kind) PROVE ServersFirst'
    BY <1>21, Zenon DEF MuxerFails, worldUnchanged, setupVars
  <1>22. ASSUME NEW c \in Closers, CloseCall(c) PROVE ServersFirst'
    BY <1>22, Zenon DEF CloseCall, downUnchanged, setupVars
  <1>23. CASE MuxForwardLeave
    BY <1>23, ZenonT(40) DEF MuxForwardLeave, forwardUnchanged, setupVars
  <1>24. CASE MuxForwardGet
    BY <1>24, Zenon DEF MuxForwardGet, forwardUnchanged, setupVars
  <1>25. CASE MuxForwardSuppress
    BY <1>25, Zenon DEF MuxForwardSuppress, forwardUnchanged, setupVars
  <1>26. CASE MuxForwardSend
    BY <1>26, Zenon DEF MuxForwardSend, forwardUnchanged, setupVars, ForwardError
  <1>27. CASE MuxForwardClose
    BY <1>27, ZenonT(40) DEF MuxForwardClose, forwardUnchanged, setupVars
  <1>28. CASE ProtoForwardLeave
    BY <1>28, Zenon DEF ProtoForwardLeave, forwardUnchanged, setupVars
  <1>29. CASE ProtoForwardGet
    BY <1>29, Zenon DEF ProtoForwardGet, forwardUnchanged, setupVars
  <1>30. CASE ProtoForwardSend
    BY <1>30, Zenon DEF ProtoForwardSend, forwardUnchanged, setupVars, ForwardError
  <1>31. CASE ProtoForwardClose
    BY <1>31, Zenon DEF ProtoForwardClose, forwardUnchanged, setupVars
  <1>32. CASE ShutdownBegin
    BY <1>32, Zenon DEF ShutdownBegin, downUnchanged, setupVars
  <1>33. CASE ShutdownMuxer
    BY <1>33, ZenonT(40) DEF ShutdownMuxer, downUnchanged, setupVars
  <1>34. CASE ShutdownWait
    BY <1>34, Zenon DEF ShutdownWait, downUnchanged, setupVars
  <1>35. CASE ShutdownClose
    BY <1>35, Zenon DEF ShutdownClose, downUnchanged, setupVars
  <1>36. ASSUME NEW x \in Instances, ShutdownStop(x) PROVE ServersFirst'
    BY <1>36 DEF ShutdownStop, downUnchanged, setupVars
  <1>37. ASSUME NEW c \in Closers, CloseReturn(c) PROVE ServersFirst'
    BY <1>37, Zenon DEF CloseReturn, downUnchanged, setupVars
  <1>38. CASE UNCHANGED vars
    BY <1>38, ZenonT(40) DEF vars, setupVars, errorVars
  <1> QED
    BY <1>1, <1>2, <1>3, <1>4, <1>5, <1>6, <1>7, <1>8, <1>9, <1>10, <1>11,
       <1>12, <1>13, <1>14, <1>15, <1>16, <1>17, <1>18, <1>19, <1>20, <1>21,
       <1>22, <1>23, <1>24, <1>25, <1>26, <1>27, <1>28, <1>29, <1>30, <1>31,
       <1>32, <1>33, <1>34, <1>35, <1>36, <1>37, <1>38, ZenonT(40)
       DEF Next, Program, SetupNext, WorldNext, ForwardNext, ShutdownNext, Ended

\* A forwarder that asks for the shutdown has sent its error or found no room.
LEMMA ReasonGivenStep ==
    Types /\ SetupStages /\ ReasonGiven /\ [Next]_vars => ReasonGiven'
  <1> SUFFICES ASSUME Types, SetupStages, ReasonGiven, [Next]_vars PROVE ReasonGiven'
    BY Zenon
  <1> USE DEF Types, SetupStages, ReasonGiven, Told
  <1>1. CASE SetupMuxer
    BY <1>1, Zenon DEF SetupMuxer, errorVars
  <1>2. CASE HandshakeAborted
    BY <1>2, Zenon DEF HandshakeAborted, setupUnchanged
  <1>3. CASE HandshakeFailed
    BY <1>3, Zenon DEF HandshakeFailed, setupUnchanged
  <1>4. CASE HandshakeTimeout
    BY <1>4, Zenon DEF HandshakeTimeout, setupUnchanged
  <1>5. CASE SetupClosed
    BY <1>5, Zenon DEF SetupClosed, setupUnchanged
  <1>6. CASE HandshakeDone
    BY <1>6, ZenonT(40) DEF HandshakeDone, setupUnchanged
  <1>7. CASE SetupErrors
    BY <1>7, Zenon DEF SetupErrors, setupUnchanged
  <1>8. CASE SetupRefused
    BY <1>8, Zenon DEF SetupRefused, setupUnchanged, ShuttingDown
  <1>9. CASE SetupLock
    BY <1>9, Zenon DEF SetupLock, setupUnchanged, ShuttingDown
  <1>10. CASE SetupConstruct
    BY <1>10, Zenon DEF SetupConstruct, setupUnchanged, EarlyRegistrations
  <1>11. CASE SetupRegistered
    BY <1>11, ZenonT(40) DEF SetupRegistered, setupUnchanged
  <1>12. CASE SetupStarted
    BY <1>12, Zenon DEF SetupStarted, setupUnchanged
  <1>13. ASSUME NEW x \in Instances, SetupRegister(x) PROVE ReasonGiven'
    BY <1>13, Zenon DEF SetupRegister, setupUnchanged
  <1>14. ASSUME NEW x \in Instances, SetupStart(x) PROVE ReasonGiven'
    BY <1>14, ZenonT(40) DEF SetupStart, setupUnchanged, StartInstance
  <1>15. CASE HandshakeFinishes
    BY <1>15, Zenon DEF HandshakeFinishes, worldUnchanged, setupVars
  <1>16. ASSUME NEW x \in Instances, ProtoWorks(x) PROVE ReasonGiven'
    BY <1>16, Zenon DEF ProtoWorks, worldUnchanged, setupVars
  <1>17. ASSUME NEW x \in Instances, ProtoSettles(x) PROVE ReasonGiven'
    BY <1>17, ZenonT(40) DEF ProtoSettles, worldUnchanged, setupVars
  <1>18. ASSUME NEW x \in Instances, ProtoFails(x) PROVE ReasonGiven'
    BY <1>18, ZenonT(40) DEF ProtoFails, worldUnchanged, setupVars
  <1>19. ASSUME NEW x \in Instances, AppStartsProtocol(x) PROVE ReasonGiven'
    BY <1>19, ZenonT(40) DEF AppStartsProtocol, worldUnchanged, setupVars, StartInstance
  <1>20. CASE AppStartsMuxer
    BY <1>20, Zenon DEF AppStartsMuxer, worldUnchanged, setupVars
  <1>21. ASSUME NEW kind \in {"closed", "other"}, MuxerFails(kind) PROVE ReasonGiven'
    BY <1>21, Zenon DEF MuxerFails, worldUnchanged, setupVars
  <1>22. ASSUME NEW c \in Closers, CloseCall(c) PROVE ReasonGiven'
    BY <1>22 DEF CloseCall, downUnchanged, setupVars
  <1>23. CASE MuxForwardLeave
    BY <1>23, Zenon DEF MuxForwardLeave, forwardUnchanged, setupVars
  <1>24. CASE MuxForwardGet
    BY <1>24, Zenon DEF MuxForwardGet, forwardUnchanged, setupVars
  <1>25. CASE MuxForwardSuppress
    BY <1>25, Zenon DEF MuxForwardSuppress, forwardUnchanged, setupVars
  <1>26. CASE MuxForwardSend
    <2>1. errorChan'.sent > 0 \/ doneChan
      BY <1>26, ConnectionAssumption DEF MuxForwardSend, ForwardError
    <2>2. errorChan.sent > 0 => errorChan'.sent > 0
      BY <1>26, ConnectionAssumption DEF MuxForwardSend, ForwardError
    <2> QED  BY <1>26, <2>1, <2>2, ZenonT(40) DEF MuxForwardSend, forwardUnchanged, setupVars
  <1>27. CASE MuxForwardClose
    BY <1>27, Zenon DEF MuxForwardClose, forwardUnchanged, setupVars
  <1>28. CASE ProtoForwardLeave
    BY <1>28, ZenonT(40) DEF ProtoForwardLeave, forwardUnchanged, setupVars
  <1>29. CASE ProtoForwardGet
    BY <1>29, ZenonT(40) DEF ProtoForwardGet, forwardUnchanged, setupVars
  <1>30. CASE ProtoForwardSend
    <2>1. errorChan'.sent > 0 \/ doneChan
      BY <1>30, ConnectionAssumption DEF ProtoForwardSend, ForwardError
    <2>2. errorChan.sent > 0 => errorChan'.sent > 0
      BY <1>30, ConnectionAssumption DEF ProtoForwardSend, ForwardError
    <2> QED  BY <1>30, <2>1, <2>2, ZenonT(40) DEF ProtoForwardSend, forwardUnchanged, setupVars
  <1>31. CASE ProtoForwardClose
    BY <1>31, ZenonT(40) DEF ProtoForwardClose, forwardUnchanged, setupVars
  <1>32. CASE ShutdownBegin
    BY <1>32, Zenon DEF ShutdownBegin, downUnchanged, setupVars
  <1>33. CASE ShutdownMuxer
    BY <1>33, ZenonT(40) DEF ShutdownMuxer, downUnchanged, setupVars
  <1>34. CASE ShutdownWait
    BY <1>34, ZenonT(40) DEF ShutdownWait, downUnchanged, setupVars
  <1>35. CASE ShutdownClose
    BY <1>35, ZenonT(40) DEF ShutdownClose, downUnchanged, setupVars
  <1>36. ASSUME NEW x \in Instances, ShutdownStop(x) PROVE ReasonGiven'
    BY <1>36, ZenonT(40) DEF ShutdownStop, downUnchanged, setupVars
  <1>37. ASSUME NEW c \in Closers, CloseReturn(c) PROVE ReasonGiven'
    BY <1>37 DEF CloseReturn, downUnchanged, setupVars
  <1>38. CASE UNCHANGED vars
    BY <1>38, ZenonT(40) DEF vars, setupVars, errorVars
  <1> QED
    BY <1>1, <1>2, <1>3, <1>4, <1>5, <1>6, <1>7, <1>8, <1>9, <1>10, <1>11,
       <1>12, <1>13, <1>14, <1>15, <1>16, <1>17, <1>18, <1>19, <1>20, <1>21,
       <1>22, <1>23, <1>24, <1>25, <1>26, <1>27, <1>28, <1>29, <1>30, <1>31,
       <1>32, <1>33, <1>34, <1>35, <1>36, <1>37, <1>38, ZenonT(40)
       DEF Next, Program, SetupNext, WorldNext, ForwardNext, ShutdownNext, Ended

-----------------------------------------------------------------------------
\* There are finitely many instances.
LEMMA InstancesFinite ==
    /\ IsFiniteSet(Instances)
    /\ \A S \in SUBSET Instances :
         IsFiniteSet(S) /\ Cardinality(S) \in Nat /\ Cardinality(S) <= Cardinality(Instances)
  <1>1. IsFiniteSet(Clients) /\ IsFiniteSet(Servers) /\ IsFiniteSet({Handshake})
    BY ConnectionAssumption, FS_Product, FS_Singleton, ZenonT(40) DEF Clients, Servers
  <1>2. IsFiniteSet({Handshake} \cup Clients)
    BY <1>1, FS_Union, ZenonT(40)
  <1>3. IsFiniteSet(Instances)
    BY <1>1, <1>2, FS_Union, ZenonT(40) DEF Instances
  <1> QED  BY <1>3, FS_Subset, FS_CardinalityType, Zenon

\* While the stopped instances stay stopped, an error more is one reported more.
LEMMA CountedFrame ==
    ASSUME Types, Types', ErrorsCounted, Stopped \subseteq Stopped',
           protoErrors' <= protoErrors + (reported' - reported)
    PROVE  ErrorsCounted'
  <1> DEFINE S == Stopped
             T == Stopped'
  <1>1. S \in SUBSET Instances /\ T \in SUBSET Instances /\ S \subseteq T
    BY Zenon DEF Stopped
  <1>2. Cardinality(S) <= Cardinality(T) /\ Cardinality(S) \in Nat /\ Cardinality(T) \in Nat
    <2> HIDE DEF S, T
    <2> QED  BY <1>1, InstancesFinite, FS_Subset, ZenonT(40)
  <1>3. /\ protoErrors \in Int /\ protoErrors' \in Int
        /\ reported \in Int /\ reported' \in Int
    BY ConnectionAssumption DEF Types
  <1>4. protoErrors <= reported + Cardinality(S)
    BY Zenon DEF ErrorsCounted
  <1>5. protoErrors' <= reported' + Cardinality(T)
    <2> DEFINE p == protoErrors
               pn == protoErrors'
               r == reported
               rn == reported'
               s == Cardinality(S)
               t == Cardinality(T)
    <2>1. p \in Int /\ pn \in Int /\ r \in Int /\ rn \in Int
      BY <1>3, Zenon
    <2>2. s \in Nat /\ t \in Nat /\ s <= t
      BY <1>2, Zenon
    <2>3. p <= r + s
      BY <1>4, Zenon
    <2>4. pn <= p + (rn - r)
      BY Zenon
    <2> HIDE DEF S, T, p, pn, r, rn, s, t
    <2>5. pn <= rn + t
      BY <2>1, <2>2, <2>3, <2>4
    <2> QED  BY <2>5, Zenon DEF pn, rn, t
  <1> QED  BY <1>5, Zenon DEF ErrorsCounted

\* An instance that cannot start is stopped for the error it reports.
LEMMA StartCounted ==
    ASSUME Types, Types', ErrorsCounted, NEW x \in Instances, StartInstance(x),
           reported' = reported
    PROVE  ErrorsCounted'
  <1>1. CASE UNCHANGED protoErrors
    <2>1. Stopped \subseteq Stopped'
      BY <1>1 DEF StartInstance, Stopped, Types
    <2> QED  BY <1>1, <2>1, CountedFrame, ConnectionAssumption DEF Types
  <1>2. CASE /\ proto[x] = "made" /\ proto' = [proto EXCEPT ![x] = "stopped"]
             /\ protoErrors' = protoErrors + 1
    <2> DEFINE S == Stopped
               T == Stopped'
    <2>1. T = S \cup {x} /\ x \notin S /\ S \in SUBSET Instances
      BY <1>2 DEF Stopped, Types
    <2>2. Cardinality(T) = Cardinality(S) + 1 /\ Cardinality(S) \in Nat
      <3> HIDE DEF S, T
      <3> QED  BY <2>1, InstancesFinite, FS_AddElement, Zenon
    <2>3. protoErrors \in Int /\ reported \in Int
      BY ConnectionAssumption DEF Types
    <2> QED  BY <1>2, <2>2, <2>3 DEF ErrorsCounted
  <1> QED  BY <1>1, <1>2, ZenonT(40) DEF StartInstance

\* Errors are counted in every step.
LEMMA ErrorsCountedStep ==
    Types /\ Types' /\ SetupStages /\ ErrorsCounted /\ [Next]_vars => ErrorsCounted'
  <1> SUFFICES ASSUME Types, Types', SetupStages, ErrorsCounted, [Next]_vars PROVE ErrorsCounted'
    OBVIOUS
  <1> USE DEF Types, SetupStages
  <1>1. CASE SetupMuxer
    <2>1. Stopped \subseteq Stopped'
      BY <1>1, ZenonT(40) DEF SetupMuxer, errorVars, Stopped
    <2>2. protoErrors' <= protoErrors + (reported' - reported)
      BY <1>1, ConnectionAssumption DEF SetupMuxer, errorVars
    <2> QED  BY <2>1, <2>2, CountedFrame, ZenonT(40)
  <1>2. CASE HandshakeAborted
    <2>1. UNCHANGED <<proto, protoErrors, reported>>
      BY <1>2, ZenonT(40) DEF HandshakeAborted, setupUnchanged, errorVars
    <2> QED  BY <2>1 DEF ErrorsCounted, Stopped
  <1>3. CASE HandshakeFailed
    <2>1. Stopped \subseteq Stopped'
      BY <1>3, ZenonT(40) DEF HandshakeFailed, setupUnchanged, Stopped
    <2>2. protoErrors' <= protoErrors + (reported' - reported)
      BY <1>3, ConnectionAssumption DEF HandshakeFailed, setupUnchanged
    <2> QED  BY <2>1, <2>2, CountedFrame, Zenon
  <1>4. CASE HandshakeTimeout
    <2>1. UNCHANGED <<proto, protoErrors, reported>>
      BY <1>4, ZenonT(40) DEF HandshakeTimeout, setupUnchanged, errorVars
    <2> QED  BY <2>1 DEF ErrorsCounted, Stopped
  <1>5. CASE SetupClosed
    <2>1. UNCHANGED <<proto, protoErrors, reported>>
      BY <1>5, ZenonT(40) DEF SetupClosed, setupUnchanged, errorVars
    <2> QED  BY <2>1 DEF ErrorsCounted, Stopped
  <1>6. CASE HandshakeDone
    <2>1. UNCHANGED <<proto, protoErrors, reported>>
      BY <1>6, ZenonT(40) DEF HandshakeDone, setupUnchanged, errorVars
    <2> QED  BY <2>1 DEF ErrorsCounted, Stopped
  <1>7. CASE SetupErrors
    <2>1. UNCHANGED <<proto, protoErrors, reported>>
      BY <1>7, ZenonT(40) DEF SetupErrors, setupUnchanged, errorVars
    <2> QED  BY <2>1 DEF ErrorsCounted, Stopped
  <1>8. CASE SetupRefused
    <2>1. UNCHANGED <<proto, protoErrors, reported>>
      BY <1>8, ZenonT(40) DEF SetupRefused, setupUnchanged, ShuttingDown, errorVars
    <2> QED  BY <2>1 DEF ErrorsCounted, Stopped
  <1>9. CASE SetupLock
    <2>1. UNCHANGED <<proto, protoErrors, reported>>
      BY <1>9, ZenonT(40) DEF SetupLock, setupUnchanged, ShuttingDown, errorVars
    <2> QED  BY <2>1 DEF ErrorsCounted, Stopped
  <1>10. CASE SetupConstruct
    <2>1. Stopped \subseteq Stopped'
      BY <1>10, ZenonT(40) DEF SetupConstruct, setupUnchanged, Stopped
    <2>2. protoErrors' <= protoErrors + (reported' - reported)
      BY <1>10, ConnectionAssumption DEF SetupConstruct, setupUnchanged
    <2> QED  BY <2>1, <2>2, CountedFrame, Zenon
  <1>11. CASE SetupRegistered
    <2>1. UNCHANGED <<proto, protoErrors, reported>>
      BY <1>11, ZenonT(40) DEF SetupRegistered, setupUnchanged, errorVars
    <2> QED  BY <2>1 DEF ErrorsCounted, Stopped
  <1>12. CASE SetupStarted
    <2>1. UNCHANGED <<proto, protoErrors, reported>>
      BY <1>12, ZenonT(40) DEF SetupStarted, setupUnchanged, errorVars
    <2> QED  BY <2>1 DEF ErrorsCounted, Stopped
  <1>13. ASSUME NEW x \in Instances, SetupRegister(x) PROVE ErrorsCounted'
    <2>1. Stopped \subseteq Stopped'
      BY <1>13 DEF SetupRegister, setupUnchanged, Stopped
    <2>2. protoErrors' <= protoErrors + (reported' - reported)
      BY <1>13, ConnectionAssumption DEF SetupRegister, setupUnchanged
    <2> QED  BY <2>1, <2>2, CountedFrame, ZenonT(40)
  <1>14. ASSUME NEW x \in Instances, SetupStart(x) PROVE ErrorsCounted'
    <2>1. StartInstance(x) /\ reported' = reported
      BY <1>14, ZenonT(40) DEF SetupStart, setupUnchanged
    <2> QED  BY <2>1, StartCounted, ZenonT(40)
  <1>15. CASE HandshakeFinishes
    <2>1. UNCHANGED <<proto, protoErrors, reported>>
      BY <1>15, ZenonT(40) DEF HandshakeFinishes, worldUnchanged, setupVars, errorVars
    <2> QED  BY <2>1 DEF ErrorsCounted, Stopped
  <1>16. ASSUME NEW x \in Instances, ProtoWorks(x) PROVE ErrorsCounted'
    <2>1. UNCHANGED <<proto, protoErrors, reported>>
      BY <1>16, ZenonT(40) DEF ProtoWorks, worldUnchanged, setupVars, errorVars
    <2> QED  BY <2>1 DEF ErrorsCounted, Stopped
  <1>17. ASSUME NEW x \in Instances, ProtoSettles(x) PROVE ErrorsCounted'
    <2>1. UNCHANGED <<proto, protoErrors, reported>>
      BY <1>17, ZenonT(40) DEF ProtoSettles, worldUnchanged, setupVars, errorVars
    <2> QED  BY <2>1 DEF ErrorsCounted, Stopped
  <1>18. ASSUME NEW x \in Instances, ProtoFails(x) PROVE ErrorsCounted'
    <2>1. Stopped \subseteq Stopped'
      BY <1>18 DEF ProtoFails, worldUnchanged, setupVars, Stopped
    <2>2. protoErrors' <= protoErrors + (reported' - reported)
      BY <1>18, ConnectionAssumption DEF ProtoFails, worldUnchanged, setupVars
    <2> QED  BY <2>1, <2>2, CountedFrame, Zenon
  <1>19. ASSUME NEW x \in Instances, AppStartsProtocol(x) PROVE ErrorsCounted'
    <2>1. StartInstance(x) /\ reported' = reported
      BY <1>19, ZenonT(40) DEF AppStartsProtocol, worldUnchanged, setupVars
    <2> QED  BY <2>1, StartCounted, Zenon
  <1>20. CASE AppStartsMuxer
    <2>1. UNCHANGED <<proto, protoErrors, reported>>
      BY <1>20, ZenonT(40) DEF AppStartsMuxer, worldUnchanged, setupVars, errorVars
    <2> QED  BY <2>1 DEF ErrorsCounted, Stopped
  <1>21. ASSUME NEW kind \in {"closed", "other"}, MuxerFails(kind) PROVE ErrorsCounted'
    <2>1. UNCHANGED <<proto, protoErrors, reported>>
      BY <1>21, ZenonT(40) DEF MuxerFails, worldUnchanged, setupVars, errorVars
    <2> QED  BY <2>1 DEF ErrorsCounted, Stopped
  <1>22. ASSUME NEW c \in Closers, CloseCall(c) PROVE ErrorsCounted'
    <2>1. UNCHANGED <<proto, protoErrors, reported>>
      BY <1>22, ZenonT(40) DEF CloseCall, downUnchanged, setupVars, errorVars
    <2> QED  BY <2>1 DEF ErrorsCounted, Stopped
  <1>23. CASE MuxForwardLeave
    <2>1. UNCHANGED <<proto, protoErrors, reported>>
      BY <1>23, ZenonT(40) DEF MuxForwardLeave, forwardUnchanged, setupVars, errorVars
    <2> QED  BY <2>1 DEF ErrorsCounted, Stopped
  <1>24. CASE MuxForwardGet
    <2>1. UNCHANGED <<proto, protoErrors, reported>>
      BY <1>24, ZenonT(40) DEF MuxForwardGet, forwardUnchanged, setupVars, errorVars
    <2> QED  BY <2>1 DEF ErrorsCounted, Stopped
  <1>25. CASE MuxForwardSuppress
    <2>1. UNCHANGED <<proto, protoErrors, reported>>
      BY <1>25, ZenonT(40) DEF MuxForwardSuppress, forwardUnchanged, setupVars, errorVars
    <2> QED  BY <2>1 DEF ErrorsCounted, Stopped
  <1>26. CASE MuxForwardSend
    <2>1. UNCHANGED <<proto, protoErrors, reported>>
      BY <1>26, ZenonT(40) DEF MuxForwardSend, forwardUnchanged, setupVars, ForwardError, errorVars
    <2> QED  BY <2>1 DEF ErrorsCounted, Stopped
  <1>27. CASE MuxForwardClose
    <2>1. UNCHANGED <<proto, protoErrors, reported>>
      BY <1>27, ZenonT(40) DEF MuxForwardClose, forwardUnchanged, setupVars, errorVars
    <2> QED  BY <2>1 DEF ErrorsCounted, Stopped
  <1>28. CASE ProtoForwardLeave
    <2>1. UNCHANGED <<proto, protoErrors, reported>>
      BY <1>28, ZenonT(40) DEF ProtoForwardLeave, forwardUnchanged, setupVars, errorVars
    <2> QED  BY <2>1 DEF ErrorsCounted, Stopped
  <1>29. CASE ProtoForwardGet
    <2>1. Stopped \subseteq Stopped'
      BY <1>29, ZenonT(40) DEF ProtoForwardGet, forwardUnchanged, setupVars, Stopped
    <2>2. protoErrors' <= protoErrors + (reported' - reported)
      BY <1>29, ConnectionAssumption DEF ProtoForwardGet, forwardUnchanged, setupVars
    <2> QED  BY <2>1, <2>2, CountedFrame, Zenon
  <1>30. CASE ProtoForwardSend
    <2>1. UNCHANGED <<proto, protoErrors, reported>>
      BY <1>30, ZenonT(40) DEF ProtoForwardSend, forwardUnchanged, setupVars, ForwardError, errorVars
    <2> QED  BY <2>1 DEF ErrorsCounted, Stopped
  <1>31. CASE ProtoForwardClose
    <2>1. UNCHANGED <<proto, protoErrors, reported>>
      BY <1>31, ZenonT(40) DEF ProtoForwardClose, forwardUnchanged, setupVars, errorVars
    <2> QED  BY <2>1 DEF ErrorsCounted, Stopped
  <1>32. CASE ShutdownBegin
    <2>1. UNCHANGED <<proto, protoErrors, reported>>
      BY <1>32, ZenonT(40) DEF ShutdownBegin, downUnchanged, setupVars, errorVars
    <2> QED  BY <2>1 DEF ErrorsCounted, Stopped
  <1>33. CASE ShutdownMuxer
    <2>1. UNCHANGED <<proto, protoErrors, reported>>
      BY <1>33, ZenonT(40) DEF ShutdownMuxer, downUnchanged, setupVars, errorVars
    <2> QED  BY <2>1 DEF ErrorsCounted, Stopped
  <1>34. CASE ShutdownWait
    <2>1. UNCHANGED <<proto, protoErrors, reported>>
      BY <1>34, ZenonT(40) DEF ShutdownWait, downUnchanged, setupVars, errorVars
    <2> QED  BY <2>1 DEF ErrorsCounted, Stopped
  <1>35. CASE ShutdownClose
    <2>1. UNCHANGED <<proto, protoErrors, reported>>
      BY <1>35, ZenonT(40) DEF ShutdownClose, downUnchanged, setupVars, errorVars
    <2> QED  BY <2>1 DEF ErrorsCounted, Stopped
  <1>36. ASSUME NEW x \in Instances, ShutdownStop(x) PROVE ErrorsCounted'
    <2>1. Stopped \subseteq Stopped'
      BY <1>36 DEF ShutdownStop, downUnchanged, setupVars, Stopped
    <2>2. protoErrors' <= protoErrors + (reported' - reported)
      BY <1>36, ConnectionAssumption DEF ShutdownStop, downUnchanged, setupVars
    <2> QED  BY <2>1, <2>2, CountedFrame, Zenon
  <1>37. ASSUME NEW c \in Closers, CloseReturn(c) PROVE ErrorsCounted'
    <2>1. UNCHANGED <<proto, protoErrors, reported>>
      BY <1>37, ZenonT(40) DEF CloseReturn, downUnchanged, setupVars, errorVars
    <2> QED  BY <2>1 DEF ErrorsCounted, Stopped
  <1>38. CASE UNCHANGED vars
    BY <1>38 DEF vars, setupVars, errorVars, ErrorsCounted, Stopped
  <1> QED
    BY <1>1, <1>2, <1>3, <1>4, <1>5, <1>6, <1>7, <1>8, <1>9, <1>10, <1>11,
       <1>12, <1>13, <1>14, <1>15, <1>16, <1>17, <1>18, <1>19, <1>20, <1>21,
       <1>22, <1>23, <1>24, <1>25, <1>26, <1>27, <1>28, <1>29, <1>30, <1>31,
       <1>32, <1>33, <1>34, <1>35, <1>36, <1>37, <1>38, ZenonT(40)
       DEF Next, Program, SetupNext, WorldNext, ForwardNext, ShutdownNext, Ended

-----------------------------------------------------------------------------
\* A connection begins with nothing made, nothing reported and nothing closed.
LEMMA InitConnectionInv == Init => ConnectionInv
  <1> SUFFICES ASSUME Init PROVE ConnectionInv
    BY Zenon
  <1>1. Types
    <2>1. /\ muxer \in [stopped : BOOLEAN, started : BOOLEAN,
                       error : {"none", "closed", "other"}]
          /\ shutdown \in [pc : {"wait", "stop", "waitGroup", "close", "end"},
                           stop : SUBSET Instances]
      BY ZenonT(40) DEF Init
    <2>2. errorChan \in [sent : 0..ErrorCap, closed : BOOLEAN] /\ reported \in 0..MaxErrors
      BY ConnectionAssumption DEF Init
    <2> QED  BY <2>1, <2>2, ZenonT(40) DEF Init, Types
  <1>2. SetupStages /\ ServersFirst /\ ShutdownStages /\ ReasonGiven
    BY Zenon DEF Init, SetupStages, ServersFirst, ShutdownStages, ReasonGiven
  <1>3. ErrorsCounted
    <2>1. Stopped = {} /\ protoErrors = 0 /\ reported = 0
      BY Zenon DEF Init, Stopped
    <2> QED  BY <2>1, FS_EmptySet DEF ErrorsCounted
  <1> QED  BY <1>1, <1>2, <1>3, Zenon DEF ConnectionInv

\* ConnectionInv is inductive.
LEMMA NextConnectionInv == ConnectionInv /\ [Next]_vars => ConnectionInv'
  BY TypesStep, SetupStagesStep, ShutdownStagesStep, ServersFirstStep,
     ReasonGivenStep, ErrorsCountedStep, ZenonT(40) DEF ConnectionInv

\* ConnectionInv holds for the life of a connection.
LEMMA ConnectionInvariance == Spec => []ConnectionInv
  BY InitConnectionInv, NextConnectionInv, PTL DEF Spec

(***************************************************************************)
(* The types hold, the errors fit their channels, and the muxer reads on   *)
(* only when every server this side runs is registered (setupConnection).  *)
(***************************************************************************)
THEOREM ConnectionSetupInOrder == Spec => []SetupInOrder
  <1>1. ConnectionInv => SetupInOrder
    <2> SUFFICES ASSUME ConnectionInv PROVE SetupInOrder
      BY Zenon
    <2>1. protoErrors \in 0..(MaxErrors + Cardinality(Instances))
      <3>1. Stopped \in SUBSET Instances
        BY ZenonT(40) DEF Stopped
      <3>2. /\ Cardinality(Stopped) \in Nat /\ Cardinality(Instances) \in Nat
            /\ Cardinality(Stopped) <= Cardinality(Instances)
        BY <3>1, InstancesFinite, FS_CardinalityType, ZenonT(40)
      <3>3. protoErrors \in Nat /\ reported \in 0..MaxErrors
        BY ZenonT(40) DEF ConnectionInv, Types
      <3> QED  BY <3>2, <3>3, ConnectionAssumption DEF ConnectionInv, ErrorsCounted
    <2>2. TypeOK
      BY <2>1 DEF ConnectionInv, Types, TypeOK
    <2>3. ServersRegisteredFirst
      BY Zenon DEF ConnectionInv, SetupStages, ServersFirst, Listening, ServersRegisteredFirst
    <2> QED  BY <2>2, <2>3, ZenonT(40) DEF SetupInOrder
  <1> QED  BY <1>1, ConnectionInvariance, PTL

(***************************************************************************)
(* A closed connection has stopped its muxer and every mini-protocol, in   *)
(* whatever order the shutdown and setupConnection met, and its consumer   *)
(* knows why it closed.                                                    *)
(***************************************************************************)
THEOREM ConnectionClosedCleanly == Spec => []ClosedCleanly
  <1>1. ConnectionInv => ClosedCleanly
    <2> SUFFICES ASSUME ConnectionInv PROVE ClosedCleanly
      BY Zenon
    <2>1. ClosedMeansStopped
      BY ZenonT(40) DEF ConnectionInv, ShutdownStages, Down, ClosedMeansStopped
    <2>2. NoSilentClose
      BY Zenon DEF ConnectionInv, ShutdownStages, ReasonGiven, Told, NoSilentClose
    <2> QED  BY <2>1, <2>2, Zenon DEF ClosedCleanly
  <1> QED  BY <1>1, ConnectionInvariance, PTL

=============================================================================
