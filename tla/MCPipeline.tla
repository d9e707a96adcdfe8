----------------------------- MODULE MCPipeline -----------------------------
(***************************************************************************)
(* Instances of Pipeline for TLC.                                          *)
(***************************************************************************)
EXTENDS Pipeline, TLC

\* The three ways a pipeline is set up: it validates and applies, it validates
\* headers for somebody else to apply, or it only decodes trusted blocks.
Full == [trusted |-> FALSE, headerOnly |-> FALSE, validating |-> TRUE,
         applyFunc |-> TRUE, chainContext |-> TRUE, resolver |-> TRUE,
         eta0 |-> TRUE, verifyConfig |-> TRUE, skipBodyHash |-> FALSE,
         bypass |-> FALSE, kesPeriod |-> TRUE]
Trusted == [Full EXCEPT !.trusted = TRUE, !.validating = FALSE, !.applyFunc = FALSE,
                        !.chainContext = FALSE, !.resolver = FALSE]

\* Every combination of the settings, for the checks of Start.
AllConfigs ==
    [trusted : BOOLEAN, headerOnly : BOOLEAN, validating : BOOLEAN,
     applyFunc : BOOLEAN, chainContext : BOOLEAN, resolver : BOOLEAN,
     eta0 : BOOLEAN, verifyConfig : BOOLEAN, skipBodyHash : BOOLEAN,
     bypass : BOOLEAN, kesPeriod : BOOLEAN]

AllFailures == {"decode", "validate", "context", "apply"}

\* The callers, and the workers that may be exchanged for each other.
CONSTANTS s1, s2, w1, d1, d2, v1, v2

\* Scenarios differ from this one: one caller of an unhurried pipeline with a
\* worker in each pool, whose results are read and which nothing disturbs.
Quiet(n) ==
    [configs |-> {Full}, maxPending |-> 1, maxRaw |-> 6,
     decoders |-> {"d"}, validators |-> {"v"},
     calls |-> (s1 :> n @@ s2 :> 0), rawSizes |-> {1}, drains |-> {},
     mayFail |-> {}, mayCancel |-> {}, mayStop |-> FALSE,
     mayLoseParent |-> FALSE, consumes |-> TRUE]

\* Two callers of a pipeline that only decodes share a budget of four bytes.
Sharing(n, m) ==
    [Quiet(n) EXCEPT !.configs = {Trusted}, !.maxRaw = 4, !.validators = {},
                     !.calls[s2] = m, !.mayCancel = {s1}]

\* A drain races a rejected block and Stop, with nobody reading the results.
Draining(n) ==
    [Quiet(n) EXCEPT !.maxRaw = 4, !.drains = {w1}, !.consumes = FALSE,
                     !.mayFail = {"context"}, !.mayStop = TRUE]

\* Blocks overtake each other in pools of two workers and are rejected or cut
\* off; the byte budget is contended for, given up and stopped; a drain races
\* a rejected block, Stop and its own cancellation; every configuration.
SafetyScenarios ==
    [order |-> [Quiet(3) EXCEPT !.validators = {v1, v2},
                                !.mayFail = {"validate", "context"}],
     lost |-> [Quiet(2) EXCEPT !.validators = {v1, v2}, !.mayFail = {"validate"},
                               !.mayLoseParent = TRUE],
     budget |-> [Sharing(2, 1) EXCEPT !.rawSizes = {1, 4}, !.mayStop = TRUE],
     drain |-> [Draining(2) EXCEPT !.configs = {Trusted}, !.validators = {},
                                   !.mayFail = {"decode"}],
     cancelledDrain |-> [Draining(1) EXCEPT !.mayCancel = {w1}],
     modes |-> [Quiet(2) EXCEPT !.configs = AllConfigs, !.maxPending = 0,
                                !.mayFail = AllFailures]]

\* Good blocks overtake each other before a reader of Results and a drain; two
\* callers contend for the bytes; Stop comes with nobody reading the results.
LiveScenarios ==
    [good |-> [Quiet(3) EXCEPT !.decoders = {d1, d2}, !.validators = {v1, v2}],
     drained |-> [Quiet(2) EXCEPT !.drains = {w1}],
     bytes |-> [Sharing(2, 1) EXCEPT !.rawSizes = {2}],
     stop |-> [Quiet(2) EXCEPT !.mayFail = {"apply"}, !.mayStop = TRUE,
                               !.consumes = FALSE]]

WorkerSymmetry == Permutations({d1, d2}) \cup Permutations({v1, v2})
=============================================================================
