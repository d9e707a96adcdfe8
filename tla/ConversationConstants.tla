------------------------ MODULE ConversationConstants ------------------------
(* The parameters of module Conversation.                                  *)
EXTENDS Naturals

CONSTANTS
    Tables,     \* protocol -> [map |-> its StateMap, init |-> its InitialState]
    MaxAhead,   \* bound: messages a role sends ahead of its turn
    MaxStream   \* bound: messages under way in one direction

ASSUME ConversationAssumption ==
    /\ {MaxAhead, MaxStream} \subseteq Nat
    /\ \A t \in DOMAIN Tables : Tables[t].init \in DOMAIN Tables[t].map
==============================================================================
