---------------------------- MODULE Conversation ----------------------------
(***************************************************************************)
(* What the engine of module Protocol promises for a StateMap: a client    *)
(* and a server that take turns as the map's agency says, on two first-in  *)
(* first-out streams.  A role may send ahead of its turn what the map      *)
(* declares as pipelined; the transition of such a message is deferred     *)
(* until the turn comes.  There are no loops, queues, tokens or counters.  *)
(***************************************************************************)
EXTENDS ConversationConstants, Integers, Sequences

VARIABLES
    spoken,      \* the protocol that is spoken
    view,       \* the state each role is in
    stream,     \* sent by the role and not yet applied by its peer
    deferred,   \* sent ahead by the role, its own transition still to come
    last        \* the state the role's last message leads to

vars == <<spoken, view, stream, deferred, last>>

Roles == {"client", "server"}

Peer(p) == IF p = "client" THEN "server" ELSE "client"

Map == Tables[spoken].map

Turn(p) == Map[view[p]].agency

Over(p) == Turn(p) = "none"

Legal(p, m) == m \in DOMAIN Map[view[p]].next

\* Where a message sent ahead leads when its turn comes.
Target(p, m) ==
    LET s == CHOOSE s \in DOMAIN Map : Map[s].agency = p /\ m \in DOMAIN Map[s].next
    IN  Map[s].next[m]

Advance(p, m) == view' = [view EXCEPT ![p] = Map[@].next[m]]

Put(p, m, s) ==
    /\ Len(stream[p]) < MaxStream
    /\ stream' = [stream EXCEPT ![p] = Append(@, m)]
    /\ last' = [last EXCEPT ![p] = s]

Init ==
    /\ spoken \in DOMAIN Tables
    /\ view = [p \in Roles |-> Tables[spoken].init]
    /\ stream = [p \in Roles |-> <<>>]
    /\ deferred = [p \in Roles |-> <<>>]
    /\ last = [p \in Roles |-> Tables[spoken].init]

\* A message legal in the state the role is in.
Send(p, m) ==
    /\ Turn(p) = p
    /\ deferred[p] = <<>>
    /\ Advance(p, m)
    /\ Put(p, m, Map[view[p]].next[m])
    /\ UNCHANGED <<spoken, deferred>>

\* A message declared as pipelined in the state the role's last one leads to.
SendAhead(p, m) ==
    /\ Map[last[p]].agency = Peer(p)
    /\ Len(deferred[p]) < MaxAhead
    /\ deferred' = [deferred EXCEPT ![p] = Append(@, m)]
    /\ Put(p, m, Target(p, m))
    /\ UNCHANGED <<spoken, view>>

BugTransitionSkipped(p) ==
    /\ deferred[p] # <<>>
    /\ Turn(p) = p
    /\ deferred' = [deferred EXCEPT ![p] = Tail(@)]
    /\ UNCHANGED <<spoken, view, stream, last>>

CatchUp(p) ==
    /\ deferred[p] # <<>>
    /\ Turn(p) = p
    /\ Legal(p, Head(deferred[p]))
    /\ Advance(p, Head(deferred[p]))
    /\ deferred' = [deferred EXCEPT ![p] = Tail(@)]
    /\ UNCHANGED <<spoken, stream, last>>

Receive(p) ==
    LET q == Peer(p)
    IN  /\ stream[q] # <<>>
        /\ Turn(p) = q
        /\ Legal(p, Head(stream[q]))
        /\ Advance(p, Head(stream[q]))
        /\ stream' = [stream EXCEPT ![q] = Tail(@)]
        /\ UNCHANGED <<spoken, deferred, last>>

\* The conversation is over; nothing else stops it.
Ended ==
    /\ \A p \in Roles : Over(p)
    /\ UNCHANGED vars

Next ==
    \/ \E p \in Roles :
          \/ CatchUp(p)
          \/ Receive(p)
          \/ \E m \in DOMAIN Map[view[p]].next : Send(p, m)
          \/ \E m \in Map[last[p]].types : SendAhead(p, m)
    \/ Ended

Spec == Init /\ [][Next]_vars


-----------------------------------------------------------------------------

(***************************************************************************)
(* What a peer sends within the rules is never a protocol violation to     *)
(* reserveInboundAdmission: it is legal, or its type is declared as        *)
(* pipelined in the state the receiver is in by then, or it can only be    *)
(* the reply to a request sent ahead; and nothing follows the end.         *)
(***************************************************************************)
AlwaysAdmissible ==
    \A p \in Roles :
        LET in == stream[Peer(p)]
        IN  in # <<>> =>
                \/ Turn(p) = Peer(p) /\ Legal(p, Head(in))
                \/ Turn(p) = p /\ \A i \in DOMAIN in : in[i] \in Map[view[p]].types
                \/ Turn(p) = p /\ deferred[p] # <<>>

(***************************************************************************)
(* The two roles are in the same state whenever nothing is under way, so   *)
(* exactly one of them has the turn.                                       *)
(***************************************************************************)
Agreement ==
    (\A p \in Roles : stream[p] = <<>> /\ deferred[p] = <<>>)
        => view["client"] = view["server"]

(***************************************************************************)
(* A mini-protocol's table is sound for two roles that pipeline within it: *)
(* nothing a role sends is a violation to its peer, the roles agree on     *)
(* whose turn it is, and the conversation never stops short of its end.    *)
(***************************************************************************)
SoundTable == AlwaysAdmissible /\ Agreement /\ ENABLED Next

=============================================================================
