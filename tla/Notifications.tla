---------------------------- MODULE Notifications ----------------------------
(***************************************************************************)
(* The WebSocket notifications: the token read by src/dms/config/          *)
(* middleware.py, the consumer of src/dms/notification/consumers.py, the   *)
(* publisher of publishers.py, and between them the channel layer in Redis *)
(* (modelled from how they use it): the group, and a bounded queue for     *)
(* each connection.  Tokens come and go meanwhile (Accounts).              *)
(*                                                                         *)
(* A connection is used once: its channel name is new.  Events are         *)
(* numbered in the order in which their publication begins.                *)
(***************************************************************************)
EXTENDS Accounts, FiniteSets

CONSTANTS
    Connections,
    Publishers,    \* the processes that announce events
    NoKey,         \* no token in a header or a query string, or no user
    MaxEvents,
    Capacity,      \* messages a channel holds
    MaxFaults      \* how often Redis fails, or the server of the connections dies

ASSUME NoKeyAssumption == NoKey \notin Keys
ASSUME NotificationBounds ==
    MaxEvents \in Nat /\ Capacity \in Nat \ {0} /\ MaxFaults \in Nat

VARIABLES
    connection,    \* [pc, key, late, since] of each connection
    members,       \* the channels in the group
    queue,         \* the events in each channel
    received,      \* the events each client was sent
    missed,        \* the events each channel had no room for, or lost in Redis
    publication,   \* the event each publisher is sending, 0 for none, and to whom
    events,        \* how many events were announced
    sent,          \* the events that reached Redis
    stale,         \* channels whose group_discard never happened
    faults         \* faults that may still happen

notificationVars ==
    <<connection, members, queue, received, missed, publication, events, sent, stale, faults>>
vars == <<accountVars, notificationVars>>

-----------------------------------------------------------------------------
NewConnection == [pc |-> "new", key |-> NoKey, late |-> FALSE, since |-> 0]
NoPublication == [event |-> 0, to |-> {}]

Init ==
    /\ AccountInit
    /\ connection = [s \in Connections |-> NewConnection]
    /\ members = {}
    /\ queue = [s \in Connections |-> {}]
    /\ received = [s \in Connections |-> {}]
    /\ missed = [s \in Connections |-> {}]
    /\ publication = [p \in Publishers |-> NoPublication]
    /\ events = 0
    /\ sent = {}
    /\ stale = {}
    /\ faults = MaxFaults

ConnectionAt(s, pc) == connection[s].pc = pc
ConnectionGoes(s, pc) == connection' = [connection EXCEPT ![s].pc = pc]

Fault == faults > 0 /\ faults' = faults - 1
NoFault == UNCHANGED faults

-----------------------------------------------------------------------------
(* TokenAuthMiddleware.                                                    *)

TokenFromScope(header, query) == IF header # NoKey THEN header ELSE query

\* Mutant: the row of the token is not looked up.
UserOfToken_Unchecked(key) == key

\* The anonymous user has no key.
UserOfToken(key) == IF key # NoKey /\ Valid(key) THEN key ELSE NoKey

Connect(s, header, query) ==
    /\ ConnectionAt(s, "new")
    /\ connection' = [connection EXCEPT ![s] =
          [pc |-> "connect", key |-> UserOfToken(TokenFromScope(header, query)),
           late |-> TokenFromScope(header, query) \in answered, since |-> 0]]
    /\ UNCHANGED <<members, queue, received, missed, publication, events, sent, stale, faults>>

-----------------------------------------------------------------------------
(* NotificationConsumer.                                                   *)

\* Mutant: anonymous users are let in.
Authenticated_Anyone(s) == TRUE

Authenticated(s) == connection[s].key # NoKey

\* Mutant: the connection is accepted before it joins the group.
ConnectSteps_AcceptFirst == [connect |-> "accept", accept |-> "join", join |-> "open"]

\* The order of connect().
ConnectSteps == [connect |-> "join", join |-> "accept", accept |-> "open"]

\* Mutant: an anonymous connection is neither accepted nor closed.
Rejection_None == "connect"

\* close(code=4401)
Rejection == "closed"

BeginConnect(s) ==
    /\ ConnectionAt(s, "connect")
    /\ ConnectionGoes(s, IF Authenticated(s) THEN ConnectSteps["connect"] ELSE Rejection)
    /\ UNCHANGED <<members, queue, received, missed, publication, events, sent, stale, faults>>

\* An error of the channel layer ends the consumer, and the server closes the connection.
JoinGroup(s) ==
    /\ ConnectionAt(s, "join")
    /\ \/ members' = members \cup {s} /\ ConnectionGoes(s, ConnectSteps["join"]) /\ NoFault
       \/ Fault /\ ConnectionGoes(s, "closed") /\ UNCHANGED members
    /\ UNCHANGED <<queue, received, missed, publication, events, sent, stale>>

\* From here on the client knows that it is connected.
Accept(s) ==
    /\ ConnectionAt(s, "accept")
    /\ connection' = [connection EXCEPT ![s].pc = ConnectSteps["accept"], ![s].since = events]
    /\ UNCHANGED <<members, queue, received, missed, publication, events, sent, stale, faults>>

\* Mutant: the channel stays in the group.
Discarded_None(s) == {}

Discarded(s) == {s}

\* disconnect(): the client has gone; the channel is discarded, or Redis fails.
Disconnect(s) ==
    /\ ConnectionAt(s, "open")
    /\ ConnectionGoes(s, "closed")
    /\ \/ members' = members \ Discarded(s) /\ NoFault /\ UNCHANGED stale
       \/ Fault /\ stale' = stale \cup {s} /\ UNCHANGED members
    /\ UNCHANGED <<queue, received, missed, publication, events, sent>>

\* Mutant: the event is taken and not sent on.
Forwarded_Not(e) == {}

Forwarded(e) == {e}

\* notification_event(): the consumer handles one message after the other, once connect()
\* has returned.
Receive(s, e) ==
    /\ ConnectionAt(s, "open")
    /\ e \in queue[s]
    /\ queue' = [queue EXCEPT ![s] = @ \ {e}]
    /\ received' = [received EXCEPT ![s] = @ \cup Forwarded(e)]
    /\ UNCHANGED <<connection, members, missed, publication, events, sent, stale, faults>>

\* The server dies with all of its connections; Redis keeps the group.
ServerDies ==
    /\ Fault
    /\ connection' = [s \in Connections |->
          IF ConnectionAt(s, "new") THEN connection[s]
          ELSE [connection[s] EXCEPT !.pc = "closed"]]
    /\ stale' = stale \cup members
    /\ UNCHANGED <<members, queue, received, missed, publication, events, sent>>

-----------------------------------------------------------------------------
(* DocumentEventPublisher._publish.                                        *)

\* group_send reads the group ...
BeginPublish(p) ==
    /\ publication[p] = NoPublication
    /\ events < MaxEvents
    /\ events' = events + 1
    /\ publication' = [publication EXCEPT ![p] = [event |-> events', to |-> members]]
    /\ UNCHANGED <<connection, members, queue, received, missed, sent, stale, faults>>

HasRoom(s) == Cardinality(queue[s]) < Capacity

\* ... and puts the event into every channel that has room; an error is logged and the
\* event is lost.
Publish(p) ==
    LET e == publication[p].event
        to == publication[p].to
    IN
    /\ publication[p] # NoPublication
    /\ publication' = [publication EXCEPT ![p] = NoPublication]
    /\ \/ /\ queue' = [s \in Connections |->
                          IF s \in to /\ HasRoom(s) THEN queue[s] \cup {e} ELSE queue[s]]
          /\ missed' = [s \in Connections |->
                          IF s \in to /\ ~HasRoom(s) THEN missed[s] \cup {e} ELSE missed[s]]
          /\ sent' = sent \cup {e}
          /\ NoFault
       \/ Fault /\ UNCHANGED <<queue, missed, sent>>
    /\ UNCHANGED <<connection, members, received, events, stale>>

-----------------------------------------------------------------------------
ConsumerStep(s) ==
    \/ BeginConnect(s)
    \/ JoinGroup(s)
    \/ Accept(s)
    \/ \E e \in 1 .. MaxEvents : Receive(s, e)

NotificationNext ==
    \/ \E s \in Connections :
          \/ \E header, query \in Keys \cup {NoKey} : Connect(s, header, query)
          \/ ConsumerStep(s)
          \/ Disconnect(s)
    \/ \E p \in Publishers : BeginPublish(p) \/ Publish(p)
    \/ ServerDies

Next ==
    \/ AccountNext /\ UNCHANGED notificationVars
    \/ NotificationNext /\ UNCHANGED accountVars

\* The event loop of the server goes on with every connection, and a publisher with its
\* publication.
Spec ==
    /\ Init /\ [][Next]_vars
    /\ \A s \in Connections : WF_vars(ConsumerStep(s) /\ UNCHANGED accountVars)
    /\ \A p \in Publishers : WF_vars(Publish(p) /\ UNCHANGED accountVars)

-----------------------------------------------------------------------------
(* Correctness.                                                            *)

Joining == {"connect", "join", "accept"}

\* The types of the variables; the user of a connection was issued the token; an event is
\* queued, received or missed by a connection, only one of these, and was sent.
TypeOK ==
    /\ user \in [Users -> [exists : BOOLEAN, is_active : BOOLEAN, groups : SUBSET RoleNames]]
    /\ \A u \in Users : issued[u] \in 0 .. MaxTokens[u] /\ token[u] \in 0 .. MaxTokens[u]
    /\ answered \subseteq Keys
    /\ connection \in [Connections ->
          [pc : {"new", "open", "closed"} \cup Joining, key : Keys \cup {NoKey},
           late : BOOLEAN, since : 0 .. MaxEvents]]
    /\ \A s \in Connections :
          LET key == connection[s].key IN key # NoKey => key[2] \in 1 .. issued[key[1]]
    /\ members \subseteq Connections /\ stale \subseteq Connections
    /\ events \in 0 .. MaxEvents /\ faults \in 0 .. MaxFaults
    /\ \A s \in Connections :
          /\ queue[s] \cup received[s] \cup missed[s] \subseteq sent
          /\ queue[s] \cap received[s] = {} /\ missed[s] \cap (queue[s] \cup received[s]) = {}

\* Only connections with a token get events, and none with a token whose logout had been
\* answered when it connected (consumers.py:9-12, middleware.py:51-53).
MembersAuthenticated ==
    \A s \in Connections :
        s \in members \/ ConnectionAt(s, "open") \/ queue[s] # {} \/ received[s] # {} =>
            connection[s].key \in Keys /\ ~connection[s].late

\* An open connection has every event that was announced after it was accepted and did
\* reach Redis, unless its channel was full then: there is no gap between joining the
\* group and being accepted (consumers.py:14-18).
NothingMissed ==
    \A s \in Connections, e \in sent :
        ConnectionAt(s, "open") /\ e > connection[s].since =>
            e \in queue[s] \cup received[s] \cup missed[s]

\* The group holds the connections that are there, and no others but those whose server
\* or Redis failed when they ended (consumers.py:20-28).
MembersConnected ==
    \A s \in members : connection[s].pc \in {"join", "accept", "open"} \/ s \in stale

\* Every client that connects is accepted or turned away.
HandshakesEnd ==
    \A s \in Connections : ConnectionAt(s, "connect") ~> connection[s].pc \in {"open", "closed"}

\* An event in a channel reaches the client while it stays connected.
EventsReceived ==
    \A s \in Connections, e \in 1 .. MaxEvents :
        e \in queue[s] ~> e \in received[s] \/ ConnectionAt(s, "closed")

=============================================================================
