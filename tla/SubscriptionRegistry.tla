------------------------ MODULE SubscriptionRegistry ------------------------
(***************************************************************************)
(* src/realtime/subscription-registry.ts and websocket-server.ts: which    *)
(* browsers of one API process listen to which event, kept twice (per      *)
(* socket and per event), and the Redis channels opened for them.          *)
(*                                                                         *)
(* Node runs one callback at a time, so an action is what runs between two *)
(* awaits.  Commands to Redis are sent in order and take effect later.     *)
(* While the connection is down the client refuses a command at once       *)
(* (enableOfflineQueue: false); nothing catches that refusal, and the      *)
(* process answers it like any unhandled rejection: it shuts down.         *)
(***************************************************************************)
EXTENDS Naturals, FiniteSets, Sequences, SequencesExt

CONSTANTS Sockets, Events,
          MaxSubscriptions,   \* config.realtime.maxSubscriptionsPerConnection
          MaxAsks,            \* bound: copies of one SUBSCRIBE_EVENT under way
          MaxWire             \* bound: commands on their way to Redis

RegistryAssumption ==
    /\ MaxSubscriptions \in Nat \ {0} /\ MaxAsks \in Nat \ {0}
    /\ IsFiniteSet(Events)
    /\ MaxWire \in Nat /\ MaxWire >= Cardinality(Events)

VARIABLES conn,       \* a WebSocket: "open" while it is in `connections`
          gone,       \* sockets whose peer has vanished without a close
          isAlive,    \* sockets that have answered the last ping
          subs,       \* connections[ws].subscriptions
          local,      \* eventSubscribers
          asking,     \* handleSubscribe calls waiting for canSubscribeToEvent
          up,         \* the subscriber connection is ready
          wire,       \* commands sent and not yet executed
          channels,   \* the channels Redis has open for this process
          process,
          dropped     \* history: sockets closed on peers that were there

registry == <<subs, local>>
redis    == <<up, wire, channels>>
vars     == <<conn, gone, isAlive, registry, asking, redis, process, dropped>>

Command == [verb : {"subscribe", "unsubscribe"}, event : Events]

TypeOK ==
    /\ conn \in [Sockets -> {"open", "closed"}]
    /\ gone \subseteq Sockets /\ isAlive \subseteq Sockets /\ dropped \subseteq Sockets
    /\ subs \in [Sockets -> SUBSET Events]
    /\ local \in [Events -> SUBSET Sockets]
    /\ asking \in [Sockets -> [Events -> 0..MaxAsks]]
    /\ up \in BOOLEAN
    /\ wire \in Seq(Command) /\ Len(wire) <= MaxWire
    /\ channels \subseteq Events
    /\ process \in {"running", "stopping", "stopped"}

Init ==
    /\ conn = [w \in Sockets |-> "closed"]
    /\ gone = {} /\ isAlive = {} /\ dropped = {}
    /\ subs = [w \in Sockets |-> {}]
    /\ local = [e \in Events |-> {}]
    /\ asking = [w \in Sockets |-> [e \in Events |-> 0]]
    /\ up = TRUE /\ wire = <<>> /\ channels = {}
    /\ process = "running"

-----------------------------------------------------------------------------
(* The subscriber connection *)

\* Commands for events E; one that cannot be sent is an unhandled rejection.
Send(verb, E) ==
    IF E = {} THEN UNCHANGED <<redis, process>>
    ELSE /\ UNCHANGED <<up, channels>>
         /\ IF up
            THEN /\ Len(wire) + Cardinality(E) <= MaxWire
                 /\ wire' = wire \o [i \in 1..Cardinality(E) |->
                                       [verb |-> verb, event |-> SetToSeq(E)[i]]]
                 /\ UNCHANGED process
            ELSE process' = "stopping" /\ UNCHANGED wire

\* Redis executes the next command.
Execute ==
    /\ up /\ wire # <<>>
    /\ LET c == Head(wire) IN
         channels' = IF c.verb = "subscribe" THEN channels \cup {c.event} ELSE channels \ {c.event}
    /\ wire' = Tail(wire)
    /\ UNCHANGED <<conn, gone, isAlive, registry, asking, up, process, dropped>>

\* The connection breaks: what is under way is sent again later, or given up
\* (maxRetriesPerRequest: 1).
Disconnect ==
    /\ up /\ process # "stopped"
    /\ up' = FALSE
    /\ \/ UNCHANGED <<wire, process>>
       \/ wire # <<>> /\ wire' = <<>> /\ process' = "stopping"
    /\ UNCHANGED <<conn, gone, isAlive, registry, asking, channels, dropped>>

\* The client reconnects and opens the channels it had open.
Reconnect ==
    /\ ~up
    /\ up' = TRUE
    /\ UNCHANGED <<conn, gone, isAlive, registry, asking, wire, channels, process, dropped>>

-----------------------------------------------------------------------------
(* The registry *)

\* For the mutants: the connection may have closed during the await.
subscribeAnyConnection(w, e) ==
    /\ subs' = [subs EXCEPT ![w] = @ \cup {e}]
    /\ local' = [local EXCEPT ![e] = @ \cup {w}]
    /\ Send("subscribe", IF local[e] = {} THEN {e} ELSE {})

subscribeConnection(w, e) ==
    IF conn[w] # "open" \/ e \in subs[w]
    THEN UNCHANGED <<registry, redis, process>>
    ELSE /\ subs' = [subs EXCEPT ![w] = @ \cup {e}]
         /\ local' = [local EXCEPT ![e] = @ \cup {w}]
         /\ Send("subscribe", IF local[e] = {} THEN {e} ELSE {})

\* For the mutants: the channel is closed although others listen.
removeLocalSubscriberAndChannel(w, e) ==
    /\ local' = [local EXCEPT ![e] = @ \ {w}]
    /\ Send("unsubscribe", {e})

removeLocalSubscriber(w, e) ==
    /\ local' = [local EXCEPT ![e] = @ \ {w}]
    /\ Send("unsubscribe", IF local[e] = {w} THEN {e} ELSE {})

unsubscribeConnection(w, e) ==
    IF e \notin subs[w]
    THEN UNCHANGED <<registry, redis, process>>
    ELSE /\ subs' = [subs EXCEPT ![w] = @ \ {e}]
         /\ removeLocalSubscriber(w, e)

\* The 'close' handlers of the sockets in W, one after the other.
deregisterConnections(W) ==
    /\ conn' = [w \in Sockets |-> IF w \in W THEN "closed" ELSE conn[w]]
    /\ subs' = [w \in Sockets |-> IF w \in W THEN {} ELSE subs[w]]
    /\ local' = [e \in Events |-> local[e] \ W]
    /\ Send("unsubscribe", {e \in Events : local[e] # {} /\ local[e] \subseteq W})

-----------------------------------------------------------------------------
(* The WebSocket server *)

\* 'connection': registerConnection, with no await before the listeners are there.
Connect(w) ==
    /\ process = "running"
    /\ conn[w] = "closed" /\ \A e \in Events : asking[w][e] = 0
    /\ conn' = [conn EXCEPT ![w] = "open"]
    /\ gone' = gone \ {w} /\ isAlive' = isAlive \cup {w}
    /\ UNCHANGED <<registry, asking, redis, process, dropped>>

\* The checks before the await.
MayAsk(w, e) == e \notin subs[w] /\ Cardinality(subs[w]) < MaxSubscriptions

handleSubscribe(w, e) ==
    /\ conn[w] = "open" /\ w \notin gone
    /\ MayAsk(w, e)
    /\ asking[w][e] < MaxAsks
    /\ asking' = [asking EXCEPT ![w][e] = @ + 1]
    /\ UNCHANGED <<conn, gone, isAlive, registry, redis, process, dropped>>

\* canSubscribeToEvent answers, or fails, which counts as "not found".
Authorised(w, e, allowed) ==
    /\ asking[w][e] > 0
    /\ asking' = [asking EXCEPT ![w][e] = @ - 1]
    /\ IF allowed THEN subscribeConnection(w, e) ELSE UNCHANGED <<registry, redis, process>>
    /\ UNCHANGED <<conn, gone, isAlive, dropped>>

handleUnsubscribe(w, e) ==
    /\ conn[w] = "open" /\ w \notin gone
    /\ unsubscribeConnection(w, e)
    /\ UNCHANGED <<conn, gone, isAlive, asking, dropped>>

\* The client goes away and says so ...
Close(w) ==
    /\ conn[w] = "open" /\ w \notin gone
    /\ deregisterConnections({w})
    /\ UNCHANGED <<gone, isAlive, asking, dropped>>

\* ... or does not.
Vanish(w) ==
    /\ conn[w] = "open"
    /\ gone' = gone \cup {w}
    /\ UNCHANGED <<conn, isAlive, registry, asking, redis, process, dropped>>

Pong(w) ==
    /\ conn[w] = "open" /\ w \notin gone
    /\ isAlive' = isAlive \cup {w}
    /\ UNCHANGED <<conn, gone, registry, asking, redis, process, dropped>>

Open == {w \in Sockets : conn[w] = "open"}

\* For the mutants: pinged again without waiting for the last answer.
HeartbeatForgiving ==
    /\ Open # {} /\ process # "stopped"
    /\ deregisterConnections(Open \ isAlive)
    /\ UNCHANGED <<gone, isAlive, asking, dropped>>

\* One turn of the interval: who has not answered is terminated, the rest pinged.
Heartbeat ==
    /\ Open # {} /\ process # "stopped"
    /\ deregisterConnections(Open \ isAlive)
    /\ isAlive' = {}
    /\ UNCHANGED <<gone, asking, dropped>>

\* closeWebSocketServer and the end of the process, after an unhandled rejection.
closeWebSocketServer ==
    /\ process = "stopping"
    /\ process' = "stopped"
    /\ dropped' = Open \ gone
    /\ conn' = [w \in Sockets |-> "closed"]
    /\ subs' = [w \in Sockets |-> {}] /\ local' = [e \in Events |-> {}]
    /\ asking' = [w \in Sockets |-> [e \in Events |-> 0]]
    /\ wire' = <<>> /\ channels' = {}
    /\ UNCHANGED <<gone, isAlive, up>>

\* The platform starts the process again.
startSubscriptionRegistry ==
    /\ process = "stopped" /\ up
    /\ process' = "running" /\ dropped' = {}
    /\ UNCHANGED <<conn, gone, isAlive, registry, asking, redis>>

-----------------------------------------------------------------------------

Next ==
    \/ Execute \/ Disconnect \/ Reconnect
    \/ Heartbeat \/ closeWebSocketServer \/ startSubscriptionRegistry
    \/ \E w \in Sockets :
         \/ Connect(w) \/ Close(w) \/ Vanish(w) \/ Pong(w)
         \/ \E e \in Events :
              \/ handleSubscribe(w, e) \/ handleUnsubscribe(w, e)
              \/ \E allowed \in BOOLEAN : Authorised(w, e, allowed)

Spec == Init /\ [][Next]_vars

\* The interval fires as long as there are connections, and commands are executed; the
\* latter only makes room on the bounded wire.
Fairness == SF_vars(Heartbeat) /\ WF_vars(Execute) /\ WF_vars(Reconnect)

-----------------------------------------------------------------------------
(* Properties *)

\* subscribeConnection, unsubscribeConnection, deregisterConnection: the two maps of the
\* registry say the same, and a socket that has closed is in neither, although it may
\* close while its SUBSCRIBE_EVENT waits for the database.
TwoWay ==
    \A w \in Sockets, e \in Events :
        /\ w \in local[e] <=> e \in subs[w]
        /\ e \in subs[w] => conn[w] = "open"

\* The channels once Redis has executed what it was sent: the last command for an event
\* decides.
Settled ==
    {e \in Events :
        \/ e \in channels /\ \A i \in DOMAIN wire : wire[i].event # e
        \/ \E i \in DOMAIN wire :
              /\ wire[i] = [verb |-> "subscribe", event |-> e]
              /\ \A j \in DOMAIN wire : j > i => wire[j].event # e}

\* Reference counting of the channels: once Redis has executed what it was sent, this
\* process listens to exactly the events somebody here watches, whatever order sockets
\* join and leave in and however often the connection to Redis breaks.
ChannelsMatch == process = "running" => Settled = {e \in Events : local[e] # {}}

\* The registry's maps agree with each other, with the sockets and with Redis.
RegistrySound == TypeOK /\ TwoWay /\ ChannelsMatch

\* startHeartbeat: a peer that vanished without closing is not kept forever.
DeadPeersDropped ==
    \A w \in Sockets : (conn[w] = "open" /\ w \in gone) ~> conn[w] # "open"

\* config.realtime.maxSubscriptionsPerConnection: how many events one connection may be
\* subscribed to at once.
SubscriptionLimit == \A w \in Sockets : Cardinality(subs[w]) <= MaxSubscriptions

\* handleMessage: a failure is answered with an ERROR message, not with a closed
\* connection.
FailuresAnswered == dropped = {}
=============================================================================
