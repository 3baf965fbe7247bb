------------------------- MODULE ConnectionManager -------------------------
(***************************************************************************)
(* The /ws/calls/{campaign_id} fan-out: the route handler (routers/ws.py), *)
(* the ConnectionManager (ws/manager.py) and the Redis subscriber task     *)
(* (ws/redis_subscriber.py), all coroutines of one asyncio event loop.     *)
(*                                                                         *)
(* A step is what a coroutine does between two points where it can yield.  *)
(* A socket connects once; its name also stands for the subscriber task    *)
(* its connect starts and for the shutdown timer its disconnect arms.      *)
(***************************************************************************)
EXTENDS Naturals, Sequences

CONSTANTS Sockets,      \* the WebSocket connections of the run
          Campaigns,    \* campaign ids
          CampaignOf,   \* the campaign in the URL of each socket
          Authorised,   \* the sockets whose token verifies
          Faults,       \* Redis failures: "subscribe", "listen", "unsubscribe"
          MaxEvents,    \* bound on the events published per campaign
          None          \* no task, no timer handle

ASSUME CampaignOfAssumption == CampaignOf \in [Sockets -> Campaigns]
ASSUME AuthorisedAssumption == Authorised \subseteq Sockets
ASSUME MaxEventsAssumption == MaxEvents \in Nat
ASSUME NoneAssumption == None \notin Sockets

VARIABLES
    handler,          \* where each socket's ws_calls coroutine stands
    gone,             \* the sockets whose peer has left
    lock,             \* ConnectionManager._lock: the holder, then its FIFO waiters
    connections,      \* _connections; {} stands for an absent key
    tasks,            \* _tasks; None stands for an absent key
    shutdownHandles,  \* _shutdown_handles; None stands for an absent key
    stopper,          \* the timer and the _maybe_stop_subscriber task it spawns
    sub,              \* the state of each subscriber task
    registered,       \* the subscribers Redis forwards the channel to
    cursor,           \* the last event each subscriber has read
    targets,          \* the rest of the snapshot fan_out is sending to
    published,        \* the number of events published per campaign
    recv,             \* the events each peer has received, in order
    owed,             \* history: events published while a subscriber served the socket
    server            \* "up", or "stopping" once the lifespan has ended

managerVars == <<connections, tasks, shutdownHandles>>
feedVars == <<registered, cursor, targets, recv>>
busVars == <<published, owed>>
vars == <<handler, gone, lock, managerVars, stopper, sub, feedVars, busVars, server>>

Handler(s) == <<"handler", s>>
Stopper(s) == <<"stopper", s>>
Processes == {"handler", "stopper"} \X Sockets

Init ==
    /\ handler = [s \in Sockets |-> "idle"]
    /\ gone = {}
    /\ lock = <<>>
    /\ connections = [c \in Campaigns |-> {}]
    /\ tasks = [c \in Campaigns |-> None]
    /\ shutdownHandles = [c \in Campaigns |-> None]
    /\ stopper = [s \in Sockets |-> "none"]
    /\ sub = [s \in Sockets |-> "none"]
    /\ registered = {}
    /\ cursor = [s \in Sockets |-> 0]
    /\ targets = [s \in Sockets |-> {}]
    /\ published = [c \in Campaigns |-> 0]
    /\ recv = [s \in Sockets |-> <<>>]
    /\ owed = [s \in Sockets |-> {}]
    /\ server = "up"

-----------------------------------------------------------------------------
(* asyncio.Lock: waiters are served in the order they asked.               *)

Acquire(p) == lock' = Append(lock, p)
Holds(p) == lock # <<>> /\ Head(lock) = p
Release == lock' = Tail(lock)

\* Mutant: the handle stays in the dict.
HandleKept(c) == shutdownHandles

\* _shutdown_handles.pop(campaign, None)
HandlePopped(c) == [shutdownHandles EXCEPT ![c] = None]

(* _cancel_pending_shutdown: a timer that has not fired is disarmed; one   *)
(* that has fired leaves its _maybe_stop_subscriber task running.          *)
CancelPendingShutdown(c) ==
    /\ shutdownHandles' = HandlePopped(c)
    /\ stopper' = [s \in Sockets |->
                     IF s = shutdownHandles[c] /\ stopper[s] = "armed"
                     THEN "cancelled" ELSE stopper[s]]

(* _schedule_shutdown: at most one timer is pending per campaign.          *)
ScheduleShutdown(c, s) ==
    IF shutdownHandles[c] # None
    THEN UNCHANGED <<shutdownHandles, stopper>>
    ELSE /\ shutdownHandles' = [shutdownHandles EXCEPT ![c] = s]
         /\ stopper' = [stopper EXCEPT ![s] = "armed"]

-----------------------------------------------------------------------------
(* ws_calls: a socket arrives, connects, stays open and disconnects.       *)

\* Mutant: the token is not checked.
AnyToken(s) == TRUE

\* _verify_token_or_none returns the claims.
Verified(s) == s \in Authorised

\* The token does not verify: accept, close 4401, never reach the manager.
Reject(s) ==
    /\ server = "up"
    /\ handler[s] = "idle"
    /\ ~ Verified(s)
    /\ handler' = [handler EXCEPT ![s] = "rejected"]
    /\ UNCHANGED <<gone, lock, managerVars, stopper, sub, feedVars, busVars, server>>

\* The socket is accepted and connect() asks for the lock.
Accept(s) ==
    /\ server = "up"
    /\ handler[s] = "idle"
    /\ Verified(s)
    /\ handler' = [handler EXCEPT ![s] = "connecting"]
    /\ Acquire(Handler(s))
    /\ UNCHANGED <<gone, managerVars, stopper, sub, feedVars, busVars, server>>

\* connect() up to its test of _tasks.
EnterConnections(s) ==
    /\ handler[s] = "connecting"
    /\ Holds(Handler(s))
    /\ CancelPendingShutdown(CampaignOf[s])
    /\ connections' = [connections EXCEPT ![CampaignOf[s]] = @ \cup {s}]

\* The campaign has a task already: connect() returns without a yield.
Join(s) ==
    /\ EnterConnections(s)
    /\ tasks[CampaignOf[s]] # None
    /\ handler' = [handler EXCEPT ![s] = "open"]
    /\ Release
    /\ UNCHANGED <<gone, tasks, sub, feedVars, busVars, server>>

\* Mutant: connect() does not test _tasks.
Unstarted(c) == TRUE

NoTask(c) == tasks[c] = None

\* No task: connect() awaits the factory's SUBSCRIBE and keeps the lock.
StartSubscriber(s) ==
    /\ EnterConnections(s)
    /\ NoTask(CampaignOf[s])
    /\ handler' = [handler EXCEPT ![s] = "starting"]
    /\ sub' = [sub EXCEPT ![s] = "subscribing"]
    /\ UNCHANGED <<gone, lock, tasks, feedVars, busVars, server>>

\* SUBSCRIBE was sent: the task is created and stored, the lock released.
Subscribed(s) ==
    /\ handler[s] = "starting"
    /\ Holds(Handler(s))
    /\ sub' = [sub EXCEPT ![s] = "listening"]
    /\ tasks' = [tasks EXCEPT ![CampaignOf[s]] = s]
    /\ handler' = [handler EXCEPT ![s] = "open"]
    /\ Release
    /\ UNCHANGED <<gone, connections, shutdownHandles, stopper, feedVars, busVars, server>>

\* Mutant: the lock is not given back when the factory raises.
LockKept == UNCHANGED lock

\* The end of connect()'s async with.
LockLeft == Release

\* SUBSCRIBE raised: the exception leaves connect(), which the handler calls
\* before its try, so nothing takes the socket out of _connections again.
SubscribeFails(s) ==
    /\ "subscribe" \in Faults
    /\ handler[s] = "starting"
    /\ Holds(Handler(s))
    /\ sub' = [sub EXCEPT ![s] = "stopped"]
    /\ registered' = registered \ {s}
    /\ handler' = [handler EXCEPT ![s] = "failed"]
    /\ gone' = gone \cup {s}
    /\ LockLeft
    /\ UNCHANGED <<managerVars, stopper, cursor, targets, recv, busVars, server>>

\* The peer goes away (or the server closes the socket to shut down).
PeerLeaves(s) ==
    /\ handler[s] \in {"connecting", "starting", "open"}
    /\ s \notin gone
    /\ gone' = gone \cup {s}
    /\ UNCHANGED <<handler, lock, managerVars, stopper, sub, feedVars, busVars, server>>

\* receive_text raises WebSocketDisconnect: disconnect() asks for the lock.
Leave(s) ==
    /\ handler[s] = "open"
    /\ s \in gone
    /\ handler' = [handler EXCEPT ![s] = "leaving"]
    /\ Acquire(Handler(s))
    /\ UNCHANGED <<gone, managerVars, stopper, sub, feedVars, busVars, server>>

\* Mutant: disconnect() pops the campaign while other sockets are in it.
NoneLeft(s) == {}

OthersOf(s) == connections[CampaignOf[s]] \ {s}

\* disconnect(): the last socket of the campaign arms the shutdown timer.
Disconnect(s) ==
    LET c == CampaignOf[s]
        rest == OthersOf(s)
    IN  /\ handler[s] = "leaving"
        /\ Holds(Handler(s))
        /\ connections' = [connections EXCEPT ![c] = rest]
        /\ IF connections[c] # {} /\ rest = {}
           THEN ScheduleShutdown(c, s)
           ELSE UNCHANGED <<shutdownHandles, stopper>>
        /\ handler' = [handler EXCEPT ![s] = "closed"]
        /\ Release
        /\ UNCHANGED <<gone, tasks, sub, feedVars, busVars, server>>

-----------------------------------------------------------------------------
(* The delayed shutdown.                                                   *)

\* SHUTDOWN_DELAY_SECONDS are over: create_task(_maybe_stop_subscriber).
TimerFires(s) ==
    /\ stopper[s] = "armed"
    /\ stopper' = [stopper EXCEPT ![s] = "spawned"]
    /\ UNCHANGED <<handler, gone, lock, managerVars, sub, feedVars, busVars, server>>

\* The spawned task runs for the first time and asks for the lock.
StopperStarts(s) ==
    /\ stopper[s] = "spawned"
    /\ stopper' = [stopper EXCEPT ![s] = "waiting"]
    /\ Acquire(Stopper(s))
    /\ UNCHANGED <<handler, gone, managerVars, sub, feedVars, busVars, server>>

\* _maybe_stop_subscriber under the lock, up to its re-check.
StopperRuns(s) ==
    /\ stopper[s] = "waiting"
    /\ Holds(Stopper(s))
    /\ shutdownHandles' = HandlePopped(CampaignOf[s])
    /\ stopper' = [stopper EXCEPT ![s] = "done"]
    /\ Release

\* A socket has connected meanwhile, or there is no task to stop.
KeepSubscriber(s) ==
    /\ StopperRuns(s)
    /\ \/ connections[CampaignOf[s]] # {}
       \/ tasks[CampaignOf[s]] = None
    /\ UNCHANGED <<handler, gone, connections, tasks, sub, feedVars, busVars, server>>

\* task.cancel(): the task drops what it was sending; one already in its
\* finally is cut out of it, for no clause there catches CancelledError; a
\* finished one is not affected. The stopper then only awaits the task's end.
Cancel(T) ==
    /\ sub' = [t \in Sockets |->
                 IF t \in T /\ sub[t] = "listening" THEN "cancelling"
                 ELSE IF t \in T /\ sub[t] = "failing" THEN "cut" ELSE sub[t]]
    /\ targets' = [t \in Sockets |-> IF t \in T THEN {} ELSE targets[t]]

\* Mutant: the cancelled task stays in _tasks.
TasksKept(c) == tasks

\* _tasks.pop(campaign)
TaskPopped(c) == [tasks EXCEPT ![c] = None]

\* Mutant: no re-check of the connections under the lock.
AssumedIdle(c) == TRUE

Idle(c) == connections[c] = {}

StopSubscriber(s) ==
    LET c == CampaignOf[s]
    IN  /\ StopperRuns(s)
        /\ Idle(c)
        /\ tasks[c] # None
        /\ tasks' = TaskPopped(c)
        /\ Cancel({tasks[c]})
        /\ UNCHANGED <<handler, gone, connections, registered, cursor, recv, busVars, server>>

-----------------------------------------------------------------------------
(* Redis and the subscriber task.                                          *)

\* The engine publishes an event on the campaign's channel.
Publish(c) ==
    LET t == tasks[c]
    IN  /\ published[c] < MaxEvents
        /\ published' = [published EXCEPT ![c] = @ + 1]
        /\ owed' = [w \in Sockets |->
                      IF t \in registered /\ w \in connections[c]
                      THEN owed[w] \cup {published[c] + 1} ELSE owed[w]]
        /\ UNCHANGED <<handler, gone, lock, managerVars, stopper, sub, feedVars, server>>

\* Redis handles the SUBSCRIBE some time after the client has sent it.
Register(t) ==
    /\ sub[t] \in {"subscribing", "listening"}
    /\ t \notin registered
    /\ registered' = registered \cup {t}
    /\ cursor' = [cursor EXCEPT ![t] = published[CampaignOf[t]]]
    /\ UNCHANGED <<handler, gone, lock, managerVars, stopper, sub, targets, recv, busVars, server>>

\* Mutant: the next message is read before fan_out has sent the last one.
Unawaited(t) == TRUE

\* fan_out has returned.
FannedOut(t) == targets[t] = {}

\* listen() yields the next message and fan_out takes its snapshot.
Receive(t) ==
    /\ sub[t] = "listening"
    /\ t \in registered
    /\ FannedOut(t)
    /\ cursor[t] < published[CampaignOf[t]]
    /\ cursor' = [cursor EXCEPT ![t] = @ + 1]
    /\ targets' = [targets EXCEPT ![t] = connections[CampaignOf[t]]]
    /\ UNCHANGED <<handler, gone, lock, managerVars, stopper, sub, registered, recv, busVars, server>>

\* Mutant: a send that fails ends the loop over the snapshot.
GivenUp(t, w) == IF w \in gone THEN {} ELSE targets[t] \ {w}

\* The rest of the loop.
Remaining(t, w) == targets[t] \ {w}

\* One send_text of fan_out; a send to a peer that left is logged and skipped.
Deliver(t, w) ==
    /\ sub[t] = "listening"
    /\ w \in targets[t]
    /\ targets' = [targets EXCEPT ![t] = Remaining(t, w)]
    /\ recv' = IF w \in gone THEN recv
               ELSE [recv EXCEPT ![w] = Append(@, cursor[t])]
    /\ UNCHANGED <<handler, gone, lock, managerVars, stopper, sub, registered, cursor, busVars, server>>

\* listen() or decode() raises: _run logs the error and enters its finally.
\* A lost connection has ended the subscription, a decode error has not.
SubscriberFails(t) ==
    /\ "listen" \in Faults
    /\ sub[t] = "listening"
    /\ targets[t] = {}
    /\ sub' = [sub EXCEPT ![t] = "failing"]
    /\ registered' \in {registered, registered \ {t}}
    /\ UNCHANGED <<handler, gone, lock, managerVars, stopper, cursor, targets, recv, busVars, server>>

\* Mutant: the task unsubscribes only when it failed, not when cancelled.
StillRegistered(t) == registered

\* pubsub.unsubscribe
Unregistered(t) == registered \ {t}

\* The task is over.
TaskEnds(t) ==
    /\ sub' = [sub EXCEPT ![t] = IF @ = "failing" THEN "dead" ELSE "stopped"]
    /\ UNCHANGED <<handler, gone, lock, managerVars, stopper, cursor, targets, recv, busVars, server>>

\* The finally block has unsubscribed and closed.
SubscriberEnds(t) ==
    /\ sub[t] \in {"cancelling", "failing"}
    /\ registered' = Unregistered(t)
    /\ TaskEnds(t)

\* The finally block ends before close(): unsubscribe raised, which is
\* swallowed, or a cancel cut it. Redis may have had the UNSUBSCRIBE or not.
CleanupSkipped(t) ==
    /\ \/ sub[t] = "cut"
       \/ sub[t] \in {"cancelling", "failing"} /\ "unsubscribe" \in Faults
    /\ registered' \in {registered, Unregistered(t)}
    /\ TaskEnds(t)

-----------------------------------------------------------------------------
\* Mutant: shutdown() forgets the tasks without cancelling them.
Forgotten == {}

\* The tasks shutdown() cancels.
AllTasks == {tasks[c] : c \in Campaigns}

\* Lifespan exit, which uvicorn runs once every handler has returned:
\* shutdown() takes no lock.
Shutdown ==
    /\ server = "up"
    /\ \A s \in Sockets : handler[s] \in {"idle", "rejected", "closed", "failed"}
    /\ server' = "stopping"
    /\ stopper' = [s \in Sockets |->
                     IF stopper[s] = "armed" /\ s = shutdownHandles[CampaignOf[s]]
                     THEN "cancelled" ELSE stopper[s]]
    /\ shutdownHandles' = [c \in Campaigns |-> None]
    /\ tasks' = [c \in Campaigns |-> None]
    /\ Cancel(AllTasks)
    /\ UNCHANGED <<handler, gone, lock, connections, registered, cursor, recv, busVars>>

HandlerStep(s) ==
    \/ Reject(s) \/ Accept(s) \/ Join(s) \/ StartSubscriber(s) \/ Subscribed(s)
    \/ SubscribeFails(s) \/ PeerLeaves(s) \/ Leave(s) \/ Disconnect(s)

StopperStep(s) ==
    \/ TimerFires(s) \/ StopperStarts(s) \/ KeepSubscriber(s) \/ StopSubscriber(s)

SubscriberStep(t) ==
    \/ Register(t) \/ Receive(t) \/ (\E w \in Sockets : Deliver(t, w))
    \/ SubscriberFails(t) \/ SubscriberEnds(t) \/ CleanupSkipped(t)

Next ==
    \/ \E s \in Sockets : HandlerStep(s) \/ StopperStep(s) \/ SubscriberStep(s)
    \/ \E c \in Campaigns : Publish(c)
    \/ Shutdown

Spec == Init /\ [][Next]_vars

(* The event loop runs every coroutine that can go on, timers fire, Redis  *)
(* answers and a send ends (uvicorn's ping timeout closes a stuck peer).   *)
(* Nobody has to connect, to leave, to publish, to fail or to shut down.   *)
Fairness ==
    \A s \in Sockets :
        /\ WF_vars(Join(s)) /\ WF_vars(StartSubscriber(s))
        /\ WF_vars(Subscribed(s) \/ SubscribeFails(s))
        /\ WF_vars(Leave(s)) /\ WF_vars(Disconnect(s))
        /\ WF_vars(TimerFires(s)) /\ WF_vars(StopperStarts(s))
        /\ WF_vars(KeepSubscriber(s)) /\ WF_vars(StopSubscriber(s))
        /\ WF_vars(Register(s)) /\ WF_vars(Receive(s))
        /\ WF_vars(SubscriberEnds(s) \/ CleanupSkipped(s))
        /\ WF_vars(\E w \in Sockets : Deliver(s, w))

FairSpec == Spec /\ Fairness

-----------------------------------------------------------------------------
(* Properties.                                                             *)

\* Every variable has its type; a socket whose token does not verify stays
\* outside the manager (ws_calls before it calls connect).
TypeOK ==
    /\ handler \in [Sockets -> {"idle", "rejected", "connecting", "starting",
                                "open", "leaving", "closed", "failed"}]
    /\ \A s \in Sockets \ Authorised : handler[s] \in {"idle", "rejected"}
    /\ gone \subseteq Sockets
    /\ lock \in Seq(Processes)
    /\ connections \in [Campaigns -> SUBSET Authorised]
    /\ tasks \in [Campaigns -> Sockets \cup {None}]
    /\ shutdownHandles \in [Campaigns -> Sockets \cup {None}]
    /\ stopper \in [Sockets -> {"none", "armed", "cancelled", "spawned", "waiting", "done"}]
    /\ sub \in [Sockets -> {"none", "subscribing", "listening", "cancelling",
                            "stopped", "failing", "dead", "cut"}]
    /\ registered \subseteq Sockets
    /\ cursor \in [Sockets -> Nat]
    /\ targets \in [Sockets -> SUBSET Authorised]
    /\ published \in [Campaigns -> Nat]
    /\ recv \in [Sockets -> Seq(Nat)]
    /\ owed \in [Sockets -> SUBSET Nat]
    /\ server \in {"up", "stopping"}

\* A subscriber task that can still fan out is the one _tasks names for its
\* campaign: no campaign has two, and none runs that nobody can cancel
\* (connect's test of _tasks under the lock, _maybe_stop_subscriber's pop).
SingleSubscriber ==
    \A t \in Sockets :
        sub[t] \in {"listening", "failing"} => tasks[CampaignOf[t]] = t

\* From the end of connect() until disconnect() the socket is in the set
\* fan_out copies and its campaign has a subscriber nobody has cancelled,
\* whatever stoppers ran meanwhile (_maybe_stop_subscriber's re-check).
ServedWhileOpen ==
    \A s \in Sockets :
        handler[s] \in {"open", "leaving"} =>
            /\ s \in connections[CampaignOf[s]]
            /\ tasks[CampaignOf[s]] # None
            /\ sub[tasks[CampaignOf[s]]] \in {"listening", "failing", "dead"}

Stopping(s) == stopper[s] \in {"armed", "spawned", "waiting"}

\* A pending shutdown handle belongs to a campaign without connections and
\* to a timer or stopper that has yet to run: a handle left behind would
\* make _schedule_shutdown return early and the subscriber run for ever.
HandleIsPending ==
    \A c \in Campaigns :
        shutdownHandles[c] # None =>
            connections[c] = {} /\ Stopping(shutdownHandles[c])

\* The subscriber of a campaign that no open handler uses has its stop on
\* the way: "stops shortly after the last disconnect" (manager.py:4-5).
IdleIsStopping ==
    \A c \in Campaigns :
        /\ tasks[c] # None
        /\ \A s \in Sockets : CampaignOf[s] = c => handler[s] \notin {"open", "leaving"}
        => \E s \in Sockets : CampaignOf[s] = c /\ Stopping(s)

\* An event published while the socket is connected and Redis forwards to
\* the campaign's subscriber reaches the socket, or is still ahead of the
\* subscriber, unless the peer left or the subscriber failed.
NoLostEvent ==
    \A w \in Sockets : \A n \in owed[w] :
        \/ \E i \in 1 .. Len(recv[w]) : recv[w][i] = n
        \/ w \in gone
        \/ LET t == tasks[CampaignOf[w]]
           IN  /\ t # None
               /\ \/ sub[t] \in {"failing", "dead"}
                  \/ sub[t] = "listening" /\ n > cursor[t]
                  \/ sub[t] = "listening" /\ n = cursor[t] /\ w \in targets[t]

\* After the lifespan's shutdown() every subscriber is over or cancelled, the
\* ones of campaigns whose stopper is still on its way included: shutdown()
\* takes no lock and cancels only what _tasks names.
ShutdownIsFinal ==
    server = "stopping" =>
        \A s \in Sockets : sub[s] \notin {"subscribing", "listening", "failing"}

\* A campaign's first socket finds no subscriber and starts one, or finds
\* one that works, kept through the shutdown delay: "The subscriber starts
\* on first connect" (manager.py:4).
FirstConnectIsServed ==
    [][\A s \in Sockets :
          LET c == CampaignOf[s]
          IN  connections[c] = {} /\ s \in connections'[c]
              => handler'[s] = "starting" \/ sub'[tasks'[c]] = "listening"]_vars

\* The clients see what the abstract feed promises: consecutive events, in
\* order, none twice, across joins, stops, restarts and failures.
Feed == INSTANCE EventFeed
FeedSpec == Feed!Spec

\* Every connect() and disconnect() that asks for the lock returns.
NoHandlerStuck ==
    \A s \in Sockets : handler[s] \in {"connecting", "leaving"}
                       ~> handler[s] \in {"open", "closed", "failed"}

\* A subscriber without connections is stopped, or a socket comes back.
IdleIsStopped ==
    \A c \in Campaigns : tasks[c] # None /\ connections[c] = {}
                         ~> tasks[c] = None \/ connections[c] # {}

\* A cancelled or failed subscriber gives its channel back to Redis, where
\* unsubscribe does not raise; a stop that cancels one still cleaning up
\* after an error may cut its unsubscribe short (_run's finally).
Unsubscribed ==
    \A t \in Sockets :
        sub[t] \in {"cancelling", "failing"} ~> t \notin registered \/ sub[t] = "cut"

\* What NoLostEvent says is not lost does arrive, unless the peer leaves
\* or the subscriber fails first.
OwedIsDelivered ==
    \A w \in Sockets : \A n \in 1 .. MaxEvents :
        n \in owed[w] ~>
            \/ \E i \in 1 .. Len(recv[w]) : recv[w][i] = n
            \/ w \in gone
            \/ \E t \in Sockets : CampaignOf[t] = CampaignOf[w] /\ sub[t] \in {"failing", "dead"}
=============================================================================
