------------------- MODULE ConnectionManager_feed_proofs -------------------
(* What the clients of ConnectionManager see: the feed of EventFeed, no    *)
(* event lost, and, without Redis failures, no idle or unserved campaign.  *)
EXTENDS ConnectionManager_proofs

\* The one-line operators the actions are written with.
USE DEF HandlePopped, Verified, NoTask, LockLeft, OthersOf, TaskPopped, Idle, FannedOut,
        Remaining, Unregistered, AllTasks

-----------------------------------------------------------------------------
(* The inductive invariant, relative to IInv.                              *)

\* _connections holds, per campaign, its own sockets from their connect() to
\* their disconnect(); one whose connect() failed stays for ever.
ConnectedIsOwn ==
    \A c \in Campaigns : \A w \in connections[c] :
        CampaignOf[w] = c /\ handler[w] \in {"starting", "open", "leaving", "failed"}

\* A handler leaves the open state only when its peer has left.
LeftIsGone ==
    \A w \in Sockets : handler[w] \in {"leaving", "closed", "failed"} => w \in gone

\* fan_out's snapshot: a listening subscriber's own sockets, connected still
\* unless their peer has left.
TargetsAreOwn ==
    \A t \in Sockets : \A w \in targets[t] :
        /\ sub[t] = "listening" /\ t \in registered /\ cursor[t] \in Nat \ {0}
        /\ CampaignOf[w] = CampaignOf[t]
        /\ w \in gone \/ w \in connections[CampaignOf[t]]

\* Nobody has read an event that was not published.
CursorBehind ==
    \A t \in Sockets : cursor[t] <= published[CampaignOf[t]]

LastOf(w) == recv[w][Len(recv[w])]

\* A peer that is there and has received something is open, and has received
\* everything its subscriber has read but what fan_out has yet to send it.
InStep ==
    \A w \in Sockets \ gone :
        recv[w] # <<>> =>
            LET t == tasks[CampaignOf[w]]
            IN  /\ handler[w] = "open"
                /\ sub[t] = "listening" =>
                     /\ t \in registered
                     /\ LastOf(w) = IF w \in targets[t] THEN cursor[t] - 1 ELSE cursor[t]

\* A peer that is owed an event is open and its subscriber registered.
OwedIsOpen ==
    \A w \in Sockets \ gone :
        owed[w] # {} =>
            /\ handler[w] = "open"
            /\ sub[tasks[CampaignOf[w]]] = "listening" => tasks[CampaignOf[w]] \in registered

\* A campaign with a task and no connection has a timer or stopper under way.
IdleHasStopper ==
    \A c \in Campaigns :
        tasks[c] # None /\ connections[c] = {}
        => \E s \in Sockets : CampaignOf[s] = c /\ Stopping(s)

\* Connects fail, and subscribers die, of Redis only.
FaultsAreRedis ==
    \A s \in Sockets :
        /\ handler[s] = "failed" => "subscribe" \in Faults
        /\ sub[s] \in {"failing", "dead"} => "listen" \in Faults

FeedInv == /\ ConnectedIsOwn /\ LeftIsGone /\ TargetsAreOwn /\ CursorBehind
           /\ InStep /\ OwedIsOpen /\ NoLostEvent /\ FaultsAreRedis

\* A peer that is there and has received or is owed something is open and
\* connected, and its campaign's task is a subscriber of its own.
LEMMA WatcherIsOpen ==
    ASSUME IInv, FeedInv, NEW w \in Sockets \ gone, recv[w] # <<>> \/ owed[w] # {}
    PROVE  /\ handler[w] = "open"
           /\ w \in connections[CampaignOf[w]]
           /\ tasks[CampaignOf[w]] \in Sockets
           /\ CampaignOf[tasks[CampaignOf[w]]] = CampaignOf[w]
           /\ sub[tasks[CampaignOf[w]]] \in {"listening", "failing", "dead"}
  BY CampaignOfAssumption DEF IInv, TypeOK, TaskIsOwn, OpenIsConnected, FeedInv, InStep, OwedIsOpen

\* A subscriber that fans out is its campaign's task, and a peer in the
\* snapshot that is there is open.
LEMMA SenderIsTask ==
    ASSUME IInv, FeedInv, NEW t \in Sockets, sub[t] = "listening"
    PROVE  /\ tasks[CampaignOf[t]] = t
           /\ \A w \in targets[t] \ gone : handler[w] = "open"
  BY CampaignOfAssumption, NoneAssumption, AuthorisedAssumption
  DEF IInv, TypeOK, SingleSubscriber, StartingAlone, FeedInv, TargetsAreOwn, ConnectedIsOwn, LeftIsGone

\* The parts of FeedInv that no history is in.
Placed == ConnectedIsOwn /\ LeftIsGone /\ TargetsAreOwn /\ CursorBehind /\ FaultsAreRedis

\* The subscriber starts: its campaign has no open socket yet.
LEMMA SubscribedKeeps ==
    ASSUME IInv, IInv', FeedInv, NEW s \in Sockets, Subscribed(s)
    PROVE  FeedInv'
<1> USE CampaignOfAssumption, NoneAssumption DEF TypeOK
<1>1. /\ tasks' = [tasks EXCEPT ![CampaignOf[s]] = s]
      /\ sub' = [sub EXCEPT ![s] = "listening"]
      /\ handler[s] = "starting" /\ handler' = [handler EXCEPT ![s] = "open"]
      /\ UNCHANGED <<gone, connections, registered, cursor, targets, recv, published, owed>>
  BY DEF Subscribed, feedVars, busVars
<1>2. TypeOK /\ tasks[CampaignOf[s]] = None /\ sub[s] = "subscribing"
  BY <1>1 DEF IInv, StartingAlone, SubscriberStage
<1>3. ASSUME NEW w \in Sockets \ gone, recv[w] # <<>> \/ owed[w] # {}
      PROVE  /\ tasks[CampaignOf[w]] \in Sockets \ {s}
             /\ CampaignOf[w] # CampaignOf[s] /\ w # s
             /\ tasks'[CampaignOf[w]] = tasks[CampaignOf[w]]
             /\ sub'[tasks[CampaignOf[w]]] = sub[tasks[CampaignOf[w]]]
  BY <1>1, <1>2, <1>3, WatcherIsOpen
<1>4. Placed'
  BY <1>1, <1>2, AuthorisedAssumption
     DEF Placed, FeedInv, ConnectedIsOwn, LeftIsGone, TargetsAreOwn, CursorBehind, FaultsAreRedis
<1>5. InStep' /\ OwedIsOpen'
  BY <1>1, <1>2, <1>3 DEF FeedInv, InStep, OwedIsOpen, LastOf
<1>6. NoLostEvent'
  BY <1>1, <1>2, <1>3 DEF FeedInv, NoLostEvent
<1> QED
  BY <1>4, <1>5, <1>6 DEF FeedInv, Placed

\* A socket leaves _connections: its peer is gone.
LEMMA DisconnectKeeps ==
    ASSUME IInv, IInv', FeedInv, NEW s \in Sockets, Disconnect(s)
    PROVE  FeedInv'
<1> USE CampaignOfAssumption, AuthorisedAssumption DEF TypeOK
<1>1. /\ handler[s] = "leaving" /\ handler' = [handler EXCEPT ![s] = "closed"]
      /\ connections' = [connections EXCEPT ![CampaignOf[s]] = @ \ {s}]
      /\ UNCHANGED <<gone, tasks, sub, registered, cursor, targets, recv, published, owed>>
  BY DEF Disconnect, feedVars, busVars
<1>2. TypeOK /\ s \in gone
  BY <1>1 DEF IInv, FeedInv, LeftIsGone
<1>3. \A c \in Campaigns : \A w \in connections'[c] : w \in connections[c] /\ (CampaignOf[w] = c => w # s)
  BY <1>1, <1>2
<1>4. Placed'
  BY <1>1, <1>2, <1>3
     DEF Placed, FeedInv, ConnectedIsOwn, LeftIsGone, TargetsAreOwn, CursorBehind, FaultsAreRedis
<1>5. InStep' /\ OwedIsOpen' /\ NoLostEvent'
  BY <1>1, <1>2 DEF FeedInv, InStep, OwedIsOpen, NoLostEvent, LastOf
<1> QED
  BY <1>4, <1>5 DEF FeedInv, Placed

\* The subscriber is cancelled: nobody of its campaign is connected.
LEMMA StopKeeps ==
    ASSUME IInv, IInv', FeedInv, NEW s \in Sockets, StopSubscriber(s)
    PROVE  FeedInv'
<1> USE CampaignOfAssumption, NoneAssumption, AuthorisedAssumption DEF TypeOK
<1> DEFINE c == CampaignOf[s]
           t == tasks[c]
<1>1. /\ connections[c] = {} /\ t # None
      /\ tasks' = [tasks EXCEPT ![c] = None]
      /\ \A u \in Sockets : IF u = t /\ sub[u] \in {"listening", "failing"}
                           THEN sub'[u] \in {"cancelling", "cut"} ELSE sub'[u] = sub[u]
      /\ targets' = [u \in Sockets |-> IF u \in {t} THEN {} ELSE targets[u]]
      /\ UNCHANGED <<handler, gone, connections, registered, cursor, recv, published, owed>>
  BY DEF StopSubscriber, StopperRuns, Cancel, busVars
<1>2. TypeOK /\ t \in Sockets /\ CampaignOf[t] = c
  BY <1>1 DEF IInv, TaskIsOwn
<1>3. ASSUME NEW w \in Sockets \ gone, recv[w] # <<>> \/ owed[w] # {}
      PROVE  /\ tasks[CampaignOf[w]] \in Sockets
             /\ tasks'[CampaignOf[w]] = tasks[CampaignOf[w]]
             /\ sub'[tasks[CampaignOf[w]]] = sub[tasks[CampaignOf[w]]]
             /\ targets'[tasks[CampaignOf[w]]] = targets[tasks[CampaignOf[w]]]
  <2>1. CampaignOf[w] # c /\ tasks[CampaignOf[w]] \in Sockets \ {t}
    BY <1>1, <1>2, <1>3, WatcherIsOpen
  <2> QED
    BY <1>1, <1>2, <2>1
<1>4. \A u \in Sockets : \/ u = t /\ targets'[u] = {}
                         \/ u # t /\ targets'[u] = targets[u] /\ sub'[u] = sub[u]
  BY <1>1
<1>5. \A u \in Sockets : sub'[u] \in {"failing", "dead"} => sub[u] \in {"failing", "dead"}
  BY <1>1
<1>u. UNCHANGED <<handler, gone, registered, cursor, recv, owed>>
  BY <1>1
<1> HIDE DEF c, t
<1>6. Placed'
  BY <1>1, <1>2, <1>4, <1>5
     DEF Placed, FeedInv, ConnectedIsOwn, LeftIsGone, TargetsAreOwn, CursorBehind, FaultsAreRedis
<1>7. InStep'
  BY <1>u, <1>3 DEF FeedInv, InStep, LastOf
<1>8. OwedIsOpen'
  BY <1>u, <1>3 DEF FeedInv, OwedIsOpen
<1>9. NoLostEvent'
  BY <1>u, <1>3 DEF FeedInv, NoLostEvent
<1> QED
  BY <1>6, <1>7, <1>8, <1>9 DEF FeedInv, Placed

\* The subscriber reads its next event: the peers it serves, all in step with
\* it, become the snapshot.
LEMMA ReceiveKeeps ==
    ASSUME IInv, IInv', FeedInv, NEW s \in Sockets, Receive(s)
    PROVE  FeedInv'
<1> USE CampaignOfAssumption, AuthorisedAssumption DEF TypeOK
<1> DEFINE c == CampaignOf[s]
<1>1. /\ sub[s] = "listening" /\ s \in registered /\ targets[s] = {}
      /\ cursor[s] < published[c]
      /\ cursor' = [cursor EXCEPT ![s] = @ + 1]
      /\ targets' = [targets EXCEPT ![s] = connections[c]]
      /\ UNCHANGED <<handler, gone, connections, tasks, sub, registered, recv, published, owed>>
  BY DEF Receive, managerVars, busVars
<1>2. TypeOK /\ tasks[c] = s
  BY <1>1, SenderIsTask DEF IInv
<1>3. /\ \A u \in Sockets : u # s => cursor'[u] = cursor[u] /\ targets'[u] = targets[u]
      /\ cursor[s] \in Nat /\ cursor'[s] = cursor[s] + 1 /\ targets'[s] = connections[c]
      /\ c \in Campaigns /\ published[c] \in Nat
  BY <1>1, <1>2
<1>4. Placed'
  BY <1>1, <1>2, <1>3
     DEF Placed, FeedInv, ConnectedIsOwn, LeftIsGone, TargetsAreOwn, CursorBehind, FaultsAreRedis
<1>5. InStep'
  <2> SUFFICES ASSUME NEW w \in Sockets \ gone, recv[w] # <<>>
               PROVE  LET t == tasks[CampaignOf[w]]
                      IN  /\ handler[w] = "open"
                          /\ sub[t] = "listening" =>
                               /\ t \in registered
                               /\ LastOf(w) = IF w \in targets'[t] THEN cursor'[t] - 1 ELSE cursor'[t]
    BY <1>1 DEF InStep, LastOf
  <2>1. tasks[CampaignOf[w]] \in Sockets /\ handler[w] = "open" /\ w \in connections[CampaignOf[w]]
    BY WatcherIsOpen
  <2>2. CASE tasks[CampaignOf[w]] = s
    <3>1. CampaignOf[w] = c
      BY <2>1, <2>2, WatcherIsOpen
    <3>2. LastOf(w) = cursor[s]
      BY <1>1, <2>2 DEF FeedInv, InStep
    <3> QED
      BY <1>1, <1>3, <2>1, <2>2, <3>1, <3>2
  <2>3. CASE tasks[CampaignOf[w]] # s
    BY <1>3, <2>1, <2>3 DEF FeedInv, InStep
  <2> QED
    BY <2>2, <2>3
<1>6. OwedIsOpen'
  BY <1>1 DEF FeedInv, OwedIsOpen
<1>7. NoLostEvent'
  <2> SUFFICES ASSUME NEW w \in Sockets \ gone, NEW n \in owed[w],
                      ~ \E i \in 1 .. Len(recv[w]) : recv[w][i] = n
               PROVE  LET t == tasks[CampaignOf[w]]
                      IN  /\ t # None
                          /\ \/ sub[t] \in {"failing", "dead"}
                             \/ sub[t] = "listening" /\ n > cursor'[t]
                             \/ sub[t] = "listening" /\ n = cursor'[t] /\ w \in targets'[t]
    BY <1>1 DEF NoLostEvent
  <2>1. tasks[CampaignOf[w]] \in Sockets /\ w \in connections[CampaignOf[w]] /\ n \in Nat
    BY <1>2, WatcherIsOpen
  <2>2. LET t == tasks[CampaignOf[w]]
        IN  /\ t # None
            /\ \/ sub[t] \in {"failing", "dead"}
               \/ sub[t] = "listening" /\ n > cursor[t]
               \/ sub[t] = "listening" /\ n = cursor[t] /\ w \in targets[t]
    BY DEF FeedInv, NoLostEvent
  <2>3. CASE tasks[CampaignOf[w]] = s
    <3>1. CampaignOf[w] = c
      BY <2>1, <2>3, WatcherIsOpen
    <3>2. n > cursor[s]
      BY <1>1, <2>2, <2>3
    <3>3. n > cursor'[s] \/ n = cursor'[s]
      BY <1>3, <2>1, <3>2
    <3> QED
      BY <1>1, <1>3, <2>1, <2>2, <2>3, <3>1, <3>3
  <2>4. CASE tasks[CampaignOf[w]] # s
    BY <1>3, <2>1, <2>2, <2>4
  <2> QED
    BY <2>3, <2>4
<1> QED
  BY <1>4, <1>5, <1>6, <1>7 DEF FeedInv, Placed

\* The subscriber sends the event it read to one peer of the snapshot.
LEMMA DeliverKeeps ==
    ASSUME IInv, IInv', FeedInv, NEW t \in Sockets, NEW w \in Sockets, Deliver(t, w)
    PROVE  FeedInv'
<1> USE CampaignOfAssumption, AuthorisedAssumption DEF TypeOK
<1>1. /\ sub[t] = "listening" /\ w \in targets[t]
      /\ targets' = [targets EXCEPT ![t] = @ \ {w}]
      /\ recv' = IF w \in gone THEN recv ELSE [recv EXCEPT ![w] = Append(@, cursor[t])]
      /\ UNCHANGED <<handler, gone, connections, tasks, sub, registered, cursor, published, owed>>
  BY DEF Deliver, managerVars, busVars
<1>2. TypeOK /\ tasks[CampaignOf[t]] = t /\ (w \notin gone => handler[w] = "open")
  BY <1>1, SenderIsTask DEF IInv
<1>3. t \in registered /\ cursor[t] \in Nat \ {0} /\ CampaignOf[w] = CampaignOf[t]
  BY <1>1 DEF FeedInv, TargetsAreOwn
<1>4. /\ \A u \in Sockets : u # t => targets'[u] = targets[u]
      /\ targets'[t] = targets[t] \ {w}
      /\ \A v \in Sockets : v # w \/ w \in gone => recv'[v] = recv[v]
  BY <1>1, <1>2
<1>5. w \notin gone =>
        /\ recv[w] \in Seq(Nat) /\ recv'[w] = Append(recv[w], cursor[t])
        /\ recv'[w] # <<>> /\ recv'[w][Len(recv'[w])] = cursor[t]
        /\ \A n : (\E i \in 1 .. Len(recv[w]) : recv[w][i] = n) \/ n = cursor[t]
                  => \E i \in 1 .. Len(recv'[w]) : recv'[w][i] = n
  <2> SUFFICES ASSUME w \notin gone
               PROVE  /\ recv[w] \in Seq(Nat) /\ recv'[w] = Append(recv[w], cursor[t])
                      /\ recv'[w] # <<>> /\ recv'[w][Len(recv'[w])] = cursor[t]
                      /\ \A n : (\E i \in 1 .. Len(recv[w]) : recv[w][i] = n) \/ n = cursor[t]
                                => \E i \in 1 .. Len(recv'[w]) : recv'[w][i] = n
    OBVIOUS
  <2>1. recv[w] \in Seq(Nat) /\ recv'[w] = Append(recv[w], cursor[t])
    BY <1>1, <1>2
  <2>2. /\ Len(recv[w]) \in Nat /\ Len(recv'[w]) = Len(recv[w]) + 1
        /\ recv'[w][Len(recv'[w])] = cursor[t]
        /\ \A i \in 1 .. Len(recv[w]) : recv'[w][i] = recv[w][i]
    BY <1>3, <2>1
  <2> QED
    BY <2>1, <2>2
<1>6. Placed'
  BY <1>1, <1>2, <1>4
     DEF Placed, FeedInv, ConnectedIsOwn, LeftIsGone, TargetsAreOwn, CursorBehind, FaultsAreRedis
<1>7. ASSUME NEW v \in Sockets \ gone, v # w
      PROVE  /\ recv'[v] = recv[v]
             /\ recv[v] # <<>> \/ owed[v] # {} =>
                  /\ tasks[CampaignOf[v]] \in Sockets
                  /\ v \in targets'[tasks[CampaignOf[v]]] <=> v \in targets[tasks[CampaignOf[v]]]
  <2>1. recv[v] # <<>> \/ owed[v] # {} => tasks[CampaignOf[v]] \in Sockets
    BY <1>7, WatcherIsOpen
  <2> QED
    BY <1>4, <1>7, <2>1
<1>8. InStep'
  <2> SUFFICES ASSUME NEW v \in Sockets \ gone, recv'[v] # <<>>
               PROVE  LET u == tasks[CampaignOf[v]]
                      IN  /\ handler[v] = "open"
                          /\ sub[u] = "listening" =>
                               /\ u \in registered
                               /\ recv'[v][Len(recv'[v])] = IF v \in targets'[u]
                                                            THEN cursor[u] - 1 ELSE cursor[u]
    BY <1>1 DEF InStep, LastOf
  <2>1. CASE v = w
    BY <1>2, <1>3, <1>4, <1>5, <2>1
  <2>2. CASE v # w
    BY <1>7, <2>2 DEF FeedInv, InStep, LastOf
  <2> QED
    BY <2>1, <2>2
<1>9. OwedIsOpen'
  BY <1>1 DEF FeedInv, OwedIsOpen
<1>10. NoLostEvent'
  <2> SUFFICES ASSUME NEW v \in Sockets \ gone, NEW n \in owed[v],
                      ~ \E i \in 1 .. Len(recv'[v]) : recv'[v][i] = n
               PROVE  LET u == tasks[CampaignOf[v]]
                      IN  /\ u # None
                          /\ \/ sub[u] \in {"failing", "dead"}
                             \/ sub[u] = "listening" /\ n > cursor[u]
                             \/ sub[u] = "listening" /\ n = cursor[u] /\ v \in targets'[u]
    BY <1>1 DEF NoLostEvent
  <2>1. CASE v = w
    <3>1. n # cursor[t] /\ ~ \E i \in 1 .. Len(recv[v]) : recv[v][i] = n
      BY <1>5, <2>1
    <3>u. tasks[CampaignOf[v]] = t
      BY <1>2, <1>3, <2>1
    <3> HIDE DEF TypeOK
    <3>2. /\ t # None
          /\ \/ sub[t] \in {"failing", "dead"}
             \/ sub[t] = "listening" /\ n > cursor[t]
             \/ sub[t] = "listening" /\ n = cursor[t] /\ v \in targets[t]
      BY <3>1, <3>u DEF FeedInv, NoLostEvent
    <3> QED
      BY <1>2, <1>3, <2>1, <3>1, <3>2
  <2>2. CASE v # w
    BY <1>7, <2>2 DEF FeedInv, NoLostEvent
  <2> QED
    BY <2>1, <2>2
<1> QED
  BY <1>6, <1>8, <1>9, <1>10 DEF FeedInv, Placed

\* A task is over: one that failed stays in _tasks as dead, a cancelled one
\* is in _tasks no more.
LEMMA EndsKeeps ==
    ASSUME IInv, IInv', FeedInv, NEW s \in Sockets, SubscriberEnds(s) \/ CleanupSkipped(s)
    PROVE  FeedInv'
<1> USE CampaignOfAssumption, NoneAssumption DEF TypeOK
<1>1. /\ sub[s] \in {"cancelling", "failing", "cut"}
      /\ sub' = [sub EXCEPT ![s] = IF @ = "failing" THEN "dead" ELSE "stopped"]
      /\ registered' \in {registered, registered \ {s}}
      /\ UNCHANGED <<handler, gone, connections, tasks, cursor, targets, recv, published, owed>>
  BY DEF SubscriberEnds, CleanupSkipped, TaskEnds, managerVars, busVars
<1>2. TypeOK
  BY DEF IInv
<1>3. /\ \A u \in Sockets : u # s => sub'[u] = sub[u] /\ (u \in registered' <=> u \in registered)
      /\ sub'[s] \in {"dead", "stopped"}
      /\ sub'[s] = "dead" <=> sub[s] = "failing"
  BY <1>1, <1>2
<1>4. ASSUME NEW w \in Sockets \ gone, recv[w] # <<>> \/ owed[w] # {}
      PROVE  LET t == tasks[CampaignOf[w]]
             IN  /\ t \in Sockets
                 /\ \/ sub'[t] = sub[t] /\ (t \in registered' <=> t \in registered)
                    \/ sub[t] = "failing" /\ sub'[t] = "dead"
  BY <1>1, <1>3, <1>4, WatcherIsOpen
<1>5. Placed'
  BY <1>1, <1>2, <1>3
     DEF Placed, FeedInv, ConnectedIsOwn, LeftIsGone, TargetsAreOwn, CursorBehind, FaultsAreRedis
<1>6. InStep' /\ OwedIsOpen'
  BY <1>1, <1>4 DEF FeedInv, InStep, OwedIsOpen, LastOf
<1>7. NoLostEvent'
  BY <1>1, <1>4 DEF FeedInv, NoLostEvent
<1> QED
  BY <1>5, <1>6, <1>7 DEF FeedInv, Placed

\* Every step keeps it: one step per action, and below it one per conjunct
\* where the action disturbs more than one at once.
LEMMA FeedStep == IInv /\ IInv' /\ FeedInv /\ [Next]_vars => FeedInv'
<1> SUFFICES ASSUME IInv, IInv', FeedInv, [Next]_vars PROVE FeedInv'
  OBVIOUS
<1> USE CampaignOfAssumption, AuthorisedAssumption, NoneAssumption
    DEF managerVars, feedVars, busVars,
        IInv, TypeOK, StartingAlone, SubscriberStage, TaskIsOwn, OpenIsConnected,
        SingleSubscriber, HandleIsOwn, HandleIsPending, FeedInv, ConnectedIsOwn, LeftIsGone,
        TargetsAreOwn, CursorBehind, InStep, LastOf, OwedIsOpen, NoLostEvent, FaultsAreRedis
<1>1. ASSUME NEW s \in Sockets, Reject(s) PROVE FeedInv'
  BY <1>1 DEF Reject
<1>2. ASSUME NEW s \in Sockets, Accept(s) PROVE FeedInv'
  BY <1>2 DEF Accept
<1>3. ASSUME NEW s \in Sockets, Join(s) PROVE FeedInv'
  BY <1>3 DEF Join, EnterConnections, CancelPendingShutdown
<1>4. ASSUME NEW s \in Sockets, StartSubscriber(s) PROVE FeedInv'
  BY <1>4 DEF StartSubscriber, EnterConnections, CancelPendingShutdown
<1>5. ASSUME NEW s \in Sockets, Subscribed(s) PROVE FeedInv'
  BY <1>5, SubscribedKeeps
<1>6. ASSUME NEW s \in Sockets, SubscribeFails(s) PROVE FeedInv'
  BY <1>6 DEF SubscribeFails
<1>7. ASSUME NEW s \in Sockets, PeerLeaves(s) PROVE FeedInv'
  BY <1>7 DEF PeerLeaves
<1>8. ASSUME NEW s \in Sockets, Leave(s) PROVE FeedInv'
  BY <1>8 DEF Leave
<1>9. ASSUME NEW s \in Sockets, Disconnect(s) PROVE FeedInv'
  BY <1>9, DisconnectKeeps
<1>10. ASSUME NEW s \in Sockets, TimerFires(s) PROVE FeedInv'
  BY <1>10 DEF TimerFires
<1>11. ASSUME NEW s \in Sockets, StopperStarts(s) PROVE FeedInv'
  BY <1>11 DEF StopperStarts
<1>12. ASSUME NEW s \in Sockets, KeepSubscriber(s) PROVE FeedInv'
  BY <1>12 DEF KeepSubscriber, StopperRuns
<1>13. ASSUME NEW s \in Sockets, StopSubscriber(s) PROVE FeedInv'
  BY <1>13, StopKeeps
<1>14. ASSUME NEW s \in Sockets, Register(s) PROVE FeedInv'
  BY <1>14 DEF Register
<1>15. ASSUME NEW s \in Sockets, Receive(s) PROVE FeedInv'
  BY <1>15, ReceiveKeeps
<1>16. ASSUME NEW t \in Sockets, NEW w \in Sockets, Deliver(t, w) PROVE FeedInv'
  BY <1>16, DeliverKeeps
<1>17. ASSUME NEW s \in Sockets, SubscriberFails(s) PROVE FeedInv'
  BY <1>17 DEF SubscriberFails
<1>18. ASSUME NEW s \in Sockets, SubscriberEnds(s) \/ CleanupSkipped(s) PROVE FeedInv'
  BY <1>18, EndsKeeps
<1>19. ASSUME NEW c \in Campaigns, Publish(c) PROVE FeedInv'
  BY <1>19 DEF Publish
<1>20. ASSUME Shutdown PROVE FeedInv'
  BY <1>20 DEF Shutdown, Cancel
<1>21. CASE UNCHANGED vars
  BY <1>21 DEF vars
<1> QED
  BY <1>1, <1>2, <1>3, <1>4, <1>5, <1>6, <1>7, <1>8, <1>9, <1>10, <1>11,
     <1>12, <1>13, <1>14, <1>15, <1>16, <1>17, <1>18, <1>19, <1>20, <1>21
     DEF Next, HandlerStep, StopperStep, SubscriberStep

-----------------------------------------------------------------------------
(* The stopper of an idle campaign.                                        *)

\* A step that makes no campaign idle and ends no stopper of an idle one
\* keeps IdleHasStopper.
LEMMA StillStopping ==
    ASSUME IdleHasStopper,
           NEW c \in Campaigns, tasks[c] # None, connections[c] = {},
           \A s \in Sockets : CampaignOf[s] = c /\ Stopping(s) => Stopping(s)'
    PROVE  \E s \in Sockets : CampaignOf[s] = c /\ Stopping(s)'
<1>1. PICK s \in Sockets : CampaignOf[s] = c /\ Stopping(s)
  BY DEF IdleHasStopper
<1> QED
  BY <1>1

\* The last disconnect arms the timer, and whoever ends a timer or a stopper
\* has connected to the campaign or taken its task.
LEMMA IdleStep == IInv /\ IInv' /\ FeedInv /\ IdleHasStopper /\ [Next]_vars => IdleHasStopper'
<1> SUFFICES ASSUME IInv, IInv', FeedInv, IdleHasStopper, [Next]_vars,
                    NEW c \in Campaigns, tasks'[c] # None, connections'[c] = {}
             PROVE  \E s \in Sockets : CampaignOf[s] = c /\ Stopping(s)'
  BY DEF IdleHasStopper
<1> DEFINE Kept == /\ tasks[c] # None /\ connections[c] = {}
                   /\ \A s \in Sockets : CampaignOf[s] = c /\ Stopping(s) => Stopping(s)'
<1>d. ASSUME NEW s \in Sockets, Disconnect(s) PROVE \A u \in Sockets \ {s} : stopper'[u] = stopper[u]
  <2>1. UNCHANGED stopper \/ stopper' = [stopper EXCEPT ![s] = "armed"]
    BY <1>d DEF Disconnect, ScheduleShutdown
  <2> QED
    BY <2>1 DEF IInv, TypeOK
<1>c. ASSUME NEW s \in Sockets, EnterConnections(s) PROVE CampaignOf[s] # c /\ connections'[c] = connections[c]
  BY <1>c, CampaignOfAssumption DEF EnterConnections, IInv, TypeOK
<1>k. SUFFICES ASSUME ~ \E s \in Sockets : Disconnect(s) PROVE Kept
  <2>1. ASSUME NEW s \in Sockets, Disconnect(s), ~ Kept PROVE CampaignOf[s] = c /\ Stopping(s)'
    <3> USE CampaignOfAssumption, NoneAssumption
        DEF IInv, TypeOK, OpenIsConnected, HandleIsPending, Stopping
    <3>1. /\ handler[s] = "leaving" /\ s \in connections[CampaignOf[s]]
          /\ connections' = [connections EXCEPT ![CampaignOf[s]] = @ \ {s}]
          /\ shutdownHandles[CampaignOf[s]] = None
          /\ tasks' = tasks
      BY <2>1 DEF Disconnect
    <3>2. CASE CampaignOf[s] = c
      BY <2>1, <3>1, <3>2 DEF Disconnect, ScheduleShutdown
    <3>3. CASE CampaignOf[s] # c
      <4>1. connections'[c] = connections[c]
        BY <3>1, <3>3
      <4>2. \A u \in Sockets : u # s => stopper'[u] = stopper[u]
        BY <2>1, <1>d
      <4> QED
        BY <2>1, <3>1, <3>3, <4>1, <4>2
    <3> QED
      BY <3>2, <3>3
  <2> QED
    BY <2>1, StillStopping
<1> USE CampaignOfAssumption, NoneAssumption
    DEF managerVars, feedVars, busVars, IInv, TypeOK, TaskIsOwn, HandleIsOwn, StartingAlone, Stopping
<1>e. ASSUME NEW s \in Sockets, EnterConnections(s), UNCHANGED tasks PROVE Kept
  <2>1. CampaignOf[s] # c /\ connections'[c] = connections[c]
    BY <1>e, <1>c
  <2>2. \A u \in Sockets : stopper'[u] = stopper[u] \/ u = shutdownHandles[CampaignOf[s]]
    BY <1>e DEF EnterConnections, CancelPendingShutdown
  <2> QED
    BY <1>e, <2>1, <2>2
<1>1. ASSUME NEW s \in Sockets, Reject(s) PROVE Kept
  BY <1>1 DEF Reject
<1>2. ASSUME NEW s \in Sockets, Accept(s) PROVE Kept
  BY <1>2 DEF Accept
<1>3. ASSUME NEW s \in Sockets, Join(s) PROVE Kept
  BY <1>3, <1>e DEF Join
<1>4. ASSUME NEW s \in Sockets, StartSubscriber(s) PROVE Kept
  BY <1>4, <1>e DEF StartSubscriber
<1>5. ASSUME NEW s \in Sockets, Subscribed(s) PROVE Kept
  BY <1>5 DEF Subscribed
<1>6. ASSUME NEW s \in Sockets, SubscribeFails(s) PROVE Kept
  BY <1>6 DEF SubscribeFails
<1>7. ASSUME NEW s \in Sockets, PeerLeaves(s) PROVE Kept
  BY <1>7 DEF PeerLeaves
<1>8. ASSUME NEW s \in Sockets, Leave(s) PROVE Kept
  BY <1>8 DEF Leave
<1>10. ASSUME NEW s \in Sockets, TimerFires(s) PROVE Kept
  BY <1>10 DEF TimerFires
<1>11. ASSUME NEW s \in Sockets, StopperStarts(s) PROVE Kept
  BY <1>11 DEF StopperStarts
<1>12. ASSUME NEW s \in Sockets, KeepSubscriber(s) PROVE Kept
  BY <1>12 DEF KeepSubscriber, StopperRuns
<1>13. ASSUME NEW s \in Sockets, StopSubscriber(s) PROVE Kept
  BY <1>13 DEF StopSubscriber, StopperRuns, Cancel
<1>14. ASSUME NEW s \in Sockets, Register(s) PROVE Kept
  BY <1>14 DEF Register
<1>15. ASSUME NEW s \in Sockets, Receive(s) PROVE Kept
  BY <1>15 DEF Receive
<1>16. ASSUME NEW t \in Sockets, NEW w \in Sockets, Deliver(t, w) PROVE Kept
  BY <1>16 DEF Deliver
<1>17. ASSUME NEW s \in Sockets, SubscriberFails(s) PROVE Kept
  BY <1>17 DEF SubscriberFails
<1>18. ASSUME NEW s \in Sockets, SubscriberEnds(s) \/ CleanupSkipped(s) PROVE Kept
  BY <1>18 DEF SubscriberEnds, CleanupSkipped, TaskEnds
<1>19. ASSUME NEW d \in Campaigns, Publish(d) PROVE Kept
  BY <1>19 DEF Publish
<1>20. ASSUME Shutdown PROVE Kept
  BY <1>20 DEF Shutdown, Cancel
<1>21. CASE UNCHANGED vars
  BY <1>21 DEF vars
<1> QED
  BY <1>k, <1>1, <1>2, <1>3, <1>4, <1>5, <1>6, <1>7, <1>8, <1>10, <1>11, <1>12,
     <1>13, <1>14, <1>15, <1>16, <1>17, <1>18, <1>19, <1>20, <1>21
     DEF Next, HandlerStep, StopperStep, SubscriberStep

\* The initial states satisfy both.
LEMMA FeedInit == Init => FeedInv /\ IdleHasStopper
  BY CampaignOfAssumption, MaxEventsAssumption
  DEF Init, FeedInv, ConnectedIsOwn, LeftIsGone, TargetsAreOwn, CursorBehind, InStep,
      OwedIsOpen, NoLostEvent, FaultsAreRedis, IdleHasStopper

\* Both hold in every reachable state.
LEMMA FeedInvariance == Spec => [](FeedInv /\ IdleHasStopper)
  BY FeedInit, FeedStep, IdleStep, Invariance, PTL DEF Spec

-----------------------------------------------------------------------------
(* The theorems.                                                           *)

\* An event published while the socket is connected and its subscriber
\* registered is received or still ahead, whatever joins, leaves and restarts
\* in between, unless the peer leaves or listen() raises.
THEOREM OwedIsNotLost == Spec => []NoLostEvent
<1>1. FeedInv => NoLostEvent
  BY DEF FeedInv
<1> QED
  BY <1>1, FeedInvariance, PTL

\* Where SUBSCRIBE does not fail, the subscriber of a campaign that no handler
\* uses always has its stop on the way. The run ws_leak shows the hypothesis
\* is needed: the socket of a failed connect() stays in _connections.
THEOREM IdleSubscriberIsStopping ==
    ASSUME "subscribe" \notin Faults
    PROVE  Spec => []IdleIsStopping
<1>1. IInv /\ FeedInv /\ IdleHasStopper => IdleIsStopping
  <2> SUFFICES ASSUME IInv, FeedInv, IdleHasStopper, NEW c \in Campaigns, tasks[c] # None,
                      \A s \in Sockets : CampaignOf[s] = c => handler[s] \notin {"open", "leaving"}
               PROVE  \E s \in Sockets : CampaignOf[s] = c /\ Stopping(s)
    BY DEF IdleIsStopping
  <2>1. connections[c] = {}
    <3>1. ASSUME NEW w \in connections[c] PROVE FALSE
      <4>1. w \in Sockets /\ CampaignOf[w] = c
        BY AuthorisedAssumption DEF IInv, TypeOK, FeedInv, ConnectedIsOwn
      <4>2. handler[w] \in {"starting", "failed"}
        BY <4>1 DEF FeedInv, ConnectedIsOwn
      <4> QED
        BY <4>1, <4>2 DEF IInv, StartingAlone, FeedInv, FaultsAreRedis
    <3> QED
      BY <3>1
  <2> QED
    BY <2>1 DEF IdleHasStopper
<1> QED
  BY <1>1, Invariance, FeedInvariance, PTL

\* Where listen() does not raise, the first socket of a campaign starts a
\* subscriber or finds one that works: "The subscriber starts on first
\* connect" (manager.py:4).
THEOREM FirstConnectFindsSubscriber ==
    ASSUME "listen" \notin Faults
    PROVE  Spec => FirstConnectIsServed
<1>1. IInv /\ FeedInv /\ [Next]_vars =>
        [\A s \in Sockets :
           LET c == CampaignOf[s]
           IN  connections[c] = {} /\ s \in connections'[c]
               => handler'[s] = "starting" \/ sub'[tasks'[c]] = "listening"]_vars
  <2> SUFFICES ASSUME IInv, FeedInv, Next, NEW s \in Sockets,
                      connections[CampaignOf[s]] = {}, s \in connections'[CampaignOf[s]]
               PROVE  handler'[s] = "starting" \/ sub'[tasks'[CampaignOf[s]]] = "listening"
    BY DEF vars
  <2> USE CampaignOfAssumption, NoneAssumption DEF IInv, TypeOK
  <2>1. Join(s) \/ StartSubscriber(s)
    <3>1. ASSUME NEW r \in Sockets, EnterConnections(r) PROVE r = s
      BY <3>1 DEF EnterConnections
    <3>2. ASSUME NEW r \in Sockets, Disconnect(r) PROVE FALSE
      BY <3>2 DEF Disconnect
    <3>3. \/ connections' = connections
          \/ \E r \in Sockets : Join(r) \/ StartSubscriber(r) \/ Disconnect(r)
      BY DEF Next, HandlerStep, StopperStep, SubscriberStep, managerVars,
         Reject, Accept, Subscribed, SubscribeFails, PeerLeaves, Leave,
         TimerFires, StopperStarts, KeepSubscriber, StopSubscriber, Register, Receive,
         Deliver, SubscriberFails, SubscriberEnds, CleanupSkipped, TaskEnds, Publish, Shutdown
    <3> QED
      BY <3>1, <3>2, <3>3 DEF Join, StartSubscriber
  <2>2. CASE Join(s)
    BY <2>2 DEF Join, TaskIsOwn, FeedInv, FaultsAreRedis
  <2>3. CASE StartSubscriber(s)
    BY <2>3 DEF StartSubscriber, EnterConnections
  <2> QED
    BY <2>1, <2>2, <2>3
<1> QED
  BY <1>1, Invariance, FeedInvariance, PTL DEF Spec, FirstConnectIsServed

\* The manager implements the feed of EventFeed: what every client receives
\* is consecutive, in order and without a repetition. A publication is a
\* publication, a send to a peer that is there is a Send, the rest stutters.
THEOREM ManagerImplementsFeed == Spec => FeedSpec
<1>1. Init => Feed!Init
  BY DEF Init, Feed!Init
<1>2. IInv /\ FeedInv /\ [Next]_vars => [Feed!Next]_<<published, recv>>
  <2> SUFFICES ASSUME IInv, FeedInv, [Next]_vars, ~ UNCHANGED <<published, recv>> PROVE Feed!Next
    OBVIOUS
  <2>1. \/ \E c \in Campaigns : Publish(c)
        \/ \E t, w \in Sockets : Deliver(t, w)
    BY DEF vars, feedVars, busVars, Next, HandlerStep, StopperStep, SubscriberStep,
       Reject, Accept, Join, StartSubscriber, Subscribed, SubscribeFails, PeerLeaves, Leave, Disconnect,
       TimerFires, StopperStarts, KeepSubscriber, StopSubscriber, Register, Receive,
       SubscriberFails, SubscriberEnds, CleanupSkipped, TaskEnds, Shutdown
  <2>2. ASSUME NEW c \in Campaigns, Publish(c) PROVE Feed!Publish(c)
    BY <2>2 DEF Publish, feedVars, Feed!Publish
  <2>3. ASSUME NEW t \in Sockets, NEW w \in Sockets, Deliver(t, w)
        PROVE  cursor[t] \in 1 .. published[CampaignOf[w]] /\ Feed!Send(w, cursor[t])
    <3> USE CampaignOfAssumption DEF IInv, TypeOK
    <3>1. /\ w \notin gone /\ w \in targets[t] /\ sub[t] = "listening"
          /\ recv' = [recv EXCEPT ![w] = Append(@, cursor[t])]
          /\ UNCHANGED published
      BY <2>3 DEF Deliver, busVars
    <3>2. /\ cursor[t] \in 1 .. published[CampaignOf[w]]
          /\ tasks[CampaignOf[w]] = t
      BY <3>1 DEF FeedInv, TargetsAreOwn, CursorBehind, SingleSubscriber
    <3>3. recv[w] = <<>> \/ cursor[t] = recv[w][Len(recv[w])] + 1
      <4> SUFFICES ASSUME recv[w] # <<>> PROVE cursor[t] = LastOf(w) + 1
        BY DEF LastOf
      <4>1. LastOf(w) = cursor[t] - 1
        BY <3>1, <3>2 DEF FeedInv, InStep
      <4> QED
        BY <3>2, <4>1
    <3> QED
      BY <3>1, <3>2, <3>3 DEF Feed!Send
  <2> QED
    BY <2>1, <2>2, <2>3 DEF Feed!Next
<1> QED
  BY <1>1, <1>2, Invariance, FeedInvariance, PTL DEF Spec, FeedSpec, Feed!Spec
=============================================================================
