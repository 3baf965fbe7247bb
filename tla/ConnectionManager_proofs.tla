---------------------- MODULE ConnectionManager_proofs ----------------------
(* Theorems about ConnectionManager, for every set of sockets, campaigns   *)
(* and faults, checked by TLAPS.                                           *)
EXTENDS ConnectionManager, TLAPS

\* The one-line operators the actions are written with.
USE DEF HandlePopped, Verified, NoTask, LockLeft, OthersOf, TaskPopped, Idle, FannedOut,
        Remaining, Unregistered, AllTasks

\* Appending to a queue leaves a holder at its head; the lock of a process
\* that holds it loses its head only.
LEMMA LockQueue ==
    ASSUME lock \in Seq(Processes)
    PROVE  /\ \A p \in Processes : Append(lock, p) \in Seq(Processes)
           /\ \A p, q \in Processes : Holds(q) => Append(lock, p) # <<>> /\ Head(Append(lock, p)) = q
           /\ \A p \in Processes : Holds(p) => Tail(lock) \in Seq(Processes)
  BY DEF Holds

\* A step keeps the types of the variables.
LEMMA TypeStep == TypeOK /\ [Next]_vars => TypeOK'
<1> SUFFICES ASSUME TypeOK, [Next]_vars PROVE TypeOK'
  OBVIOUS
<1> USE CampaignOfAssumption, AuthorisedAssumption DEF TypeOK
<1>l. /\ \A s \in Sockets : Handler(s) \in Processes /\ Stopper(s) \in Processes
      /\ \A p \in Processes : Acquire(p) => lock' \in Seq(Processes)
      /\ \A p \in Processes : Holds(p) /\ Release => lock' \in Seq(Processes)
  BY LockQueue DEF Handler, Stopper, Processes, Acquire, Release
<1>1. ASSUME NEW s \in Sockets, Reject(s) PROVE TypeOK'
  BY <1>1 DEF Reject, managerVars, feedVars, busVars
<1>2. ASSUME NEW s \in Sockets, Accept(s) PROVE TypeOK'
  BY <1>2, <1>l DEF Accept, managerVars, feedVars, busVars
<1>3. ASSUME NEW s \in Sockets, EnterConnections(s)
      PROVE  /\ s \in Authorised
             /\ connections' \in [Campaigns -> SUBSET Authorised]
             /\ shutdownHandles' \in [Campaigns -> Sockets \cup {None}]
             /\ stopper' \in [Sockets -> {"none", "armed", "cancelled", "spawned", "waiting", "done"}]
  BY <1>3 DEF EnterConnections, CancelPendingShutdown
<1>4. ASSUME NEW s \in Sockets, Join(s) PROVE TypeOK'
  <2>1. EnterConnections(s) /\ Holds(Handler(s))
    BY <1>4 DEF Join, EnterConnections
  <2>2. /\ handler' = [handler EXCEPT ![s] = "open"] /\ Release
        /\ UNCHANGED <<gone, tasks, sub, feedVars, busVars, server>>
    BY <1>4 DEF Join
  <2> QED
    BY <1>3, <1>l, <2>1, <2>2 DEF feedVars, busVars
<1>5. ASSUME NEW s \in Sockets, StartSubscriber(s) PROVE TypeOK'
  <2>1. EnterConnections(s)
    BY <1>5 DEF StartSubscriber
  <2>2. /\ handler' = [handler EXCEPT ![s] = "starting"]
        /\ sub' = [sub EXCEPT ![s] = "subscribing"]
        /\ UNCHANGED <<gone, lock, tasks, feedVars, busVars, server>>
    BY <1>5 DEF StartSubscriber
  <2> QED
    BY <1>3, <2>1, <2>2 DEF feedVars, busVars
<1>6. ASSUME NEW s \in Sockets, Subscribed(s) PROVE TypeOK'
  BY <1>l, <1>6 DEF Subscribed, managerVars, feedVars, busVars
<1>7. ASSUME NEW s \in Sockets, SubscribeFails(s) PROVE TypeOK'
  BY <1>l, <1>7 DEF SubscribeFails, managerVars, feedVars, busVars
<1>8. ASSUME NEW s \in Sockets, PeerLeaves(s) PROVE TypeOK'
  BY <1>8 DEF PeerLeaves, managerVars, feedVars, busVars
<1>9. ASSUME NEW s \in Sockets, Leave(s) PROVE TypeOK'
  BY <1>l, <1>9 DEF Leave, managerVars, feedVars, busVars
<1>10. ASSUME NEW s \in Sockets, Disconnect(s) PROVE TypeOK'
  <2>1. /\ shutdownHandles' \in [Campaigns -> Sockets \cup {None}]
        /\ stopper' \in [Sockets -> {"none", "armed", "cancelled", "spawned", "waiting", "done"}]
    <3>1. ScheduleShutdown(CampaignOf[s], s) \/ UNCHANGED <<shutdownHandles, stopper>>
      BY <1>10 DEF Disconnect
    <3> QED
      BY <3>1 DEF ScheduleShutdown
  <2>2. connections' \in [Campaigns -> SUBSET Authorised]
    BY <1>10 DEF Disconnect
  <2>3. lock' \in Seq(Processes)
    BY <1>10, <1>l DEF Disconnect
  <2>4. /\ handler' = [handler EXCEPT ![s] = "closed"]
        /\ handler[s] = "leaving"
        /\ UNCHANGED <<gone, tasks, sub, feedVars, busVars, server>>
    BY <1>10 DEF Disconnect
  <2> QED
    BY <2>1, <2>2, <2>3, <2>4 DEF feedVars, busVars
<1>11. ASSUME NEW s \in Sockets, TimerFires(s) PROVE TypeOK'
  BY <1>11 DEF TimerFires, managerVars, feedVars, busVars
<1>12. ASSUME NEW s \in Sockets, StopperStarts(s) PROVE TypeOK'
  BY <1>l, <1>12 DEF StopperStarts, managerVars, feedVars, busVars
<1>13. ASSUME NEW s \in Sockets, KeepSubscriber(s) PROVE TypeOK'
  BY <1>l, <1>13 DEF KeepSubscriber, StopperRuns, managerVars, feedVars, busVars
<1>14. ASSUME NEW s \in Sockets, StopSubscriber(s) PROVE TypeOK'
  BY <1>l, <1>14 DEF StopSubscriber, StopperRuns, Cancel, managerVars, feedVars, busVars
<1>15. ASSUME NEW s \in Sockets, Register(s) PROVE TypeOK'
  BY <1>15 DEF Register, managerVars, feedVars, busVars
<1>16. ASSUME NEW s \in Sockets, Receive(s) PROVE TypeOK'
  BY <1>16 DEF Receive, managerVars, feedVars, busVars
<1>17. ASSUME NEW s \in Sockets, NEW w \in Sockets, Deliver(s, w) PROVE TypeOK'
  BY <1>17 DEF Deliver, managerVars, feedVars, busVars
<1>18. ASSUME NEW s \in Sockets, SubscriberFails(s) PROVE TypeOK'
  BY <1>18 DEF SubscriberFails, managerVars, feedVars, busVars
<1>19. ASSUME NEW s \in Sockets, SubscriberEnds(s) \/ CleanupSkipped(s) PROVE TypeOK'
  BY <1>19 DEF SubscriberEnds, CleanupSkipped, TaskEnds, managerVars, feedVars, busVars
<1>20. ASSUME NEW c \in Campaigns, Publish(c) PROVE TypeOK'
  BY <1>20 DEF Publish, managerVars, feedVars, busVars
<1>21. ASSUME Shutdown PROVE TypeOK'
  BY <1>21 DEF Shutdown, Cancel, managerVars, feedVars, busVars
<1>22. CASE UNCHANGED vars
  BY <1>22 DEF vars, managerVars, feedVars, busVars
<1> QED
  BY <1>1, <1>2, <1>4, <1>5, <1>6, <1>7, <1>8, <1>9, <1>10, <1>11, <1>12, <1>13,
     <1>14, <1>15, <1>16, <1>17, <1>18, <1>19, <1>20, <1>21, <1>22
     DEF Next, HandlerStep, StopperStep, SubscriberStep

\* The variables keep their types in every reachable state.
THEOREM TypeCorrect == Spec => []TypeOK
<1>1. Init => TypeOK
  BY MaxEventsAssumption DEF Init, TypeOK
<1> QED
  BY <1>1, TypeStep, PTL DEF Spec

-----------------------------------------------------------------------------
(* The inductive invariant behind SingleSubscriber, ServedWhileOpen,       *)
(* HandleIsPending and ShutdownIsFinal: none is inductive by itself.       *)

\* A connect that awaits the factory holds the lock, is in _connections
\* already, and its campaign has no task.
StartingAlone ==
    \A s \in Sockets :
        handler[s] = "starting" =>
            /\ Holds(Handler(s))
            /\ s \in connections[CampaignOf[s]]
            /\ tasks[CampaignOf[s]] = None

\* A socket has no subscriber before its connect starts one, and starts it
\* exactly while it awaits the factory.
SubscriberStage ==
    \A s \in Sockets :
        /\ handler[s] \in {"idle", "rejected", "connecting"} => sub[s] = "none"
        /\ handler[s] = "starting" <=> sub[s] = "subscribing"

\* _tasks names, per campaign, one of its own subscribers, not cancelled.
TaskIsOwn ==
    \A c \in Campaigns :
        tasks[c] # None =>
            /\ CampaignOf[tasks[c]] = c
            /\ sub[tasks[c]] \in {"listening", "failing", "dead"}

\* An open socket is in _connections and its campaign has a task.
OpenIsConnected ==
    \A s \in Sockets :
        handler[s] \in {"open", "leaving"} =>
            s \in connections[CampaignOf[s]] /\ tasks[CampaignOf[s]] # None

\* A handle names a timer or stopper of its own campaign.
HandleIsOwn ==
    \A c \in Campaigns :
        shutdownHandles[c] # None => CampaignOf[shutdownHandles[c]] = c

\* Once the server stops, every handler has returned.
StoppedIsQuiet ==
    server = "stopping" =>
        \A s \in Sockets : handler[s] \in {"idle", "rejected", "closed", "failed"}

\* The inductive invariant.
IInv == /\ TypeOK
        /\ StartingAlone /\ SubscriberStage /\ TaskIsOwn /\ OpenIsConnected
        /\ SingleSubscriber
        /\ HandleIsOwn /\ HandleIsPending
        /\ StoppedIsQuiet /\ ShutdownIsFinal

\* IInv but for the types.
Rest == /\ StartingAlone /\ SubscriberStage /\ TaskIsOwn /\ OpenIsConnected
        /\ SingleSubscriber
        /\ HandleIsOwn /\ HandleIsPending
        /\ StoppedIsQuiet /\ ShutdownIsFinal

\* Every step keeps the inductive invariant: one step per action below.
LEMMA InvStep == IInv /\ [Next]_vars => IInv'
<1> SUFFICES ASSUME IInv, [Next]_vars PROVE IInv'
  OBVIOUS
<1>t. TypeOK /\ TypeOK'
  BY TypeStep DEF IInv
<1>r. IInv' <=> TypeOK' /\ Rest'
  BY DEF IInv, Rest
<1>n. /\ \A s, t \in Sockets : Handler(s) # Stopper(t)
      /\ \A s, t \in Sockets : Handler(s) = Handler(t) => s = t
      /\ \A s \in Sockets : Handler(s) \in Processes /\ Stopper(s) \in Processes
  BY DEF Handler, Stopper, Processes
<1>l. /\ \A p, q \in Processes : Acquire(p) /\ Holds(q) => Holds(q)'
      /\ \A p, q \in Processes : Holds(p) /\ Holds(q) => p = q
      /\ \A p \in Processes : UNCHANGED lock => (Holds(p)' <=> Holds(p))
  <2>1. \A p, q \in Processes : Holds(q) => Append(lock, p) # <<>> /\ Head(Append(lock, p)) = q
    BY <1>t, LockQueue DEF TypeOK
  <2> QED
    BY <2>1 DEF Acquire, Holds
<1> USE CampaignOfAssumption, AuthorisedAssumption, NoneAssumption
<1>1. ASSUME NEW s \in Sockets, Reject(s) PROVE Rest'
  BY <1>1, <1>t, <1>n, <1>l DEF Reject, managerVars, feedVars, busVars,
       IInv, Rest, TypeOK, StartingAlone, SubscriberStage, TaskIsOwn, OpenIsConnected,
       SingleSubscriber, HandleIsOwn, HandleIsPending, Stopping, StoppedIsQuiet, ShutdownIsFinal
<1>2. ASSUME NEW s \in Sockets, Accept(s) PROVE Rest'
  BY <1>2, <1>t, <1>n, <1>l DEF Accept, managerVars, feedVars, busVars,
       IInv, Rest, TypeOK, StartingAlone, SubscriberStage, TaskIsOwn, OpenIsConnected,
       SingleSubscriber, HandleIsOwn, HandleIsPending, Stopping, StoppedIsQuiet, ShutdownIsFinal
<1>3. ASSUME NEW s \in Sockets, Join(s) PROVE Rest'
  BY <1>3, <1>t, <1>n, <1>l DEF Join, EnterConnections, CancelPendingShutdown, managerVars, feedVars, busVars,
       IInv, Rest, TypeOK, StartingAlone, SubscriberStage, TaskIsOwn, OpenIsConnected,
       SingleSubscriber, HandleIsOwn, HandleIsPending, Stopping, StoppedIsQuiet, ShutdownIsFinal
<1>4. ASSUME NEW s \in Sockets, StartSubscriber(s) PROVE Rest'
  <2> DEFINE c == CampaignOf[s]
  <2>1. /\ handler[s] = "connecting" /\ handler' = [handler EXCEPT ![s] = "starting"]
        /\ Holds(Handler(s)) /\ Holds(Handler(s))'
        /\ sub[s] = "none" /\ sub' = [sub EXCEPT ![s] = "subscribing"]
        /\ connections' = [connections EXCEPT ![c] = @ \cup {s}]
        /\ tasks[c] = None
        /\ UNCHANGED <<tasks, server>>
    BY <1>4, <1>n, <1>l DEF StartSubscriber, EnterConnections, IInv, SubscriberStage
  <2>2. \A t \in Sockets : t # s => handler[t] # "starting"
    BY <2>1, <1>n, <1>l DEF IInv, StartingAlone
  <2>3. StartingAlone' /\ SubscriberStage'
    BY <2>1, <2>2, <1>t DEF IInv, TypeOK, StartingAlone, SubscriberStage
  <2>4. TaskIsOwn' /\ SingleSubscriber' /\ OpenIsConnected'
    BY <2>1, <1>t DEF IInv, TypeOK, TaskIsOwn, SingleSubscriber, OpenIsConnected
  <2>5. HandleIsOwn' /\ HandleIsPending'
    <3>1. /\ shutdownHandles' = [shutdownHandles EXCEPT ![c] = None]
          /\ \A t \in Sockets : stopper'[t] = IF t = shutdownHandles[c] /\ stopper[t] = "armed"
                                              THEN "cancelled" ELSE stopper[t]
      BY <1>4 DEF StartSubscriber, EnterConnections, CancelPendingShutdown
    <3>2. ASSUME NEW d \in Campaigns, shutdownHandles'[d] # None
          PROVE  /\ d # c /\ shutdownHandles'[d] = shutdownHandles[d]
                 /\ shutdownHandles[d] \in Sockets
                 /\ shutdownHandles[d] # shutdownHandles[c]
      BY <3>1, <3>2, <1>t DEF IInv, TypeOK, HandleIsOwn
    <3>3. ASSUME NEW d \in Campaigns, shutdownHandles'[d] # None
          PROVE  /\ CampaignOf[shutdownHandles'[d]] = d
                 /\ connections'[d] = {}
                 /\ stopper'[shutdownHandles'[d]] \in {"armed", "spawned", "waiting"}
      <4>1. /\ CampaignOf[shutdownHandles[d]] = d /\ connections[d] = {}
            /\ stopper[shutdownHandles[d]] \in {"armed", "spawned", "waiting"}
        BY <3>2, <3>3 DEF IInv, HandleIsOwn, HandleIsPending, Stopping
      <4>2. connections'[d] = connections[d]
        BY <2>1, <3>2, <3>3, <1>t DEF TypeOK
      <4> QED
        BY <3>1, <3>2, <3>3, <4>1, <4>2
    <3> QED
      BY <3>3 DEF HandleIsOwn, HandleIsPending, Stopping
  <2>6. StoppedIsQuiet' /\ ShutdownIsFinal'
    BY <2>1, <1>t DEF IInv, TypeOK, StoppedIsQuiet, ShutdownIsFinal
  <2> QED
    BY <2>3, <2>4, <2>5, <2>6 DEF Rest
<1>5. ASSUME NEW s \in Sockets, Subscribed(s) PROVE Rest'
  BY <1>5, <1>t, <1>n, <1>l DEF Subscribed, managerVars, feedVars, busVars,
       IInv, Rest, TypeOK, StartingAlone, SubscriberStage, TaskIsOwn, OpenIsConnected,
       SingleSubscriber, HandleIsOwn, HandleIsPending, Stopping, StoppedIsQuiet, ShutdownIsFinal
<1>6. ASSUME NEW s \in Sockets, SubscribeFails(s) PROVE Rest'
  BY <1>6, <1>t, <1>n, <1>l DEF SubscribeFails, managerVars, feedVars, busVars,
       IInv, Rest, TypeOK, StartingAlone, SubscriberStage, TaskIsOwn, OpenIsConnected,
       SingleSubscriber, HandleIsOwn, HandleIsPending, Stopping, StoppedIsQuiet, ShutdownIsFinal
<1>7. ASSUME NEW s \in Sockets, PeerLeaves(s) PROVE Rest'
  BY <1>7, <1>t, <1>n, <1>l DEF PeerLeaves, managerVars, feedVars, busVars,
       IInv, Rest, TypeOK, StartingAlone, SubscriberStage, TaskIsOwn, OpenIsConnected,
       SingleSubscriber, HandleIsOwn, HandleIsPending, Stopping, StoppedIsQuiet, ShutdownIsFinal
<1>8. ASSUME NEW s \in Sockets, Leave(s) PROVE Rest'
  BY <1>8, <1>t, <1>n, <1>l DEF Leave, managerVars, feedVars, busVars,
       IInv, Rest, TypeOK, StartingAlone, SubscriberStage, TaskIsOwn, OpenIsConnected,
       SingleSubscriber, HandleIsOwn, HandleIsPending, Stopping, StoppedIsQuiet, ShutdownIsFinal
<1>9. ASSUME NEW s \in Sockets, Disconnect(s) PROVE Rest'
  <2> DEFINE c == CampaignOf[s]
  <2>1. /\ handler[s] = "leaving" /\ handler' = [handler EXCEPT ![s] = "closed"]
        /\ Holds(Handler(s))
        /\ connections' = [connections EXCEPT ![c] = @ \ {s}]
        /\ UNCHANGED <<tasks, sub, server>>
    BY <1>9 DEF Disconnect
  <2>2. \A t \in Sockets : handler[t] # "starting"
    BY <2>1, <1>n, <1>l DEF IInv, StartingAlone
  <2>3. StartingAlone' /\ SubscriberStage' /\ TaskIsOwn' /\ SingleSubscriber'
    BY <2>1, <2>2, <1>t DEF IInv, TypeOK, StartingAlone, SubscriberStage, TaskIsOwn, SingleSubscriber
  <2>4. OpenIsConnected'
    <3> SUFFICES ASSUME NEW t \in Sockets, handler'[t] \in {"open", "leaving"}
                 PROVE  t \in connections'[CampaignOf[t]] /\ tasks'[CampaignOf[t]] # None
      BY DEF OpenIsConnected
    <3>1. t # s /\ t \in connections[CampaignOf[t]] /\ tasks[CampaignOf[t]] # None
      BY <2>1, <1>t DEF IInv, TypeOK, OpenIsConnected
    <3> QED BY <2>1, <3>1, <1>t DEF TypeOK
  <2>5. HandleIsOwn' /\ HandleIsPending'
    <3>1. CASE connections'[c] = {} /\ connections[c] # {} /\ shutdownHandles[c] = None
      <4>1. /\ shutdownHandles' = [shutdownHandles EXCEPT ![c] = s]
            /\ stopper' = [stopper EXCEPT ![s] = "armed"]
        BY <1>9, <2>1, <3>1, <1>t DEF Disconnect, ScheduleShutdown, TypeOK
      <4> QED
        BY <2>1, <3>1, <4>1, <1>t DEF IInv, TypeOK, HandleIsOwn, HandleIsPending, Stopping
    <3>2. CASE ~(connections'[c] = {} /\ connections[c] # {} /\ shutdownHandles[c] = None)
      <4>1. UNCHANGED <<shutdownHandles, stopper>>
        BY <1>9, <2>1, <3>2, <1>t DEF Disconnect, ScheduleShutdown, TypeOK
      <4> QED
        BY <2>1, <4>1, <1>t DEF IInv, TypeOK, HandleIsOwn, HandleIsPending, Stopping
    <3> QED
      BY <3>1, <3>2
  <2>6. StoppedIsQuiet' /\ ShutdownIsFinal'
    BY <2>1, <1>t DEF IInv, TypeOK, StoppedIsQuiet, ShutdownIsFinal
  <2> QED
    BY <2>3, <2>4, <2>5, <2>6 DEF Rest
<1>10. ASSUME NEW s \in Sockets, TimerFires(s) PROVE Rest'
  BY <1>10, <1>t, <1>n, <1>l DEF TimerFires, managerVars, feedVars, busVars,
       IInv, Rest, TypeOK, StartingAlone, SubscriberStage, TaskIsOwn, OpenIsConnected,
       SingleSubscriber, HandleIsOwn, HandleIsPending, Stopping, StoppedIsQuiet, ShutdownIsFinal
<1>11. ASSUME NEW s \in Sockets, StopperStarts(s) PROVE Rest'
  BY <1>11, <1>t, <1>n, <1>l DEF StopperStarts, managerVars, feedVars, busVars,
       IInv, Rest, TypeOK, StartingAlone, SubscriberStage, TaskIsOwn, OpenIsConnected,
       SingleSubscriber, HandleIsOwn, HandleIsPending, Stopping, StoppedIsQuiet, ShutdownIsFinal
<1>12. ASSUME NEW s \in Sockets, KeepSubscriber(s) PROVE Rest'
  BY <1>12, <1>t, <1>n, <1>l DEF KeepSubscriber, StopperRuns, managerVars, feedVars, busVars,
       IInv, Rest, TypeOK, StartingAlone, SubscriberStage, TaskIsOwn, OpenIsConnected,
       SingleSubscriber, HandleIsOwn, HandleIsPending, Stopping, StoppedIsQuiet, ShutdownIsFinal
<1>13. ASSUME NEW s \in Sockets, StopSubscriber(s) PROVE Rest'
  BY <1>13, <1>t, <1>n, <1>l DEF StopSubscriber, StopperRuns, Cancel, managerVars, feedVars, busVars,
       IInv, Rest, TypeOK, StartingAlone, SubscriberStage, TaskIsOwn, OpenIsConnected,
       SingleSubscriber, HandleIsOwn, HandleIsPending, Stopping, StoppedIsQuiet, ShutdownIsFinal
<1>14. ASSUME NEW s \in Sockets, Register(s) PROVE Rest'
  BY <1>14, <1>t, <1>n, <1>l DEF Register, managerVars, feedVars, busVars,
       IInv, Rest, TypeOK, StartingAlone, SubscriberStage, TaskIsOwn, OpenIsConnected,
       SingleSubscriber, HandleIsOwn, HandleIsPending, Stopping, StoppedIsQuiet, ShutdownIsFinal
<1>15. ASSUME NEW s \in Sockets, Receive(s) PROVE Rest'
  BY <1>15, <1>t, <1>n, <1>l DEF Receive, managerVars, feedVars, busVars,
       IInv, Rest, TypeOK, StartingAlone, SubscriberStage, TaskIsOwn, OpenIsConnected,
       SingleSubscriber, HandleIsOwn, HandleIsPending, Stopping, StoppedIsQuiet, ShutdownIsFinal
<1>16. ASSUME NEW s \in Sockets, NEW w \in Sockets, Deliver(s, w) PROVE Rest'
  BY <1>16, <1>t, <1>n, <1>l DEF Deliver, managerVars, feedVars, busVars,
       IInv, Rest, TypeOK, StartingAlone, SubscriberStage, TaskIsOwn, OpenIsConnected,
       SingleSubscriber, HandleIsOwn, HandleIsPending, Stopping, StoppedIsQuiet, ShutdownIsFinal
<1>17. ASSUME NEW s \in Sockets, SubscriberFails(s) PROVE Rest'
  BY <1>17, <1>t, <1>n, <1>l DEF SubscriberFails, managerVars, feedVars, busVars,
       IInv, Rest, TypeOK, StartingAlone, SubscriberStage, TaskIsOwn, OpenIsConnected,
       SingleSubscriber, HandleIsOwn, HandleIsPending, Stopping, StoppedIsQuiet, ShutdownIsFinal
<1>18. ASSUME NEW s \in Sockets, SubscriberEnds(s) \/ CleanupSkipped(s) PROVE Rest'
  <2>1. /\ sub[s] \in {"cancelling", "failing", "cut"}
        /\ sub' = [sub EXCEPT ![s] = IF @ = "failing" THEN "dead" ELSE "stopped"]
        /\ UNCHANGED <<handler, lock, connections, tasks, shutdownHandles, stopper, server>>
    BY <1>18 DEF SubscriberEnds, CleanupSkipped, TaskEnds, managerVars
  <2>2. StartingAlone' /\ OpenIsConnected' /\ HandleIsOwn' /\ HandleIsPending' /\ StoppedIsQuiet'
    BY <2>1, <1>n, <1>l DEF IInv, StartingAlone, OpenIsConnected, HandleIsOwn, HandleIsPending,
       Stopping, StoppedIsQuiet
  <2>3. SubscriberStage' /\ TaskIsOwn' /\ SingleSubscriber' /\ ShutdownIsFinal'
    BY <2>1, <1>t DEF IInv, TypeOK, SubscriberStage, TaskIsOwn, SingleSubscriber, ShutdownIsFinal
  <2> QED
    BY <2>2, <2>3 DEF Rest
<1>19. ASSUME NEW c \in Campaigns, Publish(c) PROVE Rest'
  BY <1>19, <1>t, <1>n, <1>l DEF Publish, managerVars, feedVars, busVars,
       IInv, Rest, TypeOK, StartingAlone, SubscriberStage, TaskIsOwn, OpenIsConnected,
       SingleSubscriber, HandleIsOwn, HandleIsPending, Stopping, StoppedIsQuiet, ShutdownIsFinal
<1>20. ASSUME Shutdown PROVE Rest'
  <2>1. /\ \A t \in Sockets : handler[t] \in {"idle", "rejected", "closed", "failed"}
        /\ \A d \in Campaigns : tasks'[d] = None /\ shutdownHandles'[d] = None
        /\ server' = "stopping"
        /\ UNCHANGED <<handler, connections>>
    BY <1>20 DEF Shutdown
  <2>2. \A t \in Sockets : IF t \in {tasks[d] : d \in Campaigns} /\ sub[t] \in {"listening", "failing"}
                           THEN sub'[t] \in {"cancelling", "cut"} ELSE sub'[t] = sub[t]
    BY <1>20 DEF Shutdown, Cancel
  <2>3. \A t \in Sockets : sub'[t] \notin {"subscribing", "listening", "failing"}
    <3>1. ASSUME NEW t \in Sockets, sub[t] \in {"listening", "failing"}
          PROVE  t \in {tasks[d] : d \in Campaigns}
      BY <3>1 DEF IInv, SingleSubscriber
    <3>2. ASSUME NEW t \in Sockets PROVE sub[t] # "subscribing"
      BY <2>1 DEF IInv, SubscriberStage
    <3> QED
      BY <2>2, <3>1, <3>2
  <2>4. StartingAlone' /\ SubscriberStage'
    BY <2>1, <2>2, <2>3, <1>t DEF IInv, TypeOK, StartingAlone, SubscriberStage
  <2>5. TaskIsOwn' /\ SingleSubscriber' /\ OpenIsConnected'
    BY <2>1, <2>3 DEF TaskIsOwn, SingleSubscriber, OpenIsConnected
  <2>6. HandleIsOwn' /\ HandleIsPending' /\ StoppedIsQuiet' /\ ShutdownIsFinal'
    BY <2>1, <2>3 DEF HandleIsOwn, HandleIsPending, StoppedIsQuiet, ShutdownIsFinal
  <2> QED
    BY <2>4, <2>5, <2>6 DEF Rest
<1>21. CASE UNCHANGED vars
  BY <1>21, <1>t, <1>n, <1>l DEF vars, managerVars, feedVars, busVars,
       IInv, Rest, TypeOK, StartingAlone, SubscriberStage, TaskIsOwn, OpenIsConnected,
       SingleSubscriber, HandleIsOwn, HandleIsPending, Stopping, StoppedIsQuiet, ShutdownIsFinal
<1> QED
  BY <1>t, <1>r, <1>1, <1>2, <1>3, <1>4, <1>5, <1>6, <1>7, <1>8, <1>9, <1>10, <1>11, <1>12, <1>13, <1>14, <1>15, <1>16, <1>17, <1>18, <1>19, <1>20, <1>21
     DEF Next, HandlerStep, StopperStep, SubscriberStep

\* The initial states satisfy it.
LEMMA InvInit == Init => IInv
  BY MaxEventsAssumption, CampaignOfAssumption, NoneAssumption DEF Init, IInv, TypeOK, StartingAlone, SubscriberStage,
     TaskIsOwn, OpenIsConnected, SingleSubscriber, HandleIsOwn, HandleIsPending,
     StoppedIsQuiet, ShutdownIsFinal

\* It holds in every reachable state.
LEMMA Invariance == Spec => []IInv
  BY InvInit, InvStep, PTL DEF Spec

\* Whatever joins, leaves, stops and fails, a campaign has at most one
\* subscriber that can fan out, and it is the one _tasks names.
THEOREM NoOrphanSubscriber == Spec => []SingleSubscriber
<1>1. IInv => SingleSubscriber
  BY DEF IInv
<1> QED
  BY <1>1, Invariance, PTL

\* A socket whose connect() returned is in _connections, with a subscriber
\* nobody has cancelled, until its disconnect(): no stopper takes it away.
THEOREM OpenSocketIsServed == Spec => []ServedWhileOpen
<1>1. IInv => ServedWhileOpen
  BY CampaignOfAssumption DEF IInv, TypeOK, OpenIsConnected, TaskIsOwn, ServedWhileOpen
<1> QED
  BY <1>1, Invariance, PTL

\* _shutdown_handles never keeps the handle of a timer or stopper that is
\* over, nor one for a campaign that has connections again.
THEOREM HandleNeverStale == Spec => []HandleIsPending
<1>1. IInv => HandleIsPending
  BY DEF IInv
<1> QED
  BY <1>1, Invariance, PTL

\* Once shutdown() has run, every subscriber is over or cancelled.
THEOREM NoSubscriberAfterShutdown == Spec => []ShutdownIsFinal
<1>1. IInv => ShutdownIsFinal
  BY DEF IInv
<1> QED
  BY <1>1, Invariance, PTL
=============================================================================
