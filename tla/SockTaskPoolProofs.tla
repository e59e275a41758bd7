-------------------------- MODULE SockTaskPoolProofs --------------------------
(***************************************************************************)
(* Theorems about SockTaskPool, for any number of io threads, any limit on *)
(* the connections of a thread and any number of connections.              *)
(***************************************************************************)
EXTENDS SockTaskPool, FiniteSetTheorems, TLAPS

\* The main thread uses a task or a thread's index only where it has one, and a thread
\* that does not say that it runs is not past its first step.
TypeInv ==
  /\ TypeOK
  /\ \A t \in Thread : ~state[t] => tpc[t] \in {"none", "begin"}
  /\ mpc \in InHand => mUniqueId \in Task
  /\ mpc \in {"start", "test", "wait", "join"} => i \in Thread
  /\ mpc \in {"lock", "push"} => index \in Thread

\* The server starts with no connection and no thread running.
LEMMA TypeInitial == Init => TypeInv
<1> SUFFICES ASSUME Init PROVE TypeInv
  OBVIOUS
<1>1. mUniqueId \in 0..MaxConn /\ i \in 1..(mIoCount + 1)
  BY CountAssumption, ConnAssumption DEF Init
<1>2. TypeOK
  BY <1>1 DEF Init, TypeOK
<1>3. QED
  BY <1>2 DEF Init, TypeInv, InHand

\* Each step of main, io and message threads keeps the types.
LEMMA TypeStep == TypeInv /\ [Next]_vars => TypeInv'
<1> SUFFICES ASSUME TypeInv, [Next]_vars PROVE TypeInv'
  OBVIOUS
<1> USE DEF TypeInv, InHand
<1>1. ASSUME Main PROVE TypeInv'
  <2>1. CASE MainLoop
    BY <1>1, <2>1, CountAssumption DEF MainLoop, Main, TypeOK, manager, start, pool, Thread
  <2>2. CASE NoConnection
    BY <1>1, <2>2 DEF NoConnection, Main, TypeOK, manager, start, pool
  <2>3. CASE Create
    BY <1>1, <2>3 DEF Create, Main, TypeOK, manager, start, pool
  <2>4. CASE CreateFails
    BY <1>1, <2>4, CountAssumption DEF CreateFails, Main, TypeOK, manager, start, pool, Thread
  <2>5. CASE ReadCount
    BY <1>1, <2>5, CountAssumption DEF ReadCount, Main, TypeOK, manager, start, pool, Thread
  <2>6. CASE EndScan
    BY <1>1, <2>6 DEF EndScan, Main, TypeOK, manager, start, pool, NoThread
  <2>7. CASE LockStart
    BY <1>1, <2>7 DEF LockStart, Main, TypeOK, manager, pool
  <2>8. CASE Wait
    BY <1>1, <2>8 DEF Wait, Main, TypeOK, manager, pool
  <2>9. CASE Started
    BY <1>1, <2>9 DEF Started, Main, TypeOK, manager, pool
  <2>10. CASE LockQueue
    BY <1>1, <2>10 DEF LockQueue, Main, TypeOK, manager, start
  <2>11. CASE PushTask
    BY <1>1, <2>11 DEF PushTask, Main, TypeOK, manager, start
  <2>12. CASE Delete
    BY <1>1, <2>12 DEF Delete, Main, TypeOK, manager, start, pool
  <2>13. CASE Terminate
    BY <1>1, <2>13 DEF Terminate, Main, TypeOK, manager, start, pool
  <2>14. CASE Join
    BY <1>1, <2>14, CountAssumption DEF Join, Main, TypeOK, manager, start, pool, Thread
  <2>15. CASE JoinNotStarted
    BY <1>1, <2>15 DEF JoinNotStarted, Main, TypeOK, manager, start, pool
  <2>16. QED
    BY <1>1, <2>1, <2>2, <2>3, <2>4, <2>5, <2>6, <2>7, <2>8, <2>9, <2>10, <2>11, <2>12, <2>13,
       <2>14, <2>15 DEF Main
<1>2. ASSUME Registration PROVE TypeInv'
  <2>1. CASE Register
    BY <1>2, <2>1, CountAssumption DEF Register, Registration, TypeOK, start, pool
  <2>2. CASE Refuse
    BY <1>2, <2>2 DEF Refuse, Registration, TypeOK, start, pool
  <2>3. QED
    BY <1>2, <2>1, <2>2 DEF Registration
<1>3. ASSUME Accept, UNCHANGED mComplete PROVE TypeInv'
  BY <1>3, ConnAssumption DEF Accept, TypeOK, manager, start, pool, Task
<1>4. ASSUME CtrlC PROVE TypeInv'
  BY <1>4 DEF CtrlC, TypeOK, main, manager, start, pool
<1>5. ASSUME NEW t \in Thread, Run(t) PROVE TypeInv'
  <2>1. CASE Begin(t)
    BY <2>1 DEF Begin, IoStep, Mains, TypeOK, main, manager, pool
  <2>2. CASE Notify(t)
    BY <2>2 DEF Notify, IoStep, TypeOK, manager, start, pool
  <2>3. CASE IsFini(t)
    BY <2>3 DEF IsFini, IoStep, Mains, TypeOK, main, manager, start, pool
  <2>4. CASE TakeQueue(t)
    BY <2>4 DEF TakeQueue, IoStep, Mains, TypeOK, main, manager, start
  <2>5. CASE AddTask(t)
    BY <2>5 DEF AddTask, IoStep, Mains, TypeOK, main, manager, start
  <2>6. CASE EpollWait(t)
    BY <2>6 DEF EpollWait, IoStep, Mains, TypeOK, main, manager, start
  <2>7. CASE AddRecycleThread(t)
    BY <2>7 DEF AddRecycleThread, IoStep, Mains, TypeOK, main, manager, start
  <2>8. CASE Remove(t)
    BY <2>8 DEF Remove, IoStep, Mains, TypeOK, main, manager, start
  <2>9. CASE EndRound(t)
    BY <2>9 DEF EndRound, IoStep, Mains, TypeOK, main, manager, start, pool
  <2>10. QED
    BY <1>5, <2>1, <2>2, <2>3, <2>4, <2>5, <2>6, <2>7, <2>8, <2>9 DEF Run
<1>6. ASSUME MsgProcess PROVE TypeInv'
  <2>1. CASE DoProcessMsg
    BY <2>1 DEF DoProcessMsg, Mains, TypeOK, main, start, pool
  <2>2. CASE ProcessMsg
    BY <2>2 DEF ProcessMsg, Mains, TypeOK, main, start, pool
  <2>3. CASE EndProcessMsg
    BY <2>3 DEF EndProcessMsg, Mains, TypeOK, main, start, pool
  <2>4. QED
    BY <1>6, <2>1, <2>2, <2>3 DEF MsgProcess
<1>7. ASSUME Break PROVE TypeInv'
  BY <1>7 DEF Break, Mains, TypeOK, main, manager, start, pool
<1>8. ASSUME UNCHANGED vars PROVE TypeInv'
  BY <1>8 DEF vars, main, manager, start, pool, TypeOK
<1>9. QED
  BY <1>1, <1>2, <1>3, <1>4, <1>5, <1>6, <1>7, <1>8 DEF Next

\* Every variable keeps its type, and no step counts past the threads or connections
\* (MySockTaskPool.cpp:209-257, MyThread.cpp:61-72).
THEOREM TypeCorrect == Spec => []TypeOK
<1>1. TypeInv => TypeOK
  BY DEF TypeInv
<1>2. QED
  BY <1>1, TypeInitial, TypeStep, PTL DEF Spec
-----------------------------------------------------------------------------
\* The task in the main thread's hand is the newest one and in no container yet; before
\* it is deleted it has left the manager.
Fresh ==
  /\ \A c \in live : c <= mUniqueId
  /\ mpc \in InHand => mUniqueId \in live \ recycled /\ \A t \in Thread : mUniqueId \notin Holds(t)
  /\ mpc = "delete" => mUniqueId \notin mTasks

\* The message thread visits registered tasks, under the manager's lock only.
Visits == visiting \subseteq mTasks /\ (~managerLock => visiting = {})

\* What an io thread has in its two temporary containers, and when.
Rounds ==
  \A t \in Thread :
    /\ tpc[t] # "add" => adding[t] = {}
    /\ tpc[t] # "delete" => taskWillDel[t] = {}
    /\ taskWillDel[t] \subseteq taskSet[t]

PlaceInv == TypeInv /\ TasksAlive /\ OnePlace /\ Fresh /\ Visits /\ Rounds

\* TasksAlive and OnePlace, thread by thread.
LEMMA ByThread ==
  /\ TasksAlive <=>
       /\ \A t \in Thread : Holds(t) \subseteq live
       /\ mTasks \cup visiting \cup recycled \subseteq live
  /\ \A c : c \in Held <=> \E t \in Thread : c \in Holds(t)
BY DEF TasksAlive, Held

\* A step that moves no task, takes none in hand and puts none away.
LEMMA NothingMoved ==
  ASSUME PlaceInv, TypeInv',
         UNCHANGED <<live, mUniqueId, mTasks, visiting, managerLock, queue, adding, taskSet,
                     taskWillDel, recycled>>,
         mpc' \in InHand <=> mpc \in InHand,
         mpc' = "delete" => mpc = "delete",
         \A t \in Thread : /\ tpc[t] = "add" <=> tpc'[t] = "add"
                           /\ tpc[t] = "delete" => tpc'[t] = "delete" \/ taskWillDel[t] = {}
  PROVE  PlaceInv'
<1>1. \A t \in Thread : Holds(t)' = Holds(t)
  BY DEF Holds
<1>2. Held' = Held
  BY <1>1 DEF Held
<1>3. TasksAlive' /\ OnePlace' /\ Fresh' /\ Visits' /\ Rounds'
  BY <1>1, <1>2 DEF PlaceInv, TasksAlive, OnePlace, Fresh, Visits, Rounds, Holds
<1>4. QED
  BY <1>3 DEF PlaceInv

\* No task anywhere at the start.
LEMMA PlaceInitial == Init => PlaceInv
<1> SUFFICES ASSUME Init PROVE PlaceInv
  OBVIOUS
<1>1. \A t \in Thread : Holds(t) = {}
  BY DEF Init, Holds
<1>2. Held = {}
  BY <1>1 DEF Held
<1>3. TypeInv
  BY TypeInitial
<1>4. QED
  BY <1>1, <1>2, <1>3 DEF Init, PlaceInv, TasksAlive, OnePlace, Fresh, Visits, Rounds, Holds, InHand

\* The steps of the main thread that move no task.
LEMMA MainKeepsPlaces ==
  ASSUME PlaceInv, TypeInv',
         MainLoop \/ NoConnection \/ Create \/ CreateFails \/ ReadCount \/ EndScan \/ LockStart
           \/ Wait \/ Started \/ LockQueue \/ Terminate \/ Join \/ JoinNotStarted
  PROVE  PlaceInv'
<1> USE NothingMoved DEF InHand, manager, pool
<1>1. CASE MainLoop
  BY <1>1 DEF MainLoop
<1>2. CASE NoConnection
  BY <1>2 DEF NoConnection
<1>3. CASE Create
  BY <1>3 DEF Create, PlaceInv, TypeInv, TypeOK
<1>4. CASE CreateFails
  BY <1>4 DEF CreateFails
<1>5. CASE ReadCount
  BY <1>5 DEF ReadCount
<1>6. CASE EndScan
  BY <1>6 DEF EndScan
<1>7. CASE LockStart
  BY <1>7 DEF LockStart
<1>8. CASE Wait
  BY <1>8 DEF Wait
<1>9. CASE Started
  BY <1>9 DEF Started
<1>10. CASE LockQueue
  BY <1>10 DEF LockQueue
<1>11. CASE Terminate
  BY <1>11 DEF Terminate
<1>12. CASE Join
  BY <1>12 DEF Join
<1>13. CASE JoinNotStarted
  BY <1>13 DEF JoinNotStarted
<1>14. QED
  BY <1>1, <1>2, <1>3, <1>4, <1>5, <1>6, <1>7, <1>8, <1>9, <1>10, <1>11, <1>12, <1>13

\* The steps of the main thread that take a task in hand or put it away.
LEMMA MainMovesTask ==
  ASSUME PlaceInv, TypeInv', Accept \/ Register \/ PushTask \/ Refuse \/ Delete
  PROVE  PlaceInv'
<1> USE DEF InHand, pool, manager
<1>1. CASE Accept
  <2>1. /\ mUniqueId' = mUniqueId + 1 /\ mUniqueId \in Nat
        /\ live' = live \cup {mUniqueId'}
        /\ \A c \in live : c <= mUniqueId /\ c \in Nat
    BY <1>1, ConnAssumption DEF Accept, PlaceInv, Fresh, TypeInv, TypeOK, Task
  <2>2. mUniqueId' \notin live
    BY <2>1
  <2>3. \A t \in Thread : Holds(t)' = Holds(t)
    BY <1>1 DEF Accept, Holds
  <2>4. Held' = Held
    BY <2>3 DEF Held
  <2>5. TasksAlive' /\ Visits' /\ Rounds'
    BY <1>1, <2>1, <2>4 DEF Accept, PlaceInv, TasksAlive, Visits, Rounds
  <2>6. Fresh'
    BY <1>1, <2>1, <2>2, <2>3, ByThread DEF Accept, PlaceInv, Fresh
  <2>7. OnePlace'
    BY <1>1, <2>1, <2>3, <2>4 DEF Accept, PlaceInv, OnePlace
  <2>8. QED
    BY <2>5, <2>6, <2>7 DEF PlaceInv
<1>2. CASE Register
  <2>1. \A t \in Thread : Holds(t)' = Holds(t)
    BY <1>2 DEF Register, Holds
  <2>2. Held' = Held
    BY <2>1 DEF Held
  <2>3. QED
    BY <1>2, <2>1, <2>2 DEF Register, PlaceInv, TasksAlive, OnePlace, Fresh, Visits, Rounds
<1>3. CASE PushTask
  <2>1. /\ index \in Thread /\ mUniqueId \in live \ recycled
        /\ \A t \in Thread : mUniqueId \notin Holds(t)
    BY <1>3 DEF PushTask, PlaceInv, TypeInv, Fresh
  <2>2. queue' = [queue EXCEPT ![index] = @ \cup {mUniqueId}] /\ queue \in [Thread -> SUBSET Task]
    BY <1>3 DEF PushTask, PlaceInv, TypeInv, TypeOK
  <2>3. \A t \in Thread : Holds(t)' = IF t = index THEN Holds(t) \cup {mUniqueId} ELSE Holds(t)
    BY <1>3, <2>1, <2>2 DEF PushTask, Holds
  <2>4. TasksAlive'
    BY <1>3, <2>1, <2>3 DEF PushTask, PlaceInv, TasksAlive, Held
  <2>5. \A c : c \in Held' <=> c \in Held \/ c = mUniqueId
    BY <2>1, <2>3 DEF Held
  <2>6. OnePlace'
    <3>1. \A c \in live : c \in Held' \/ c \in recycled
      BY <1>3, <2>5 DEF PlaceInv, OnePlace
    <3>2. \A a, b \in Thread : a # b => Holds(a)' \cap Holds(b)' = {}
      BY <2>1, <2>3 DEF PlaceInv, OnePlace
    <3>3. \A t \in Thread :
            /\ queue'[t] \cap adding[t] = {} /\ (queue'[t] \cup adding[t]) \cap taskSet[t] = {}
            /\ Holds(t)' \cap recycled \subseteq taskWillDel[t]
      BY <2>1, <2>2, <2>3 DEF PlaceInv, OnePlace, Holds
    <3>4. QED
      BY <1>3, <3>1, <3>2, <3>3 DEF PushTask, OnePlace
  <2>7. Fresh' /\ Visits' /\ Rounds'
    BY <1>3 DEF PushTask, PlaceInv, Fresh, Visits, Rounds
  <2>8. QED
    BY <2>4, <2>6, <2>7 DEF PlaceInv
<1>4. CASE Refuse
  <2>1. \A t \in Thread : Holds(t)' = Holds(t)
    BY <1>4 DEF Refuse, Holds
  <2>2. Held' = Held
    BY <2>1 DEF Held
  <2>3. QED
    BY <1>4, <2>1, <2>2 DEF Refuse, PlaceInv, TasksAlive, OnePlace, Fresh, Visits, Rounds
<1>5. CASE Delete
  <2>1. \A t \in Thread : Holds(t)' = Holds(t)
    BY <1>5 DEF Delete, Holds
  <2>2. Held' = Held
    BY <2>1 DEF Held
  <2>3. TasksAlive'
    BY <1>5, <2>2, ByThread DEF Delete, PlaceInv, TasksAlive, Fresh, Visits
  <2>4. OnePlace' /\ Fresh' /\ Visits' /\ Rounds'
    BY <1>5, <2>1, <2>2 DEF Delete, PlaceInv, OnePlace, Fresh, Visits, Rounds
  <2>5. QED
    BY <2>3, <2>4 DEF PlaceInv
<1>6. QED
  BY <1>1, <1>2, <1>3, <1>4, <1>5

\* The rounds of an io thread.
LEMMA RunKeepsPlaces ==
  ASSUME PlaceInv, TypeInv', NEW t \in Thread, Run(t)
  PROVE  PlaceInv'
<1> USE DEF InHand, pool, manager, main, Mains, IoStep
<1>1. CASE Begin(t)
  BY <1>1, NothingMoved DEF Begin, PlaceInv, TypeInv, TypeOK
<1>2. CASE Notify(t)
  BY <1>2, NothingMoved DEF Notify, PlaceInv, TypeInv, TypeOK
<1>3. CASE IsFini(t)
  BY <1>3, NothingMoved DEF IsFini, PlaceInv, TypeInv, TypeOK
<1>4. CASE TakeQueue(t)
  <2>1. adding[t] = {} /\ queue \in [Thread -> SUBSET Task] /\ adding \in [Thread -> SUBSET Task]
    BY <1>4 DEF TakeQueue, PlaceInv, Rounds, TypeInv, TypeOK
  <2>2. \A u \in Thread : Holds(u)' = Holds(u)
    BY <1>4, <2>1 DEF TakeQueue, Holds
  <2>3. Held' = Held
    BY <2>2 DEF Held
  <2>4. TasksAlive' /\ Fresh' /\ Visits'
    BY <1>4, <2>2, <2>3 DEF TakeQueue, PlaceInv, TasksAlive, Fresh, Visits
  <2>5. OnePlace' /\ Rounds'
    BY <1>4, <2>1, <2>2, <2>3 DEF TakeQueue, PlaceInv, OnePlace, Rounds, TypeInv, TypeOK
  <2>6. QED
    BY <2>4, <2>5 DEF PlaceInv
<1>5. CASE AddTask(t)
  <2>1. PICK c \in adding[t] : /\ taskSet' = [taskSet EXCEPT ![t] = @ \cup {c}]
                               /\ adding' = [adding EXCEPT ![t] = @ \ {c}]
    BY <1>5 DEF AddTask
  <2>2. adding \in [Thread -> SUBSET Task] /\ taskSet \in [Thread -> SUBSET Task]
    BY DEF PlaceInv, TypeInv, TypeOK
  <2>3. \A u \in Thread : Holds(u)' = Holds(u)
    BY <1>5, <2>1, <2>2 DEF AddTask, Holds
  <2>4. Held' = Held
    BY <2>3 DEF Held
  <2>5. TasksAlive' /\ Fresh' /\ Visits'
    BY <1>5, <2>3, <2>4 DEF AddTask, PlaceInv, TasksAlive, Fresh, Visits
  <2>6. OnePlace'
    BY <1>5, <2>1, <2>2, <2>3, <2>4 DEF AddTask, PlaceInv, OnePlace
  <2>7. Rounds'
    BY <1>5, <2>1, <2>2 DEF AddTask, PlaceInv, Rounds, TypeInv, TypeOK
  <2>8. QED
    BY <2>5, <2>6, <2>7 DEF PlaceInv
<1>6. CASE EpollWait(t)
  <2>1. \A u \in Thread : Holds(u)' = Holds(u)
    BY <1>6 DEF EpollWait, Holds
  <2>2. Held' = Held
    BY <2>1 DEF Held
  <2>3. TasksAlive' /\ Fresh' /\ Visits'
    BY <1>6, <2>1, <2>2 DEF EpollWait, PlaceInv, TasksAlive, Fresh, Visits
  <2>4. taskWillDel[t] = {} /\ adding[t] = {}
    BY <1>6 DEF EpollWait, PlaceInv, Rounds
  <2>5. OnePlace' /\ Rounds'
    BY <1>6, <2>1, <2>2, <2>4 DEF EpollWait, PlaceInv, OnePlace, Rounds, TypeInv, TypeOK
  <2>6. QED
    BY <2>3, <2>5 DEF PlaceInv
<1>7. CASE AddRecycleThread(t)
  <2>1. PICK c \in taskWillDel[t] : recycled' = recycled \cup {c}
    BY <1>7 DEF AddRecycleThread
  <2>2. c \in Holds(t) /\ \A u \in Thread : u # t => c \notin Holds(u)
    BY <2>1 DEF PlaceInv, Rounds, OnePlace, Holds
  <2>3. \A u \in Thread : Holds(u)' = Holds(u)
    BY <1>7 DEF AddRecycleThread, Holds
  <2>4. Held' = Held /\ c \in Held
    BY <2>2, <2>3 DEF Held
  <2>5. TasksAlive' /\ Visits'
    BY <1>7, <2>1, <2>4 DEF AddRecycleThread, PlaceInv, TasksAlive, Visits
  <2>6. Fresh'
    BY <1>7, <2>1, <2>2, <2>3 DEF AddRecycleThread, PlaceInv, Fresh
  <2>7. OnePlace'
    BY <1>7, <2>1, <2>2, <2>3, <2>4 DEF AddRecycleThread, PlaceInv, OnePlace
  <2>8. Rounds'
    BY <1>7 DEF AddRecycleThread, PlaceInv, Rounds, TypeInv, TypeOK
  <2>9. QED
    BY <2>5, <2>6, <2>7, <2>8 DEF PlaceInv
<1>8. CASE Remove(t)
  <2>1. PICK c \in taskWillDel[t] \cap recycled :
               /\ taskSet' = [taskSet EXCEPT ![t] = @ \ {c}]
               /\ taskWillDel' = [taskWillDel EXCEPT ![t] = @ \ {c}]
    BY <1>8 DEF Remove
  <2>2. taskWillDel \in [Thread -> SUBSET Task] /\ taskSet \in [Thread -> SUBSET Task]
    BY DEF PlaceInv, TypeInv, TypeOK
  <2>3. c \notin queue[t] \cup adding[t]
    BY <2>1 DEF PlaceInv, Rounds, OnePlace
  <2>4. \A u \in Thread : Holds(u)' = IF u = t THEN Holds(u) \ {c} ELSE Holds(u)
    BY <1>8, <2>1, <2>2, <2>3 DEF Remove, Holds
  <2>5. \A d : d \in Held /\ d # c => d \in Held'
    BY <2>4 DEF Held
  <2>6. Held' \subseteq Held
    BY <2>4 DEF Held
  <2>7. TasksAlive' /\ Fresh' /\ Visits'
    BY <1>8, <2>4, <2>6 DEF Remove, PlaceInv, TasksAlive, Fresh, Visits
  <2>8. OnePlace'
    BY <1>8, <2>1, <2>2, <2>4, <2>5 DEF Remove, PlaceInv, OnePlace
  <2>9. Rounds'
    BY <1>8, <2>1, <2>2 DEF Remove, PlaceInv, Rounds, TypeInv, TypeOK
  <2>10. QED
    BY <2>7, <2>8, <2>9 DEF PlaceInv
<1>9. CASE EndRound(t)
  BY <1>9, NothingMoved DEF EndRound, PlaceInv, TypeInv, TypeOK
<1>10. QED
  BY <1>1, <1>2, <1>3, <1>4, <1>5, <1>6, <1>7, <1>8, <1>9 DEF Run

\* The message thread moves no task of the pool.
LEMMA VisitsKeepPlaces ==
  ASSUME PlaceInv, TypeInv', MsgProcess
  PROVE  PlaceInv'
<1>1. UNCHANGED <<live, mUniqueId, mpc, mTasks, queue, adding, taskSet, taskWillDel, recycled, tpc>>
  BY DEF MsgProcess, DoProcessMsg, ProcessMsg, EndProcessMsg, Mains, main, pool
<1>2. \A t \in Thread : Holds(t)' = Holds(t)
  BY <1>1 DEF Holds
<1>3. Held' = Held
  BY <1>2 DEF Held
<1>4. Visits'
  BY DEF PlaceInv, Visits, MsgProcess, DoProcessMsg, ProcessMsg, EndProcessMsg
<1>5. TasksAlive'
  BY <1>1, <1>3, <1>4 DEF PlaceInv, TasksAlive, Visits
<1>6. OnePlace' /\ Fresh' /\ Rounds'
  BY <1>1, <1>2, <1>3 DEF PlaceInv, OnePlace, Fresh, Rounds
<1>7. QED
  BY <1>4, <1>5, <1>6 DEF PlaceInv

\* Whoever takes a step, tasks stay where PlaceInv says.
LEMMA PlaceStep == PlaceInv /\ [Next]_vars => PlaceInv'
<1> SUFFICES ASSUME PlaceInv, [Next]_vars PROVE PlaceInv'
  OBVIOUS
<1>1. TypeInv'
  BY TypeStep DEF PlaceInv
<1>2. ASSUME Main PROVE PlaceInv'
  BY <1>1, <1>2, MainKeepsPlaces, MainMovesTask DEF Main
<1>3. ASSUME Registration PROVE PlaceInv'
  BY <1>1, <1>3, MainMovesTask DEF Registration
<1>4. ASSUME Accept PROVE PlaceInv'
  BY <1>1, <1>4, MainMovesTask
<1>5. ASSUME CtrlC PROVE PlaceInv'
  BY <1>1, <1>5, NothingMoved DEF CtrlC, main, manager, pool
<1>6. ASSUME NEW t \in Thread, Run(t) PROVE PlaceInv'
  BY <1>1, <1>6, RunKeepsPlaces
<1>7. ASSUME MsgProcess PROVE PlaceInv'
  BY <1>1, <1>7, VisitsKeepPlaces
<1>8. ASSUME Break PROVE PlaceInv'
  BY <1>1, <1>8, NothingMoved DEF Break, Mains, main, manager, pool
<1>9. ASSUME UNCHANGED vars PROVE PlaceInv'
  BY <1>1, <1>9, NothingMoved DEF vars, main, manager, pool
<1>10. QED
  BY <1>2, <1>3, <1>4, <1>5, <1>6, <1>7, <1>8, <1>9 DEF Next

\* PlaceInv holds in every state.
LEMMA PlaceInductive == Spec => []PlaceInv
BY PlaceInitial, PlaceStep, PTL DEF Spec

\* No thread reaches a deleted task, for any number of threads and connections
\* (MyServer.cpp:46-53, MySockTaskManager.cpp:18-26).
THEOREM NoneReachesDeleted == Spec => []TasksAlive
<1>1. PlaceInv => TasksAlive
  BY DEF PlaceInv
<1>2. QED
  BY <1>1, PlaceInductive, PTL

\* No task is lost on its way or in the hands of two threads
\* (MySockTaskPool.cpp:17-43, 148-158, 209-262).
THEOREM EachInOnePlace == Spec => []OnePlace
<1>1. PlaceInv => OnePlace
  BY DEF PlaceInv
<1>2. QED
  BY <1>1, PlaceInductive, PTL
-----------------------------------------------------------------------------
\* Where addTask looks for a thread, and where it has found one.
Choosing == mpc \in {"scan", "lock", "push"} /\ index \in Thread
Starting == mpc \in {"start", "test", "wait"}

\* A thread that is started for a task has none yet; one that was chosen has room, unless
\* it was counted without the tasks in its queue.
Room ==
  /\ \A t \in Thread : ~state[t] => Holds(t) = {}
  /\ Starting => Holds(i) = {}
  /\ Choosing => state[index]
  /\ ~crowded /\ Choosing => Cardinality(Holds(index)) < mMaxConnPerIo

RoomInv == TypeInv /\ Rounds /\ Room /\ LimitUntilCrowded

\* What a thread holds is finite.
LEMMA HoldsFinite ==
  ASSUME TypeOK, NEW t \in Thread
  PROVE  IsFiniteSet(Holds(t)) /\ Cardinality(Holds(t)) \in Nat
<1>1. Holds(t) \subseteq 1..MaxConn
  BY DEF TypeOK, Holds, Task
<1>2. IsFiniteSet(1..MaxConn)
  BY ConnAssumption, FS_Interval
<1>3. QED
  BY <1>1, <1>2, FS_Subset, FS_CardinalityType

\* Only the main thread gives a thread a task.
LEMMA OthersShrink ==
  ASSUME TypeOK, Rounds, [Next]_vars, ~PushTask, NEW t \in Thread
  PROVE  Holds(t)' \subseteq Holds(t)
<1>1. CASE UNCHANGED <<queue, adding, taskSet>>
  BY <1>1 DEF Holds
<1>2. ASSUME NEW u \in Thread, Run(u), TakeQueue(u) \/ AddTask(u) \/ Remove(u)
      PROVE  Holds(t)' \subseteq Holds(t)
  BY <1>2 DEF TakeQueue, AddTask, Remove, Holds, TypeOK
<1>3. ASSUME NEW u \in Thread, Run(u)
      PROVE  Holds(t)' \subseteq Holds(t)
  BY <1>1, <1>2, <1>3 DEF Run, Begin, Notify, IsFini, EpollWait, AddRecycleThread, EndRound, pool
<1>4. ASSUME Main PROVE Holds(t)' \subseteq Holds(t)
  BY <1>1, <1>4 DEF Main, MainLoop, NoConnection, Create, CreateFails, ReadCount, EndScan,
     LockStart, Wait, Started, LockQueue, Delete, Terminate, Join, JoinNotStarted, pool
<1>5. ASSUME Registration \/ Accept \/ CtrlC \/ MsgProcess \/ Break \/ UNCHANGED vars
      PROVE  Holds(t)' \subseteq Holds(t)
  BY <1>1, <1>5 DEF Registration, Register, Refuse, Accept, CtrlC, MsgProcess, DoProcessMsg,
     ProcessMsg, EndProcessMsg, Break, vars, pool
<1>6. QED
  BY <1>3, <1>4, <1>5 DEF Next

\* A step that chooses no thread and gives none a task.
LEMMA NothingChosen ==
  ASSUME RoomInv, TypeInv', Rounds',
         \A t \in Thread : Holds(t)' \subseteq Holds(t),
         crowded' = crowded,
         \A t \in Thread : state[t] => state'[t],
         Starting' => Starting /\ i' = i,
         Choosing' => Choosing /\ index' = index
  PROVE  RoomInv'
<1>1. \A t \in Thread : Cardinality(Holds(t)') <= Cardinality(Holds(t))
  BY HoldsFinite, FS_Subset DEF RoomInv, TypeInv
<1>2. \A t \in Thread : Cardinality(Holds(t)) \in Nat /\ Cardinality(Holds(t)') \in Nat
  <2>1. TypeOK /\ TypeOK'
    BY DEF RoomInv, TypeInv
  <2>2. QED
    BY <2>1, HoldsFinite, FS_Subset, FS_CardinalityType
<1>3. Starting' => Holds(i)' = {}
  BY DEF RoomInv, Room, TypeInv, Starting
<1>4. Choosing' => state'[index'] /\ (~crowded' => Cardinality(Holds(index)') < mMaxConnPerIo)
  BY <1>1, <1>2, LimitAssumption DEF RoomInv, Room, Choosing
<1>5. Room'
  BY <1>3, <1>4 DEF RoomInv, Room
<1>6. LimitUntilCrowded'
  BY <1>1, <1>2, LimitAssumption DEF RoomInv, LimitUntilCrowded
<1>7. QED
  BY <1>5, <1>6 DEF RoomInv

\* No thread holds a task at the start.
LEMMA RoomInitial == Init => RoomInv
<1> SUFFICES ASSUME Init PROVE RoomInv
  OBVIOUS
<1>1. \A t \in Thread : Holds(t) = {}
  BY DEF Init, Holds
<1>2. TypeInv /\ Rounds
  BY PlaceInitial DEF PlaceInv
<1>3. Room
  BY <1>1 DEF Init, Room, Starting, Choosing
<1>4. LimitUntilCrowded
  BY <1>1, FS_EmptySet, LimitAssumption DEF LimitUntilCrowded
<1>5. QED
  BY <1>2, <1>3, <1>4 DEF RoomInv

\* The steps in which the main thread starts, counts, chooses, or gives.
LEMMA ChoiceHasRoom ==
  ASSUME RoomInv, TypeInv', Rounds', [Next]_vars, Create \/ ReadCount \/ Started \/ PushTask
  PROVE  RoomInv'
<1>1. CASE Create
  <2>1. \A t \in Thread : Holds(t)' = Holds(t)
    BY <1>1 DEF Create, pool, Holds
  <2>2. Room' /\ LimitUntilCrowded'
    BY <1>1, <2>1 DEF Create, start, RoomInv, Room, Starting, Choosing, LimitUntilCrowded
  <2>3. QED
    BY <2>2 DEF RoomInv
<1>2. CASE ReadCount
  <2>1. \A t \in Thread : Holds(t)' = Holds(t)
    BY <1>2 DEF ReadCount, pool, Holds
  <2>2. ~crowded' => ~crowded /\ (index' # index => queue[i] \cup adding[i] = {} /\ Cardinality(taskSet[i]) < mMaxConnPerIo)
    BY <1>2 DEF ReadCount, RoomInv, TypeInv, TypeOK
  <2>3. index' # index => index' = i /\ i \in Thread /\ state[i]
    BY <1>2 DEF ReadCount
  <2>4. ~crowded' /\ Choosing' => Cardinality(Holds(index)') < mMaxConnPerIo
    <3>1. CASE index' = index
      BY <1>2, <2>1, <2>2, <3>1 DEF ReadCount, RoomInv, Room, Choosing
    <3>2. CASE index' # index
      <4>1. ~crowded' => Holds(i) = taskSet[i]
        BY <2>2, <3>2 DEF Holds
      <4>2. QED
        BY <2>1, <2>2, <2>3, <3>2, <4>1
    <3>3. QED
      BY <3>1, <3>2
  <2>5. Room'
    BY <1>2, <2>1, <2>3, <2>4 DEF ReadCount, start, RoomInv, Room, Starting, Choosing
  <2>6. LimitUntilCrowded'
    BY <2>1, <2>2 DEF RoomInv, LimitUntilCrowded
  <2>7. QED
    BY <2>5, <2>6 DEF RoomInv
<1>3. CASE Started
  <2>1. \A t \in Thread : Holds(t)' = Holds(t)
    BY <1>3 DEF Started, pool, Holds
  <2>2. Cardinality(Holds(i)) < mMaxConnPerIo
    BY <1>3, FS_EmptySet, LimitAssumption DEF Started, RoomInv, Room, Starting
  <2>3. Room' /\ LimitUntilCrowded'
    BY <1>3, <2>1, <2>2 DEF Started, RoomInv, Room, Starting, Choosing, LimitUntilCrowded
  <2>4. QED
    BY <2>3 DEF RoomInv
<1>4. CASE PushTask
  <2>1. index \in Thread /\ state[index] /\ (~crowded => Cardinality(Holds(index)) < mMaxConnPerIo)
    BY <1>4 DEF PushTask, RoomInv, TypeInv, Room, Choosing
  <2>2. \A t \in Thread : Holds(t)' = IF t = index THEN Holds(t) \cup {mUniqueId} ELSE Holds(t)
    BY <1>4 DEF PushTask, Holds, RoomInv, TypeInv, TypeOK
  <2>3. Room'
    BY <1>4, <2>1, <2>2 DEF PushTask, start, RoomInv, Room, Starting, Choosing
  <2>4. Cardinality(Holds(index) \cup {mUniqueId}) <= Cardinality(Holds(index)) + 1
        /\ Cardinality(Holds(index)) \in Nat
    <3>1. IsFiniteSet(Holds(index)) /\ Cardinality(Holds(index)) \in Nat
      BY <2>1, HoldsFinite DEF RoomInv, TypeInv
    <3>2. Cardinality(Holds(index) \cup {mUniqueId})
            = IF mUniqueId \in Holds(index) THEN Cardinality(Holds(index)) ELSE Cardinality(Holds(index)) + 1
      BY <3>1, FS_AddElement
    <3>3. QED
      BY <3>1, <3>2
  <2>5. ~crowded => Cardinality(Holds(index) \cup {mUniqueId}) <= mMaxConnPerIo
    <3>1. Cardinality(Holds(index) \cup {mUniqueId}) \in Nat
      BY <2>1, HoldsFinite, FS_AddElement, FS_CardinalityType DEF RoomInv, TypeInv
    <3>2. QED
      BY <2>1, <2>4, <3>1, LimitAssumption
  <2>6. LimitUntilCrowded'
    BY <1>4, <2>2, <2>5 DEF PushTask, RoomInv, LimitUntilCrowded
  <2>7. QED
    BY <2>3, <2>6 DEF RoomInv
<1>5. QED
  BY <1>1, <1>2, <1>3, <1>4

\* Whoever takes a step, the chosen thread keeps its room.
LEMMA RoomStep == RoomInv /\ PlaceInv /\ [Next]_vars => RoomInv'
<1> SUFFICES ASSUME RoomInv, PlaceInv, [Next]_vars PROVE RoomInv'
  OBVIOUS
<1>1. TypeInv' /\ Rounds'
  BY PlaceStep DEF PlaceInv
<1>2. CASE Create \/ ReadCount \/ Started \/ PushTask
  BY <1>1, <1>2, ChoiceHasRoom
<1>3. CASE ~(Create \/ ReadCount \/ Started \/ PushTask)
  <2>1. \A t \in Thread : Holds(t)' \subseteq Holds(t)
    BY <1>3, OthersShrink DEF RoomInv, TypeInv
  <2> DEFINE Kept == /\ crowded' = crowded
                     /\ \A t \in Thread : state[t] => state'[t]
                     /\ Starting' => Starting /\ i' = i
                     /\ Choosing' => Choosing /\ index' = index
  <2>2. ASSUME Main PROVE Kept
    BY <1>3, <2>2 DEF Main, MainLoop, NoConnection, CreateFails, EndScan, LockStart, Wait,
       LockQueue, Delete, Terminate, Join, JoinNotStarted, Starting, Choosing, start
  <2>3. ASSUME Registration \/ Accept \/ CtrlC PROVE Kept
    BY <2>3 DEF Registration, Register, Refuse, Accept, CtrlC, Starting, Choosing, start, main,
       NoThread, Thread
  <2>4. ASSUME NEW t \in Thread, Run(t) PROVE Kept
    <3>1. CASE Begin(t)
      BY <3>1 DEF Begin, Mains, main, Starting, Choosing, RoomInv, TypeInv, TypeOK
    <3>2. CASE Notify(t)
      BY <3>2 DEF Notify, Starting, Choosing, start
    <3>3. CASE ~Begin(t) /\ ~Notify(t)
      BY <2>4, <3>3 DEF Run, IsFini, TakeQueue, AddTask, EpollWait, AddRecycleThread, Remove,
         EndRound, Mains, main, start, Starting, Choosing
    <3>4. QED
      BY <3>1, <3>2, <3>3
  <2>5. ASSUME MsgProcess \/ Break \/ UNCHANGED vars PROVE Kept
    BY <2>5 DEF MsgProcess, DoProcessMsg, ProcessMsg, EndProcessMsg, Break, vars, Mains, main,
       start, Starting, Choosing
  <2>6. Kept
    BY <2>2, <2>3, <2>4, <2>5 DEF Next
  <2>7. QED
    BY <1>1, <2>1, <2>6, NothingChosen
<1>4. QED
  BY <1>2, <1>3

\* A thread is within its limit until addTask counts one whose queue is not empty, for
\* every limit and number of threads (MySockTaskPool.cpp:209-257, MyThread.cpp:20-50).
THEOREM LimitHolds == Spec => []LimitUntilCrowded
<1>1. RoomInv => LimitUntilCrowded
  BY DEF RoomInv
<1>2. QED
  BY <1>1, RoomInitial, RoomStep, PlaceInductive, PTL DEF Spec
=============================================================================
