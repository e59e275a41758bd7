------------------------------ MODULE SockTaskPool ------------------------------
(***************************************************************************)
(* The connections of the server and the threads they live in: the main    *)
(* thread accepts them (MyServer::newTask), registers them with the task   *)
(* manager and gives each to an io thread (MySockTaskPool::addTask), which *)
(* it starts when it needs the thread for the first time; the io threads   *)
(* watch them (MyIoThread::run); the message thread visits all registered  *)
(* ones (MySockTaskManager::doProcessMsg).  Ctrl-C ends the main loop, and *)
(* the main thread goes on to MyServer::fini.                              *)
(*                                                                         *)
(* The recycle thread of the pool is created and never started             *)
(* (MySockTaskPool.cpp:266): tasks enter its queue and stay there.         *)
(***************************************************************************)
EXTENDS Naturals, FiniteSets

CONSTANTS
  mIoCount,       \* io threads of the pool
  mMaxConnPerIo,  \* connections an io thread is meant to have
  MaxConn         \* connections accepted in one behaviour: the bound of the model

ASSUME CountAssumption == mIoCount \in Nat
ASSUME LimitAssumption == mMaxConnPerIo \in Nat \ {0}
ASSUME ConnAssumption == MaxConn \in Nat

Thread == 1..mIoCount
Task == 1..MaxConn
NoThread == 0

VARIABLES
  mComplete,   \* Ctrl-C has come
  mUniqueId,   \* connections accepted so far; the newest is in the main thread's hand
  mpc,         \* where the main thread is
  i,           \* the thread addTask looks at, or fini joins
  index,       \* the thread addTask has found, or NoThread
  mTasks,      \* tasks the manager knows
  visiting,    \* tasks doProcessMsg has still to visit
  managerLock, \* doProcessMsg holds the manager's lock
  state,       \* state[t]: thread t runs
  startLock,   \* startLock[t]: the main thread holds mLock of thread t, in start
  queueLock,   \* queueLock[t]: the main thread holds the lock of t's queue, in addTask
  queue,       \* queue[t]: tasks given to t, mTaskQueue
  adding,      \* adding[t]: tasks t has taken from its queue, mTaskQueueTmp
  taskSet,     \* taskSet[t]: tasks t watches
  taskWillDel, \* taskWillDel[t]: tasks t has found closed or broken in this round
  tpc,         \* where each io thread is
  complete,    \* complete[t]: t is to end
  recycled,    \* the recycle thread's queue
  live,        \* tasks allocated and not deleted
  broken,      \* connections the peer has closed, or sent a packet over the limit on
  crowded      \* addTask has counted a thread that had queued tasks (not in the code)

manager == <<mTasks, visiting, managerLock>>
start == <<state, startLock>>
pool == <<queueLock, queue, adding, taskSet, taskWillDel, recycled>>
main == <<mUniqueId, mpc, i, index>>
vars == <<mComplete, main, manager, start, pool, tpc, complete, live, broken, crowded>>

Mains == UNCHANGED <<mComplete, main, live, crowded>>
-----------------------------------------------------------------------------
(***************************************************************************)
(* The main thread: mainLoop, newTask and MySockTaskPool::addTask.         *)
(***************************************************************************)
MainLoop ==
  /\ mpc = "idle"
  /\ mpc' = IF mComplete THEN "terminate" ELSE "accept"
  /\ i' = 1
  /\ UNCHANGED <<mUniqueId, index, manager, start, pool, tpc, complete, live, broken, crowded>>

NoConnection ==
  /\ mpc = "accept"
  /\ mpc' = "idle"
  /\ UNCHANGED <<mUniqueId, i, index, manager, start, pool, tpc, complete, live, broken, crowded>>

Accept ==
  /\ mpc = "accept" /\ mUniqueId < MaxConn
  /\ mUniqueId' = mUniqueId + 1
  /\ live' = live \cup {mUniqueId'}
  /\ mpc' = "register"
  /\ UNCHANGED <<i, index, manager, start, pool, tpc, complete, broken, crowded>>

\* MySockTaskManager::addTask; addTask of the pool begins at its first thread.
Register ==
  /\ mpc = "register" /\ ~managerLock
  /\ mTasks' = mTasks \cup {mUniqueId}
  /\ i' = 1 /\ index' = NoThread
  /\ mpc' = "scan"
  /\ UNCHANGED <<mUniqueId, visiting, managerLock, start, pool, tpc, complete, live, broken, crowded>>

\* The thread has not been started: start creates it,
Create ==
  /\ mpc = "scan" /\ i \in Thread /\ ~state[i]
  /\ tpc' = [tpc EXCEPT ![i] = "begin"]
  /\ mpc' = "start"
  /\ UNCHANGED <<mUniqueId, i, index, manager, start, pool, complete, live, broken, crowded>>

\* Mutant of CreateFails: the index moves on before the loop moves it on.
CreateFailsTwice ==
  /\ mpc = "scan" /\ i \in Thread /\ ~state[i]
  /\ i' = i + 2
  /\ UNCHANGED <<mUniqueId, mpc, index, manager, start, pool, tpc, complete, live, broken, crowded>>

\* or fails to, and the next one is tried.
CreateFails ==
  /\ mpc = "scan" /\ i \in Thread /\ ~state[i]
  /\ i' = i + 1
  /\ UNCHANGED <<mUniqueId, mpc, index, manager, start, pool, tpc, complete, live, broken, crowded>>

\* Mutant of ReadCount: a thread that is full by one may take another task.
ReadCountLate ==
  /\ mpc = "scan" /\ i \in Thread /\ state[i]
  /\ LET room == Cardinality(taskSet[i]) <= mMaxConnPerIo IN
     /\ index' = IF room THEN i ELSE index
     /\ crowded' = (crowded \/ (room /\ queue[i] \cup adding[i] # {}))
  /\ i' = i + 1
  /\ UNCHANGED <<mUniqueId, mpc, manager, start, pool, tpc, complete, live, broken>>

\* It runs: its tasks are counted, without those it has not taken up yet.  The
\* smallest count is never kept, so the last thread with room is taken.
ReadCount ==
  /\ mpc = "scan" /\ i \in Thread /\ state[i]
  /\ LET room == Cardinality(taskSet[i]) < mMaxConnPerIo IN
     /\ index' = IF room THEN i ELSE index
     /\ crowded' = (crowded \/ (room /\ queue[i] \cup adding[i] # {}))
  /\ i' = i + 1
  /\ UNCHANGED <<mUniqueId, mpc, manager, start, pool, tpc, complete, live, broken>>

EndScan ==
  /\ mpc = "scan" /\ i > mIoCount
  /\ mpc' = IF index = NoThread THEN "refuse" ELSE "lock"
  /\ UNCHANGED <<mUniqueId, i, index, manager, start, pool, tpc, complete, live, broken, crowded>>

\* MyThread::start: wait until the new thread says that it runs.
LockStart ==
  /\ mpc = "start"
  /\ startLock' = [startLock EXCEPT ![i] = TRUE]
  /\ mpc' = "test"
  /\ UNCHANGED <<mUniqueId, i, index, manager, state, pool, tpc, complete, live, broken, crowded>>

Wait ==
  /\ mpc = "test" /\ ~state[i]
  /\ startLock' = [startLock EXCEPT ![i] = FALSE]
  /\ mpc' = "wait"
  /\ UNCHANGED <<mUniqueId, i, index, manager, state, pool, tpc, complete, live, broken, crowded>>

Started ==
  /\ mpc = "test" /\ state[i]
  /\ startLock' = [startLock EXCEPT ![i] = FALSE]
  /\ index' = i
  /\ mpc' = "lock"
  /\ UNCHANGED <<mUniqueId, i, manager, state, pool, tpc, complete, live, broken, crowded>>

\* TaskQueue::addTask.
LockQueue ==
  /\ mpc = "lock"
  /\ queueLock' = [queueLock EXCEPT ![index] = TRUE]
  /\ mpc' = "push"
  /\ UNCHANGED <<mUniqueId, i, index, manager, start, queue, adding, taskSet, taskWillDel, recycled,
                 tpc, complete, live, broken, crowded>>

PushTask ==
  /\ mpc = "push"
  /\ queue' = [queue EXCEPT ![index] = @ \cup {mUniqueId}]
  /\ queueLock' = [queueLock EXCEPT ![index] = FALSE]
  /\ mpc' = "idle"
  /\ UNCHANGED <<mUniqueId, i, index, manager, start, adding, taskSet, taskWillDel, recycled,
                 tpc, complete, live, broken, crowded>>

\* Mutant of Refuse: the task is deleted and stays registered.
RefuseRegistered ==
  /\ mpc = "refuse" /\ ~managerLock
  /\ mpc' = "delete"
  /\ UNCHANGED <<mUniqueId, i, index, manager, start, pool, tpc, complete, live, broken, crowded>>

\* No thread has room: newTask unregisters the task and deletes it.
Refuse ==
  /\ mpc = "refuse" /\ ~managerLock
  /\ mTasks' = mTasks \ {mUniqueId}
  /\ mpc' = "delete"
  /\ UNCHANGED <<mUniqueId, i, index, visiting, managerLock, start, pool, tpc, complete, live,
                 broken, crowded>>

Delete ==
  /\ mpc = "delete"
  /\ live' = live \ {mUniqueId}
  /\ mpc' = "idle"
  /\ UNCHANGED <<mUniqueId, i, index, manager, start, pool, tpc, complete, broken, crowded>>
-----------------------------------------------------------------------------
(***************************************************************************)
(* The io threads: MyThread::threadFun and MyIoThread::run.                *)
(***************************************************************************)
IoStep(t, from, to) == tpc[t] = from /\ tpc' = [tpc EXCEPT ![t] = to]

Begin(t) ==
  /\ IoStep(t, "begin", "notify")
  /\ state' = [state EXCEPT ![t] = TRUE]
  /\ Mains /\ UNCHANGED <<manager, startLock, pool, complete, broken>>

\* Mutant of Notify: the waiting main thread is not woken.
NotifyUnheard(t) ==
  /\ IoStep(t, "notify", "check")
  /\ ~startLock[t]
  /\ UNCHANGED <<mComplete, main, live, crowded, manager, start, pool, complete, broken>>

\* notifyStartSuccess wakes the main thread if it waits for t.
Notify(t) ==
  /\ IoStep(t, "notify", "check")
  /\ ~startLock[t]
  /\ mpc' = IF mpc = "wait" /\ i = t THEN "start" ELSE mpc
  /\ UNCHANGED <<mComplete, mUniqueId, i, index, live, crowded, manager, start, pool, complete, broken>>

\* Mutant of IsFini: complete, a plain bool, is read once, before the loop.
IsFiniOnce(t) ==
  /\ IoStep(t, "check", "take")
  /\ Mains /\ UNCHANGED <<manager, start, pool, complete, broken>>

\* The loop's test of isFini.
IsFini(t) ==
  /\ IoStep(t, "check", IF complete[t] THEN "done" ELSE "take")
  /\ Mains /\ UNCHANGED <<manager, start, pool, complete, broken>>

\* checkQueue empties the queue under its lock, then adds the tasks one by one.
TakeQueue(t) ==
  /\ IoStep(t, "take", "add")
  /\ ~queueLock[t]
  /\ adding' = [adding EXCEPT ![t] = queue[t]]
  /\ queue' = [queue EXCEPT ![t] = {}]
  /\ Mains /\ UNCHANGED <<manager, start, queueLock, taskSet, taskWillDel, recycled, complete, broken>>

\* Mutant of AddTask: the task is watched and stays in mTaskQueueTmp.
AddTaskKept(t) ==
  /\ IoStep(t, "add", "add")
  /\ \E c \in adding[t] \ taskSet[t] : taskSet' = [taskSet EXCEPT ![t] = @ \cup {c}]
  /\ Mains /\ UNCHANGED <<manager, start, queueLock, queue, adding, taskWillDel, recycled, complete, broken>>

AddTask(t) ==
  /\ IoStep(t, "add", "add")
  /\ \E c \in adding[t] :
       /\ taskSet' = [taskSet EXCEPT ![t] = @ \cup {c}]
       /\ adding' = [adding EXCEPT ![t] = @ \ {c}]
  /\ Mains /\ UNCHANGED <<manager, start, queueLock, queue, taskWillDel, recycled, complete, broken>>

\* One round of epoll events; the broken connections are noted.
EpollWait(t) ==
  /\ adding[t] = {}
  /\ IoStep(t, "add", "delete")
  /\ taskWillDel' = [taskWillDel EXCEPT ![t] = taskSet[t] \cap broken]
  /\ Mains /\ UNCHANGED <<manager, start, queueLock, queue, adding, taskSet, recycled, complete, broken>>

\* Each of them goes to the recycle thread first and leaves this one then.
AddRecycleThread(t) ==
  /\ IoStep(t, "delete", "delete")
  /\ taskWillDel[t] \cap recycled = {}
  /\ \E c \in taskWillDel[t] : recycled' = recycled \cup {c}
  /\ Mains /\ UNCHANGED <<manager, start, queueLock, queue, adding, taskSet, taskWillDel, complete, broken>>

Remove(t) ==
  /\ IoStep(t, "delete", "delete")
  /\ \E c \in taskWillDel[t] \cap recycled :
       /\ taskSet' = [taskSet EXCEPT ![t] = @ \ {c}]
       /\ taskWillDel' = [taskWillDel EXCEPT ![t] = @ \ {c}]
  /\ Mains /\ UNCHANGED <<manager, start, queueLock, queue, adding, recycled, complete, broken>>

EndRound(t) ==
  /\ taskWillDel[t] = {}
  /\ IoStep(t, "delete", "check")
  /\ Mains /\ UNCHANGED <<manager, start, pool, complete, broken>>
-----------------------------------------------------------------------------
(***************************************************************************)
(* The message thread: MySockTaskManager::doProcessMsg.                    *)
(***************************************************************************)
DoProcessMsg ==
  /\ ~managerLock
  /\ managerLock' = TRUE
  /\ visiting' = mTasks
  /\ Mains /\ UNCHANGED <<mTasks, start, pool, tpc, complete, broken>>

\* The tasks are visited in the order of their numbers.
ProcessMsg ==
  /\ managerLock
  /\ \E c \in visiting :
       /\ \A d \in visiting : c <= d
       /\ visiting' = visiting \ {c}
  /\ Mains /\ UNCHANGED <<mTasks, managerLock, start, pool, tpc, complete, broken>>

EndProcessMsg ==
  /\ managerLock /\ visiting = {}
  /\ managerLock' = FALSE
  /\ Mains /\ UNCHANGED <<mTasks, visiting, start, pool, tpc, complete, broken>>
-----------------------------------------------------------------------------
(***************************************************************************)
(* Ctrl-C: the handler calls fini of MyBaseServer, which is not virtual    *)
(* and ends the main loop only.  MyServer::fini then ends and joins one io *)
(* thread after the other, and the recycle thread at last.  The pid of a   *)
(* thread never started is 0, and pthread_join(0) ends the process.        *)
(***************************************************************************)
CtrlC ==
  /\ ~mComplete
  /\ mComplete' = TRUE
  /\ UNCHANGED <<main, manager, start, pool, tpc, complete, live, broken, crowded>>

Terminate ==
  /\ mpc = "terminate" /\ i \in Thread
  /\ complete' = [complete EXCEPT ![i] = TRUE]
  /\ mpc' = "join"
  /\ UNCHANGED <<mUniqueId, i, index, manager, start, pool, tpc, live, broken, crowded>>

Join ==
  /\ mpc = "join" /\ tpc[i] = "done"
  /\ i' = i + 1
  /\ mpc' = "terminate"
  /\ UNCHANGED <<mUniqueId, index, manager, start, pool, tpc, complete, live, broken, crowded>>

JoinNotStarted ==
  /\ \/ mpc = "join" /\ tpc[i] = "none"
     \/ mpc = "terminate" /\ i > mIoCount
  /\ mpc' = "crashed"
  /\ UNCHANGED <<mUniqueId, i, index, manager, start, pool, tpc, complete, live, broken, crowded>>

\* The peer closes its end, or sends a packet of MAX_PACKET_LEN bytes or more.
Break ==
  /\ \E c \in live \ broken : broken' = broken \cup {c}
  /\ Mains /\ UNCHANGED <<manager, start, pool, tpc, complete>>
-----------------------------------------------------------------------------
Init ==
  /\ mComplete = FALSE
  /\ mUniqueId = 0
  /\ mpc = "idle"
  /\ i = 1 /\ index = NoThread
  /\ mTasks = {} /\ visiting = {} /\ managerLock = FALSE
  /\ state = [t \in Thread |-> FALSE]
  /\ startLock = [t \in Thread |-> FALSE]
  /\ queueLock = [t \in Thread |-> FALSE]
  /\ queue = [t \in Thread |-> {}]
  /\ adding = [t \in Thread |-> {}]
  /\ taskSet = [t \in Thread |-> {}]
  /\ taskWillDel = [t \in Thread |-> {}]
  /\ tpc = [t \in Thread |-> "none"]
  /\ complete = [t \in Thread |-> FALSE]
  /\ recycled = {} /\ live = {} /\ broken = {}
  /\ crowded = FALSE

Main ==
  /\ \/ MainLoop \/ NoConnection \/ Create \/ CreateFails \/ ReadCount \/ EndScan
     \/ LockStart \/ Wait \/ Started \/ LockQueue \/ PushTask \/ Delete
     \/ Terminate \/ Join \/ JoinNotStarted
  /\ UNCHANGED mComplete

Registration == (Register \/ Refuse) /\ UNCHANGED mComplete

Run(t) ==
  \/ Begin(t) \/ Notify(t) \/ IsFini(t) \/ TakeQueue(t) \/ AddTask(t)
  \/ EpollWait(t) \/ AddRecycleThread(t) \/ Remove(t) \/ EndRound(t)

MsgProcess == DoProcessMsg \/ ProcessMsg \/ EndProcessMsg

Next ==
  /\ mpc # "crashed"
  /\ \/ Main \/ Registration
     \/ Accept /\ UNCHANGED mComplete
     \/ CtrlC
     \/ \E t \in Thread : Run(t)
     \/ MsgProcess
     \/ Break

\* The threads run on.  The message thread sleeps between its rounds, so the main
\* thread gets the manager's lock in the end.  Nothing makes peers come or break.
Fairness ==
  /\ WF_vars(Main)
  /\ SF_vars(Registration)
  /\ \A t \in Thread : WF_vars(mpc # "crashed" /\ Run(t))
  /\ WF_vars(mpc # "crashed" /\ MsgProcess)

Spec == Init /\ [][Next]_vars /\ Fairness
-----------------------------------------------------------------------------
Holds(t) == queue[t] \cup adding[t] \cup taskSet[t]
InHand == {"register", "scan", "start", "test", "wait", "lock", "push", "refuse", "delete"}
Held == UNION {Holds(t) : t \in Thread}

TypeOK ==
  /\ mComplete \in BOOLEAN
  /\ mUniqueId \in 0..MaxConn
  /\ mpc \in {"idle", "accept", "register", "scan", "start", "test", "wait", "lock", "push",
              "refuse", "delete", "terminate", "join", "crashed"}
  /\ i \in 1..(mIoCount + 1)
  /\ index \in Thread \cup {NoThread}
  /\ mTasks \subseteq Task /\ visiting \subseteq Task /\ managerLock \in BOOLEAN
  /\ state \in [Thread -> BOOLEAN]
  /\ startLock \in [Thread -> BOOLEAN] /\ queueLock \in [Thread -> BOOLEAN]
  /\ queue \in [Thread -> SUBSET Task] /\ adding \in [Thread -> SUBSET Task]
  /\ taskSet \in [Thread -> SUBSET Task] /\ taskWillDel \in [Thread -> SUBSET Task]
  /\ tpc \in [Thread -> {"none", "begin", "notify", "check", "take", "add", "delete", "done"}]
  /\ complete \in [Thread -> BOOLEAN]
  /\ recycled \subseteq Task /\ live \subseteq Task /\ broken \subseteq Task
  /\ crowded \in BOOLEAN

\* No thread can reach a deleted task: not an io thread through its queues and sets,
\* nor the message thread through the manager, which newTask clears before it deletes
\* (MyServer.cpp:46-53, MySockTaskManager.cpp:18-26).
TasksAlive == Held \cup mTasks \cup visiting \cup recycled \subseteq live

\* No connection is lost or served twice on its way through the queues: each task that
\* lives is with the main thread, with one io thread in one of its three places, or in
\* the recycle queue, which it enters before its io thread lets go of it
\* (MySockTaskPool.cpp:25-43, 152-156).
OnePlace ==
  /\ \A c \in live :
       \/ c = mUniqueId /\ mpc \in InHand
       \/ c \in Held
       \/ c \in recycled
  /\ \A s, t \in Thread : s # t => Holds(s) \cap Holds(t) = {}
  /\ \A t \in Thread :
       /\ queue[t] \cap adding[t] = {} /\ (queue[t] \cup adding[t]) \cap taskSet[t] = {}
       /\ Holds(t) \cap recycled \subseteq taskWillDel[t]

\* addTask keeps a thread within mMaxConnPerIo tasks as long as it never counts one
\* whose queue it has filled and the thread has not emptied (MySockTaskPool.cpp:80-83,
\* 229).
LimitUntilCrowded == ~crowded => \A t \in Thread : Cardinality(Holds(t)) <= mMaxConnPerIo

\* A connection that was accepted gets watched, or refused and closed, whatever the
\* threads' starts and the manager's lock do meanwhile, unless Ctrl-C comes.
ConnectionServed ==
  \A c \in Task :
    c \in live ~> c \notin live \/ c \in recycled \/ mComplete \/ \E t \in Thread : c \in taskSet[t]

\* After Ctrl-C the main thread leaves its loop, whatever connection it is busy with,
\* and every io thread it has started ends, so that fini gets past the last one of
\* them (MyBaseServer.cpp:75-82, MyThread.cpp:57-72, MySockTaskPool.cpp:107).
FiniEnds == mComplete ~> mpc = "crashed"
=============================================================================
