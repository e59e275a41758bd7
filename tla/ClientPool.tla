------------------------------ MODULE ClientPool ------------------------------
(***************************************************************************)
(* client/MySockClientTaskPool.cpp, MySockClientTask.cpp, MyClient.cpp and *)
(* MyClientTaskManager::testSend: the main thread writes the orders to the *)
(* first connected task, the recycle thread connects and reconnects tasks, *)
(* the io thread receives, sends and gives broken tasks back.              *)
(*                                                                         *)
(* Sockets are numbered in the order of their creation; none is closed     *)
(* before the process ends.  What a packet is made of is Framing's.        *)
(***************************************************************************)
EXTENDS Integers, Sequences, FiniteSets, FiniteSetsExt

CONSTANTS
  Tasks,      \* mTasks: the servers to connect to, in the order of their ids
  NumOrders,  \* MyOrderData::_v.size()
  FdLimit,    \* sockets the process can have open
  MaxBreaks   \* connections the servers break

ASSUME ClientAssumption ==
  /\ Tasks \subseteq Nat /\ IsFiniteSet(Tasks)
  /\ {NumOrders, FdLimit} \subseteq Nat \ {0} /\ MaxBreaks \in Nat

Orders == 1..NumOrders

VARIABLES
  mConn, mSock,      \* per task; a socket of 0 is none
  mSendBuffer,       \* per task: the orders written and not yet sent
  sockets,           \* "open", "broken" or "failed", by number
  inbox,             \* sockets with something received and not yet read
  unanswered,        \* sockets whose server has got orders it may yet answer
  next, count,       \* testSend: the order whose turn it is, and those sent in this round
  m_sendflag,
  recycleQueue, recycleSet,  \* MyClientRecycleThread
  connecting,        \* <<task, socket>> that conn has connected and not yet set
  ioQueue, ioSet,    \* MyClientIoThread
  epoll,             \* <<task, socket>> registered
  events,            \* <<task, socket, kind>> of this round that are not handled yet
  taskWillDel,
  ioPc,              \* "check", "wait" or "handle"
  killed,            \* SIGPIPE ended the process
  offered, arrived,  \* how often an order was written, and got to a server (history)
  gap                \* a round has sent some of the orders and not others (history)

mainVars == <<next, count, m_sendflag, offered, gap>>
recycleVars == <<recycleSet, connecting>>
ioVars == <<ioSet, epoll, events, taskWillDel, ioPc>>
netVars == <<sockets, inbox, unanswered, arrived>>
clientVars == <<mConn, mSock, mSendBuffer, mainVars, recycleQueue, recycleVars, ioQueue,
                ioVars, netVars, killed>>

NoSocket == 0
-----------------------------------------------------------------------------
\* testSend, for one order: the first connected task gets it, or nobody.
TestSend ==
  /\ ~m_sendflag /\ next <= NumOrders
  /\ LET connected == {t \in Tasks : mConn[t]}
     IN  IF connected = {}
         THEN UNCHANGED <<mSendBuffer, count, offered>>
         ELSE /\ mSendBuffer' = [mSendBuffer EXCEPT ![Min(connected)] = Append(@, next)]
              /\ count' = count + 1
              /\ offered' = [offered EXCEPT ![next] = @ + 1]
  /\ next' = next + 1
  /\ UNCHANGED <<mConn, mSock, m_sendflag, gap, recycleQueue, recycleVars, ioQueue, ioVars,
                 netVars>>

\* Mutant: one round is enough, whatever it sent.
EndTestSendUncounted ==
  /\ next > NumOrders /\ ~m_sendflag
  /\ m_sendflag' = TRUE
  /\ next' = 1 /\ count' = 0
  /\ UNCHANGED <<mConn, mSock, mSendBuffer, offered, gap, recycleQueue, recycleVars, ioQueue,
                 ioVars, netVars>>

\* Its end: only a round that sent everything is the last; any other begins again.
EndTestSend ==
  /\ next > NumOrders /\ ~m_sendflag
  /\ m_sendflag' = (count = NumOrders)
  /\ gap' = (gap \/ count \in 1..NumOrders - 1)
  /\ next' = 1 /\ count' = 0
  /\ UNCHANGED <<mConn, mSock, mSendBuffer, offered, recycleQueue, recycleVars, ioQueue,
                 ioVars, netVars>>

Main == TestSend \/ EndTestSend
-----------------------------------------------------------------------------
\* checkQueue of the recycle thread, at the start of its round.
RecycleCheckQueue ==
  /\ connecting = <<>> /\ recycleQueue # {}
  /\ recycleSet' = recycleSet \cup recycleQueue
  /\ recycleQueue' = {}
  /\ UNCHANGED <<mConn, mSock, mSendBuffer, mainVars, connecting, ioQueue, ioVars, netVars>>

\* conn: connect succeeds, and the task counts as connected...
Conn(t) ==
  /\ connecting = <<>> /\ t \in recycleSet /\ Len(sockets) < FdLimit
  /\ sockets' = Append(sockets, "open")
  /\ mConn' = [mConn EXCEPT ![t] = TRUE]
  /\ connecting' = <<t, Len(sockets) + 1>>
  /\ UNCHANGED <<mSock, mSendBuffer, mainVars, recycleQueue, recycleSet, ioQueue, ioVars,
                 inbox, unanswered, arrived>>

\* ...before it has the socket.  The old socket, if there was one, is not closed.
SetSocket ==
  /\ connecting # <<>>
  /\ LET t == connecting[1]
     IN  /\ mSock' = [mSock EXCEPT ![t] = connecting[2]]
         /\ ioQueue' = ioQueue \cup {t}
         /\ recycleSet' = recycleSet \ {t}
  /\ connecting' = <<>>
  /\ UNCHANGED <<mConn, mSendBuffer, mainVars, recycleQueue, ioVars, netVars>>

\* conn: connect fails, and the socket stays open.
ConnFails(t) ==
  /\ connecting = <<>> /\ t \in recycleSet /\ Len(sockets) < FdLimit
  /\ sockets' = Append(sockets, "failed")
  /\ UNCHANGED <<mConn, mSock, mSendBuffer, mainVars, recycleQueue, recycleVars, ioQueue,
                 ioVars, inbox, unanswered, arrived>>

\* conn: socket fails, and the -1 it returns counts as a success.
NoDescriptor(t) ==
  /\ connecting = <<>> /\ t \in recycleSet /\ Len(sockets) = FdLimit
  /\ ioQueue' = ioQueue \cup {t}
  /\ recycleSet' = recycleSet \ {t}
  /\ UNCHANGED <<mConn, mSock, mSendBuffer, mainVars, recycleQueue, connecting, ioVars,
                 netVars>>

Recycle ==
  RecycleCheckQueue \/ SetSocket \/ \E t \in Tasks : Conn(t) \/ ConnFails(t) \/ NoDescriptor(t)
-----------------------------------------------------------------------------
\* Mutant: the task is taken without registering its socket.
IoCheckQueueUnregistered ==
  /\ ioPc = "check"
  /\ ioSet' = ioSet \cup ioQueue
  /\ ioQueue' = {}
  /\ ioPc' = "wait"
  /\ UNCHANGED <<mConn, mSock, mSendBuffer, mainVars, recycleQueue, recycleVars, epoll, events,
                 taskWillDel, netVars>>

\* checkQueue of the io thread: each task's present socket is registered.
IoCheckQueue ==
  /\ ioPc = "check"
  /\ ioSet' = ioSet \cup ioQueue
  /\ epoll' = epoll \cup {<<t, mSock[t]>> : t \in {u \in ioQueue : mSock[u] # NoSocket}}
  /\ ioQueue' = {}
  /\ ioPc' = "wait"
  /\ UNCHANGED <<mConn, mSock, mSendBuffer, mainVars, recycleQueue, recycleVars, events,
                 taskWillDel, netVars>>

\* A socket that was broken stays readable for ever; the others can be written.
Kind(s) == IF s \in inbox \/ sockets[s] = "broken" THEN "in" ELSE "out"

\* epoll_wait returns at most as many events as there are tasks, though a task can be
\* registered with several sockets.
EpollWait ==
  /\ ioPc = "wait"
  /\ events' \in {{<<r[1], r[2], Kind(r[2])>> : r \in R} :
                    R \in kSubset(Min({Cardinality(ioSet), Cardinality(epoll)}), epoll)}
  /\ ioPc' = "handle"
  /\ UNCHANGED <<mConn, mSock, mSendBuffer, mainVars, recycleQueue, recycleVars, ioQueue,
                 ioSet, epoll, taskWillDel, netVars>>

\* Mutant: after a reception it receives again, for more.
RcvBufferAgain(e) ==
  LET t == e[1]
      s == mSock[t]
  IN  /\ ioPc = "handle" /\ e \in events /\ e[3] = "in"
      /\ \/ /\ s \in inbox /\ inbox' = inbox \ {s}
            /\ UNCHANGED <<taskWillDel, events>>
         \/ /\ s \notin inbox /\ sockets[s] = "broken"
            /\ taskWillDel' = taskWillDel \cup {t} /\ events' = events \ {e}
            /\ UNCHANGED inbox
      /\ UNCHANGED <<mConn, mSock, mSendBuffer, mainVars, recycleQueue, recycleVars, ioQueue,
                     ioSet, epoll, ioPc, sockets, unanswered, arrived>>

\* EPOLLIN: rcvBuffer reads the task's present socket, whichever was registered, and
\* blocks as long as that one has nothing to read.
RcvBuffer(e) ==
  LET t == e[1]
      s == mSock[t]
  IN  /\ ioPc = "handle" /\ e \in events /\ e[3] = "in"
      /\ \/ s \in inbox /\ inbox' = inbox \ {s} /\ UNCHANGED taskWillDel
         \/ /\ s \notin inbox /\ sockets[s] = "broken"
            /\ taskWillDel' = taskWillDel \cup {t}
            /\ UNCHANGED inbox
      /\ events' = events \ {e}
      /\ UNCHANGED <<mConn, mSock, mSendBuffer, mainVars, recycleQueue, recycleVars, ioQueue,
                     ioSet, epoll, ioPc, sockets, unanswered, arrived>>

\* EPOLLOUT: syncSendBuf empties the buffer before it sends.  What is sent on a broken
\* socket is lost, or ends the process, which does not ignore SIGPIPE, or send reports
\* the reset and the task is given back.
SyncSendBuf(e) ==
  LET t == e[1]
      s == mSock[t]
      orders == mSendBuffer[t]
  IN  /\ ioPc = "handle" /\ e \in events /\ e[3] = "out"
      /\ \/ /\ sockets[s] = "open"
            /\ unanswered' = IF orders = <<>> THEN unanswered ELSE unanswered \cup {s}
            /\ arrived' = [o \in Orders |->
                 arrived[o] + Cardinality({i \in DOMAIN orders : orders[i] = o})]
            /\ UNCHANGED <<taskWillDel, killed>>
         \/ /\ sockets[s] = "broken"
            /\ \/ killed' \in {FALSE, orders # <<>>} /\ UNCHANGED taskWillDel
               \/ /\ orders # <<>> /\ taskWillDel' = taskWillDel \cup {t}
                  /\ UNCHANGED killed
            /\ UNCHANGED <<unanswered, arrived>>
      /\ mSendBuffer' = [mSendBuffer EXCEPT ![t] = <<>>]
      /\ events' = events \ {e}
      /\ UNCHANGED <<mConn, mSock, mainVars, recycleQueue, recycleVars, ioQueue, ioSet,
                     epoll, ioPc, sockets, inbox>>

\* The end of the round: broken tasks go to the recycle thread.  Nothing takes them, or
\* their sockets, out of epoll.
EndRound ==
  /\ ioPc = "handle" /\ events = {}
  /\ mConn' = [t \in Tasks |-> mConn[t] /\ t \notin taskWillDel]
  /\ recycleQueue' = recycleQueue \cup taskWillDel
  /\ taskWillDel' = {}
  /\ ioPc' = "check"
  /\ UNCHANGED <<mSock, mSendBuffer, mainVars, recycleVars, ioQueue, ioSet, epoll, events,
                 netVars>>

Io ==
  \/ /\ IoCheckQueue \/ EpollWait \/ EndRound \/ \E e \in events : RcvBuffer(e)
     /\ UNCHANGED killed
  \/ \E e \in events : SyncSendBuf(e)
-----------------------------------------------------------------------------
\* The servers answer, and break connections.
Reply(s) ==
  /\ sockets[s] = "open" /\ s \in unanswered
  /\ unanswered' = unanswered \ {s}
  /\ inbox' = inbox \cup {s}
  /\ UNCHANGED <<mConn, mSock, mSendBuffer, mainVars, recycleQueue, recycleVars, ioQueue,
                 ioVars, sockets, arrived>>

Broken == {s \in DOMAIN sockets : sockets[s] = "broken"}

Break(s) ==
  /\ sockets[s] = "open" /\ Cardinality(Broken) < MaxBreaks
  /\ sockets' = [sockets EXCEPT ![s] = "broken"]
  /\ UNCHANGED <<mConn, mSock, mSendBuffer, mainVars, recycleQueue, recycleVars, ioQueue,
                 ioVars, inbox, unanswered, arrived>>

Server == \E s \in DOMAIN sockets : Reply(s) \/ Break(s)
-----------------------------------------------------------------------------
\* MyClient::init hands every task to the recycle thread.
ClientInit ==
  /\ mConn = [t \in Tasks |-> FALSE] /\ mSock = [t \in Tasks |-> NoSocket]
  /\ mSendBuffer = [t \in Tasks |-> <<>>]
  /\ sockets = <<>> /\ inbox = {} /\ unanswered = {}
  /\ next = 1 /\ count = 0 /\ m_sendflag = FALSE
  /\ recycleQueue = Tasks /\ recycleSet = {} /\ connecting = <<>>
  /\ ioQueue = {} /\ ioSet = {} /\ epoll = {} /\ events = {} /\ taskWillDel = {}
  /\ ioPc = "check" /\ killed = FALSE
  /\ offered = [o \in Orders |-> 0] /\ arrived = [o \in Orders |-> 0]
  /\ gap = FALSE

ClientNext ==
  /\ ~killed
  /\ Io \/ ((Main \/ Recycle \/ Server) /\ UNCHANGED killed)

ClientSpec ==
  /\ ClientInit /\ [][ClientNext]_clientVars
  /\ WF_clientVars(~killed /\ Main /\ UNCHANGED killed)
  /\ WF_clientVars(~killed /\ Recycle /\ UNCHANGED killed)
  /\ WF_clientVars(~killed /\ Io)
-----------------------------------------------------------------------------
\* An order is written again only after a round that sent some orders and not others,
\* and when testSend stops for good every order has been written: although connections
\* come and go between two orders of a round.
OfferedOnceUnlessGap ==
  /\ (\E o \in Orders : offered[o] > 1) => gap
  /\ m_sendflag => \A o \in Orders : offered[o] > 0

\* The io thread waits in recv for a socket that has nothing for it.
StuckInRecv ==
  \E e \in events : /\ ioPc = "handle" /\ e[3] = "in"
                    /\ mSock[e[1]] \notin inbox /\ sockets[mSock[e[1]]] = "open"

\* That happens only to a client that has reconnected: to a task whose old socket,
\* broken, is still registered.
StuckOnlyAfterReconnect ==
  StuckInRecv => \E r \in epoll : sockets[r[2]] = "broken" /\ mSock[r[1]] # r[2]

\* Unless a connection breaks or every attempt to connect failed until the descriptors
\* ran out, every order gets to a server, as often as it was written.
OrdersArrive ==
  <>(\/ Broken # {}
     \/ Len(sockets) = FdLimit /\ \A s \in 1..FdLimit : sockets[s] = "failed"
     \/ [](m_sendflag /\ \A o \in Orders : arrived[o] = offered[o]))
=============================================================================
