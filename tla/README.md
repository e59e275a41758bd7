# Verification of MemorydDeal

MemorydDeal is an order-matching server: clients send orders over TCP, io threads
put them into tables in System V shared memory, match them against the levels of
a limit order book, and keep every message for a message thread. The shared
memory outlives the server, and the library that defines it (`libmemmory.so`,
`src/mem`) is used by other processes, too.

This directory holds TLA+ models of that program, TLC configurations that check
them on small instances, and theorems proved with TLAPS. Everything is translated
from the source; where a comment says something else, a run shows the difference
(see *Disagreements*).

`tlc -config X.cfg M` checks a run, `tlapm M.tla` a proof module. `PROJECT.json`
lists runs, the lines each definition stands for, the mutations every property
detects, the hazards, and the theorems.

## The system

Threads of the server (`server.cpp`, `MyServer`):

- the **main thread** runs `MyBaseServer::mainLoop`: it accepts a connection,
  makes a task of it, registers it with `MySockTaskManager`, and gives it to an io
  thread through `MySockTaskPool::addTask`, starting the thread if it is the first
  time;
- up to four **io threads** (`MyIoThread::run`), each with a queue of new tasks and
  a set of tasks it watches with epoll. A readable task reads its socket into
  `RecvBuffer`, and `MySockTask::getMsg` handles every complete packet: `PushOrder`,
  `IsHaveOpponent`, then `Order::MakeOrder` or `UpdateBidByOrder` /
  `UpdateOfferByOrder`, then `pushMsg` into the task's message queue;
- the **message thread** (`MyServerMsgProcess`) visits all registered tasks every two
  seconds and takes the messages out of their queues;
- a **recycle thread**, meant to unregister and delete closed tasks. It is created
  and never started.

The **client** (`src/client`) is a load generator: its main thread writes all orders of a
file to the first connected server, a recycle thread connects and reconnects, one
io thread receives and sends. Other processes (`src/mem`) attach to the segment and
keep the rest of the market in it: stocks, withdrawals, trades, rankings.

| component | state | operations | modelled in |
|---|---|---|---|
| price levels, `mem/model/price.c` | arrays of bid and offer levels, list ends and counts per stock, `nextBid`, `nextOffer` | `UpdateBidByOrder`, `UpdateOfferByOrder` and the insertions, `NextBid`/`NextOffer`; `UpdateBidByWithdraw` | `PriceBook`, `Withdrawals` |
| matching, `MatchingOrder.cpp`, `base/MySockTask.cpp` | the order in hand, the book | `getMsg`, `IsHaveOpponent`, `MakeOrder`, `AddBidNodeByOrder` | `Matching` |
| order table, `mem/model/order.c` | `nextOrder`, the entries; sums per stock and restriction | `PushOrder`, `GetOrder`; `AttachOrder`, `DetachOrder`, `StockStatAdd` and its kin | `OrderTable`, `Withdrawals` |
| message queue, `base/mq.h`, `base/MyQueue.h` | a ring with a flag per slot, `cacheQueue` | `pushMsg`, `processCache`, `getMsg`, `pop` | `MessageQueue` |
| stock lock, `mem/model/stock.c` | `lockFLag[2]`, `turn` in shared memory | `StockLock`, `StockUnlock` | `StockLock` |
| connections and threads, `base/MySockTaskPool.cpp`, `base/MyThread.*`, `base/MySockTaskManager.cpp`, `MyServer.cpp`, `MyBaseServer.cpp` | the tasks of each thread, the manager's map, thread states | `newTask`, `addTask`, `start`, `run`, `doProcessMsg`, `fini` | `SockTaskPool` |
| socket framing, `base/MySocket.*` | receive and send buffers | `rcvBuffer`, `readBuffer`, `sendDataWithBuffer`, `syncSendBuf` | `Framing` |
| client, `client/` | connected tasks, queues, epoll, `m_sendflag` | `testSend`, `conn`, `run` of two threads | `ClientPool` |
| shared memory, `mem/memory.c` | the segment of the key, offsets of all tables in its header | `InitShareMemory`, `EvaluateMemAllocationStats`, `ReleaseShareMemory` | `ShareMemory` |
| stock table, categories, rankings of stocks: `stock.c`, `category.c`, `sort.c` | sorted stocks, lists of positions | `AddStock`, `GetStockByIsinCod`, `AddCategoryStock`, `GetShareOrderBuyRanking` and three more | `StockTable` |
| trades and their sets: `trade.c`, `set_map.c` | trades, chains of pieces | `AddTrade`, `AddSetMap`, `GetNextSetMap` | `TradeSets` |
| withdrawals, `withdraw.c` | withdrawals and their ranking | `AddWithdraw`, `CancelOrder`, `DeleteOrder`, `ModifyOrder` | `Withdrawals` |
| members (PBUs), `stock_pbu.c` | sums and ranking of members per stock | `PBUOrderStatAdd`, `PBUOrderStatDel`, `UpdatePBUOrderSortList`, `PBUStatusChange`, `ResortPBUSortList` | `PbuTable` |
| industries, index and market data, utilities, tools | | | not modelled, see the end |

What is hard here: io threads share the order table and the book without a lock;
the message queue is lock-free on plain `bool`s; the stock lock is a spin lock
between processes that may die, with a forced unlock; thread starts, stops and
queues hand tasks from thread to thread; slots, tables and descriptors run out;
packets are cut and sends interrupted; connections break and come back while
orders are being sent; processes map a segment that others build, clear or
release; the level lists, sums and rankings depend on every insertion, trade,
withdrawal and phase change before. `PROJECT.json` lists these
hazards line by line with the properties that cover them.

## The modules

**`PriceBook`** - one io thread puts orders into the two sides of the book. A side is
the array `level[side]` (`BID_CS`, `OFFER_CS`: `price`, `orderAmount`,
`orderNumber`, `prev`, `next`, `firstOrder`, `lastOrder`) and per stock
`list[side][s]` (`highestBid`/`lowestBid`/`bidNumber`, or the same of the offers).
The walk of `UpdateBidByOrder` is one action per level looked at (`WalkOn`), the
search of `NextBid` one per slot (`SkipUsed`), so that their loops can fail to
end; the decision `UpdateNode` joins a level, inserts before one or appends.
When no slot is free the code sleeps for ever inside `NextBid`: `pc = "stuck"`.
`owner` is a history variable, not in the code: the stock a level was inserted
for. The orders of a level are linked by their `orderProcessNo`, as if it were their
place in the table: `firstOrder`, `lastOrder` and `nextPrice` name an order by it
(`price.c:784-791`, `price.c:893-913`). Nothing makes it so: `PushOrder` copies what the
caller's order carries (`order.c:138`), and the repository's client leaves it 0
(`MyClientTaskManager.cpp:102-117`). So the number is an input, from
`Numbers[n]` for the order that gets index `n`, and `misnumbered` (history) says that
some order carried another number than its index.
Unlike the code, the walk treats both sides with one definition; `Ahead`
says in which direction prices get worse, and `NewLevel` keeps the one real
difference, the commented-out counting of offers.

**`LimitOrderBook`** - the abstract book: per side, stock and price the numbers of the first
and the last order, and the queue of all of them until an order comes with another number
than that of its arrival; then the queues are lost. An order arrives, and is appended
before the next one arrives. `MCPriceBook` maps the code's lists to it by following
them from the best level. There each order carries its index or the 0 the
client sends, and the last one its index.

**`Matching`** extends `PriceBook` with the rest of `getMsg`: `IsHaveOpponent` as a walk
of its own, `MakeOrder` for sells, including its loop condition `bidIndex > 0`, its
strict comparison, and `AddBidNodeByOrder`, which puts a sell among the bids.
`misplaced` (history) says that this has happened, `traded` that the last order
traded. An index outside the array, which the code would dereference, leads to
`pc = "crashed"`. An order of neither side, which is pushed and changes no level, and the
failures of `PushOrder`, which `getMsg` ignores, are left out. `MCMatching` gives every
order the number 0, as the client does: matching reads levels and no queue.

**`OrderTable`** - `PushOrder` by several threads, cut at each access to `nextOrder` and
between the two groups of fields it writes. `overlapping` (history) holds the pushes that
were under way together with another one.

**`MessageQueue`** - io thread and message thread on one queue, one action per read of
a flag, write of a slot, and write of a flag. **`MessageChannel`** is what it
promises: a bounded buffer with an overflow that is moved in order.

**`StockLock`** - the two processes of the lock, one action per read or write. With
`buffered = TRUE` each process has a store buffer of `BufferSize` entries, as on
x86; the choice is made in `Init`. `Die` and `Restart` keep flags and turn.

**`SockTaskPool`** - the main thread, the io threads and the message thread around the
tasks. The main thread's program counter `mpc` follows `mainLoop`, `newTask`,
`addTask`, `start` and `fini`; an io thread's `tpc[t]` follows `threadFun` and `run`.
`queue`, `adding`, `taskSet`, `taskWillDel` are the four containers a task goes
through; the manager's lock is a flag held over a whole round of `doProcessMsg`.
`startLock` and `queueLock` model the two mutexes where another thread can meet
them; critical sections of a single step take no lock of their own. `crowded`
(history) says that `addTask` has counted a thread without the tasks in its queue.
Ctrl-C's handler calls the non-virtual `MyBaseServer::fini`, so it only ends the
main loop, and `MyServer::fini` runs in the main thread afterwards; joining a
thread that was never started (the recycle thread always) is `pthread_join(0)`,
taken as the end of the process.

**`Framing`** - both directions of one connection: per end a `SendBuffer`, a blocking
`send`, the kernel's buffer and a `RecvBuffer`. A byte is its packet's number and its place in
it, so a reception can cut a packet anywhere, also inside its length field; when the
four bytes at `readPos` are no length field, the length read is any of `JunkLengths`.
`WritePos` is derived, `recvSize` and `sendSize` are `mBuffer.size()`, and a buffer
grows exactly as the code computes it. `SendInterrupted` is the server's alarm in a
blocked `send`: the loop of `syncSendBuf` goes on with the rest of the length and the
start of the message. `BadPacket` is a reception that breaks the packet limit: the server
gives the task up; the client's `getMsg` hands `pushMsg` a length of -1, `std::string(msg, -1)`
throws, and nothing catches it (`MyQueue.h:14`), so its process ends
(`pc["client"] = "thrown"`). Histories: `sent`, `delivered`, `cut`. **`PacketStream`** is
what a connection promises: packets arrive whole, once and in order, until it is
garbled; `MCFraming` shows that `Framing` implements it.

**`ClientPool`** - the client's three threads over tasks, sockets and epoll. `TestSend` is
one turn of the loop of `testSend` and `EndTestSend` its end; connections may come and
go in between. `Conn` and `SetSocket` are the two halves of a successful `conn`, as
another thread sees the task connected before it has the socket. Sockets are
numbered and never closed, as in the code; `epoll` holds pairs of task and socket,
because a reconnected task stays registered with its old socket. A `send` to a broken
connection may be killed by SIGPIPE, fail, or report the reset, and then the task is
given back to be deleted. Servers answer
(`Reply`) and break connections (`Break`), `MaxBreaks` of them. Histories: `offered`,
`arrived`, `gap`.

**`ShareMemory`** - processes that start with a configuration or none and lay out,
create, find, clear, describe, attach to, leave and release the segment.
`PlaceTable` is one table of `EvaluateMemAllocationStats`: it counts in elements of
the table's own size, rounds up by one, and leaves one entry to spare. A smaller
segment makes `shmget` fail; a larger one is taken. The header has two parts, the entries
and the offsets, which `InitMemoryData` clears and then copies (`memory.c:634-635`);
`ClearPart` and `WritePart` do one of them at a time, in either order, and a process may
attach or die in between. A process without a configuration that gets a segment dies of the
null pointer it prints from (`memory.c:112`, `memory.c:170`; `StartBare`). Histories:
`crossed`, the processes that were in `InitMemoryData` of a segment with another one, and
`torn`, the segments whose header may be left half written.

**`StockTable`** - the sorted table of stocks, the categories' lists of positions, and the
rankings of a category's stocks. One field `amount` stands for the four fields that
are ranked, as the four functions are one algorithm. `moved` (history) says that a
stock of a category has changed its place or its category.

**`TradeSets`** extends it with trades, whose stock is looked up by code, and the sets they
are listed in. The segment starts as zeros: the only call of `InitSetMap`, which would mark
every set as empty, is commented out (`memory.c:102-103`). So every set has piece 0 for its
first and last one, all sets fill it together, and the first piece handed out is piece
0 again; only behind it is a set alone. `NewPiece` keeps the test that is off by one, and
`NoPiece` the null pointer it leads to. `kept` (history) lists what a set got behind
piece 0. A trade gets the stock of its order, or of its code when it has none.

**`PbuTable`** - the table of the members as a value, and each function of `stock_pbu.c` as
an operator on it: what an order adds and takes, what a phase change does, and the
ranking by binary insertion. **`Withdrawals`** extends `PriceBook` and `PbuTable`: an order
walks through `PriceBook`'s steps, and its last one (`Attached`) keeps the sums of
stock, level and member; `CancelOrder`, `DeleteOrder` and `ModifyOrder` change or
remove it; `StatusChange` is a new phase. The commented-out parts of
`UpdateBidByWithdraw` are left out as in the code, so an order stays linked to its
level. A withdrawal names its order by the place in the table, whatever number the order
carries, so `MCWithdrawals` gives every order its index. Eight histories say what has
happened: see the properties.

## The runs

| run | asks | instance | states |
|---|---|---|---|
| `price_book` | Do the lists stay linked, counted, and the levels and queues of an abstract book, and do walks end? | 2 stocks, prices 1..3, 3 slots a side, 4 orders, each with its index for a number or 0 | 224 256 |
| `matching` | What does trading keep, who trades first, is every order dealt with? | 1 stock, prices 1..3, quantities 1 and 2, counted and uncounted phases, 3 slots, 4 orders, all with number 0 | 235 224 |
| `message_queue` | Is the lock-free queue a channel with an overflow? | ring of 3, 7 messages | 2 745 |
| `order_table` | What is left of the table when pushes race? | 2 threads, 3 entries, 5 pushes | 691 826 |
| `stock_lock` | What exclusion and progress does the lock give? | 1 round before force, buffer of 2, both memories | 46 704 |
| `sock_task_pool` | Is a connection ever lost, shared, used after deletion; is every one served; does the server end? | 2 threads of 1 connection, 2 connections | 104 472 |
| `framing` | Is a connection a stream of packets, and when can it hang? | packets of 3 bytes, buffers growing by 4, kernel of 5, receptions of up to 4, 4 orders, 1 alarm | 241 892 |
| `client_pool` | When is an order sent twice, or never; when does the io thread hang? | 2 servers, 2 orders, 2 descriptors, 1 break | 560 228 |
| `share_memory` | Can two tables overlap or leave the segment, whoever died where? | 2 processes, 2 configurations of 3 tables, 3 ids of segments | 445 765 |
| `share_tables` | Are codes found, rankings right, and what is left of the sets without `InitSetMap`? | 3 codes, 3 stocks, 2 categories, rankings of 2; 2 sets, 3 pieces of 2; 8 trades or 3 entries | 549 469 |
| `order_life` | Do lists, sums and rankings survive withdrawals and phases? | 6 kinds of orders, 4 members, 3 slots, 4 phases; 2 orders with 2 withdrawals and a phase, 3 with 1 and 1, 4 with a phase | 1 017 404 |
| `matching_lost` | Is every sell without a trade queued? (expected to fail) | as `matching` | |

The bounds. Three slots and four orders exhaust the array (a stuck `NextBid`), give
lists with a front, a middle and an end, let two stocks interleave, and three
prices are what an insertion between two levels needs. Quantities 1 and 2 give
partial and full trades. A ring of three with seven messages fills, spills, moves
back from the cache, and wraps twice. Three entries and five pushes reach the end of
the table from both threads, with an undisturbed push before and after two that collide.
Two io threads of one connection each with two
connections reach a full pool, a refused connection, a thread that is counted
while its queue is full, and a connection that breaks at any stage. One round
before the forced unlock instead of 200 makes the race reachable in few steps; the
proof covers every number.

In `framing` every packet can be cut at each of its bytes, two packets do not fit the
kernel, both buffers have to grow and to move, and four orders are one more than
both kernels hold, which is when the ends can block each other. In `client_pool` two
descriptors allow one reconnection or a failed attempt and the last descriptor; two
orders are what a round needs to send one and not the other. The sizes 3, 2 and 5 of
`share_memory` do not divide each other, and each configuration is the larger one in
some table. Three codes and places fill the stock table in all orders, with equal
codes; eight trades fill the shared piece 0, hand it out again, give a set two pieces of
its own or each set one, and end behind the last one. In
`order_life` three slots and two prices give freed levels at both ends and alone; four
members in one ranking reach every branch of the binary insertion.

Properties beyond types:

- `LevelsLinked`, `LevelsCounted`, `ImplementsBook`, `WalkEnds` - the lists are doubly
  linked, strictly sorted, disjoint, reachable and counted; each level names the first and the
  last number that came to its price, and while numbers are indices lists exactly
  the orders that came; and no walk runs in a circle.
- `OnlySellsMatched` - no buy ever gets into `MakeOrder`. `LinkedUntilMisplaced`,
  `BestBidFirst`, `ServedUntilMisplaced` - as long as `AddBidNodeByOrder` has not put a
  sell among the bids, trading leaves the lists alone, better bids go first, and no
  loop runs for ever. After that none of the three holds, which is why they say so.
- `HandedOver`, `BuffersOwned`, `OvertakesOnlyCached`, `ImplementsChannel`, `RingDelivered` -
  no slot has two users, no buffer two owners or none; only messages that waited in
  the cache are overtaken; what is in the ring gets delivered.
- `AloneKept`, `SerialTable` - an order pushed while no other push was under way stays whole
  where its caller was told it is, whatever collided before and however a later collision
  loses or sets back `nextOrder`; without overlap the table is exact. Neither promises
  anything to the pushes that collide: they may be told the same entry.
- `ExclusionUntilForced`, `LockGranted` - under sequentially consistent memory two
  processes are inside only after a forced unlock; a waiter always gets in, under
  either memory. With store buffers two processes can be inside without any force,
  because the code has no fence; neither property says anything against that.
- `TasksAlive`, `OnePlace`, `LimitUntilCrowded`, `ConnectionServed`, `FiniEnds` - no thread
  reaches a deleted task; a task is in exactly one hand; the limit of a thread holds
  until a stale count breaks it; an accepted connection is watched or refused; and
  Ctrl-C ends the threads.
- `BuffersInside`, `ImplementsStream`, `HangNeedsBacklog`, `Delivered` - no byte is written
  or sent outside its buffer; packets arrive whole, once and in order until a send is
  interrupted; the two ends block each other only with more orders under way than
  both kernels hold; everything else arrives.
- `OfferedOnceUnlessGap`, `StuckOnlyAfterReconnect`, `OrdersArrive` - an order is written
  again only after a round with a gap, and none is left out; the io thread hangs in
  `recv` only over the old socket of a reconnected task; orders arrive as often as
  they were written unless a connection breaks or the descriptors run out in failed
  attempts.
- `TablesApart` - through the header a process works by, one of zeros included, the tables
  lie apart, behind the header and inside the segment; unless a process is between the two
  parts of that header, or died there or two were in it at once and none has been through
  it alone since.
- `FoundByCode`, `RankedUntilMoved`, `OwnPiecesWhole` - the binary search finds what was added;
  a ranking has the biggest amounts in order until a stock is moved under it; what a set
  lists behind piece 0 keeps its trades and leads from one to the next over all its pieces,
  whatever the other sets do, and the last leads nowhere but past the end of the pieces.
- `LinkedUntilStale`, `SumsKept`, `PbuRanked` - freeing levels keeps the lists until an order
  whose level was freed is withdrawn; each sum is that of the orders in the book,
  until the step that spoils it (an iceberg order changed, the phase changed under
  orders, a phase mistaken, an order changed after its removal); after a phase change
  each member is in the ranking once, in order, and knows its place.

The words *until* and *unless* in these properties are findings of their own: without
them TLC shows the counterexample, and each names the step that leads to it.

Deadlock is checked for the lock, whose processes can always go on. The other
systems may really stop: a full array ends the io thread, `pthread_join(0)` the
process, SIGPIPE the client, and the bounded numbers of orders, messages and
connections the input.

## Disagreements

One run is expected to fail, with a property that a comment states:

- `matching_lost`: a sell that cannot be matched is to be queued; one at an equal
  price, or meeting a best bid in slot 0, is neither traded nor queued
  (`MatchingOrder.cpp:69`).

Others are built into the models and into the conditions of their properties:

- a waiter is said to wait until the other process takes its flag down; after 200
  rounds it takes the flag down itself (`stock.c:981`; `ExclusionUntilForced`);
- `PushOrder` returns "the position of the new order"; two threads may be told the same
  one (`order.c:118`; `SerialTable` and `AloneKept` except overlapping pushes);
- an `orderProcessNo` that is not at the queue's tail is an error, says the comment at
  `order.c:128`; the code only refuses negative ones, so that with the client's
  zeros every queue is entry 0 leading to itself (`misnumbered`);
- `IsHaveOpponent` says whether an order crosses the book; for buys it always says no
  (`price.c:533`; `OnlySellsMatched`);
- a connection that breaks the packet limit is to be disconnected (`MySocket.h:64`);
  the server's task waits for a thread that nobody starts (`MySockTaskPool.cpp:266`),
  and the client, whose `getMsg` goes on with a length of -1 (`MySockClientTask.cpp:13`),
  ends by an exception (`MyQueue.h:14`; `BadPacket`);
- `PBUStatusChange` asks, under a comment about the phase before the change, for three
  balance phases in the new phase (`stock_pbu.c:1469-1470`; `skewed`);
- `AddSetMap` tests `nextSet > setMax` where the last piece is `setMax - 1`
  (`set_map.c:278`, `set_map.c:314`; `OwnPiecesWhole`);
- a set without a trade has no piece, as `InitSetMap` would have it; its call is commented
  out (`memory.c:102-103`), and all sets share piece 0 (`TradeInit`);
- `UpdateBidByWithdraw` says it takes an order that is used up out of its level's queue;
  that code is commented out (`price.c:364-386`; `stale`);
- the withdrawals' rankings were to start with -1, as the commented-out loop in
  `memory.c:625` says; they start as zeros, which stand for withdrawal 0.

## Fairness

- `PriceBook`, `Matching`: weak fairness of the io thread's work on the order in hand;
  a running thread takes its next step. New orders are not owed.
- `MessageQueue`: weak fairness of the io thread inside a push and of the message
  thread, which runs in a loop for ever.
- `StockLock`: weak fairness of each live process inside `StockLock` and of its store
  buffer, which hardware drains. None for `StockUnlock`, `Die` or `Restart`.
- `SockTaskPool`: weak fairness of the main thread, of each io thread and of the
  message thread; strong fairness of the main thread's two uses of the manager's
  lock, because the message thread sleeps two seconds between its rounds and holds
  the lock for a fraction of them. One round of epoll events is one step, which
  assumes that handling an event ends: the peer reads what `syncSendBuf` sends, and
  no walk gets stuck at an exhausted array. Peers and Ctrl-C owe nothing.

- `Framing`: weak fairness of each io thread, which runs in a loop; an alarm, an order or
  an answer is never owed.
- `ClientPool`: weak fairness of the main thread, the recycle thread and the io thread, as
  long as the process lives: each is a loop without a condition. Servers owe nothing.
- `StockTable`, `TradeSets`, `ShareMemory`, `Withdrawals`: safety only, as nothing is owed.

The Makefile builds without optimisation, so a plain `bool` that another thread sets
is read again in each round of a loop; `IsFiniOnce`, the mutant that reads it once,
shows what `FiniEnds` would lose.

## What is proved

Theorems hold for every value of the constants (sizes, numbers of threads, stocks,
prices), without fairness, from the named assumptions of the modules.

- `StockLockProofs`: `TypeCorrect`, `ExclusionHolds`. Exclusion is not inductive;
  the strengthening `AskedLast` says that when one process is inside with its flag
  up and the other waits with its own up, the other asked last, so its test of
  `turn` keeps it waiting.
- `BookProofs`, for `PriceBook` and what extends it:
  - `TypeCorrect`, `ListsStayLinked`. `LevelsLinked` is local (each level agrees with its
    neighbours), so that an insertion can be checked at the two neighbours; the
    strengthening says where the walk stands: the levels before the current one are
    better than the order.
  - `EveryLevelCounted`: the levels that can be reached from the best one are the slots
    the stock owns. A best-priced slot that is owned and not reached would have a
    better predecessor, which is reached; `Counted` keeps their number.
  - `QueuesImplemented`: the lists implement `LimitOrderBook`. That the prices of linked
    levels differ makes it one level for each price, whose ends are the first and the
    last number that came there (`EndsOfLevel`, `JoinMovesEnd`), whatever the
    numbers. For the queues the strengthening `QueueInv` says that, as long as nothing
    is `misnumbered`, each level has a chain of orders from its first to its last, and no
    two chains the same last order, so that an order appended to one leaves the others
    alone. `NumberAssumption` asks only that the numbers are some of the table's indices.
  - `MatchTypesHold` (even after a misplaced sell no link leaves the arrays),
    `OnlySellsReachMatch` (offer levels keep `orderNumber` 0), `TradesKeepLists`.
  - `BestBidServedFirst`: until a sell is put among the bids, `MakeOrder` trades at the best
    bid or no more; it goes on after a trade only for an order that wants nothing more
    (`FrontInv`).
  - `FreeingKeepsLists`: the lists are linked, or an order whose level was freed before
    has been withdrawn (`stale \/ LifeInv`). Freeing is checked at the two neighbours
    of the level, as an insertion is (`UnlinkKeepsLists`).
- `ConnectionProofs`, for `MessageQueue` and `ClientPool`:
  - `TypeCorrect`, `SlotsHandedOver` (what each thread saw of a flag stays true until it
    acts, since only it may change the flag back), `OneOwner`.
  - `QueueIsChannel`, `OvertakingBounded`. The slots with their flag up follow each other
    from the read to the write position (`RingWhole`), so flags and positions map to the
    buffer of `MessageChannel`, and each step to one of its steps or none. On the channel,
    what was received and what waits in the ring are one line, in the order of sending
    but for what went through the overflow (`InOrder`).
  - `WrittenOnceUnlessGap` (every round but one that left a gap began with all orders
    unwritten: `SendInv`) and `StuckNeedsStale` (either a broken socket is still registered
    for a task that has another by now, `Stale`, or every registered socket is its task's
    own and an event means that there is something to read, `Fresh`).
- `TablesProofs`, for `OrderTable`, `StockTable` and `TradeSets`:
  - `TypeCorrect`, `SerialPushesKeepTable` (while pushes are serial, one thread is busy and
    its index is `nextOrder`).
  - `AlonePushesKept`: a collision can set `nextOrder` back, but only to one more than
    what a thread under way had read, and whoever is under way began behind every entry
    an undisturbed push was told (`AloneInv`).
  - `CodesFound`: the table stays sorted by code, and each round of the search keeps a
    present code between its bounds. That the recursive function the search is written
    as exists at all, which its definition by `CHOOSE` does not say, is shown by a
    least counterexample over the width of the interval, with no induction principle.
  - `OwnPiecesStayWhole`: `SetInv` says that the pieces a set has behind piece 0 are its alone,
    that each of its entries there is numbered one more than the one before, so that
    the number tells where in its piece it stands (`Numbers`), and that its last entry
    is the last member of its last piece (`LastPieces`). From this every entry leads to
    the next one (`EntriesLead`). A trade that met the end of the pieces is the one
    exception, after which `AddSetMap` finds no piece to go on from.
  - `RankingsRight`. Until a new stock moves one of a category or one enters a second
    category, the list of each category leads from its first stock through all that
    entered it, and no stock is in two places (`JoinedWhole`), so the loop of a ranking
    visits them all in order (`AllVisited`). The list it builds always holds the positions of the best stocks
    visited, or of all of them while there is room (`Best`); one more stock keeps it so
    whether it goes in (`BestWithNew`) or is left out (`BestWithout`). A stock's place in
    such a list is one more than the number of those that rank before it
    (`BestAreRanked`), which is what `RankedUntilMoved` asks. `MarketAssumption`, that
    amounts are integers, is all it takes of them.
- `SockTaskPoolProofs`: `TypeCorrect`, `NoneReachesDeleted`, `EachInOnePlace`, `LimitHolds`.
  `PlaceInv` adds that the task in the main thread's hand is the newest and in no
  container (`Fresh`), that the message thread visits only registered tasks and only
  under the lock (`Visits`), and when an io thread's temporary containers are empty
  (`Rounds`); `Room` adds that a chosen thread has room and one being started none
  of the tasks yet.
- `ShareMemoryProofs`: `TablesStayApart`, for any number of processes, configurations
  and tables of any sizes. The inductive invariant `MemoryInv` says that the tables placed so
  far lie apart behind the header and end where the next one may begin, that a layout
  waiting to be written fits the segment it will be written into, how far a process that
  is alone in a segment has cleared or copied its header, and that every other header that
  is not torn is zeros, in which no table has an entry, or such a layout.
  The arithmetic is one lemma: rounding
  the used bytes up to an element of the next table leaves them in front of it.
- `FramingProofs`: `BuffersNeverOverrun`. The move of the kept bytes to the front and the
  growth by a length computed before it are one step, and `ChunkFits` (rounding up
  to whole chunks) makes the room enough. The strengthening `NothingTaken` says that
  outside `send` no part of a message is taken, so that a new message is not sent
  from past its end; that a complete packet lies within what was received
  (`CompleteInside`) lets `readPos` never pass `writePos`, also for a length that is junk.
  `StreamImplemented` and `HangsNeedBacklog`: until an alarm has garbled a direction, its
  bytes received, held by the kernel and still to be sent are, one after the other,
  those of the packets sent and not delivered (`StreamInv`).
- `WithdrawalsProofs`, for `Withdrawals` and `PbuTable`:
  - `SumsHold`. The community modules sum over a set by taking out one chosen element after
    another; that this adds up, whatever is chosen, is shown first (a smallest subset
    for which it did not would have a smaller one: `SmallestSubset`). The invariant
    `StatInv` says what `SumsKept` says in terms of one sum (`VolumeOf`) over the kinds
    of the orders in the book, with the rows of the order table beside it; each
    function of `order.c` and `stock_pbu.c` is a lemma on how it moves these sums
    (`StockEnters`, `MemberDels`, `RequantifiedKeeps`), and each action follows from them.
    A phase change only has to show that the sums of a phase's restrictions, which the
    code adds up anew, are those of the orders that count in it (`CountedVolume`).
  - `MembersRanked`. In a falling list the search of `InsertFirm`, which compares with the
    ends first, ends between a bigger amount and one that is no bigger (`SearchFinds`:
    a shortest interval where it did not would have a shorter one), so putting the
    member there keeps the list falling and without repetition (`InsertKeepsOrder`);
    `ResortPBUSortList` does so for one member after another, in an order nothing
    fixes (`ResortedInOrder`).

Model-checked only: every liveness property (`WalkEnds`, `ServedUntilMisplaced`,
`RingDelivered`, `LockGranted`, `ConnectionServed`, `FiniEnds`, `Delivered`,
`OrdersArrive`), which is out of the prover's reach. Every other property of the passing
runs is stated by a theorem.

No theorem uses induction over data, which the provers cannot instantiate. Where a fold, a
sum or a recursive search of any length had to be reasoned about, the proof takes a
smallest set, number or interval for which the claim fails, and shows a smaller one.

## Not modelled

- An order of neither side, the failures of `PushOrder` in `getMsg`, an `orderProcessNo` that is
  no index of the table (behind its end the process ends, `price.c:789`; a negative one is
  refused).
- `GetSetMap` and `InitSetMap`, whose results rest on sets that begin empty; a trade whose
  order or code is in no table is written and not counted, so it changes nothing.
- `UpdateOfferByWithdraw`, the offers' statistics, `IsPriceAcross`, `MakeOrder`'s branch for
  buys: nothing calls them, or only what `OnlySellsReachMatch` proves unreachable.
- Two io threads in the book at once. The book has no lock, so two walks may link
  levels against each other at any point; `OrderTable` has the same race where it
  bites first.
- `industry.c`, `stock_index.c`, `inside_market.c`, `global_data.c`: fields copied into
  tables, and sorted lists that are only printed.
- `AddFirm` and the end of the members' data: the firms are taken as loaded. Money
  and the counts of withdrawn orders, which go with the amounts.
- Integers are mathematical: amounts past 2^31 take orders no client here sends.
- `mem/util`, `mem/env` (logging, time, strings, files, configuration), the printing that
  is a third of `mem/model`, the XML reader, and the tools: they read the state and
  write text.

What would come next: the narrow integers of a trade's quantity, and industries in
`StockTable`.
