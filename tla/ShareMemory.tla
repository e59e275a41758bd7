------------------------------ MODULE ShareMemory ------------------------------
(***************************************************************************)
(* The shared memory segment and the place of every table in it            *)
(* (memory.c).  A process that starts with a configuration lays the tables *)
(* out one behind the other, creates or finds the segment of the key, and  *)
(* clears and writes its header; one that cannot attaches to the segment   *)
(* that is there and takes its header as it is.  Every access to a table   *)
(* goes through that header: table t begins at layout[t] elements of its   *)
(* own size and has config[t] entries.                                     *)
(*                                                                         *)
(* The header's two parts, shareConfig and shareAllocation, are cleared    *)
(* and copied one after the other, in an order the C library is free to    *)
(* choose.  No lock keeps two processes from doing so at once, and either  *)
(* may die between any two steps.                                          *)
(***************************************************************************)
EXTENDS Integers

CONSTANTS
  Procs,      \* the processes that use the segment
  Configs,    \* the configurations a process may be started with
  Tables,     \* how many tables there are
  HeaderSize, \* sizeof(MEM_STATS)
  Size,       \* Size[t]: bytes of one entry of table t
  Max,        \* Max[c][t]: entries of table t in configuration c
  Segments    \* ids of segments the system gives out: the bound of the model

Table == 1..Tables

ASSUME TablesAssumption == Tables \in Nat /\ HeaderSize \in Nat
ASSUME ConfigsAssumption == Configs # {}
ASSUME SizeAssumption == Size \in [Table -> Nat \ {0}]
ASSUME MaxAssumption == Max \in [Configs -> [Table -> Nat]]
ASSUME SegmentsAssumption == Segments \in Nat

Segment == 0..(Segments - 1)
NoSegment == -1
Part == {"config", "layout"}

VARIABLES
  pc,       \* where each process is in InitShareMemory
  config,   \* config[p]: its memConfig
  at,       \* at[p]: the table EvaluateMemAllocationStats places next
  offset,   \* offset[p]: the offsets it has computed
  size,     \* size[p]: the bytes used so far
  mapped,   \* mapped[p]: _shareMemoryAddress
  named,    \* the segment the key stands for
  created,  \* ids of segments given out so far
  bytes,    \* bytes[s]: how large segment s was made
  header,   \* header[s]: its MEM_STATS, the entries and the offset of every table
  todo,     \* todo[p]: the parts of the header bzero or memcpy has still to reach
  (* Histories. *)
  crossed,  \* processes that were in InitMemoryData of a segment with another one
  torn      \* segments two were in at once, or one died in with half a header

local == <<config, at, offset, size>>
segments == <<named, created, bytes>>
writing == <<header, todo, crossed, torn>>
vars == <<pc, local, mapped, segments, writing>>

Goto(p, l) == pc' = [pc EXCEPT ![p] = l]

AnyConfig == CHOOSE c \in Configs : TRUE
Zeros == [t \in Table |-> 0]
Blank == [part \in Part |-> Zeros]

\* The processes in InitMemoryData of segment s.
Inside(s) == {q \in Procs : pc[q] \in {"clear", "write"} /\ mapped[q] = s}

\* A process calls InitShareMemory with a configuration.
Start(p, c) ==
  /\ pc[p] = "off"
  /\ Goto(p, "place")
  /\ config' = [config EXCEPT ![p] = c]
  /\ at' = [at EXCEPT ![p] = 1]
  /\ size' = [size EXCEPT ![p] = HeaderSize]
  /\ UNCHANGED <<offset, mapped, segments, writing>>

\* Or without one, which no program here does: it attaches if it can, and dies of the
\* configuration it has not got when it is to print the sizes.
StartBare(p) ==
  /\ pc[p] = "off"
  /\ Goto(p, "failed") \/ (named # NoSegment /\ Goto(p, "crashed"))
  /\ UNCHANGED <<local, mapped, segments, writing>>

\* Mutant of PlaceTable: the table starts at the element the used bytes end in.
PlaceTableInside(p) ==
  LET t == at[p] IN
  /\ pc[p] = "place" /\ t <= Tables
  /\ offset' = [offset EXCEPT ![p][t] = size[p] \div Size[t]]
  /\ size' = [size EXCEPT ![p] = @ + Size[t] * (Max[config[p]][t] + 1)]
  /\ at' = [at EXCEPT ![p] = t + 1]
  /\ UNCHANGED <<pc, config, mapped, segments, writing>>

\* EvaluateMemAllocationStats, for one table: its first element is the one after the
\* element in which the bytes used so far end, and it gets one entry to spare.
PlaceTable(p) ==
  LET t == at[p] IN
  /\ pc[p] = "place" /\ t <= Tables
  /\ offset' = [offset EXCEPT ![p][t] = (size[p] \div Size[t]) + 1]
  /\ size' = [size EXCEPT ![p] = @ + Size[t] * (Max[config[p]][t] + 1)]
  /\ at' = [at EXCEPT ![p] = t + 1]
  /\ UNCHANGED <<pc, config, mapped, segments, writing>>

Evaluated(p) == pc[p] = "place" /\ at[p] > Tables

\* The process has segment s to initialise, perhaps with others that are at it.
Enter(p, s) ==
  /\ mapped' = [mapped EXCEPT ![p] = s]
  /\ todo' = [todo EXCEPT ![p] = Part]
  /\ Goto(p, "clear")
  /\ IF Inside(s) = {} THEN UNCHANGED <<crossed, torn>>
     ELSE crossed' = crossed \cup {p} \cup Inside(s) /\ torn' = torn \cup {s}
  /\ UNCHANGED header

\* BuildShareMemory: the key has no segment, and shmget makes one of this size.
Create(p) ==
  /\ Evaluated(p)
  /\ named = NoSegment /\ created < Segments
  /\ named' = created
  /\ created' = created + 1
  /\ bytes' = [bytes EXCEPT ![created] = size[p]]
  /\ Enter(p, created)
  /\ UNCHANGED local

\* It has one that is large enough: shmget answers that one.
Find(p) ==
  /\ Evaluated(p)
  /\ named # NoSegment /\ bytes[named] >= size[p]
  /\ Enter(p, named)
  /\ UNCHANGED <<local, segments>>

\* shmget refuses, because the segment is smaller or for want of memory, or shmat does.
BuildFails(p) ==
  /\ Evaluated(p)
  /\ Goto(p, "attach")
  /\ UNCHANGED <<local, mapped, segments, writing>>

\* InitMemoryData: zeros over the whole segment.  When no other process has been at it
\* since they began, the header is clean again, whatever it was.
ClearPart(p) ==
  /\ pc[p] = "clear"
  /\ \E part \in todo[p] :
       /\ header' = [header EXCEPT ![mapped[p]][part] = Zeros]
       /\ IF todo[p] = {part}
          THEN /\ Goto(p, "write")
               /\ todo' = [todo EXCEPT ![p] = Part]
               /\ torn' = IF p \in crossed THEN torn ELSE torn \ {mapped[p]}
          ELSE /\ todo' = [todo EXCEPT ![p] = @ \ {part}]
               /\ UNCHANGED <<pc, torn>>
  /\ UNCHANGED <<local, mapped, segments, crossed>>

\* And then the header: the entries of every table, and their offsets.
WritePart(p) ==
  /\ pc[p] = "write"
  /\ \E part \in todo[p] :
       /\ header' = [header EXCEPT ![mapped[p]][part] =
            IF part = "config" THEN Max[config[p]] ELSE offset[p]]
       /\ IF todo[p] = {part} THEN Goto(p, "ready") ELSE UNCHANGED pc
       /\ todo' = [todo EXCEPT ![p] = @ \ {part}]
  /\ UNCHANGED <<local, mapped, segments, crossed, torn>>

\* The second way of InitShareMemory: the key's segment, whatever it holds.
Attach(p) ==
  /\ pc[p] = "attach"
  /\ named # NoSegment
  /\ mapped' = [mapped EXCEPT ![p] = named]
  /\ Goto(p, "ready")
  /\ UNCHANGED <<local, segments, writing>>

\* There is none, or the system refuses: InitShareMemory returns 0.
AttachFails(p) ==
  /\ pc[p] = "attach"
  /\ Goto(p, "failed")
  /\ UNCHANGED <<local, mapped, segments, writing>>

HalfDone(p) == pc[p] \in {"clear", "write"} /\ todo[p] # Part

\* The process ends or dies, wherever it is, and its memory with it; the segment stays.
Exit(p) ==
  /\ pc[p] # "off"
  /\ Goto(p, "off")
  /\ config' = [config EXCEPT ![p] = AnyConfig]
  /\ at' = [at EXCEPT ![p] = 1]
  /\ offset' = [offset EXCEPT ![p] = Zeros]
  /\ size' = [size EXCEPT ![p] = 0]
  /\ mapped' = [mapped EXCEPT ![p] = NoSegment]
  /\ todo' = [todo EXCEPT ![p] = {}]
  /\ crossed' = crossed \ {p}
  /\ torn' = IF HalfDone(p) THEN torn \cup {mapped[p]} ELSE torn
  /\ UNCHANGED <<segments, header>>

\* ReleaseShareMemory gives the key up, unless its segment's id is 0; the processes
\* that have the segment mapped keep it.
ReleaseShareMemory ==
  /\ named > 0
  /\ named' = NoSegment
  /\ UNCHANGED <<pc, local, mapped, created, bytes, writing>>

\* Other programs may have been given the first ids.
Init ==
  /\ pc = [p \in Procs |-> "off"]
  /\ config = [p \in Procs |-> AnyConfig]
  /\ at = [p \in Procs |-> 1]
  /\ offset = [p \in Procs |-> Zeros]
  /\ size = [p \in Procs |-> 0]
  /\ mapped = [p \in Procs |-> NoSegment]
  /\ named = NoSegment
  /\ created \in 0..Segments
  /\ bytes = [s \in Segment |-> 0]
  /\ header = [s \in Segment |-> Blank]
  /\ todo = [p \in Procs |-> {}]
  /\ crossed = {} /\ torn = {}

Step(p) ==
  \/ \E c \in Configs : Start(p, c)
  \/ StartBare(p)
  \/ PlaceTable(p)
  \/ Create(p) \/ Find(p) \/ BuildFails(p)
  \/ ClearPart(p) \/ WritePart(p)
  \/ Attach(p) \/ AttachFails(p)
  \/ Exit(p)

Next == (\E p \in Procs : Step(p)) \/ ReleaseShareMemory

Spec == Init /\ [][Next]_vars
-----------------------------------------------------------------------------

\* The bytes of table t under a layout, with so many entries.
First(off, t) == off[t] * Size[t]
Behind(max, off, t) == First(off, t) + Size[t] * max[t]

\* The first n tables: those that have entries lie one behind the other, between the header
\* and byte b.
Apart(max, off, n, b) ==
  /\ \A t \in 1..n : max[t] > 0 => HeaderSize <= First(off, t) /\ Behind(max, off, t) <= b
  /\ \A t, u \in 1..n : t < u /\ max[t] > 0 /\ max[u] > 0 => Behind(max, off, t) <= First(off, u)

\* Whatever segment a process ends up with, one it made, one it found larger than it asked
\* for, or one of another configuration it only attached to (memory.c:80-99), and whatever
\* the other processes' starts and deaths have made of its header: every entry that the
\* header says there is lies inside the segment, behind the header and in no other table.
\* The only times this fails are those in which a process has cleared or copied one part of
\* the header and not the other (memory.c:634-635), and, until a process that is alone has
\* cleared the segment again, those after one died there or two were at it at once.
TablesApart ==
  \A p \in Procs :
    LET s == mapped[p]
    IN  \/ pc[p] # "ready" \/ s \in torn \/ (\E q \in Inside(s) : HalfDone(q))
        \/ Apart(header[s]["config"], header[s]["layout"], Tables, bytes[s])
=============================================================================
