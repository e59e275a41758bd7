--------------------------- MODULE ShareMemoryProofs ---------------------------
(***************************************************************************)
(* Theorems about ShareMemory, for any tables, entry sizes, configurations *)
(* and processes.                                                          *)
(***************************************************************************)
EXTENDS ShareMemory, TLAPS

Headers == [Part -> [Table -> Nat]]

States == {"off", "place", "attach", "clear", "write", "ready", "failed", "crashed"}

MemoryTypes ==
  /\ pc \in [Procs -> States]
  /\ config \in [Procs -> Configs]
  /\ at \in [Procs -> 1..(Tables + 1)]
  /\ offset \in [Procs -> [Table -> Nat]]
  /\ size \in [Procs -> Nat]
  /\ mapped \in [Procs -> Segment \cup {NoSegment}]
  /\ named \in Segment \cup {NoSegment}
  /\ created \in 0..Segments
  /\ bytes \in [Segment -> Nat]
  /\ header \in [Segment -> Headers]
  /\ todo \in [Procs -> SUBSET Part]
  /\ crossed \in SUBSET Procs
  /\ torn \in SUBSET Segment

\* How far a process has got: the tables it has placed are apart, and once it has a
\* segment to initialise, all of them are, and inside that segment.
Placed(p) ==
  /\ pc[p] = "place" =>
       HeaderSize <= size[p] /\ Apart(Max[config[p]], offset[p], at[p] - 1, size[p])
  /\ pc[p] \in {"clear", "write"} =>
       todo[p] # {} /\ Apart(Max[config[p]], offset[p], Tables, bytes[mapped[p]])
  /\ pc[p] \in {"clear", "write", "ready"} => mapped[p] \in 0..(created - 1)
  /\ pc[p] \in {"off", "place"} => p \notin crossed

\* What a process writes into a part of the header.
Own(p, part) == IF part = "config" THEN Max[config[p]] ELSE offset[p]

\* The parts of the header a process has got over are as it left them, if it has met no
\* other one there.
AsFarAs(p) ==
  pc[p] \in {"clear", "write"} /\ p \notin crossed =>
    \A part \in Part \ todo[p] :
      header[mapped[p]][part] = IF pc[p] = "clear" THEN Zeros ELSE Own(p, part)

\* Two processes in one segment know of each other, and the segment is torn.
Meet(p, q) ==
  /\ p # q /\ q \in Inside(mapped[p]) /\ p \in Inside(mapped[p]) => p \in crossed
  /\ p \in crossed /\ p \in Inside(mapped[p]) => mapped[p] \in torn

\* What the header of a segment says.
Described(s) ==
  /\ s >= created => header[s] = Blank
  /\ s \in torn \/ (\E q \in Inside(s) : HalfDone(q))
     \/ Apart(header[s]["config"], header[s]["layout"], Tables, bytes[s])

MemoryInv ==
  /\ MemoryTypes
  /\ named < created
  /\ \A p \in Procs : Placed(p) /\ AsFarAs(p)
  /\ \A p, q \in Procs : Meet(p, q)
  /\ \A s \in Segment : Described(s)

\* The element behind the one in which byte n lies starts after n, by at most one element.
LEMMA ElementBehind ==
  ASSUME NEW n \in Nat, NEW s \in Nat \ {0}
  PROVE  /\ (n \div s) + 1 \in Nat
         /\ n < ((n \div s) + 1) * s
         /\ ((n \div s) + 1) * s <= n + s
<1> DEFINE q == n \div s
<1>1. q \in Nat /\ q * s <= n /\ n < q * s + s
  OBVIOUS
<1>2. (q + 1) * s = q * s + s
  BY <1>1
<1>3. QED
  BY <1>1, <1>2

\* A layout inside some bytes is inside more bytes.
LEMMA ApartLarger ==
  ASSUME NEW max \in [Table -> Nat], NEW off \in [Table -> Nat], NEW n \in Nat, n <= Tables,
         NEW b \in Nat, NEW d \in Nat, b <= d, Apart(max, off, n, b)
  PROVE  Apart(max, off, n, d)
<1>1. ASSUME NEW t \in 1..n PROVE Behind(max, off, t) \in Int
  <2>1. t \in Table
    BY TablesAssumption DEF Table
  <2>2. Size[t] \in Nat /\ max[t] \in Nat /\ off[t] \in Nat
    BY <2>1, SizeAssumption
  <2>3. QED
    BY <2>2 DEF Behind, First
<1>2. QED
  BY <1>1 DEF Apart

\* Placing one more table keeps the tables apart, and inside the bytes counted so far.
LEMMA ApartMore ==
  ASSUME NEW max \in [Table -> Nat], NEW off \in [Table -> Nat], NEW n \in Nat, n < Tables,
         NEW b \in Nat, HeaderSize <= b, Apart(max, off, n, b),
         NEW new \in [Table -> Nat], NEW d \in Nat,
         new = [off EXCEPT ![n + 1] = (b \div Size[n + 1]) + 1],
         d = b + Size[n + 1] * (max[n + 1] + 1)
  PROVE  Apart(max, new, n + 1, d)
<1> DEFINE u == n + 1
           s == Size[u]
           m == max[u]
<1>1. u \in Table /\ \A t \in 1..n : t \in Table /\ t # u
  BY TablesAssumption DEF Table
<1>2. s \in Nat \ {0} /\ m \in Nat
  BY <1>1, SizeAssumption
<1>3. First(new, u) = ((b \div s) + 1) * s
  BY <1>1 DEF First
<1>4. b < First(new, u) /\ First(new, u) <= b + s /\ First(new, u) \in Int
  <2> HIDE DEF s
  <2>1. b < ((b \div s) + 1) * s /\ ((b \div s) + 1) * s <= b + s /\ (b \div s) + 1 \in Nat
    BY <1>2, ElementBehind
  <2>2. QED
    BY <1>2, <1>3, <2>1
<1>5. s * (m + 1) = s + s * m /\ s * m \in Nat /\ d = b + s * (m + 1)
  BY <1>2
<1>6. Behind(max, new, u) <= d
  <2>1. Behind(max, new, u) = First(new, u) + s * m
    BY DEF Behind
  <2> HIDE DEF s, m
  <2>2. QED
    BY <1>4, <1>5, <2>1, <1>2
<1>7. ASSUME NEW t \in 1..n
      PROVE  /\ First(new, t) = First(off, t) /\ First(off, t) \in Int
             /\ Behind(max, new, t) = Behind(max, off, t) /\ Behind(max, off, t) \in Int
  <2>1. new[t] = off[t]
    BY <1>1
  <2>2. Size[t] \in Nat /\ max[t] \in Nat /\ off[t] \in Nat
    BY <1>1, SizeAssumption
  <2>3. QED
    BY <2>1, <2>2 DEF First, Behind
<1>8. b <= d
  <2> HIDE DEF s, m
  <2>1. QED
    BY <1>5, <1>2
<1>9. \A t \in 1..u : max[t] > 0 => HeaderSize <= First(new, t) /\ Behind(max, new, t) <= d
  <2> SUFFICES ASSUME NEW t \in 1..u, max[t] > 0 PROVE HeaderSize <= First(new, t) /\ Behind(max, new, t) <= d
    OBVIOUS
  <2>1. CASE t = u
    BY <2>1, <1>4, <1>6, TablesAssumption
  <2>2. CASE t # u
    <3>1. t \in 1..n
      BY <2>2
    <3>2. max[t] > 0 => HeaderSize <= First(off, t) /\ Behind(max, off, t) <= b
      BY <3>1 DEF Apart
    <3>3. First(new, t) = First(off, t) /\ Behind(max, new, t) = Behind(max, off, t)
      BY <3>1, <1>7
    <3>4. Behind(max, off, t) \in Int
      BY <3>1, <1>7
    <3>5. QED
      BY <3>2, <3>3, <3>4, <1>8
  <2>3. QED
    BY <2>1, <2>2
<1>10. \A t, v \in 1..u : t < v /\ max[t] > 0 /\ max[v] > 0 => Behind(max, new, t) <= First(new, v)
  <2> SUFFICES ASSUME NEW t \in 1..u, NEW v \in 1..u, t < v, max[t] > 0, max[v] > 0
               PROVE  Behind(max, new, t) <= First(new, v)
    OBVIOUS
  <2>1. t \in 1..n
    OBVIOUS
  <2>2. CASE v = u
    <3>1. Behind(max, off, t) <= b
      BY <2>1 DEF Apart
    <3>2. Behind(max, new, t) = Behind(max, off, t) /\ Behind(max, off, t) \in Int
      BY <2>1, <1>7
    <3>3. b < First(new, v) /\ First(new, v) \in Int
      BY <2>2, <1>4
    <3>4. QED
      BY <3>1, <3>2, <3>3
  <2>3. CASE v # u
    <3>1. v \in 1..n
      BY <2>3
    <3>2. Behind(max, off, t) <= First(off, v)
      BY <2>1, <3>1 DEF Apart
    <3>3. QED
      BY <2>1, <3>1, <3>2, <1>7
  <2>4. QED
    BY <2>2, <2>3
<1>11. QED
  BY <1>9, <1>10 DEF Apart

\* A header of zeros has no entries.
LEMMA BlankApart == \A b : Apart(Zeros, Zeros, Tables, b)
<1>1. \A t \in 1..Tables : Zeros[t] = 0
  BY DEF Zeros, Table
<1>2. QED
  BY <1>1 DEF Apart

\* Nothing is placed, mapped or written when the system starts.
LEMMA MemoryInitial == Init => MemoryInv
<1> SUFFICES ASSUME Init PROVE MemoryInv
  OBVIOUS
<1>1. Blank \in Headers /\ Zeros \in [Table -> Nat] /\ AnyConfig \in Configs
  BY ConfigsAssumption DEF Blank, Headers, Zeros, AnyConfig
<1>2. MemoryTypes
  BY <1>1, TablesAssumption, SegmentsAssumption DEF Init, MemoryTypes, NoSegment, States
<1>3. \A s \in Segment : Described(s)
  <2>1. Blank["config"] = Zeros /\ Blank["layout"] = Zeros
    BY DEF Blank, Part
  <2>2. QED
    BY <2>1, BlankApart DEF Init, Described
<1>4. \A p \in Procs : pc[p] = "off"
  BY DEF Init
<1>5. \A p, q \in Procs : Placed(p) /\ AsFarAs(p) /\ Meet(p, q)
  BY <1>4 DEF Init, Placed, AsFarAs, Meet, Inside
<1>6. named < created
  BY <1>2 DEF Init, NoSegment, MemoryTypes
<1>7. QED
  BY <1>2, <1>3, <1>5, <1>6 DEF MemoryInv

\* What process p does leaves every other process where it is.
OthersKept(p) ==
  \A q \in Procs \ {p} :
    /\ pc'[q] = pc[q] /\ mapped'[q] = mapped[q] /\ todo'[q] = todo[q]
    /\ config'[q] = config[q] /\ at'[q] = at[q] /\ offset'[q] = offset[q] /\ size'[q] = size[q]

\* A process that is not, or no longer, in InitMemoryData does nothing to the headers; when
\* it dies there with half a header, the segment is torn.
LEMMA OutsideKeeps ==
  ASSUME MemoryInv, NEW p \in Procs, MemoryTypes', OthersKept(p),
         pc'[p] \notin {"clear", "write"}, Placed(p)', named' < created',
         UNCHANGED <<created, bytes, header>>,
         \A q \in Procs \ {p} : q \in crossed' <=> q \in crossed,
         torn \subseteq torn', HalfDone(p) => mapped[p] \in torn'
  PROVE  MemoryInv'
<1>1. ASSUME NEW q \in Procs PROVE Placed(q)' /\ AsFarAs(q)'
  <2>1. CASE q = p
    BY <2>1 DEF AsFarAs
  <2>2. CASE q # p
    <3>1. Placed(q) /\ AsFarAs(q)
      BY DEF MemoryInv
    <3>2. QED
      BY <2>2, <3>1 DEF OthersKept, Placed, AsFarAs, Own, Apart, First, Behind
  <2>3. QED
    BY <2>1, <2>2
<1>2. \A s : Inside(s)' \subseteq Inside(s) \ {p} /\ Inside(s) \ {p} \subseteq Inside(s)'
  BY DEF Inside, OthersKept
<1>3. ASSUME NEW q \in Procs, NEW r \in Procs PROVE Meet(q, r)'
  <2>1. CASE q = p
    BY <1>2, <2>1 DEF Meet
  <2>2. CASE q # p
    <3>1. Meet(q, r)
      BY DEF MemoryInv
    <3>2. QED
      BY <1>2, <2>2, <3>1 DEF Meet, OthersKept
  <2>3. QED
    BY <2>1, <2>2
<1>4. ASSUME NEW s \in Segment PROVE Described(s)'
  <2>1. Described(s)
    BY DEF MemoryInv
  <2>2. ASSUME NEW q \in Inside(s), HalfDone(q)
        PROVE  s \in torn' \/ (q \in Inside(s)' /\ HalfDone(q)')
    <3>1. CASE q = p
      BY <2>2, <3>1 DEF Inside
    <3>2. CASE q # p
      BY <1>2, <2>2, <3>2 DEF Inside, HalfDone, OthersKept
    <3>3. QED
      BY <3>1, <3>2
  <2>3. QED
    BY <2>1, <2>2 DEF Described, Apart, First, Behind
<1>5. QED
  BY <1>1, <1>3, <1>4 DEF MemoryInv

\* A process that has got segment s to initialise, with others or alone.
LEMMA EnterKeeps ==
  ASSUME MemoryInv, NEW p \in Procs, NEW s \in Segment, MemoryTypes', OthersKept(p),
         Enter(p, s), pc[p] = "place", s < created', named' < created', created <= created',
         \A r \in Segment : r < created => bytes'[r] = bytes[r],
         Apart(Max[config[p]], offset[p], Tables, bytes'[s]), UNCHANGED <<config, offset>>
  PROVE  MemoryInv'
<1>1. /\ pc'[p] = "clear" /\ mapped'[p] = s /\ todo'[p] = Part /\ header' = header
      /\ crossed \subseteq crossed' /\ torn \subseteq torn'
      /\ crossed' \subseteq crossed \cup {p} \cup Inside(s)
      /\ Inside(s) # {} => p \in crossed' /\ Inside(s) \subseteq crossed' /\ s \in torn'
      /\ Inside(s) = {} => crossed' = crossed
  BY DEF Enter, Goto, MemoryInv, MemoryTypes
<1>2. Inside(s)' = Inside(s) \cup {p} /\ \A r : r # s => Inside(r)' = Inside(r)
  <2>1. \A r : p \notin Inside(r)
    BY DEF Inside
  <2>2. QED
    BY <1>1, <2>1 DEF Inside, OthersKept
<1>3. created \in Nat /\ created' \in Nat /\ s \in Nat
  BY SegmentsAssumption DEF MemoryInv, MemoryTypes, Segment
<1>4. ASSUME NEW q \in Procs PROVE Placed(q)'
  <2>1. CASE q = p
    BY <1>1, <1>3, <2>1 DEF Placed, Part, Apart, First, Behind
  <2>2. CASE q # p
    <3>1. Placed(q)
      BY DEF MemoryInv
    <3>2. pc[q] \in {"clear", "write", "ready"} => bytes'[mapped[q]] = bytes[mapped[q]]
      BY <1>3, <3>1, SegmentsAssumption DEF Placed, MemoryInv, MemoryTypes, Segment
    <3>3. pc[q] \in {"off", "place"} => q \notin Inside(s)
      BY DEF Inside
    <3>4. pc'[q] \in {"off", "place"} => q \notin crossed'
      BY <1>1, <2>2, <3>1, <3>3 DEF OthersKept, Placed
    <3>5. QED
      BY <1>3, <2>2, <3>1, <3>2, <3>4 DEF OthersKept, Placed, Apart, First, Behind
  <2>3. QED
    BY <2>1, <2>2
<1>5. ASSUME NEW q \in Procs PROVE AsFarAs(q)'
  <2>1. CASE q = p
    BY <1>1, <2>1 DEF AsFarAs
  <2>2. CASE q # p
    <3>1. AsFarAs(q)
      BY DEF MemoryInv
    <3>2. QED
      BY <1>1, <2>2, <3>1 DEF OthersKept, AsFarAs, Own
  <2>3. QED
    BY <2>1, <2>2
<1>6. ASSUME NEW q \in Procs, NEW r \in Procs PROVE Meet(q, r)'
  <2>1. CASE mapped'[q] = s /\ q \in Inside(s)'
    <3>1. CASE Inside(s) = {}
      <4>1. q = p /\ Inside(s)' = {p}
        BY <1>2, <2>1, <3>1
      <4>2. p \notin crossed'
        <5>1. p \notin crossed
          BY DEF MemoryInv, Placed
        <5>2. QED
          BY <1>1, <3>1, <5>1
      <4>3. QED
        BY <4>1, <4>2, <2>1 DEF Meet
    <3>2. CASE Inside(s) # {}
      BY <1>1, <1>2, <2>1, <3>2 DEF Meet
    <3>3. QED
      BY <3>1, <3>2
  <2>2. CASE ~(mapped'[q] = s /\ q \in Inside(s)')
    <3>1. Meet(q, r)
      BY DEF MemoryInv
    <3>2. CASE q \in Inside(mapped[q])'
      <4>1. q # p /\ mapped'[q] = mapped[q] /\ mapped[q] # s
        BY <1>1, <2>2, <3>2 DEF OthersKept
      <4>2. q \notin Inside(s) /\ Inside(mapped[q])' = Inside(mapped[q])
        BY <1>2, <4>1 DEF Inside
      <4>3. q \in crossed' <=> q \in crossed
        BY <1>1, <4>1, <4>2
      <4>4. QED
        BY <1>1, <3>1, <4>1, <4>2, <4>3 DEF Meet
    <3>3. QED
      BY <3>2 DEF Meet
  <2>3. QED
    BY <2>1, <2>2
<1>7. ASSUME NEW r \in Segment PROVE Described(r)'
  <2>1. Described(r)
    BY DEF MemoryInv
  <2>2. r \in Nat
    BY SegmentsAssumption DEF Segment
  <2>3. CASE r >= created
    <3>1. header'[r] = Blank
      BY <1>1, <2>1, <2>3 DEF Described
    <3>2. Blank["config"] = Zeros /\ Blank["layout"] = Zeros
      BY DEF Blank, Part
    <3>3. QED
      BY <3>1, <3>2, BlankApart DEF Described, Apart, First, Behind
  <2>4. CASE r < created
    <3>1. bytes'[r] = bytes[r] /\ header'[r] = header[r] /\ ~(r >= created')
      BY <1>1, <1>3, <2>2, <2>4
    <3>2. ASSUME NEW q \in Inside(r), HalfDone(q) PROVE q \in Inside(r)' /\ HalfDone(q)'
      BY <1>2, <3>2 DEF Inside, HalfDone, OthersKept
    <3>3. QED
      BY <1>1, <2>1, <3>1, <3>2 DEF Described, Apart, First, Behind
  <2>5. QED
    BY <1>3, <2>2, <2>3, <2>4
<1>8. QED
  BY <1>4, <1>5, <1>6, <1>7 DEF MemoryInv

\* A process changes one part of the header of its segment, and goes on in InitMemoryData or
\* is done.
LEMMA PartKeeps ==
  ASSUME MemoryInv, NEW p \in Procs, NEW part \in Part, NEW what \in [Table -> Nat],
         MemoryTypes', OthersKept(p), pc[p] \in {"clear", "write"},
         header' = [header EXCEPT ![mapped[p]][part] = what],
         UNCHANGED <<config, offset, mapped, named, created, bytes, crossed>>,
         pc'[p] \in {"clear", "write", "ready"}, pc'[p] # "ready" => todo'[p] # {},
         p \in crossed => torn' = torn,
         torn \ {mapped[p]} \subseteq torn', torn' \subseteq torn,
         AsFarAs(p)',
         mapped[p] \in torn' \/ (pc'[p] # "ready" /\ todo'[p] # Part)
           \/ Apart(header[mapped[p]]["config"], header[mapped[p]]["layout"], Tables,
                    bytes[mapped[p]])'
  PROVE  MemoryInv'
<1> DEFINE s == mapped[p]
<1>1. s \in Segment /\ s < created /\ p \in Inside(s) /\ Placed(p)
  BY SegmentsAssumption DEF MemoryInv, MemoryTypes, Placed, Inside, NoSegment
<1>2. \A r \in Segment : r # s => header'[r] = header[r]
  BY DEF MemoryInv, MemoryTypes
<1>3. \A r : Inside(r)' \subseteq Inside(r) /\ Inside(r) \ {p} \subseteq Inside(r)'
  BY DEF Inside, OthersKept
<1>4. ASSUME NEW q \in Procs PROVE Placed(q)'
  <2>1. Placed(q)
    BY DEF MemoryInv
  <2>2. CASE q = p
    BY <1>1, <2>2 DEF Placed, Apart, First, Behind
  <2>3. CASE q # p
    BY <2>1, <2>3 DEF OthersKept, Placed, Apart, First, Behind
  <2>4. QED
    BY <2>2, <2>3
<1>5. ASSUME NEW q \in Procs PROVE AsFarAs(q)'
  <2>1. CASE q # p /\ pc[q] \in {"clear", "write"} /\ q \notin crossed
    <3>1. AsFarAs(q) /\ Meet(q, p) /\ Placed(q)
      BY DEF MemoryInv
    <3>2. mapped[q] # s
      BY <1>1, <2>1, <3>1 DEF Meet, Inside
    <3>3. header'[mapped[q]] = header[mapped[q]]
      BY <1>2, <2>1, <3>1, <3>2, SegmentsAssumption
      DEF Placed, MemoryInv, MemoryTypes, Segment, NoSegment
    <3>4. QED
      BY <2>1, <3>1, <3>3 DEF OthersKept, AsFarAs, Own
  <2>2. CASE q # p /\ ~(pc[q] \in {"clear", "write"} /\ q \notin crossed)
    BY <2>2 DEF OthersKept, AsFarAs
  <2>3. QED
    BY <2>1, <2>2
<1>6. ASSUME NEW q \in Procs, NEW r \in Procs PROVE Meet(q, r)'
  <2>1. Meet(q, r) /\ Meet(q, p) /\ Meet(p, q)
    BY DEF MemoryInv
  <2>2. CASE q \in crossed /\ q \in Inside(mapped[q]) /\ mapped[q] = s
    <3>1. p \in crossed
      BY <1>1, <2>1, <2>2 DEF Meet
    <3>2. QED
      BY <1>3, <2>1, <2>2, <3>1 DEF Meet
  <2>3. CASE ~(q \in crossed /\ q \in Inside(mapped[q]) /\ mapped[q] = s)
    BY <1>3, <2>1, <2>3 DEF Meet
  <2>4. QED
    BY <2>2, <2>3
<1>7. ASSUME NEW r \in Segment PROVE Described(r)'
  <2>1. Described(r)
    BY DEF MemoryInv
  <2>2. CASE r = s
    <3>1. ~(r >= created)
      <4>1. s \in Int /\ created \in Int
        BY <1>1 DEF MemoryInv, MemoryTypes, Segment
      <4>2. QED
        BY <1>1, <2>2, <4>1
    <3>2. CASE pc'[p] # "ready" /\ todo'[p] # Part
      <4>1. p \in Inside(s)' /\ HalfDone(p)'
        BY <3>2 DEF Inside, HalfDone
      <4>2. QED
        BY <2>2, <3>1, <4>1 DEF Described
    <3>3. CASE ~(pc'[p] # "ready" /\ todo'[p] # Part)
      BY <2>2, <3>1, <3>3 DEF Described
    <3>4. QED
      BY <3>2, <3>3
  <2>3. CASE r # s
    <3>1. ASSUME NEW q \in Inside(r), HalfDone(q) PROVE q \in Inside(r)' /\ HalfDone(q)'
      <4>1. q # p
        BY <2>3 DEF Inside
      <4>2. QED
        BY <3>1, <4>1 DEF Inside, HalfDone, OthersKept
    <3>2. r \in torn => r \in torn'
      BY <2>3
    <3>3. QED
      BY <1>2, <2>1, <2>3, <3>1, <3>2 DEF Described, Apart, First, Behind
  <2>4. QED
    BY <2>2, <2>3
<1>8. named' < created'
  BY DEF MemoryInv
<1>9. QED
  BY <1>4, <1>5, <1>6, <1>7, <1>8 DEF MemoryInv

\* The tables of a process that has placed all of them are apart.
LEMMA AllPlaced ==
  ASSUME MemoryInv, NEW p \in Procs, Evaluated(p)
  PROVE  Apart(Max[config[p]], offset[p], Tables, size[p]) /\ pc[p] = "place"
<1>1. pc[p] = "place" /\ at[p] > Tables
  BY DEF Evaluated
<1>2. at[p] \in 1..(Tables + 1)
  BY DEF MemoryInv, MemoryTypes
<1>3. at[p] - 1 = Tables
  BY <1>1, <1>2, TablesAssumption
<1>4. Apart(Max[config[p]], offset[p], at[p] - 1, size[p])
  BY <1>1 DEF MemoryInv, Placed
<1>5. QED
  BY <1>1, <1>3, <1>4

\* Placing a table.
LEMMA PlaceKeeps ==
  ASSUME MemoryInv, NEW p \in Procs, PlaceTable(p)
  PROVE  MemoryInv'
<1> USE TablesAssumption, SegmentsAssumption
<1> DEFINE t == at[p]
           new == [offset[p] EXCEPT ![t] = (size[p] \div Size[t]) + 1]
           d == size[p] + Size[t] * (Max[config[p]][t] + 1)
           max == Max[config[p]]
<1>1. t \in Table /\ pc[p] = "place" /\ size[p] \in Nat /\ config[p] \in Configs
      /\ offset[p] \in [Table -> Nat]
  BY DEF PlaceTable, MemoryInv, MemoryTypes, Table
<1>2. Size[t] \in Nat \ {0} /\ max[t] \in Nat /\ max \in [Table -> Nat]
  BY <1>1, SizeAssumption, MaxAssumption
<1>3. (size[p] \div Size[t]) + 1 \in Nat
  <2> HIDE DEF t
  <2>1. QED
    BY <1>1, <1>2, ElementBehind
<1>4. d \in Nat /\ size[p] <= d /\ new \in [Table -> Nat]
  <2>1. Size[t] * (max[t] + 1) \in Nat
    BY <1>2
  <2>2. QED
    BY <1>1, <1>3, <2>1
<1>5. pc' = pc /\ at' = [at EXCEPT ![p] = t + 1] /\ size' = [size EXCEPT ![p] = d]
      /\ offset' = [offset EXCEPT ![p] = new]
      /\ UNCHANGED <<config, mapped, named, created, bytes, header, todo, crossed, torn>>
  BY <1>1 DEF PlaceTable, segments, writing, MemoryInv, MemoryTypes
<1>6. MemoryTypes'
  <2> HIDE DEF d, new
  <2>1. t + 1 \in 1..(Tables + 1)
    BY <1>1 DEF Table
  <2>2. QED
    BY <1>4, <1>5, <2>1 DEF MemoryInv, MemoryTypes
<1>7. HeaderSize <= size[p] /\ Apart(max, offset[p], t - 1, size[p]) /\ p \notin crossed
  BY <1>1 DEF MemoryInv, Placed
<1>8. Apart(max, new, t, d)
  <2> DEFINE k == t - 1
  <2>1. k + 1 = t /\ k \in Nat /\ k < Tables /\ Apart(max, offset[p], k, size[p])
    BY <1>1, <1>7 DEF Table
  <2>2. new = [offset[p] EXCEPT ![k + 1] = (size[p] \div Size[k + 1]) + 1]
        /\ d = size[p] + Size[k + 1] * (max[k + 1] + 1)
    BY <2>1
  <2> HIDE DEF k, new, d, t, max
  <2>3. Apart(max, new, k + 1, d)
    BY <1>1, <1>2, <1>4, <1>7, <2>1, <2>2, ApartMore
  <2>4. QED
    BY <2>1, <2>3
<1>9. Placed(p)'
  <2> HIDE DEF d, new
  <2>1. pc'[p] = "place" /\ at'[p] - 1 = t /\ size'[p] = d /\ offset'[p] = new
        /\ config'[p] = config[p] /\ crossed' = crossed
    BY <1>1, <1>5 DEF MemoryInv, MemoryTypes, Table
  <2>2. Apart(Max[config[p]], offset[p], at[p] - 1, size[p])'
    BY <1>8, <2>1 DEF Apart, First, Behind
  <2>3. HeaderSize <= size'[p]
    BY <1>1, <1>4, <1>7, <2>1
  <2>4. QED
    BY <1>7, <2>1, <2>2, <2>3 DEF Placed
<1> HIDE DEF d, new
<1>10. OthersKept(p)
  BY <1>5 DEF OthersKept, MemoryInv, MemoryTypes
<1>11. ~HalfDone(p)
  BY <1>1 DEF HalfDone
<1>12. named' < created'
  BY <1>5 DEF MemoryInv
<1>13. pc'[p] \notin {"clear", "write"}
  BY <1>1, <1>5
<1>14. QED
  BY <1>5, <1>6, <1>9, <1>10, <1>11, <1>12, <1>13, OutsideKeeps

\* Clearing a part of the header.
LEMMA ClearKeeps ==
  ASSUME MemoryInv, NEW p \in Procs, ClearPart(p)
  PROVE  MemoryInv'
<1>1. PICK part \in todo[p] :
        /\ header' = [header EXCEPT ![mapped[p]][part] = Zeros]
        /\ IF todo[p] = {part}
           THEN /\ Goto(p, "write")
                /\ todo' = [todo EXCEPT ![p] = Part]
                /\ torn' = IF p \in crossed THEN torn ELSE torn \ {mapped[p]}
           ELSE /\ todo' = [todo EXCEPT ![p] = @ \ {part}]
                /\ UNCHANGED <<pc, torn>>
  BY DEF ClearPart
<1>2. pc[p] = "clear" /\ UNCHANGED <<config, at, offset, size, mapped, named, created, bytes, crossed>>
  BY DEF ClearPart, local, segments
<1>3. part \in Part /\ Zeros \in [Table -> Nat] /\ mapped[p] \in Segment
  BY <1>1, <1>2, SegmentsAssumption
  DEF MemoryInv, MemoryTypes, Placed, Zeros, NoSegment, Segment
<1>4. MemoryTypes'
  <2>1. header' \in [Segment -> Headers]
    BY <1>1, <1>3 DEF MemoryInv, MemoryTypes, Headers
  <2>2. torn' \in SUBSET Segment
    BY <1>1 DEF MemoryInv, MemoryTypes
  <2>3. todo' \in [Procs -> SUBSET Part]
    BY <1>1 DEF MemoryInv, MemoryTypes
  <2>4. pc' \in [Procs -> States]
    BY <1>1 DEF Goto, MemoryInv, MemoryTypes, States
  <2>5. QED
    BY <1>2, <2>1, <2>2, <2>3, <2>4 DEF MemoryInv, MemoryTypes
<1>5. OthersKept(p)
  BY <1>1, <1>2 DEF OthersKept, Goto, MemoryInv, MemoryTypes
<1>6. header'[mapped[p]] = [header[mapped[p]] EXCEPT ![part] = Zeros]
      /\ header[mapped[p]] \in Headers
  BY <1>1, <1>3 DEF MemoryInv, MemoryTypes
<1>7. AsFarAs(p)
  BY DEF MemoryInv
<1>8. CASE todo[p] = {part}
  <2>1. pc'[p] = "write" /\ todo'[p] = Part
        /\ torn' = IF p \in crossed THEN torn ELSE torn \ {mapped[p]}
    BY <1>1, <1>8 DEF Goto, MemoryInv, MemoryTypes
  <2>2. AsFarAs(p)'
    BY <2>1 DEF AsFarAs
  <2>3. p \in crossed => mapped[p] \in torn'
    <3>1. Meet(p, p) /\ p \in Inside(mapped[p])
      BY <1>2 DEF MemoryInv, Inside
    <3>2. QED
      BY <2>1, <3>1 DEF Meet
  <2>4. p \notin crossed => header'[mapped[p]]["config"] = Zeros /\ header'[mapped[p]]["layout"] = Zeros
    BY <1>2, <1>6, <1>7, <1>8 DEF AsFarAs, Part, Headers
  <2>5. mapped[p] \in torn'
        \/ Apart(header[mapped[p]]["config"], header[mapped[p]]["layout"], Tables,
                 bytes[mapped[p]])'
    BY <1>2, <2>3, <2>4, BlankApart DEF Apart, First, Behind
  <2>6. todo'[p] # {}
    BY <2>1 DEF Part
  <2>7. /\ p \in crossed => torn' = torn
        /\ torn \ {mapped[p]} \subseteq torn' /\ torn' \subseteq torn
    BY <2>1
  <2>8. header' = [header EXCEPT ![mapped[p]][part] = Zeros]
    BY <1>1
  <2>9. pc'[p] \in {"clear", "write", "ready"} /\ (pc'[p] # "ready" => todo'[p] # {})
    BY <2>1, <2>6
  <2>10. QED
    BY <1>2, <1>3, <1>4, <1>5, <2>2, <2>5, <2>7, <2>8, <2>9, PartKeeps
<1>9. CASE todo[p] # {part}
  <2>1. pc' = pc /\ torn' = torn /\ todo'[p] = todo[p] \ {part}
    BY <1>1, <1>9 DEF MemoryInv, MemoryTypes
  <2>2. todo'[p] # {} /\ todo'[p] # Part
    BY <1>1, <1>3, <1>9, <2>1
  <2>3. AsFarAs(p)'
    BY <1>2, <1>3, <1>6, <1>7, <2>1 DEF AsFarAs, Headers
  <2>4. QED
    BY <1>1, <1>2, <1>3, <1>4, <1>5, <2>1, <2>2, <2>3, PartKeeps
<1>10. QED
  BY <1>8, <1>9

\* Copying a part of the header.
LEMMA WriteKeeps ==
  ASSUME MemoryInv, NEW p \in Procs, WritePart(p)
  PROVE  MemoryInv'
<1>1. PICK part \in todo[p] :
        /\ header' = [header EXCEPT ![mapped[p]][part] = Own(p, part)]
        /\ IF todo[p] = {part} THEN Goto(p, "ready") ELSE UNCHANGED pc
        /\ todo' = [todo EXCEPT ![p] = @ \ {part}]
  BY DEF WritePart, Own
<1>2. pc[p] = "write"
      /\ UNCHANGED <<config, at, offset, size, mapped, named, created, bytes, crossed, torn>>
  BY DEF WritePart, local, segments
<1>3. part \in Part /\ mapped[p] \in Segment /\ Own(p, part) \in [Table -> Nat]
  <2>1. Max[config[p]] \in [Table -> Nat] /\ offset[p] \in [Table -> Nat]
    BY MaxAssumption DEF MemoryInv, MemoryTypes
  <2>2. QED
    BY <1>1, <1>2, <2>1, SegmentsAssumption
    DEF Own, MemoryInv, MemoryTypes, Placed, NoSegment, Segment
<1>4. MemoryTypes'
  <2>1. header' \in [Segment -> Headers]
    BY <1>1, <1>3 DEF MemoryInv, MemoryTypes, Headers
  <2>2. todo' \in [Procs -> SUBSET Part]
    BY <1>1 DEF MemoryInv, MemoryTypes
  <2>3. pc' \in [Procs -> States]
    BY <1>1 DEF Goto, MemoryInv, MemoryTypes, States
  <2>4. QED
    BY <1>2, <2>1, <2>2, <2>3 DEF MemoryInv, MemoryTypes
<1>5. OthersKept(p)
  BY <1>1, <1>2 DEF OthersKept, Goto, MemoryInv, MemoryTypes
<1>6. header'[mapped[p]] = [header[mapped[p]] EXCEPT ![part] = Own(p, part)]
      /\ header[mapped[p]] \in Headers
  BY <1>1, <1>3 DEF MemoryInv, MemoryTypes
<1>7. AsFarAs(p) /\ Placed(p) /\ Meet(p, p)
  BY DEF MemoryInv
<1>8. todo'[p] = todo[p] \ {part}
  BY <1>1 DEF MemoryInv, MemoryTypes
<1>9. p \notin crossed => \A q \in Part \ todo'[p] : header'[mapped[p]][q] = Own(p, q)
  BY <1>2, <1>3, <1>6, <1>7, <1>8 DEF AsFarAs, Headers
<1>10. CASE todo[p] = {part}
  <2>1. pc'[p] = "ready" /\ todo'[p] = {}
    BY <1>1, <1>8, <1>10 DEF Goto, MemoryInv, MemoryTypes
  <2>2. AsFarAs(p)'
    BY <2>1 DEF AsFarAs
  <2>3. p \in crossed => mapped[p] \in torn'
    BY <1>2, <1>7 DEF Meet, Inside
  <2>4. p \notin crossed => /\ header'[mapped[p]]["config"] = Max[config[p]]
                           /\ header'[mapped[p]]["layout"] = offset[p]
    BY <1>9, <2>1 DEF Part, Own
  <2>5. Apart(Max[config[p]], offset[p], Tables, bytes[mapped[p]])
    BY <1>2, <1>7 DEF Placed
  <2>6. mapped[p] \in torn'
        \/ Apart(header[mapped[p]]["config"], header[mapped[p]]["layout"], Tables,
                 bytes[mapped[p]])'
    BY <1>2, <2>3, <2>4, <2>5 DEF Apart, First, Behind
  <2>7. QED
    BY <1>1, <1>2, <1>3, <1>4, <1>5, <2>1, <2>2, <2>6, PartKeeps
<1>11. CASE todo[p] # {part}
  <2>1. pc' = pc /\ todo'[p] # {} /\ todo'[p] # Part
    BY <1>1, <1>3, <1>8, <1>11
  <2>2. AsFarAs(p)'
    BY <1>2, <1>9, <2>1 DEF AsFarAs, Own
  <2>3. QED
    BY <1>1, <1>2, <1>3, <1>4, <1>5, <2>1, <2>2, PartKeeps
<1>12. QED
  BY <1>10, <1>11

\* The steps that leave every header alone and end outside InitMemoryData.
LEMMA OutsideSteps ==
  ASSUME MemoryInv, NEW p \in Procs,
         \/ \E c \in Configs : Start(p, c)
         \/ StartBare(p) \/ BuildFails(p) \/ Attach(p) \/ AttachFails(p) \/ Exit(p)
  PROVE  MemoryInv'
<1> USE TablesAssumption, SegmentsAssumption
<1>1. AnyConfig \in Configs /\ Zeros \in [Table -> Nat]
  BY ConfigsAssumption DEF AnyConfig, Zeros
<1>2. /\ pc' \in [Procs -> States] /\ pc'[p] \in {"off", "place", "attach", "ready", "failed", "crashed"}
      /\ \A q \in Procs \ {p} : pc'[q] = pc[q]
      /\ UNCHANGED <<named, created, bytes, header>>
  BY DEF Start, StartBare, BuildFails, Attach, AttachFails, Exit, Goto, MemoryInv, MemoryTypes,
         States, segments, writing
<1>3. ASSUME NEW c \in Configs, Start(p, c) PROVE MemoryInv'
  <2>1. /\ pc[p] = "off" /\ pc'[p] = "place" /\ at' = [at EXCEPT ![p] = 1]
        /\ size' = [size EXCEPT ![p] = HeaderSize] /\ config' = [config EXCEPT ![p] = c]
        /\ UNCHANGED <<offset, mapped, todo, crossed, torn>>
    BY <1>3 DEF Start, Goto, writing, MemoryInv, MemoryTypes
  <2>2. MemoryTypes' /\ OthersKept(p) /\ named' < created' /\ ~HalfDone(p)
    BY <1>2, <2>1 DEF MemoryInv, MemoryTypes, OthersKept, HalfDone
  <2>3. Placed(p)'
    <3>1. at'[p] = 1 /\ size'[p] = HeaderSize
      BY <2>1 DEF MemoryInv, MemoryTypes
    <3>2. Apart(Max[config[p]], offset[p], at[p] - 1, size[p])'
      BY <3>1 DEF Apart
    <3>3. p \notin crossed'
      BY <2>1 DEF MemoryInv, Placed
    <3>4. QED
      BY <2>1, <3>1, <3>2, <3>3 DEF Placed
  <2>4. QED
    BY <1>2, <2>1, <2>2, <2>3, OutsideKeeps
<1>4. ASSUME StartBare(p) \/ BuildFails(p) \/ AttachFails(p) PROVE MemoryInv'
  <2>1. pc[p] \notin {"clear", "write"} /\ pc'[p] \in {"attach", "failed", "crashed"}
        /\ UNCHANGED <<config, at, offset, size, mapped, todo, crossed, torn>>
    BY <1>4 DEF StartBare, BuildFails, AttachFails, Evaluated, Goto, local, writing, MemoryInv, MemoryTypes
  <2>2. MemoryTypes' /\ OthersKept(p) /\ named' < created' /\ ~HalfDone(p) /\ Placed(p)'
    BY <1>2, <2>1 DEF MemoryInv, MemoryTypes, OthersKept, HalfDone, Placed
  <2>3. QED
    BY <1>2, <2>1, <2>2, OutsideKeeps
<1>5. ASSUME Attach(p) PROVE MemoryInv'
  <2>1. pc[p] = "attach" /\ pc'[p] = "ready" /\ mapped' = [mapped EXCEPT ![p] = named]
        /\ named # NoSegment /\ UNCHANGED <<config, at, offset, size, todo, crossed, torn>>
    BY <1>5 DEF Attach, Goto, local, writing, MemoryInv, MemoryTypes
  <2>2. MemoryTypes' /\ OthersKept(p) /\ named' < created' /\ ~HalfDone(p)
    BY <1>2, <2>1 DEF MemoryInv, MemoryTypes, OthersKept, HalfDone
  <2>3. mapped'[p] \in 0..(created' - 1)
    BY <1>2, <2>1 DEF MemoryInv, MemoryTypes, NoSegment, Segment
  <2>4. Placed(p)'
    BY <2>1, <2>3 DEF Placed
  <2>5. QED
    BY <1>2, <2>1, <2>2, <2>4, OutsideKeeps
<1>6. ASSUME Exit(p) PROVE MemoryInv'
  <2>1. /\ pc'[p] = "off" /\ config' = [config EXCEPT ![p] = AnyConfig] /\ at' = [at EXCEPT ![p] = 1]
        /\ offset' = [offset EXCEPT ![p] = Zeros] /\ size' = [size EXCEPT ![p] = 0]
        /\ mapped' = [mapped EXCEPT ![p] = NoSegment] /\ todo' = [todo EXCEPT ![p] = {}]
        /\ crossed' = crossed \ {p}
        /\ torn' = IF HalfDone(p) THEN torn \cup {mapped[p]} ELSE torn
    BY <1>6 DEF Exit, Goto, MemoryInv, MemoryTypes
  <2>2. HalfDone(p) => mapped[p] \in Segment
    BY DEF HalfDone, MemoryInv, MemoryTypes, Placed, NoSegment, Segment
  <2>3. OthersKept(p) /\ named' < created' /\ Placed(p)'
    BY <1>2, <2>1 DEF MemoryInv, MemoryTypes, OthersKept, Placed
  <2>4. torn' \in SUBSET Segment /\ torn \subseteq torn' /\ (HalfDone(p) => mapped[p] \in torn')
    BY <2>1, <2>2 DEF MemoryInv, MemoryTypes
  <2>5. MemoryTypes'
    BY <1>1, <1>2, <2>1, <2>4 DEF MemoryInv, MemoryTypes
  <2>6. \A q \in Procs \ {p} : q \in crossed' <=> q \in crossed
    BY <2>1
  <2>7. pc'[p] \notin {"clear", "write"}
    BY <2>1
  <2> HIDE DEF HalfDone
  <2>8. QED
    BY <1>2, <2>3, <2>4, <2>5, <2>6, <2>7, OutsideKeeps
<1>7. QED
  BY <1>3, <1>4, <1>5, <1>6

\* Getting a segment to initialise.
LEMMA BuildKeeps ==
  ASSUME MemoryInv, NEW p \in Procs, Create(p) \/ Find(p)
  PROVE  MemoryInv'
<1> USE SegmentsAssumption
<1>1. Apart(Max[config[p]], offset[p], Tables, size[p]) /\ pc[p] = "place"
  BY AllPlaced DEF Create, Find
<1>2. ASSUME NEW s \in Segment, Enter(p, s), UNCHANGED <<config, at, offset, size>>,
             named' \in Segment \cup {NoSegment}, created' \in 0..Segments, bytes' \in [Segment -> Nat]
      PROVE  MemoryTypes' /\ OthersKept(p)
  <2>1. /\ pc' = [pc EXCEPT ![p] = "clear"] /\ mapped' = [mapped EXCEPT ![p] = s]
        /\ todo' = [todo EXCEPT ![p] = Part] /\ header' = header
    BY <1>2 DEF Enter, Goto
  <2>2. crossed' \in SUBSET Procs /\ torn' \in SUBSET Segment
    BY <1>2 DEF Enter, Inside, MemoryInv, MemoryTypes
  <2>3. QED
    BY <1>2, <2>1, <2>2 DEF MemoryInv, MemoryTypes, States, OthersKept
<1>3. CASE Create(p)
  <2>1. /\ named' = created /\ created' = created + 1 /\ bytes' = [bytes EXCEPT ![created] = size[p]]
        /\ Enter(p, created) /\ created < Segments /\ UNCHANGED <<config, at, offset, size>>
    BY <1>3 DEF Create, local
  <2>2. created \in Segment /\ created \in Nat /\ size[p] \in Nat
    BY <2>1 DEF MemoryInv, MemoryTypes, Segment
  <2>3. bytes' \in [Segment -> Nat] /\ bytes'[created] = size[p]
        /\ \A r \in Segment : r < created => bytes'[r] = bytes[r]
    BY <2>1, <2>2 DEF MemoryInv, MemoryTypes, Segment
  <2>4. named' < created' /\ created <= created' /\ created < created' /\ created' \in 0..Segments
    BY <2>1, <2>2
  <2>5. QED
    BY <1>1, <1>2, <2>1, <2>2, <2>3, <2>4, EnterKeeps
<1>4. CASE Find(p)
  <2>1. /\ Enter(p, named) /\ named # NoSegment /\ bytes[named] >= size[p]
        /\ UNCHANGED <<config, at, offset, size, named, created, bytes>>
    BY <1>4 DEF Find, local, segments
  <2>2. named \in Segment /\ named < created /\ created \in Nat
    BY <2>1 DEF MemoryInv, MemoryTypes, NoSegment
  <2>3. Apart(Max[config[p]], offset[p], Tables, bytes'[named])
    <3>1. size[p] \in Nat /\ bytes[named] \in Nat /\ size[p] <= bytes[named]
      BY <2>1, <2>2 DEF MemoryInv, MemoryTypes
    <3>2. Max[config[p]] \in [Table -> Nat] /\ offset[p] \in [Table -> Nat]
      BY MaxAssumption DEF MemoryInv, MemoryTypes
    <3>3. Tables \in Nat
      BY TablesAssumption
    <3>4. QED
      BY <1>1, <2>1, <3>1, <3>2, <3>3, ApartLarger
  <2>4. MemoryTypes' /\ OthersKept(p)
    BY <1>2, <2>1, <2>2 DEF MemoryInv, MemoryTypes
  <2>5. \A r \in Segment : r < created => bytes'[r] = bytes[r]
    BY <2>1
  <2>6. named < created' /\ named' < created' /\ created <= created'
    BY <2>1, <2>2
  <2>7. QED
    BY <1>1, <2>1, <2>2, <2>3, <2>4, <2>5, <2>6, EnterKeeps
<1>5. QED
  BY <1>3, <1>4

\* Every step keeps what processes and headers say true of their segments.
LEMMA MemoryInductive == MemoryInv /\ [Next]_vars => MemoryInv'
<1> SUFFICES ASSUME MemoryInv, [Next]_vars PROVE MemoryInv'
  OBVIOUS
<1>1. CASE UNCHANGED vars
  BY <1>1 DEF vars, local, segments, writing, MemoryInv, MemoryTypes, Placed, AsFarAs, Own, Meet,
              Inside, HalfDone, Described, Apart, First, Behind
<1>2. ASSUME NEW p \in Procs, Step(p) PROVE MemoryInv'
  <2>1. CASE PlaceTable(p)
    BY <2>1, PlaceKeeps
  <2>2. CASE Create(p) \/ Find(p)
    BY <2>2, BuildKeeps
  <2>3. CASE ClearPart(p)
    BY <2>3, ClearKeeps
  <2>4. CASE WritePart(p)
    BY <2>4, WriteKeeps
  <2>5. CASE \/ \E c \in Configs : Start(p, c)
             \/ StartBare(p) \/ BuildFails(p) \/ Attach(p) \/ AttachFails(p) \/ Exit(p)
    BY <2>5, OutsideSteps
  <2>6. QED
    BY <1>2, <2>1, <2>2, <2>3, <2>4, <2>5 DEF Step
<1>3. CASE ReleaseShareMemory
  <2>1. named' = NoSegment
        /\ UNCHANGED <<pc, config, at, offset, size, mapped, created, bytes, header, todo, crossed, torn>>
    BY <1>3 DEF ReleaseShareMemory, local, writing
  <2>2. MemoryTypes' /\ named' < created'
    BY <2>1 DEF MemoryInv, MemoryTypes, NoSegment
  <2>3. QED
    BY <2>1, <2>2 DEF MemoryInv, Placed, AsFarAs, Own, Meet, Inside, HalfDone, Described, Apart,
                      First, Behind
<1>4. QED
  BY <1>1, <1>2, <1>3 DEF Next

\* Whatever tables, entry sizes, configurations, starts and deaths: the entries a header
\* gives a process to address are apart and inside its segment, also in the blank header
\* between bzero and memcpy and in what a process finds that died there; the header must
\* only not be half done, or be left so by a death or a meeting since it was last cleared.
THEOREM TablesStayApart == Spec => []TablesApart
<1>1. MemoryInv => TablesApart
  <2> SUFFICES ASSUME MemoryInv, NEW p \in Procs, pc[p] = "ready", mapped[p] \notin torn,
                      ~\E q \in Inside(mapped[p]) : HalfDone(q)
               PROVE  Apart(header[mapped[p]]["config"], header[mapped[p]]["layout"], Tables,
                            bytes[mapped[p]])
    BY DEF TablesApart
  <2>1. mapped[p] \in Segment
    BY SegmentsAssumption DEF MemoryInv, MemoryTypes, Placed, NoSegment
  <2>2. QED
    BY <2>1 DEF MemoryInv, Described
<1>2. QED
  BY MemoryInitial, MemoryInductive, <1>1, PTL DEF Spec
=============================================================================
